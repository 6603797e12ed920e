------------------------------ MODULE PostEdits ------------------------------
(***************************************************************************)
(* The content of one post: PATCH requests that change it and the worker   *)
(* that publishes it.  Status, leases and retries are Publication's        *)
(* subject; here a worker matters for what it has read and when.           *)
(*                                                                         *)
(* Grain.  One statement of PostgreSQL is one step.  A session keeps the   *)
(* object it has loaded (expire_on_commit=False): a second SELECT of the   *)
(* same row does not refresh it, and a flush updates only the columns      *)
(* whose value was changed since the load.                                 *)
(***************************************************************************)
EXTENDS FiniteSets

CONSTANTS
    Edits,        \* PATCH /posts/{id} requests
    Sets,         \* the fields an edit gives a value
    Clears,       \* the fields an edit sends null for
    Workers,      \* executions of publish_post
    ContentType   \* content_type of the post, which no request changes

\* "image" is generated_asset_id with generated_image_key, which are written together.
Field == {"text_prompt", "generated_text", "image_prompt", "image"}

\* A value is named by the request that wrote it.
Value == {"null", "created"} \cup Edits

ASSUME EditsAssumption ==
    /\ IsFiniteSet(Edits)
    /\ "null" \notin Edits /\ "created" \notin Edits
    /\ Sets \in [Edits -> SUBSET Field] /\ Clears \in [Edits -> SUBSET Field]
    /\ \A e \in Edits : Sets[e] \cap Clears[e] = {}

ASSUME ContentTypeAssumption == ContentType \in {"text", "image", "text_image"}

VARIABLES
    status,    \* post_queue.status
    content,   \* the columns of post_queue that hold the content
    edits,     \* where each PATCH request stands, and the content it was checked against
    workers    \* where each worker stands, and the content it has loaded

vars == <<status, content, edits, workers>>

-----------------------------------------------------------------------------
(* Types *)

Content == [Field -> Value]

Status == {"pending", "in_progress", "sent", "failed", "unknown"}

\* `after` is what this request could know: the edits accepted before it was checked.
Edit == [pc : {"begin", "write", "accepted", "refused"}, seen : Content, after : SUBSET Edits]

\* `after`, likewise, for the worker's read.
Worker == [pc : {"begin", "claim", "prepare", "publish", "published", "ended"},
           loaded : Content, after : SUBSET Edits]

-----------------------------------------------------------------------------
(* What a content must have *)

HasText(c) == c["text_prompt"] /= "null" \/ c["generated_text"] /= "null"

HasImage(c) == c["image_prompt"] /= "null" \/ c["image"] /= "null"

\* PostCreate.validate_prompts and update_post: a prompt is enough.
Acceptable(c) ==
    /\ ContentType /= "image" => HasText(c)
    /\ ContentType /= "text" => HasImage(c)

\* _content: a prompt is not.
Publishable(c) ==
    /\ ContentType /= "image" => c["generated_text"] /= "null"
    /\ ContentType /= "text" => c["image"] /= "null"

-----------------------------------------------------------------------------
(* Edits *)

\* An asset_id of null is dropped from the payload.
Changes(e) == Sets[e] \cup (Clears[e] \ {"image"})

\* Mutant: an empty text is written for null.
NewValueEmpty(e, f) == IF f \in Sets[e] THEN e ELSE ""

NewValue(e, f) == IF f \in Sets[e] THEN e ELSE "null"

Merged(e, c) == [f \in Field |-> IF f \in Changes(e) THEN NewValue(e, f) ELSE c[f]]

Accepted == {e \in Edits : edits[e].pc = "accepted"}

\* Mutant: the image side of the check is forgotten.
EditCheckText(e) ==
    /\ edits[e].pc = "begin"
    /\ edits' = [edits EXCEPT ![e] =
         [pc |-> IF status = "pending" /\ HasText(Merged(e, content)) THEN "write" ELSE "refused",
          seen |-> content, after |-> Accepted]]
    /\ UNCHANGED <<status, content, workers>>

\* _get_owned_post and the checks of update_post, all against the values of one SELECT;
\* the asset may not be the user's.
EditCheck(e) ==
    /\ edits[e].pc = "begin"
    /\ \E pc \in {"write", "refused"} :
         /\ pc = "write" => status = "pending" /\ Acceptable(Merged(e, content))
         /\ pc = "refused" =>
              \/ status /= "pending"
              \/ ~Acceptable(Merged(e, content))
              \/ "image" \in Sets[e]
         /\ edits' = [edits EXCEPT ![e] = [pc |-> pc, seen |-> content, after |-> Accepted]]
    /\ UNCHANGED <<status, content, workers>>

\* Mutant: the whole object is written back.
EditWriteAll(e) ==
    /\ edits[e].pc = "write"
    /\ content' = Merged(e, edits[e].seen)
    /\ edits' = [edits EXCEPT ![e].pc = "accepted"]
    /\ UNCHANGED <<status, workers>>

\* post_repo.update: the changed columns of the row, whatever its status is by now.
EditWrite(e) ==
    /\ edits[e].pc = "write"
    /\ content' = [f \in Field |->
         IF f \in Changes(e) /\ NewValue(e, f) /= edits[e].seen[f]
         THEN NewValue(e, f) ELSE content[f]]
    /\ edits' = [edits EXCEPT ![e].pc = "accepted"]
    /\ UNCHANGED <<status, workers>>

-----------------------------------------------------------------------------
(* Publication *)

Become(w, pc) == workers' = [workers EXCEPT ![w].pc = pc]

\* publish_post loads the row; only a pending post goes on.
Read(w) ==
    /\ workers[w].pc = "begin"
    /\ IF status = "pending"
         THEN workers' = [workers EXCEPT ![w] =
                [pc |-> "claim", loaded |-> content, after |-> Accepted]]
         ELSE Become(w, "ended")
    /\ UNCHANGED <<status, content, edits>>

\* claim_for_publish, whose second SELECT leaves the loaded object as it was.
Claim(w) ==
    /\ workers[w].pc = "claim"
    /\ IF status = "pending"
         THEN status' = "in_progress" /\ Become(w, "prepare")
         ELSE UNCHANGED status /\ Become(w, "ended")
    /\ UNCHANGED <<content, edits>>

\* Mutant: the image is read again after the claim, the text is not.
PrepareRereads(w) ==
    /\ workers[w].pc = "prepare"
    /\ IF Publishable(workers[w].loaded)
         THEN /\ workers' = [workers EXCEPT ![w].pc = "publish",
                                            ![w].loaded["image"] = content["image"]]
              /\ UNCHANGED status
         ELSE status' = "failed" /\ Become(w, "ended")
    /\ UNCHANGED <<content, edits>>

\* _content; the download of the image and the platform's configuration may fail.
Prepare(w) ==
    /\ workers[w].pc = "prepare"
    /\ \/ /\ Publishable(workers[w].loaded)
          /\ Become(w, "publish")
          /\ UNCHANGED status
       \/ status' = "failed" /\ Become(w, "ended")
    /\ UNCHANGED <<content, edits>>

\* The provider is given the content; its answer ends the attempt.
Publish(w) ==
    /\ workers[w].pc = "publish"
    /\ \/ status' \in {"sent", "unknown"} /\ Become(w, "published")
       \/ status' \in {"failed", "unknown"} /\ Become(w, "ended")
    /\ UNCHANGED <<content, edits>>

-----------------------------------------------------------------------------

\* A post is created with a content of its type.
Init ==
    /\ status = "pending"
    /\ content \in {c \in [Field -> {"null", "created"}] : Acceptable(c)}
    /\ edits = [e \in Edits |-> [pc |-> "begin", seen |-> content, after |-> {}]]
    /\ workers = [w \in Workers |-> [pc |-> "begin", loaded |-> content, after |-> {}]]

\* Requests and workers have ended.
Rest ==
    /\ \A e \in Edits : edits[e].pc \in {"accepted", "refused"}
    /\ \A w \in Workers : workers[w].pc \in {"published", "ended"}
    /\ UNCHANGED vars

Next ==
    \/ \E e \in Edits : EditCheck(e) \/ EditWrite(e)
    \/ \E w \in Workers : Read(w) \/ Claim(w) \/ Prepare(w) \/ Publish(w)
    \/ Rest

Spec == Init /\ [][Next]_vars

-----------------------------------------------------------------------------
(* Properties *)

\* The variables have their types.
TypeOK ==
    /\ status \in Status
    /\ content \in Content
    /\ edits \in [Edits -> Edit]
    /\ workers \in [Workers -> Worker]

\* c has, in the fields that edits of E change, the value one of those edits gave.
Reflects(c, E) ==
    \A e \in E : \A f \in Changes(e) :
        \E last \in E : f \in Changes(last) /\ c[f] = NewValue(last, f)

\* An accepted change (update_post answered 200) is lost only to another accepted change of
\* the same field: edits of different fields that overlap both survive.
EditsMerge == Reflects(content, Accepted)

\* A post is left without the content of its type only by two edits that overlapped, each
\* checked (post_service.py:131-147) before the other was written.
OnlyOverlapEmpties ==
    Acceptable(content) \/ \E e1, e2 \in Accepted :
        e1 /= e2 /\ e1 \notin edits[e2].after /\ e2 \notin edits[e1].after

\* What is published is one version of the post, text and image of the same moment, and holds
\* every edit accepted before the worker read it (publish_service.py:72-73).
PublishedIsOneVersion ==
    \A w \in Workers : workers[w].pc \in {"publish", "published"} =>
        /\ Reflects(workers[w].loaded, workers[w].after)
        /\ \A f \in Field : workers[w].loaded[f] \in Edits => workers[w].loaded[f] \in workers[w].after

=============================================================================
