--------------------------- MODULE PostEditsProofs ---------------------------
(***************************************************************************)
(* What the edits of a post promise, for every number of edits, of any     *)
(* fields, and every number of workers: see PostEdits.                     *)
(***************************************************************************)
EXTENDS PostEdits, TLAPS

-----------------------------------------------------------------------------
(* The invariant *)

\* One of the edits in E gave field f the value it has in c.
Given(c, E, f) == \E e \in E : f \in Changes(e) /\ c[f] = NewValue(e, f)

\* A value written by an edit is that of an edit in E.
WrittenBy(c, E) == \A f \in Field : c[f] \in Edits => c[f] \in E

\* What an edit that is about to write knows: its content was acceptable when it was checked,
\* and only edits accepted since can have changed what it saw.
Known(e) ==
    /\ Acceptable(Merged(e, edits[e].seen))
    /\ \A f \in Field : content[f] = edits[e].seen[f] \/ Given(content, Accepted, f)
    /\ edits[e].after = Accepted => content = edits[e].seen

EditsInv ==
    /\ TypeOK
    /\ EditsMerge
    /\ OnlyOverlapEmpties
    /\ WrittenBy(content, Accepted)
    /\ \A e \in Edits : edits[e].after \subseteq Accepted
    /\ \A e \in Edits : edits[e].pc = "write" => Known(e)
    /\ \A w \in Workers :
         /\ Reflects(workers[w].loaded, workers[w].after)
         /\ WrittenBy(workers[w].loaded, workers[w].after)

-----------------------------------------------------------------------------
(* Values *)

\* null is not an edit's value, so a field an edit has written is written by that edit.
LEMMA Values ==
  ASSUME NEW e \in Edits, NEW f \in Field
  PROVE  /\ NewValue(e, f) \in Value
         /\ NewValue(e, f) \in Edits => NewValue(e, f) = e
  BY EditsAssumption DEF NewValue, Value

\* The merge of an edit into a content is a content.
LEMMA MergedIsContent ==
  ASSUME NEW e \in Edits, NEW c \in Content
  PROVE  Merged(e, c) \in Content
  BY Values DEF Merged, Content

\* What edits gave stays given when there are more of them.
LEMMA GivenMore ==
  ASSUME NEW c, NEW E, NEW F, E \subseteq F, NEW f, Given(c, E, f)
  PROVE  Given(c, F, f)
  BY DEF Given

-----------------------------------------------------------------------------
(* Steps *)

\* An edit's check records the content, and accepts nothing.
LEMMA EditCheckStep ==
  ASSUME EditsInv, NEW e \in Edits, EditCheck(e)
  PROVE  EditsInv'
  <1>1. PICK pc \in {"write", "refused"} :
          /\ pc = "write" => Acceptable(Merged(e, content))
          /\ edits' = [edits EXCEPT ![e] = [pc |-> pc, seen |-> content, after |-> Accepted]]
    BY DEF EditCheck
  <1>2. /\ edits[e].pc = "begin" /\ UNCHANGED <<status, content, workers>>
        /\ edits \in [Edits -> Edit] /\ content \in Content
    BY DEF EditCheck, EditsInv, TypeOK
  <1>3. /\ edits' \in [Edits -> Edit]
        /\ edits'[e] = [pc |-> pc, seen |-> content, after |-> Accepted]
        /\ \A g \in Edits \ {e} : edits'[g] = edits[g]
    <2>1. [pc |-> pc, seen |-> content, after |-> Accepted] \in Edit
      BY <1>2 DEF Edit, Accepted
    <2> QED
      BY <1>1, <1>2, <2>1
  <1>4. Accepted' = Accepted
    BY <1>1, <1>2, <1>3 DEF Accepted
  <1>5. TypeOK'
    BY <1>2, <1>3 DEF EditsInv, TypeOK
  <1>6. EditsMerge' /\ WrittenBy(content, Accepted)'
    BY <1>2, <1>4 DEF EditsInv, EditsMerge, Reflects, WrittenBy
  <1>7. OnlyOverlapEmpties'
    <2>1. e \notin Accepted
      BY <1>2 DEF Accepted
    <2> QED
      BY <1>2, <1>3, <1>4, <2>1 DEF EditsInv, OnlyOverlapEmpties, Acceptable, HasText, HasImage, Accepted
  <1>8. \A g \in Edits : edits'[g].after \subseteq Accepted'
    BY <1>3, <1>4 DEF EditsInv
  <1>9. ASSUME NEW g \in Edits, edits'[g].pc = "write" PROVE Known(g)'
    <2>1. CASE g = e
      BY <1>1, <1>2, <1>3, <1>9, <2>1 DEF Known, Acceptable, HasText, HasImage, Merged
    <2>2. CASE g /= e
      BY <1>2, <1>3, <1>4, <1>9, <2>2 DEF EditsInv, Known, Given, Acceptable, HasText, HasImage, Merged
    <2> QED
      BY <2>1, <2>2
  <1> QED
    BY <1>2, <1>5, <1>6, <1>7, <1>8, <1>9 DEF EditsInv, Reflects, WrittenBy

\* An edit's write adds it to those accepted.
LEMMA EditWriteStep ==
  ASSUME EditsInv, NEW e \in Edits, EditWrite(e)
  PROVE  EditsInv'
  <1>1. /\ edits[e].pc = "write" /\ UNCHANGED <<status, workers>>
        /\ edits' = [edits EXCEPT ![e].pc = "accepted"]
        /\ edits \in [Edits -> Edit] /\ content \in Content /\ edits[e].seen \in Content
        /\ Known(e)
    BY DEF EditWrite, EditsInv, TypeOK, Edit
  <1>2. /\ edits' \in [Edits -> Edit]
        /\ edits'[e].pc = "accepted"
        /\ \A g \in Edits \ {e} : edits'[g] = edits[g]
        /\ \A g \in Edits : edits'[g].seen = edits[g].seen /\ edits'[g].after = edits[g].after
    BY <1>1 DEF Edit
  <1>3. Accepted' = Accepted \cup {e} /\ e \notin Accepted
    BY <1>1, <1>2 DEF Accepted
  <1>4. content' = [f \in Field |->
          IF f \in Changes(e) /\ NewValue(e, f) /= edits[e].seen[f]
          THEN NewValue(e, f) ELSE content[f]]
    BY DEF EditWrite
  <1>5. content' \in Content
    BY <1>1, <1>4, Values DEF Content
  <1>6. TypeOK'
    BY <1>1, <1>2, <1>5 DEF EditsInv, TypeOK
  <1>7. \A f \in Field : content'[f] = content[f] \/ Given(content', Accepted', f)
    BY <1>3, <1>4 DEF Given
  <1>8. \A f \in Field : Given(content, Accepted, f) => Given(content', Accepted', f)
    BY <1>3, <1>7 DEF Given
  <1>9. \A f \in Changes(e) : f \in Field /\ Given(content', Accepted', f)
    <2>1. ASSUME NEW f \in Changes(e) PROVE f \in Field /\ Given(content', Accepted', f)
      <3>1. f \in Field
        BY EditsAssumption DEF Changes
      <3>2. CASE NewValue(e, f) /= edits[e].seen[f]
        BY <1>3, <1>4, <3>1, <3>2 DEF Given
      <3>3. CASE NewValue(e, f) = edits[e].seen[f] /\ content[f] = edits[e].seen[f]
        BY <1>3, <1>4, <3>1, <3>3 DEF Given
      <3>4. CASE Given(content, Accepted, f)
        BY <1>8, <3>1, <3>4
      <3> QED
        BY <1>1, <3>1, <3>2, <3>3, <3>4 DEF Known
    <2> QED
      BY <2>1
  <1>10. EditsMerge'
    <2>1. ASSUME NEW g \in Accepted, NEW f \in Changes(g) PROVE f \in Field /\ Given(content, Accepted, f)
      BY EditsAssumption DEF EditsInv, EditsMerge, Reflects, Given, Accepted, Changes
    <2>2. \A g \in Accepted' : \A f \in Changes(g) : Given(content', Accepted', f)
      BY <1>3, <1>8, <1>9, <2>1
    <2> QED
      BY <2>2 DEF EditsMerge, Reflects, Given
  <1>11. WrittenBy(content, Accepted)'
    BY <1>3, <1>4, Values DEF EditsInv, WrittenBy
  <1>12. OnlyOverlapEmpties'
    <2>1. CASE edits[e].after = Accepted
      <3>1. content = edits[e].seen
        BY <1>1, <2>1 DEF Known
      <3>2. content' = Merged(e, edits[e].seen)
        BY <1>4, <3>1 DEF Merged
      <3> QED
        BY <1>1, <3>2 DEF OnlyOverlapEmpties, Known, Acceptable, HasText, HasImage
    <2>2. CASE edits[e].after /= Accepted
      <3>1. PICK g \in Accepted : g \notin edits[e].after
        BY <2>2 DEF EditsInv
      <3>2. g \in Edits /\ g /= e /\ e \notin edits[g].after
        BY <1>3, <3>1 DEF EditsInv, Accepted
      <3> QED
        BY <1>2, <1>3, <3>1, <3>2 DEF OnlyOverlapEmpties
    <2> QED
      BY <2>1, <2>2
  <1>13. \A g \in Edits : edits'[g].after \subseteq Accepted'
    BY <1>2, <1>3 DEF EditsInv
  <1>14. ASSUME NEW g \in Edits, edits'[g].pc = "write" PROVE Known(g)'
    <2>1. g /= e /\ edits'[g] = edits[g] /\ Known(g)
      BY <1>2, <1>14 DEF EditsInv
    <2>2. edits[g].after /= Accepted'
      BY <1>3 DEF EditsInv
    <2>3. \A f \in Field : content'[f] = edits[g].seen[f] \/ Given(content', Accepted', f)
      BY <1>7, <1>8, <2>1 DEF Known
    <2> QED
      BY <2>1, <2>2, <2>3 DEF Known, Given, Acceptable, HasText, HasImage, Merged
  <1> QED
    BY <1>1, <1>6, <1>10, <1>11, <1>12, <1>13, <1>14 DEF EditsInv, Reflects, WrittenBy

\* A worker's step changes no content, and no edit.
LEMMA WorkerStep ==
  ASSUME EditsInv, NEW w \in Workers, Read(w) \/ Claim(w) \/ Prepare(w) \/ Publish(w)
  PROVE  EditsInv'
  <1>1. UNCHANGED <<content, edits>> /\ status' \in Status
    BY DEF Read, Claim, Prepare, Publish, EditsInv, TypeOK, Status
  <1>2. Accepted' = Accepted
    BY <1>1 DEF Accepted
  <1>3. /\ content \in Content /\ workers \in [Workers -> Worker]
        /\ Accepted \subseteq Edits
    BY DEF EditsInv, TypeOK, Accepted
  <1>4. /\ workers' \in [Workers -> Worker]
        /\ \A v \in Workers : \/ /\ workers'[v].loaded = workers[v].loaded
                                 /\ workers'[v].after = workers[v].after
                              \/ /\ workers'[v].loaded = content
                                 /\ workers'[v].after = Accepted
    <2>1. CASE \E pc \in {"prepare", "publish", "published", "ended"} : Become(w, pc)
      BY <1>3, <2>1 DEF Become, Worker
    <2>2. CASE workers' = [workers EXCEPT ![w] =
                 [pc |-> "claim", loaded |-> content, after |-> Accepted]]
      <3>1. [pc |-> "claim", loaded |-> content, after |-> Accepted] \in Worker
        BY <1>3 DEF Worker
      <3> QED
        BY <1>3, <2>2, <3>1
    <2> QED
      BY <2>1, <2>2 DEF Read, Claim, Prepare, Publish
  <1>5. TypeOK' /\ EditsMerge' /\ WrittenBy(content, Accepted)'
    BY <1>1, <1>2, <1>4 DEF EditsInv, TypeOK, EditsMerge, Reflects, WrittenBy
  <1>6. OnlyOverlapEmpties'
    BY <1>1, <1>2 DEF EditsInv, OnlyOverlapEmpties, Acceptable, HasText, HasImage
  <1>7. \A v \in Workers : /\ Reflects(workers'[v].loaded, workers'[v].after)
                           /\ WrittenBy(workers'[v].loaded, workers'[v].after)
    BY <1>4 DEF EditsInv, EditsMerge
  <1>8. \A g \in Edits : /\ edits'[g].after \subseteq Accepted'
                         /\ edits'[g].pc = "write" => Known(g)'
    BY <1>1, <1>2 DEF EditsInv, Known, Given, Acceptable, HasText, HasImage, Merged
  <1> QED
    BY <1>5, <1>6, <1>7, <1>8 DEF EditsInv, Reflects, WrittenBy

\* The invariant holds initially,
LEMMA EditsInit == Init => EditsInv
  <1> SUFFICES ASSUME Init PROVE EditsInv
    OBVIOUS
  <1>1. content \in [Field -> {"null", "created"}] /\ Acceptable(content)
    BY DEF Init
  <1>2. Accepted = {}
    BY DEF Init, Accepted
  <1>3. content \in Content /\ WrittenBy(content, {})
    BY <1>1, EditsAssumption DEF Content, Value, WrittenBy
  <1>4. TypeOK
    BY <1>3 DEF Init, TypeOK, Status, Edit, Worker
  <1>5. \A w \in Workers : workers[w].loaded = content /\ workers[w].after = {}
    BY DEF Init
  <1>6. \A e \in Edits : edits[e].pc = "begin" /\ edits[e].after = {}
    BY DEF Init
  <1> QED
    BY <1>1, <1>2, <1>3, <1>4, <1>5, <1>6 DEF EditsInv, EditsMerge, OnlyOverlapEmpties, Reflects

\* and every step keeps it.
LEMMA EditsStep == EditsInv /\ [Next]_vars => EditsInv'
  <1> SUFFICES ASSUME EditsInv, [Next]_vars PROVE EditsInv'
    OBVIOUS
  <1>1. CASE UNCHANGED vars
    BY <1>1 DEF vars, EditsInv, TypeOK, EditsMerge, OnlyOverlapEmpties, WrittenBy, Reflects, Known,
                Given, Accepted, Acceptable, HasText, HasImage, Merged
  <1>2. ASSUME NEW e \in Edits, EditCheck(e) \/ EditWrite(e) PROVE EditsInv'
    BY <1>2, EditCheckStep, EditWriteStep
  <1>3. ASSUME NEW w \in Workers, Read(w) \/ Claim(w) \/ Prepare(w) \/ Publish(w) PROVE EditsInv'
    BY <1>3, WorkerStep
  <1> QED
    BY <1>1, <1>2, <1>3 DEF Next, Rest

\* The invariant of edits holds: two statements per request, and a flush of the changed columns.
THEOREM EditsCorrect == Spec => []EditsInv
  BY EditsInit, EditsStep, PTL DEF Spec

\* Every reachable state of the edits has its types.
THEOREM TypeCorrect == Spec => []TypeOK
  <1>1. EditsInv => TypeOK
    BY DEF EditsInv
  <1> QED
    BY <1>1, EditsCorrect, PTL

\* An accepted edit is lost only to another of the same field (post_repo.update).
THEOREM EditsSurvive == Spec => []EditsMerge
  <1>1. EditsInv => EditsMerge
    BY DEF EditsInv
  <1> QED
    BY <1>1, EditsCorrect, PTL

\* Edits that do not overlap never leave a post without its content (update_post's checks).
THEOREM OnlyOverlapsEmpty == Spec => []OnlyOverlapEmpties
  <1>1. EditsInv => OnlyOverlapEmpties
    BY DEF EditsInv
  <1> QED
    BY <1>1, EditsCorrect, PTL

\* A worker publishes one version of the post, the one it has read (publish_post).
THEOREM OneVersion == Spec => []PublishedIsOneVersion
  <1>1. EditsInv => PublishedIsOneVersion
    BY DEF EditsInv, PublishedIsOneVersion, WrittenBy
  <1> QED
    BY <1>1, EditsCorrect, PTL

=============================================================================
