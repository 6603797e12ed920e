----------------------------- MODULE Publication -----------------------------
(***************************************************************************)
(* The publication pipeline of CatRuler: the rows of post_queue, the       *)
(* Celery tasks that claim a pending row, call VK or Telegram and record   *)
(* the outcome, the beat that enqueues due posts, and the API requests     *)
(* that create, retry, trigger and delete posts or switch channels on and  *)
(* off while the tasks run.                                                *)
(*                                                                         *)
(* Grain.  PostgreSQL runs at READ COMMITTED.  A statement (or a statement *)
(* and the commit that follows it) is one step; whatever the code reads    *)
(* and then uses after an await is read in one step and used in a later    *)
(* one.                                                                    *)
(*                                                                         *)
(* Time.  A tick ages the running tasks and the leases.  An age counts     *)
(* from the task's `now`, so a lease of `now + Lease` has expired for a    *)
(* reader exactly when the row is more than Lease older than the reader.   *)
(***************************************************************************)
EXTENDS Integers, FiniteSets

CONSTANTS
    Posts,            \* the ids uuid4 hands out
    Channels,         \* connected VK and Telegram channels
    ChannelOf,        \* post_queue.channel_id
    Tasks,            \* slots for Celery messages; a finished slot is reused
    Creators,         \* slots for POST /posts requests
    Retriers,         \* slots for POST /posts/{id}/retry requests
    Deleters,         \* slots for DELETE /posts/{id} requests
    NoPost,           \* "no post" in a slot
    NoTask,           \* publish_owner IS NULL
    SoftLimit,        \* soft_time_limit, in ticks
    HardLimit,        \* time_limit, in ticks
    Lease,            \* PUBLISH_LEASE, in ticks
    MaxRetries,       \* max_retries of the task
    MaxAttempts,      \* bound: no retry request once a post had this many attempts
    MaxFaults,        \* bound: worker crashes and database errors in a behaviour
    AmbiguousErrors   \* an HTTP error status may answer a request that is applied

Requests == Creators \cup Retriers \cup Deleters

ASSUME PostsAssumption ==
    /\ NoPost \notin Posts
    /\ NoTask \notin Tasks
    /\ ChannelOf \in [Posts -> Channels]

\* A worker process is dead before the lease it took can expire: 120 s, 150 s, 5 min.
ASSUME LimitsAssumption ==
    /\ SoftLimit \in Nat /\ HardLimit \in Nat /\ Lease \in Nat
    /\ SoftLimit <= HardLimit
    /\ HardLimit < Lease

ASSUME BoundsAssumption ==
    /\ MaxRetries \in Nat /\ MaxAttempts \in Nat /\ MaxFaults \in Nat
    /\ AmbiguousErrors \in BOOLEAN

ASSUME RequestsAssumption ==
    /\ Creators \cap Retriers = {}
    /\ Creators \cap Deleters = {}
    /\ Retriers \cap Deleters = {}

VARIABLES
    rows,        \* post_queue, by id
    active,      \* channels.is_active
    disabling,   \* channels whose row a disabling request holds FOR UPDATE
    tasks,       \* the publish_post messages and executions
    requests,    \* post of a request between its status check and its write
    inflight,    \* attempts sent to the provider, not yet applied or rejected
    delivered,   \* attempts the provider has applied
    faults,      \* crashes and database errors so far
    mishaps      \* history, for the properties: see Cause

vars == <<rows, active, disabling, tasks, requests, inflight, delivered, faults, mishaps>>

-----------------------------------------------------------------------------
(* Types *)

\* "absent" and "deleted" are ids with no row, before and after its life.
Status == {"absent", "pending", "in_progress", "sent", "failed", "unknown", "deleted"}

\* An age past this one is kept at this one: every comparison comes out the same.
AgeCap == Lease + HardLimit + 1

Row == [status : Status, attempt : Nat, owner : Tasks \cup {NoTask},
        age : 0..AgeCap, due : BOOLEAN]

\* Where a message or its execution stands; the names are those of the calls.
TaskPC == {"idle", "queued", "read", "recover", "fail_pending", "claim", "reload",
           "prepare", "publish", "await", "conclude", "finalize", "marking"}

Task == [pc : TaskPC, post : Posts \cup {NoPost}, attempt : Nat, age : 0..HardLimit,
         retries : 0..MaxRetries, result : {"none", "sent", "failed", "unknown"}]

IdleTask == [pc |-> "idle", post |-> NoPost, attempt |-> 0, age |-> 0,
             retries |-> 0, result |-> "none"]

Running(t) == tasks[t].pc \notin {"idle", "queued"}

\* What the pipeline has no protection against.  No step reads these records; the
\* properties say that whatever goes wrong with a post, one of them came first:
\* "overlap": a retry of the post is checked while another is between check and write;
\* "false_error": an error status answers a request of the post that is not rejected.
Cause == {"overlap", "false_error"}

Excused(p) == \E c \in Cause : <<p, c>> \in mishaps

Sent == inflight \cup delivered

-----------------------------------------------------------------------------
(* Steps of a task, seen from its slot *)

Goto(t, pc) == tasks' = [tasks EXCEPT ![t].pc = pc]

Outcome(t, pc, result) ==
    tasks' = [tasks EXCEPT ![t] = [@ EXCEPT !.pc = pc, !.result = result]]

End(t) == tasks' = [tasks EXCEPT ![t] = IdleTask]

Enqueued(p, n) == [IdleTask EXCEPT !.pc = "queued", !.post = p, !.retries = n]

\* self.retry with retries left: the same message again.
Requeue(t) ==
    /\ tasks[t].retries < MaxRetries
    /\ tasks' = [tasks EXCEPT ![t] = Enqueued(@.post, @.retries + 1)]

Exhausted(t) == tasks[t].retries = MaxRetries

\* `except Exception`: retry.  Celery re-raises the given exception once the retries
\* are used up, in which case the row is not marked; raising MaxRetriesExceededError
\* instead would mark it.
Exception(t) ==
    \/ Requeue(t)
    \/ Exhausted(t) /\ (Goto(t, "marking") \/ End(t))

SetStatus(p, s) == rows' = [rows EXCEPT ![p] = [@ EXCEPT !.status = s, !.age = 0]]

-----------------------------------------------------------------------------
(* Creation, the beat, and the requests that act on posts *)

\* create_post: the channel is read as active ...
CreateCheck(r, p) ==
    /\ requests[r] = NoPost
    /\ rows[p].status = "absent"
    /\ \A q \in Creators : requests[q] /= p
    /\ active[ChannelOf[p]]
    /\ requests' = [requests EXCEPT ![r] = p]
    /\ UNCHANGED <<rows, active, disabling, tasks, inflight, delivered, faults, mishaps>>

\* ... and the row inserted later, maybe in the past (`due`).  The foreign key makes
\* the INSERT wait for a request that holds the channel row FOR UPDATE.
CreateInsert(r) ==
    LET p == requests[r] IN
    /\ p /= NoPost
    /\ ChannelOf[p] \notin disabling
    /\ \E d \in BOOLEAN :
         rows' = [rows EXCEPT ![p] = [@ EXCEPT !.status = "pending", !.due = d]]
    /\ requests' = [requests EXCEPT ![r] = NoPost]
    /\ UNCHANGED <<active, disabling, tasks, inflight, delivered, faults, mishaps>>

\* scheduled_at is reached.
ComesDue(p) ==
    /\ ~rows[p].due
    /\ rows[p].status = "pending"
    /\ rows' = [rows EXCEPT ![p].due = TRUE]
    /\ UNCHANGED <<active, disabling, tasks, requests, inflight, delivered, faults, mishaps>>

Enqueue(p) ==
    \E t \in Tasks :
      /\ tasks[t].pc = "idle"
      /\ tasks' = [tasks EXCEPT ![t] = Enqueued(p, 0)]

\* Mutant: the beat passes over posts that already had an attempt.
DispatchFirstAttempt(p) ==
    /\ rows[p].status = "pending"
    /\ rows[p].due
    /\ rows[p].attempt = 0
    /\ active[ChannelOf[p]]
    /\ Enqueue(p)
    /\ UNCHANGED <<rows, active, disabling, requests, inflight, delivered, faults, mishaps>>

\* The beat enqueues every due pending post of an active channel, every minute,
\* whether or not an earlier message for it still waits.
Dispatch(p) ==
    /\ rows[p].status = "pending"
    /\ rows[p].due
    /\ active[ChannelOf[p]]
    /\ Enqueue(p)
    /\ UNCHANGED <<rows, active, disabling, requests, inflight, delivered, faults, mishaps>>

\* POST /posts/{id}/publish enqueues whatever the status and the schedule.
Trigger(p) ==
    /\ rows[p].status \notin {"absent", "deleted"}
    /\ Enqueue(p)
    /\ UNCHANGED <<rows, active, disabling, requests, inflight, delivered, faults, mishaps>>

\* Mutant: anything that is not sent may be retried.
RetryCheckUnsent(r, p) ==
    /\ requests[r] = NoPost
    /\ rows[p].status \in {"failed", "unknown", "in_progress"}
    /\ rows[p].attempt < MaxAttempts
    /\ requests' = [requests EXCEPT ![r] = p]
    /\ UNCHANGED <<rows, active, disabling, tasks, inflight, delivered, faults, mishaps>>

\* retry_post: the status is checked ...
RetryCheck(r, p) ==
    /\ requests[r] = NoPost
    /\ rows[p].status = "failed"
    /\ rows[p].attempt < MaxAttempts
    /\ requests' = [requests EXCEPT ![r] = p]
    /\ mishaps' = mishaps \cup IF p \in {requests[q] : q \in Retriers}
                             THEN {<<p, "overlap">>} ELSE {}
    /\ UNCHANGED <<rows, active, disabling, tasks, inflight, delivered, faults>>

\* ... and the UPDATE has no status predicate; a row deleted meanwhile is an error.
RetryWrite(r) ==
    LET p == requests[r] IN
    /\ p /= NoPost
    /\ IF rows[p].status = "deleted" THEN UNCHANGED rows
       ELSE rows' = [rows EXCEPT ![p].status = "pending"]
    /\ requests' = [requests EXCEPT ![r] = NoPost]
    /\ UNCHANGED <<active, disabling, tasks, inflight, delivered, faults, mishaps>>

\* delete_post: the same shape, for pending posts.
DeleteCheck(r, p) ==
    /\ requests[r] = NoPost
    /\ rows[p].status = "pending"
    /\ requests' = [requests EXCEPT ![r] = p]
    /\ UNCHANGED <<rows, active, disabling, tasks, inflight, delivered, faults, mishaps>>

DeleteWrite(r) ==
    LET p == requests[r] IN
    /\ p /= NoPost
    /\ SetStatus(p, "deleted")
    /\ requests' = [requests EXCEPT ![r] = NoPost]
    /\ UNCHANGED <<active, disabling, tasks, inflight, delivered, faults, mishaps>>

\* A request that dies or fails between its check and its write.
Abandon(r) ==
    /\ requests[r] /= NoPost
    /\ requests' = [requests EXCEPT ![r] = NoPost]
    /\ UNCHANGED <<rows, active, disabling, tasks, inflight, delivered, faults, mishaps>>

-----------------------------------------------------------------------------
(* Channels *)

\* update_channel and delete_channel lock the channel row, look for a publication in
\* progress ...
DisableCheck(c) ==
    /\ c \notin disabling
    /\ active[c]
    /\ \A p \in Posts : ChannelOf[p] = c => rows[p].status /= "in_progress"
    /\ disabling' = disabling \cup {c}
    /\ UNCHANGED <<rows, active, tasks, requests, inflight, delivered, faults, mishaps>>

\* ... and commit the switch.
DisableCommit(c) ==
    /\ c \in disabling
    /\ active' = [active EXCEPT ![c] = FALSE]
    /\ disabling' = disabling \ {c}
    /\ UNCHANGED <<rows, tasks, requests, inflight, delivered, faults, mishaps>>

\* The disabling request fails: its lock goes with its transaction.
DisableRollback(c) ==
    /\ c \in disabling
    /\ disabling' = disabling \ {c}
    /\ UNCHANGED <<rows, active, tasks, requests, inflight, delivered, faults, mishaps>>

Enable(c) ==
    /\ c \notin disabling
    /\ ~active[c]
    /\ active' = [active EXCEPT ![c] = TRUE]
    /\ UNCHANGED <<rows, disabling, tasks, requests, inflight, delivered, faults, mishaps>>

-----------------------------------------------------------------------------
(* The publish_post task *)

\* A worker takes (and acknowledges) the message; `now` is read.
Start(t) ==
    /\ tasks[t].pc = "queued"
    /\ Goto(t, "read")
    /\ UNCHANGED <<rows, active, disabling, requests, inflight, delivered, faults, mishaps>>

\* Mutant: the lease ends when it begins.
ExpiredAtOnce(t, p) == rows[p].age - tasks[t].age > 0

\* publish_lease_expires_at < now, for the `now` of task t.
Expired(t, p) == rows[p].age - tasks[t].age > Lease

\* Mutant: a post in progress is passed over, expired or not.
ReadSkipsInProgress(t) ==
    LET p == tasks[t].post
        s == rows[p].status
    IN
    /\ tasks[t].pc = "read"
    /\ \/ s = "deleted" /\ Exception(t)
       \/ s \in {"in_progress", "sent", "failed", "unknown"} /\ End(t)
       \/ s = "pending" /\ ~active[ChannelOf[p]] /\ Goto(t, "fail_pending")
       \/ s = "pending" /\ active[ChannelOf[p]] /\ Goto(t, "claim")
    /\ UNCHANGED <<rows, active, disabling, requests, inflight, delivered, faults, mishaps>>

\* get_by_id, and the early returns of publish_post.
Read(t) ==
    LET p == tasks[t].post
        s == rows[p].status
    IN
    /\ tasks[t].pc = "read"
    /\ \/ s = "deleted" /\ Exception(t)
       \/ s = "in_progress" /\ Expired(t, p) /\ Goto(t, "recover")
       \/ s = "in_progress" /\ ~Expired(t, p) /\ End(t)
       \/ s \in {"sent", "failed", "unknown"} /\ End(t)
       \/ s = "pending" /\ ~active[ChannelOf[p]] /\ Goto(t, "fail_pending")
       \/ s = "pending" /\ active[ChannelOf[p]] /\ Goto(t, "claim")
    /\ UNCHANGED <<rows, active, disabling, requests, inflight, delivered, faults, mishaps>>

\* recover_expired_attempt: the UPDATE repeats the check.
Recover(t) ==
    LET p == tasks[t].post IN
    /\ tasks[t].pc = "recover"
    /\ IF rows[p].status = "in_progress" /\ Expired(t, p)
       THEN SetStatus(p, "unknown")
       ELSE UNCHANGED rows
    /\ End(t)
    /\ UNCHANGED <<active, disabling, requests, inflight, delivered, faults, mishaps>>

\* Mutant: fail_pending without its status predicate.
FailPendingBlind(t) ==
    /\ tasks[t].pc = "fail_pending"
    /\ SetStatus(tasks[t].post, "failed")
    /\ End(t)
    /\ UNCHANGED <<active, disabling, requests, inflight, delivered, faults, mishaps>>

\* fail_pending.
FailPending(t) ==
    LET p == tasks[t].post IN
    /\ tasks[t].pc = "fail_pending"
    /\ IF rows[p].status = "pending" THEN SetStatus(p, "failed") ELSE UNCHANGED rows
    /\ End(t)
    /\ UNCHANGED <<active, disabling, requests, inflight, delivered, faults, mishaps>>

\* Mutant: the claim trusts the status read before.
ClaimBlind(t) ==
    LET p == tasks[t].post
        a == rows[p].attempt + 1
    IN
    /\ tasks[t].pc = "claim"
    /\ rows' = [rows EXCEPT ![p] = [@ EXCEPT !.status = "in_progress",
                     !.attempt = a, !.owner = t, !.age = tasks[t].age]]
    /\ tasks' = [tasks EXCEPT ![t] = [@ EXCEPT !.pc = "reload", !.attempt = a]]
    /\ UNCHANGED <<active, disabling, requests, inflight, delivered, faults, mishaps>>

\* claim_for_publish: one UPDATE that needs a pending row and an active channel.  It
\* reads the channel row and does not lock it.
Claim(t) ==
    LET p == tasks[t].post
        a == rows[p].attempt + 1
    IN
    /\ tasks[t].pc = "claim"
    /\ IF rows[p].status = "pending" /\ active[ChannelOf[p]]
       THEN /\ rows' = [rows EXCEPT ![p] = [@ EXCEPT !.status = "in_progress",
                            !.attempt = a, !.owner = t, !.age = tasks[t].age]]
            /\ tasks' = [tasks EXCEPT ![t] = [@ EXCEPT !.pc = "reload", !.attempt = a]]
       ELSE UNCHANGED rows /\ End(t)
    /\ UNCHANGED <<active, disabling, requests, inflight, delivered, faults, mishaps>>

\* The get_by_id after the claim's commit; the row may have been deleted.
Reload(t) ==
    /\ tasks[t].pc = "reload"
    /\ IF rows[tasks[t].post].status = "deleted" THEN End(t) ELSE Goto(t, "prepare")
    /\ UNCHANGED <<rows, active, disabling, requests, inflight, delivered, faults, mishaps>>

\* Content, storage download and publisher are ready, or one of them fails.
Prepare(t) ==
    /\ tasks[t].pc = "prepare"
    /\ Goto(t, "publish") \/ Outcome(t, "conclude", "failed")
    /\ UNCHANGED <<rows, active, disabling, requests, inflight, delivered, faults, mishaps>>

Attempt(t) == <<tasks[t].post, tasks[t].attempt>>

\* publisher.publish sends the post.
Publish(t) ==
    /\ tasks[t].pc = "publish"
    /\ inflight' = inflight \cup {Attempt(t)}
    /\ Goto(t, "await")
    /\ UNCHANGED <<rows, active, disabling, requests, delivered, faults, mishaps>>

\* Mutant: a request without an answer counts as failed.
AnswerTimeoutFails(t) ==
    /\ tasks[t].pc = "await"
    /\ \/ Attempt(t) \in delivered /\ Outcome(t, "finalize", "sent")
       \/ Outcome(t, "finalize", "failed")
       \/ Outcome(t, "conclude", "unknown")
    /\ UNCHANGED <<rows, active, disabling, requests, inflight, delivered, faults, mishaps>>

\* Mutant: a request without an answer counts as sent.
AnswerTimeoutSent(t) ==
    /\ tasks[t].pc = "await"
    /\ \/ Outcome(t, "finalize", "sent")
       \/ Attempt(t) \notin Sent /\ Outcome(t, "finalize", "failed")
    /\ UNCHANGED <<rows, active, disabling, requests, inflight, delivered, faults, mishaps>>

\* The answer, classified by the adapter: success; an error status or an error body
\* counts as a definite failure, also when a gateway gives it for a request the provider
\* has or will get; a transport error is an unknown outcome, and so is an exception out
\* of the adapter (recorded on the path that lets database errors out).
Answer(t) ==
    /\ tasks[t].pc = "await"
    /\ \/ /\ Attempt(t) \in delivered
          /\ Outcome(t, "finalize", "sent")
          /\ UNCHANGED mishaps
       \/ /\ Attempt(t) \notin Sent
          /\ Outcome(t, "finalize", "failed")
          /\ UNCHANGED mishaps
       \/ /\ AmbiguousErrors
          /\ Attempt(t) \in Sent
          /\ Outcome(t, "finalize", "failed")
          /\ mishaps' = mishaps \cup {<<tasks[t].post, "false_error">>}
       \/ /\ Outcome(t, "finalize", "unknown") \/ Outcome(t, "conclude", "unknown")
          /\ UNCHANGED mishaps
    /\ UNCHANGED <<rows, active, disabling, requests, inflight, delivered, faults>>

\* The row still belongs to the task and to its attempt.
Owns(t, p) ==
    /\ rows[p].status = "in_progress"
    /\ rows[p].owner = t
    /\ rows[p].attempt = tasks[t].attempt

\* finalize_publish, from each of its three calls.
Finalize(t) ==
    LET p == tasks[t].post IN
    /\ tasks[t].pc \in {"conclude", "finalize"}
    /\ IF Owns(t, p) THEN SetStatus(p, tasks[t].result) ELSE UNCHANGED rows
    /\ End(t)
    /\ UNCHANGED <<active, disabling, requests, inflight, delivered, faults, mishaps>>

\* SoftTimeLimitExceeded reaches the task's handler.
SoftTimeLimit(t) ==
    /\ Running(t)
    /\ tasks[t].pc /= "marking"
    /\ tasks[t].age >= SoftLimit
    /\ Goto(t, "marking")
    /\ UNCHANGED <<rows, active, disabling, requests, inflight, delivered, faults, mishaps>>

\* _mark_status, then the retry (or the exception that ends the task).  mark_unknown
\* asks for in_progress only: not for the task's own attempt.
MarkStatus(t) ==
    LET p == tasks[t].post IN
    /\ tasks[t].pc = "marking"
    /\ IF rows[p].status = "in_progress" THEN SetStatus(p, "unknown") ELSE UNCHANGED rows
    /\ Requeue(t) \/ (Exhausted(t) /\ End(t))
    /\ UNCHANGED <<active, disabling, requests, inflight, delivered, faults, mishaps>>

-----------------------------------------------------------------------------
(* Faults, the provider and time *)

Fault == faults < MaxFaults /\ faults' = faults + 1

\* A database error inside the task.  The result's own finalize swallows it and leaves
\* the row as it is; in the handler it ends the task; elsewhere it is retried.
DatabaseError(t) ==
    /\ Fault
    /\ \/ /\ tasks[t].pc \in {"read", "recover", "fail_pending", "claim", "reload", "conclude"}
          /\ Exception(t)
       \/ tasks[t].pc \in {"finalize", "marking"} /\ End(t)
    /\ UNCHANGED <<rows, active, disabling, requests, inflight, delivered, mishaps>>

\* The worker dies.  The message was acknowledged on receipt, so nothing redelivers it.
Crash(t) ==
    /\ Fault
    /\ Running(t)
    /\ End(t)
    /\ UNCHANGED <<rows, active, disabling, requests, inflight, delivered, mishaps>>

\* time_limit: the worker process is killed.
HardKill(t) ==
    /\ Running(t)
    /\ tasks[t].age = HardLimit
    /\ End(t)
    /\ UNCHANGED <<rows, active, disabling, requests, inflight, delivered, faults, mishaps>>

\* The provider applies or rejects a request whether or not its client still waits.
Apply(p) ==
    /\ \E a \in {x[2] : x \in {y \in inflight : y[1] = p}} :
         /\ inflight' = inflight \ {<<p, a>>}
         /\ delivered' = delivered \cup {<<p, a>>}
    /\ UNCHANGED <<rows, active, disabling, tasks, requests, faults, mishaps>>

Reject(p) ==
    /\ \E a \in {x[2] : x \in {y \in inflight : y[1] = p}} :
         inflight' = inflight \ {<<p, a>>}
    /\ UNCHANGED <<rows, active, disabling, tasks, requests, delivered, faults, mishaps>>

\* Mutant: time_limit is not enforced.
TickPastLimit ==
    /\ tasks' = [t \in Tasks |->
                   IF Running(t) THEN [tasks[t] EXCEPT !.age = @ + 1] ELSE tasks[t]]
    /\ rows' = [p \in Posts |->
                  IF rows[p].status = "in_progress" /\ rows[p].age < AgeCap
                  THEN [rows[p] EXCEPT !.age = @ + 1] ELSE rows[p]]
    /\ UNCHANGED <<active, disabling, requests, inflight, delivered, faults, mishaps>>

\* No task outlives its time limit, so time waits for the kill.
Tick ==
    /\ \A t \in Tasks : Running(t) => tasks[t].age < HardLimit
    /\ tasks' = [t \in Tasks |->
                   IF Running(t) THEN [tasks[t] EXCEPT !.age = @ + 1] ELSE tasks[t]]
    /\ rows' = [p \in Posts |->
                  IF rows[p].status = "in_progress" /\ rows[p].age < AgeCap
                  THEN [rows[p] EXCEPT !.age = @ + 1] ELSE rows[p]]
    /\ UNCHANGED <<active, disabling, requests, inflight, delivered, faults, mishaps>>

-----------------------------------------------------------------------------

Init ==
    /\ rows = [p \in Posts |-> [status |-> "absent", attempt |-> 0, owner |-> NoTask,
                                age |-> 0, due |-> FALSE]]
    /\ active = [c \in Channels |-> TRUE]
    /\ disabling = {}
    /\ tasks = [t \in Tasks |-> IdleTask]
    /\ requests = [r \in Requests |-> NoPost]
    /\ inflight = {}
    /\ delivered = {}
    /\ faults = 0
    /\ mishaps = {}

\* What a worker does with a message when nothing goes wrong outside the provider.
TaskStep(t) ==
    \/ Start(t) \/ Read(t) \/ Recover(t) \/ FailPending(t) \/ Claim(t) \/ Reload(t)
    \/ Prepare(t) \/ Publish(t) \/ Answer(t) \/ Finalize(t) \/ MarkStatus(t)

Next ==
    \/ \E r \in Creators : CreateInsert(r) \/ \E p \in Posts : CreateCheck(r, p)
    \/ \E r \in Retriers : RetryWrite(r) \/ \E p \in Posts : RetryCheck(r, p)
    \/ \E r \in Deleters : DeleteWrite(r) \/ \E p \in Posts : DeleteCheck(r, p)
    \/ \E r \in Requests : Abandon(r)
    \/ \E p \in Posts : ComesDue(p) \/ Dispatch(p) \/ Trigger(p) \/ Apply(p) \/ Reject(p)
    \/ \E c \in Channels : DisableCheck(c) \/ DisableCommit(c) \/ DisableRollback(c)
                             \/ Enable(c)
    \/ \E t \in Tasks : TaskStep(t) \/ SoftTimeLimit(t) \/ DatabaseError(t)
                          \/ Crash(t) \/ HardKill(t)
    \/ Tick

Spec == Init /\ [][Next]_vars

\* A worker keeps stepping through a task it has, its statements are not too slow for
\* the time limits every time, the beat keeps running and time passes.  Nothing is
\* assumed of the provider, and no user ever has to act.
Fairness ==
    /\ \A t \in Tasks :
         WF_vars(TaskStep(t)) /\ SF_vars(Read(t)) /\ SF_vars(Claim(t)) /\ SF_vars(Recover(t))
    /\ \A p \in Posts : WF_vars(Dispatch(p))
    /\ WF_vars(Tick)

FairSpec == Spec /\ Fairness

-----------------------------------------------------------------------------
(* Invariants *)

\* The state has its types.
TypeOK ==
    /\ rows \in [Posts -> Row]
    /\ active \in [Channels -> BOOLEAN]
    /\ disabling \subseteq Channels
    /\ tasks \in [Tasks -> Task]
    /\ \A t \in Tasks : tasks[t].pc /= "idle" => tasks[t].post \in Posts
    /\ \A t \in Tasks : tasks[t].pc \in {"conclude", "finalize"} => tasks[t].result /= "none"
    /\ requests \in [Requests -> Posts \cup {NoPost}]
    /\ inflight \subseteq Posts \X Nat
    /\ delivered \subseteq Posts \X Nat
    /\ faults \in 0..MaxFaults
    /\ mishaps \subseteq Posts \X Cause

\* A post reaches the provider in at most one attempt that the provider may still
\* apply or has applied: claims, fences, leases and the refusal to retry an unknown
\* outcome together keep a post from appearing twice on the wall, whatever tasks,
\* triggers, crashes and time limits do.  A second copy takes overlapping retries of the
\* post or an error status for a request the provider accepts.
AtMostOnce == \A x, y \in Sent : x[1] = y[1] => x = y \/ Excused(x[1])

\* `failed`, the one status a user may retry, is a definite failure: nothing of the
\* post is published and no request of it is on its way, unless an error status said so
\* of an accepted request or its retries overlapped.
FailedIsDefinite ==
    \A x \in Sent : rows[x[1]].status \in {"absent", "pending", "failed"} => Excused(x[1])

\* A task holds an attempt from its claim to its end.
Holds(t) == tasks[t].pc \in {"reload", "prepare", "publish", "await", "conclude", "finalize"}

Attempted(p) == rows[p].status \notin {"absent", "pending", "failed"}

\* What holds of the attempts the provider has seen, of the tasks that hold one and of
\* the requests under way, and makes AtMostOnce inductive.  Of every post that is not
\* excused: each attempt the provider has seen is the last one of its row,
SentIsLast ==
    \A x \in Sent : Excused(x[1]) \/ (Attempted(x[1]) /\ x[2] = rows[x[1]].attempt)

\* a task that holds an attempt holds the last one of its row, and holds it alone,
HolderIsLast ==
    \A t \in Tasks : Holds(t) =>
      \/ Excused(tasks[t].post)
      \/ /\ Attempted(tasks[t].post)
         /\ tasks[t].attempt = rows[tasks[t].post].attempt

OneHolder ==
    \A t, u \in Tasks : Holds(t) /\ Holds(u) /\ tasks[t].post = tasks[u].post
                          => t = u \/ Excused(tasks[t].post)

\* an attempt not sent yet, or definitely failed, is not with the provider,
Unsent(t) ==
    \/ tasks[t].pc \in {"reload", "prepare", "publish"}
    \/ tasks[t].pc \in {"conclude", "finalize"} /\ tasks[t].result = "failed"

UnsentIsUnsent ==
    \A t \in Tasks : Unsent(t) => Attempt(t) \notin Sent \/ Excused(tasks[t].post)

\* and a request's check still holds when it writes, or the row is gone, or (a retry)
\* another retry of the post overlaps with it.
ChecksHold ==
    /\ \A r \in Creators : requests[r] /= NoPost => rows[requests[r]].status = "absent"
    /\ \A q, r \in Creators : requests[q] = requests[r] /\ requests[r] /= NoPost => q = r
    /\ \A r \in Retriers : requests[r] /= NoPost =>
         \/ <<requests[r], "overlap">> \in mishaps
         \/ rows[requests[r]].status \in {"failed", "deleted"}
    /\ \A q, r \in Retriers : requests[q] = requests[r] /\ requests[r] /= NoPost =>
         q = r \/ <<requests[r], "overlap">> \in mishaps
    /\ \A r \in Retriers \cup Deleters :
         requests[r] /= NoPost => rows[requests[r]].status /= "absent"

PipelineInv ==
    /\ TypeOK
    /\ SentIsLast
    /\ HolderIsLast
    /\ OneHolder
    /\ UnsentIsUnsent
    /\ ChecksHold

\* `sent` is recorded only for the attempt the row names, and only if the provider
\* applied that attempt.
SentWasDelivered ==
    \A p \in Posts : rows[p].status = "sent" => <<p, rows[p].attempt>> \in delivered

\* The lease of a row outlives the worker that took it: while the owner works on
\* the attempt, no reader's `now` is past the lease, so recover_expired_attempt only
\* ever takes a row from a dead worker.
LeaseOutlivesOwner ==
    \A t, u \in Tasks :
      Holds(t) /\ Owns(t, tasks[t].post) /\ tasks[u].pc = "recover"
        => ~Expired(u, tasks[t].post)

-----------------------------------------------------------------------------
(* Action properties *)

\* Retry is for failed posts: a post that was claimed, sent, or whose outcome is
\* unknown never becomes pending again (post_service.py: "Retry allowed only for
\* failed posts").
RetryOnlyFailed ==
    [][\A p \in Posts : rows'[p].status = "pending" /\ rows[p].status /= "pending"
         => rows[p].status \in {"absent", "failed"}]_vars

\* The code keeps this much of it: a post comes back to pending from another status only
\* if two retries of it have overlapped.  No delete, create, task, expired lease or
\* single retry does it, nor an error status for an accepted request.
RevivedOnlyByOverlap ==
    [][\A p \in Posts :
         rows'[p].status = "pending" /\ rows[p].status \notin {"pending", "absent", "failed"}
           => <<p, "overlap">> \in mishaps]_vars

-----------------------------------------------------------------------------
(* Channels *)

\* No post is being published on a disabled channel (channel_service.py: "Channel
\* cannot be disabled while a publication is active").
DisabledIsQuiet ==
    \A p \in Posts : rows[p].status = "in_progress" => active[ChannelOf[p]]

-----------------------------------------------------------------------------
(* Liveness *)

Waiting(p) == rows[p].status = "pending" /\ rows[p].due /\ active[ChannelOf[p]]

\* A due post of an active channel does not wait forever, whatever tasks are lost,
\* killed or failed on the way: the beat enqueues it again.
PendingIsServed == \A p \in Posts : Waiting(p) ~> ~Waiting(p)

\* An attempt does not stay in progress forever: after a crash or an expired lease the
\* post becomes unknown (README.md).
AttemptResolves ==
    \A p \in Posts : rows[p].status = "in_progress" ~> rows[p].status /= "in_progress"

\* It does not if its owner keeps asking for the publication: a task that starts after
\* the lease has expired finds it and marks the post unknown.
TriggeredAttemptResolves == (\A p \in Posts : WF_vars(Trigger(p))) => AttemptResolves

-----------------------------------------------------------------------------
(* Refinement *)

Lifecycle == INSTANCE PostLifecycle WITH
    status <- [p \in Posts |-> rows[p].status],
    copies <- [p \in Posts |-> Cardinality({x \in delivered : x[1] = p})]

\* The pipeline implements the life of a post that PostLifecycle describes, until retries
\* of a post overlap or an error status answers an accepted request.
RefinesLifecycle ==
    /\ Lifecycle!Init
    /\ [][mishaps = {} => Lifecycle!Next]_(Lifecycle!vars)

=============================================================================
