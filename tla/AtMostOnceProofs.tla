--------------------------- MODULE AtMostOnceProofs ---------------------------
(***************************************************************************)
(* What the pipeline does to a post, for every number of posts, channels,  *)
(* tasks, triggers, crashes and requests, overlapping retries and error    *)
(* statuses for accepted requests included: a post of which no two retries *)
(* overlapped and whose requests got no such status is published at most   *)
(* once and is `failed` only if nothing of it is with the provider; and    *)
(* only an overlap of retries takes a post back to pending that did not    *)
(* fail.                                                                   *)
(***************************************************************************)
EXTENDS PublicationProofs

-----------------------------------------------------------------------------
(* What a step that neither claims, publishes nor concludes preserves *)

\* Task t holds an attempt after the step only if it held that attempt before, and
\* what it then takes for unsent is not with the provider.
Keeps(t) ==
    Holds(t)' =>
      /\ Holds(t)
      /\ tasks'[t].post = tasks[t].post
      /\ tasks'[t].attempt = tasks[t].attempt
      /\ Unsent(t)' => Attempt(t) \notin Sent \/ Excused(tasks[t].post)'

\* A row that is the subject of an attempt stays so, unless its post is excused, with the
\* same number.
RowsKeep ==
    \A p \in Posts : /\ Attempted(p) => Attempted(p)' \/ Excused(p)'
                     /\ rows'[p].attempt = rows[p].attempt

\* No check of a request under way is undone.
ChecksKept ==
    /\ requests' = requests
    /\ \A p \in Posts :
         /\ rows[p].status = "absent" <=> rows'[p].status = "absent"
         /\ rows[p].status \in {"failed", "deleted"} => rows'[p].status \in {"failed", "deleted"}

\* Task t lets go of what it held, and the other tasks do not move.
Leaves(t) ==
    /\ ~Holds(t)'
    /\ \A u \in Tasks : u /= t => tasks'[u] = tasks[u]

\* Every attempt the provider has seen is of a post.
LEMMA SentTypes ==
  ASSUME TypeOK, NEW x \in Sent
  PROVE  /\ x \in Posts \X Nat
         /\ x[1] \in Posts
         /\ x = <<x[1], x[2]>>
  BY DEF TypeOK, Sent

\* A task with an unsent attempt holds it.
LEMMA UnsentHolds == \A t \in Tasks : Unsent(t) => Holds(t)
  BY DEF Unsent, Holds

\* What was recorded of a post stays recorded.
LEMMA ExcusedStays ==
  ASSUME mishaps \subseteq mishaps', NEW p, Excused(p)
  PROVE  Excused(p)'
  BY DEF Excused

\* An overlap excuses a post.
LEMMA OverlapExcuses ==
  ASSUME NEW p, <<p, "overlap">> \in mishaps
  PROVE  Excused(p)
  BY DEF Excused, Cause

\* The checks of the requests under way (ChecksHold) survive a step that undoes none.
LEMMA ChecksKeptOK ==
  ASSUME PipelineInv, ChecksKept, mishaps \subseteq mishaps'
  PROVE  ChecksHold'
  <1>1. \A r \in Requests : requests[r] \in Posts \cup {NoPost}
    BY DEF PipelineInv, TypeOK
  <1>2. ChecksHold
    BY DEF PipelineInv
  <1>3. \A r \in Creators : requests'[r] /= NoPost => rows'[requests'[r]].status = "absent"
    BY <1>1, <1>2 DEF ChecksHold, ChecksKept, Requests
  <1>4. \A q, r \in Creators : requests'[q] = requests'[r] /\ requests'[r] /= NoPost => q = r
    BY <1>2 DEF ChecksHold, ChecksKept
  <1>5. \A r \in Retriers : requests'[r] /= NoPost =>
          \/ <<requests'[r], "overlap">> \in mishaps'
          \/ rows'[requests'[r]].status \in {"failed", "deleted"}
    BY <1>1, <1>2 DEF ChecksHold, ChecksKept, Requests
  <1>6. \A q, r \in Retriers : requests'[q] = requests'[r] /\ requests'[r] /= NoPost =>
          q = r \/ <<requests'[r], "overlap">> \in mishaps'
    BY <1>2 DEF ChecksHold, ChecksKept
  <1>7. \A r \in Retriers \cup Deleters :
          requests'[r] /= NoPost => rows'[requests'[r]].status /= "absent"
    BY <1>1, <1>2 DEF ChecksHold, ChecksKept, Requests
  <1> QED
    BY <1>3, <1>4, <1>5, <1>6, <1>7 DEF ChecksHold

\* A step that sends nothing, keeps the attempted rows and lets no task gain an attempt
\* keeps the invariant.
LEMMA Quiet ==
  ASSUME PipelineInv, TypeOK', ChecksHold', Sent' \subseteq Sent, RowsKeep,
         mishaps \subseteq mishaps', \A t \in Tasks : Keeps(t)
  PROVE  PipelineInv'
  <1>1. TypeOK
    BY DEF PipelineInv
  <1>2. SentIsLast'
    <2> SUFFICES ASSUME NEW x \in Sent', ~Excused(x[1])'
                 PROVE  Attempted(x[1])' /\ x[2] = rows'[x[1]].attempt
      BY DEF SentIsLast
    <2>1. x \in Sent /\ x[1] \in Posts /\ ~Excused(x[1])
      BY <1>1, SentTypes, ExcusedStays
    <2> QED
      BY <2>1 DEF PipelineInv, SentIsLast, RowsKeep
  <1>3. HolderIsLast'
    <2> SUFFICES ASSUME NEW t \in Tasks, Holds(t)', ~Excused(tasks[t].post)'
                 PROVE  /\ Attempted(tasks[t].post)'
                        /\ tasks'[t].attempt = rows'[tasks'[t].post].attempt
      BY DEF HolderIsLast
    <2>1. /\ Holds(t)
          /\ tasks'[t].post = tasks[t].post
          /\ tasks'[t].attempt = tasks[t].attempt
      BY DEF Keeps
    <2>2. PICK p \in Posts : p = tasks[t].post
      BY <1>1, <2>1 DEF TypeOK, Holds
    <2>3. ~Excused(p)'
      BY <2>1, <2>2 DEF Excused
    <2>4. Attempted(p) /\ tasks[t].attempt = rows[p].attempt
      BY <2>1, <2>2, <2>3, ExcusedStays DEF PipelineInv, HolderIsLast
    <2>5. Attempted(p)' /\ rows'[p].attempt = rows[p].attempt
      BY <2>3, <2>4 DEF RowsKeep
    <2> QED
      BY <2>1, <2>2, <2>4, <2>5 DEF Attempted
  <1>4. OneHolder'
    <2> SUFFICES ASSUME NEW t \in Tasks, NEW u \in Tasks, Holds(t)', Holds(u)',
                        tasks'[t].post = tasks'[u].post, t /= u
                 PROVE  Excused(tasks[t].post)'
      BY DEF OneHolder
    <2>1. /\ Holds(t) /\ Holds(u)
          /\ tasks'[t].post = tasks[t].post /\ tasks'[u].post = tasks[u].post
      BY DEF Keeps
    <2>2. Excused(tasks[t].post)
      BY <2>1 DEF PipelineInv, OneHolder
    <2> QED
      BY <2>1, <2>2 DEF Excused
  <1>5. UnsentIsUnsent'
    <2> SUFFICES ASSUME NEW t \in Tasks, Unsent(t)', ~Excused(tasks[t].post)'
                 PROVE  Attempt(t)' \notin Sent'
      BY DEF UnsentIsUnsent
    <2>1. Holds(t)'
      BY DEF Unsent, Holds
    <2>2. Attempt(t)' = Attempt(t) /\ Attempt(t) \notin Sent
      BY <2>1 DEF Keeps, Attempt
    <2> QED
      BY <2>2
  <1> QED
    BY <1>2, <1>3, <1>4, <1>5 DEF PipelineInv

\* A slot that does not move keeps what it holds.
LEMMA StillKeeps ==
  ASSUME PipelineInv, mishaps \subseteq mishaps', NEW u \in Tasks, tasks'[u] = tasks[u]
  PROVE  Keeps(u)
  <1>1. Holds(u)' = Holds(u) /\ Unsent(u)' = Unsent(u)
    BY DEF Holds, Unsent
  <1>2. Excused(tasks[u].post) => Excused(tasks[u].post)'
    BY DEF Excused
  <1>3. UnsentIsUnsent
    BY DEF PipelineInv
  <1> QED
    BY <1>1, <1>2, <1>3 DEF Keeps, UnsentIsUnsent

\* A task that lets go keeps the rest.
LEMMA LeavesKeeps ==
  ASSUME PipelineInv, mishaps \subseteq mishaps', NEW t \in Tasks, Leaves(t)
  PROVE  \A u \in Tasks : Keeps(u)
  <1> SUFFICES ASSUME NEW u \in Tasks, u /= t PROVE Keeps(u)
    BY DEF Leaves, Keeps
  <1>1. tasks'[u] = tasks[u]
    BY DEF Leaves
  <1> QED
    BY <1>1, StillKeeps

\* So does a step that moves none.
LEMMA SameKeeps ==
  ASSUME PipelineInv, mishaps \subseteq mishaps', tasks' = tasks
  PROVE  \A u \in Tasks : Keeps(u)
  BY StillKeeps

\* A task that ends lets go of its attempt,
LEMMA EndLeaves ==
  ASSUME TypeOK, NEW t \in Tasks, End(t)
  PROVE  Leaves(t)
  <1>1. IdleTask.pc = "idle"
    BY DEF IdleTask
  <1> QED
    BY <1>1, EndSets DEF Leaves, Holds

\* so does one that goes where no attempt is held,
LEMMA GotoLeaves ==
  ASSUME TypeOK, NEW t \in Tasks, NEW pc \in TaskPC,
         pc \in {"read", "recover", "fail_pending", "claim", "marking"}, Goto(t, pc)
  PROVE  Leaves(t)
  <1>1. \A u \in Tasks : tasks'[u] = IF u = t THEN [tasks[t] EXCEPT !.pc = pc] ELSE tasks[u]
    BY GotoSets
  <1>2. tasks'[t].pc = pc
    BY <1>1, Types DEF Task
  <1> QED
    BY <1>1, <1>2 DEF Leaves, Holds

\* one that is queued again,
LEMMA RequeueLeaves ==
  ASSUME TypeOK, NEW t \in Tasks, tasks[t].pc /= "idle", Requeue(t)
  PROVE  Leaves(t)
  <1>1. \A u \in Tasks : tasks'[u] = IF u = t
          THEN Enqueued(tasks[t].post, tasks[t].retries + 1) ELSE tasks[u]
    BY RequeueSets
  <1>2. tasks'[t].pc = "queued"
    BY <1>1, EnqueuedFields
  <1> QED
    BY <1>1, <1>2 DEF Leaves, Holds

\* and one that handles an exception.
LEMMA ExceptionLeaves ==
  ASSUME TypeOK, NEW t \in Tasks, tasks[t].pc /= "idle", Exception(t)
  PROVE  Leaves(t)
  <1>1. "marking" \in TaskPC
    BY DEF TaskPC
  <1> QED
    BY <1>1, RequeueLeaves, GotoLeaves, EndLeaves DEF Exception

\* A new message holds no attempt.
LEMMA EnqueueKeeps ==
  ASSUME PipelineInv, mishaps \subseteq mishaps', NEW p \in Posts, Enqueue(p)
  PROVE  \A u \in Tasks : Keeps(u)
  <1>1. TypeOK
    BY DEF PipelineInv
  <1>2. PICK t \in Tasks : \A u \in Tasks : tasks'[u] = IF u = t THEN Enqueued(p, 0) ELSE tasks[u]
    BY <1>1, EnqueueSets
  <1>3. tasks'[t].pc = "queued"
    BY <1>2, EnqueuedFields
  <1>4. Leaves(t)
    BY <1>2, <1>3 DEF Leaves, Holds
  <1> QED
    BY <1>4, LeavesKeeps

\* Rows that only change in owner, age or due date.
LEMMA RowsSame ==
  ASSUME UNCHANGED rows
  PROVE  RowsKeep /\ (UNCHANGED requests => ChecksKept)
  BY DEF RowsKeep, ChecksKept, Attempted

\* A status that follows another one of an attempted row, and is not failed.
LEMMA SetStatusKeeps ==
  ASSUME TypeOK, NEW p \in Posts, NEW s \in {"sent", "unknown"},
         rows[p].status = "in_progress", SetStatus(p, s)
  PROVE  RowsKeep /\ (UNCHANGED requests => ChecksKept)
  <1>1. s \in Status
    BY DEF Status
  <1>2. \A q \in Posts : rows'[q] = IF q = p
          THEN [rows[p] EXCEPT !.status = s, !.age = 0] ELSE rows[q]
    BY <1>1, SetStatusSets
  <1>3. rows'[p].status = s /\ rows'[p].attempt = rows[p].attempt
    BY <1>2, Types DEF Row
  <1> QED
    BY <1>2, <1>3 DEF RowsKeep, ChecksKept, Attempted

-----------------------------------------------------------------------------
(* The requests *)

\* A row that waits, failed or is not there yet has no attempt with the provider and
\* no task that holds one, unless its post is excused.
LEMMA NotAttempted ==
  ASSUME PipelineInv, NEW p \in Posts, ~Attempted(p), ~Excused(p)
  PROVE  /\ \A x \in Sent : x[1] /= p
         /\ \A t \in Tasks : Holds(t) => tasks[t].post /= p
  BY DEF PipelineInv, SentIsLast, HolderIsLast

\* create_post's read of the channel keeps the invariant: no two requests create one id.
LEMMA CreateCheckStep ==
  ASSUME PipelineInv, TypeOK', NEW r \in Creators, NEW p \in Posts, CreateCheck(r, p)
  PROVE  PipelineInv'
  <1>1. \A q \in Requests : requests'[q] = IF q = r THEN p ELSE requests[q]
    BY RequestStep DEF PipelineInv, CreateCheck, Requests
  <1>2. ChecksHold'
    <2>1. r \notin Retriers /\ r \notin Deleters
      BY RequestsAssumption
    <2>2. ChecksHold
      BY DEF PipelineInv
    <2> QED
      BY <1>1, <2>1, <2>2 DEF ChecksHold, CreateCheck, Requests
  <1>3. Sent' = Sent
    BY DEF CreateCheck, Sent
  <1> QED
    BY <1>2, <1>3, RowsSame, SameKeeps, Quiet DEF CreateCheck

\* retry_post's check keeps the invariant: the post it remembers is failed, and another
\* retry of it under way is recorded.
LEMMA RetryCheckStep ==
  ASSUME PipelineInv, TypeOK', NEW r \in Retriers, NEW p \in Posts, RetryCheck(r, p)
  PROVE  PipelineInv'
  <1>1. \A q \in Requests : requests'[q] = IF q = r THEN p ELSE requests[q]
    BY RequestStep DEF PipelineInv, RetryCheck, Requests
  <1>2. /\ mishaps \subseteq mishaps'
        /\ \A q \in Retriers : requests[q] = p => <<p, "overlap">> \in mishaps'
    BY DEF RetryCheck
  <1>3. ChecksHold'
    <2>1. r \notin Creators /\ r \notin Deleters
      BY RequestsAssumption
    <2>2. ChecksHold /\ rows' = rows /\ rows[p].status = "failed"
      BY DEF PipelineInv, RetryCheck
    <2>3. \A q \in Creators : requests'[q] = requests[q]
      BY <1>1, <2>1 DEF Requests
    <2>4. \A q \in Retriers : requests'[q] = IF q = r THEN p ELSE requests[q]
      BY <1>1 DEF Requests
    <2>5. \A q \in Deleters : requests'[q] = requests[q]
      BY <1>1, <2>1 DEF Requests
    <2>6. \A q \in Retriers : requests'[q] /= NoPost =>
            \/ <<requests'[q], "overlap">> \in mishaps'
            \/ rows'[requests'[q]].status \in {"failed", "deleted"}
      BY <1>2, <2>2, <2>4 DEF ChecksHold
    <2>7. \A q, u \in Retriers : requests'[q] = requests'[u] /\ requests'[u] /= NoPost =>
            q = u \/ <<requests'[u], "overlap">> \in mishaps'
      BY <1>2, <2>2, <2>4 DEF ChecksHold
    <2>8. \A q \in Retriers \cup Deleters :
            requests'[q] /= NoPost => rows'[requests'[q]].status /= "absent"
      BY <2>2, <2>4, <2>5 DEF ChecksHold
    <2> QED
      BY <2>2, <2>3, <2>6, <2>7, <2>8 DEF ChecksHold
  <1>4. Sent' = Sent
    BY DEF RetryCheck, Sent
  <1> QED
    BY <1>2, <1>3, <1>4, RowsSame, SameKeeps, Quiet DEF RetryCheck

\* delete_post's check keeps the invariant: the post it remembers has a row.
LEMMA DeleteCheckStep ==
  ASSUME PipelineInv, TypeOK', NEW r \in Deleters, NEW p \in Posts, DeleteCheck(r, p)
  PROVE  PipelineInv'
  <1>1. \A q \in Requests : requests'[q] = IF q = r THEN p ELSE requests[q]
    BY RequestStep DEF PipelineInv, DeleteCheck, Requests
  <1>2. ChecksHold'
    <2>1. r \notin Creators /\ r \notin Retriers
      BY RequestsAssumption
    <2>2. ChecksHold
      BY DEF PipelineInv
    <2> QED
      BY <1>1, <2>1, <2>2 DEF ChecksHold, DeleteCheck, Requests
  <1>3. Sent' = Sent
    BY DEF DeleteCheck, Sent
  <1> QED
    BY <1>2, <1>3, RowsSame, SameKeeps, Quiet DEF DeleteCheck

\* A request that dies keeps the invariant.
LEMMA AbandonStep ==
  ASSUME PipelineInv, TypeOK', NEW r \in Requests, Abandon(r)
  PROVE  PipelineInv'
  <1>1. \A q \in Requests : requests'[q] = IF q = r THEN NoPost ELSE requests[q]
    BY RequestStep DEF PipelineInv, Abandon
  <1>2. ChecksHold'
    <2>1. ChecksHold
      BY DEF PipelineInv
    <2> QED
      BY <1>1, <2>1 DEF ChecksHold, Abandon, Requests
  <1>3. Sent' = Sent
    BY DEF Abandon, Sent
  <1> QED
    BY <1>2, <1>3, RowsSame, SameKeeps, Quiet DEF Abandon

\* The INSERT of a new post keeps the invariant: nothing was ever sent of it.
LEMMA CreateInsertStep ==
  ASSUME PipelineInv, TypeOK', NEW r \in Creators, CreateInsert(r)
  PROVE  PipelineInv'
  <1> DEFINE p == requests[r]
  <1>1. p \in Posts /\ rows[p].status = "absent"
    BY DEF PipelineInv, TypeOK, ChecksHold, CreateInsert, Requests
  <1>2. PICK d \in BOOLEAN :
          rows' = [rows EXCEPT ![p] = [rows[p] EXCEPT !.status = "pending", !.due = d]]
    BY <1>1 DEF PipelineInv, TypeOK, CreateInsert
  <1>3. /\ rows'[p].status = "pending" /\ rows'[p].attempt = rows[p].attempt
        /\ \A q \in Posts : q /= p => rows'[q] = rows[q]
    BY <1>1, <1>2, Types DEF PipelineInv, TypeOK, Row
  <1>4. \A q \in Requests : requests'[q] = IF q = r THEN NoPost ELSE requests[q]
    BY RequestStep DEF PipelineInv, CreateInsert, Requests
  <1>5. /\ ChecksHold /\ mishaps' = mishaps
        /\ \A q \in Requests : requests[q] \in Posts \cup {NoPost}
    BY DEF PipelineInv, TypeOK, CreateInsert
  <1>6. RowsKeep
    BY <1>1, <1>3 DEF RowsKeep, Attempted
  <1>7. \A q \in Creators : requests'[q] /= NoPost => rows'[requests'[q]].status = "absent"
    BY <1>1, <1>3, <1>4, <1>5 DEF ChecksHold, Requests
  <1>8. \A q \in Retriers : requests'[q] /= NoPost =>
          \/ <<requests'[q], "overlap">> \in mishaps'
          \/ rows'[requests'[q]].status \in {"failed", "deleted"}
    BY <1>1, <1>3, <1>4, <1>5 DEF ChecksHold, Requests
  <1>9. \A q \in Retriers \cup Deleters :
          requests'[q] /= NoPost => rows'[requests'[q]].status /= "absent"
    BY <1>1, <1>3, <1>4, <1>5 DEF ChecksHold, Requests
  <1>10. \A q, u \in Creators : requests'[q] = requests'[u] /\ requests'[u] /= NoPost => q = u
    BY <1>4, <1>5 DEF ChecksHold, Requests
  <1>11. \A q, u \in Retriers : requests'[q] = requests'[u] /\ requests'[u] /= NoPost =>
           q = u \/ <<requests'[u], "overlap">> \in mishaps'
    BY <1>4, <1>5 DEF ChecksHold, Requests
  <1>12. ChecksHold'
    BY <1>7, <1>8, <1>9, <1>10, <1>11 DEF ChecksHold
  <1>13. Sent' = Sent
    BY DEF CreateInsert, Sent
  <1> QED
    BY <1>5, <1>6, <1>12, <1>13, SameKeeps, Quiet DEF CreateInsert

\* The UPDATE of a retry keeps the invariant: the post is still failed, or gone, or its
\* retries have overlapped.
LEMMA RetryWriteStep ==
  ASSUME PipelineInv, TypeOK', NEW r \in Retriers, RetryWrite(r)
  PROVE  PipelineInv'
  <1>1. PICK p \in Posts : p = requests[r]
    BY DEF PipelineInv, TypeOK, RetryWrite, Requests
  <1>2. \A q \in Requests : requests'[q] = IF q = r THEN NoPost ELSE requests[q]
    BY RequestStep DEF PipelineInv, RetryWrite, Requests
  <1>3. /\ ChecksHold /\ mishaps' = mishaps /\ requests[r] /= NoPost
        /\ \A q \in Requests : requests[q] \in Posts \cup {NoPost}
    BY DEF PipelineInv, TypeOK, RetryWrite
  <1>4. /\ rows[p].status /= "absent"
        /\ <<p, "overlap">> \in mishaps \/ rows[p].status \in {"failed", "deleted"}
    BY <1>1, <1>3 DEF ChecksHold
  <1>5. /\ \A q \in Posts : q /= p => rows'[q] = rows[q]
        /\ rows'[p].attempt = rows[p].attempt
        /\ Attempted(p) => rows'[p] = rows[p] \/ <<p, "overlap">> \in mishaps
        /\ rows'[p].status /= "absent"
    <2>1. CASE UNCHANGED rows
      BY <1>4, <2>1
    <2>2. CASE rows' = [rows EXCEPT ![p] = [rows[p] EXCEPT !.status = "pending"]]
                 /\ rows[p].status /= "deleted"
      BY <1>4, <2>2, Types DEF PipelineInv, TypeOK, Row, Attempted
    <2> QED
      BY <1>1, <2>1, <2>2 DEF RetryWrite, PipelineInv, TypeOK
  <1>6. RowsKeep
    BY <1>3, <1>5, OverlapExcuses DEF RowsKeep, Attempted, Excused
  <1>7. \A q \in Creators : requests'[q] /= NoPost => rows'[requests'[q]].status = "absent"
    BY <1>1, <1>2, <1>3, <1>4, <1>5 DEF ChecksHold, Requests
  <1>8. \A q \in Retriers : requests'[q] /= NoPost =>
          \/ <<requests'[q], "overlap">> \in mishaps'
          \/ rows'[requests'[q]].status \in {"failed", "deleted"}
    <2> SUFFICES ASSUME NEW q \in Retriers, requests'[q] /= NoPost
                 PROVE  \/ <<requests'[q], "overlap">> \in mishaps'
                        \/ rows'[requests'[q]].status \in {"failed", "deleted"}
      OBVIOUS
    <2>1. q /= r /\ requests'[q] = requests[q] /\ requests[q] \in Posts
      BY <1>2, <1>3 DEF Requests
    <2>2. CASE requests[q] = p
      BY <1>1, <1>3, <2>1, <2>2 DEF ChecksHold
    <2>3. CASE requests[q] /= p
      BY <1>3, <1>5, <2>1, <2>3 DEF ChecksHold
    <2> QED
      BY <2>2, <2>3
  <1>9. \A q \in Retriers \cup Deleters :
          requests'[q] /= NoPost => rows'[requests'[q]].status /= "absent"
    BY <1>2, <1>3, <1>5 DEF ChecksHold, Requests
  <1>10. \A q, u \in Creators : requests'[q] = requests'[u] /\ requests'[u] /= NoPost => q = u
    BY <1>2, <1>3 DEF ChecksHold, Requests
  <1>11. \A q, u \in Retriers : requests'[q] = requests'[u] /\ requests'[u] /= NoPost =>
           q = u \/ <<requests'[u], "overlap">> \in mishaps'
    BY <1>2, <1>3 DEF ChecksHold, Requests
  <1>12. ChecksHold'
    BY <1>7, <1>8, <1>9, <1>10, <1>11 DEF ChecksHold
  <1>13. Sent' = Sent
    BY DEF RetryWrite, Sent
  <1> QED
    BY <1>3, <1>6, <1>12, <1>13, SameKeeps, Quiet DEF RetryWrite

\* The DELETE of a post keeps the invariant, whatever its status has become.
LEMMA DeleteWriteStep ==
  ASSUME PipelineInv, TypeOK', NEW r \in Deleters, DeleteWrite(r)
  PROVE  PipelineInv'
  <1> DEFINE p == requests[r]
  <1>1. p \in Posts /\ rows[p].status /= "absent"
    BY DEF PipelineInv, TypeOK, ChecksHold, DeleteWrite, Requests
  <1>2. \A q \in Requests : requests'[q] = IF q = r THEN NoPost ELSE requests[q]
    BY RequestStep DEF PipelineInv, DeleteWrite, Requests
  <1>3. /\ ChecksHold /\ mishaps' = mishaps
        /\ \A q \in Requests : requests[q] \in Posts \cup {NoPost}
    BY DEF PipelineInv, TypeOK, DeleteWrite
  <1>4. \A q \in Posts : rows'[q] = IF q = p
          THEN [rows[p] EXCEPT !.status = "deleted", !.age = 0] ELSE rows[q]
    BY <1>1, SetStatusSets DEF PipelineInv, DeleteWrite, Status
  <1>5. /\ rows'[p].status = "deleted" /\ rows'[p].attempt = rows[p].attempt
        /\ \A q \in Posts : q /= p => rows'[q] = rows[q]
    BY <1>1, <1>4, Types DEF PipelineInv, Row
  <1>6. RowsKeep
    BY <1>5 DEF RowsKeep, Attempted
  <1>7. \A q \in Creators : requests'[q] /= NoPost => rows'[requests'[q]].status = "absent"
    BY <1>1, <1>2, <1>3, <1>5 DEF ChecksHold, Requests
  <1>8. \A q \in Retriers : requests'[q] /= NoPost =>
          \/ <<requests'[q], "overlap">> \in mishaps'
          \/ rows'[requests'[q]].status \in {"failed", "deleted"}
    BY <1>1, <1>2, <1>3, <1>5 DEF ChecksHold, Requests
  <1>9. \A q \in Retriers \cup Deleters :
          requests'[q] /= NoPost => rows'[requests'[q]].status /= "absent"
    BY <1>1, <1>2, <1>3, <1>5 DEF ChecksHold, Requests
  <1>10. \A q, u \in Creators : requests'[q] = requests'[u] /\ requests'[u] /= NoPost => q = u
    BY <1>2, <1>3 DEF ChecksHold, Requests
  <1>11. \A q, u \in Retriers : requests'[q] = requests'[u] /\ requests'[u] /= NoPost =>
           q = u \/ <<requests'[u], "overlap">> \in mishaps'
    BY <1>2, <1>3 DEF ChecksHold, Requests
  <1>12. ChecksHold'
    BY <1>7, <1>8, <1>9, <1>10, <1>11 DEF ChecksHold
  <1>13. Sent' = Sent
    BY DEF DeleteWrite, Sent
  <1> QED
    BY <1>3, <1>6, <1>12, <1>13, SameKeeps, Quiet DEF DeleteWrite

-----------------------------------------------------------------------------
(* The beat, the provider, the channels and time *)

\* A post that comes due keeps the invariant.
LEMMA ComesDueStep ==
  ASSUME PipelineInv, TypeOK', NEW p \in Posts, ComesDue(p)
  PROVE  PipelineInv'
  <1>1. \A q \in Posts : /\ rows'[q].status = rows[q].status
                         /\ rows'[q].attempt = rows[q].attempt
    BY Types DEF ComesDue, PipelineInv, TypeOK, Row
  <1>2. RowsKeep /\ ChecksKept
    BY <1>1 DEF RowsKeep, ChecksKept, Attempted, ComesDue
  <1>3. Sent' = Sent
    BY DEF ComesDue, Sent
  <1> QED
    BY <1>2, <1>3, ChecksKeptOK, SameKeeps, Quiet DEF ComesDue

\* The beat and a triggered publication keep the invariant.
LEMMA EnqueueStep ==
  ASSUME PipelineInv, TypeOK', NEW p \in Posts, Dispatch(p) \/ Trigger(p)
  PROVE  PipelineInv'
  <1>1. Enqueue(p) /\ Sent' = Sent /\ UNCHANGED <<rows, requests, mishaps>>
    BY DEF Dispatch, Trigger, Sent
  <1> QED
    BY <1>1, RowsSame, ChecksKeptOK, EnqueueKeeps, Quiet

\* The provider's decision on a request keeps the invariant.
LEMMA ProviderStep ==
  ASSUME PipelineInv, TypeOK', NEW p \in Posts, Apply(p) \/ Reject(p)
  PROVE  PipelineInv'
  <1>1. Sent' \subseteq Sent
    <2>1. CASE Apply(p)
      <3>1. PICK x \in inflight : x[1] = p
                 /\ inflight' = inflight \ {<<p, x[2]>>}
                 /\ delivered' = delivered \cup {<<p, x[2]>>}
        BY <2>1 DEF Apply
      <3>2. x = <<p, x[2]>>
        BY <3>1 DEF PipelineInv, TypeOK
      <3> QED
        BY <3>1, <3>2 DEF Sent
    <2>2. CASE Reject(p)
      BY <2>2 DEF Reject, Sent
    <2> QED
      BY <2>1, <2>2
  <1>2. UNCHANGED <<rows, requests, tasks, mishaps>>
    BY DEF Apply, Reject
  <1> QED
    BY <1>1, <1>2, RowsSame, ChecksKeptOK, SameKeeps, Quiet

\* Switching a channel keeps the invariant.
LEMMA ChannelStep ==
  ASSUME PipelineInv, TypeOK', NEW c \in Channels,
         DisableCheck(c) \/ DisableCommit(c) \/ DisableRollback(c) \/ Enable(c)
  PROVE  PipelineInv'
  <1>1. UNCHANGED <<rows, requests, tasks, inflight, delivered, mishaps>>
    BY DEF DisableCheck, DisableCommit, DisableRollback, Enable
  <1>2. Sent' = Sent
    BY <1>1 DEF Sent
  <1> QED
    BY <1>1, <1>2, RowsSame, ChecksKeptOK, SameKeeps, Quiet

\* The passing of time keeps the invariant.
LEMMA TickStep ==
  ASSUME PipelineInv, TypeOK', Tick
  PROVE  PipelineInv'
  <1>1. \A p \in Posts : /\ rows'[p].status = rows[p].status
                         /\ rows'[p].attempt = rows[p].attempt
    BY Types DEF Tick, PipelineInv, Row
  <1>2. RowsKeep /\ ChecksKept
    BY <1>1 DEF RowsKeep, ChecksKept, Attempted, Tick
  <1>3. \A t \in Tasks : /\ tasks'[t].pc = tasks[t].pc
                         /\ tasks'[t].post = tasks[t].post
                         /\ tasks'[t].attempt = tasks[t].attempt
                         /\ tasks'[t].result = tasks[t].result
    BY Types DEF Tick, PipelineInv, Task
  <1>4. \A t \in Tasks : Keeps(t)
    BY <1>3 DEF Keeps, Holds, Unsent, Excused, PipelineInv, UnsentIsUnsent, Tick
  <1>5. Sent' = Sent /\ mishaps' = mishaps
    BY DEF Tick, Sent
  <1> QED
    BY <1>2, <1>4, <1>5, ChecksKeptOK, Quiet

-----------------------------------------------------------------------------
(* The tasks *)

\* A step after which task t holds nothing, and nothing but tasks has changed.
LEMMA LeavesStep ==
  ASSUME PipelineInv, TypeOK', NEW t \in Tasks, Leaves(t),
         UNCHANGED <<rows, requests, inflight, delivered, mishaps>>
  PROVE  PipelineInv'
  <1>1. Sent' = Sent
    BY DEF Sent
  <1> QED
    BY <1>1, RowsSame, ChecksKeptOK, LeavesKeeps, Quiet

\* The same when an attempt in progress gets an outcome that is not a failure.
LEMMA LeavesAndSetsStep ==
  ASSUME PipelineInv, TypeOK', NEW t \in Tasks, Leaves(t),
         NEW p \in Posts, NEW s \in {"sent", "unknown"},
         rows[p].status = "in_progress", SetStatus(p, s),
         UNCHANGED <<requests, inflight, delivered, mishaps>>
  PROVE  PipelineInv'
  <1>1. Sent' = Sent
    BY DEF Sent
  <1>2. TypeOK
    BY DEF PipelineInv
  <1> QED
    BY <1>1, <1>2, SetStatusKeeps, ChecksKeptOK, LeavesKeeps, Quiet

\* The early returns of publish_post keep the invariant.
LEMMA ReadStep ==
  ASSUME PipelineInv, TypeOK', NEW t \in Tasks, Start(t) \/ Read(t)
  PROVE  PipelineInv'
  <1>1. TypeOK
    BY DEF PipelineInv
  <1>2. {"read", "recover", "fail_pending", "claim"} \subseteq TaskPC
    BY DEF TaskPC
  <1>3. /\ tasks[t].pc /= "idle"
        /\ Goto(t, "read") \/ Goto(t, "recover") \/ Goto(t, "fail_pending") \/ Goto(t, "claim")
             \/ Exception(t) \/ End(t)
    BY DEF Start, Read
  <1>4. Leaves(t)
    BY <1>1, <1>2, <1>3, GotoLeaves, ExceptionLeaves, EndLeaves
  <1> QED
    BY <1>4, LeavesStep DEF Start, Read

\* recover_expired_attempt keeps the invariant: unknown is not failed.
LEMMA RecoverStep ==
  ASSUME PipelineInv, TypeOK', NEW t \in Tasks, Recover(t)
  PROVE  PipelineInv'
  <1>1. TypeOK
    BY DEF PipelineInv
  <1>2. Leaves(t)
    BY <1>1, EndLeaves DEF Recover
  <1>3. tasks[t].post \in Posts
    BY <1>1 DEF Recover, TypeOK
  <1>4. CASE rows[tasks[t].post].status = "in_progress" /\ SetStatus(tasks[t].post, "unknown")
    BY <1>2, <1>3, <1>4, LeavesAndSetsStep DEF Recover
  <1>5. CASE UNCHANGED rows
    BY <1>2, <1>5, LeavesStep DEF Recover
  <1> QED
    BY <1>4, <1>5 DEF Recover

\* fail_pending keeps the invariant: a pending post has nothing with the provider.
LEMMA FailPendingStep ==
  ASSUME PipelineInv, TypeOK', NEW t \in Tasks, FailPending(t)
  PROVE  PipelineInv'
  <1> DEFINE p == tasks[t].post
  <1>1. TypeOK
    BY DEF PipelineInv
  <1>2. Leaves(t)
    BY <1>1, EndLeaves DEF FailPending
  <1>3. p \in Posts
    BY <1>1 DEF FailPending, TypeOK
  <1>4. CASE rows[p].status = "pending" /\ SetStatus(p, "failed")
    <2>1. \A q \in Posts : rows'[q] = IF q = p
            THEN [rows[p] EXCEPT !.status = "failed", !.age = 0] ELSE rows[q]
      BY <1>1, <1>3, <1>4, SetStatusSets DEF Status
    <2>2. rows'[p].status = "failed" /\ rows'[p].attempt = rows[p].attempt
      BY <1>1, <1>3, <2>1, Types DEF Row
    <2>3. RowsKeep /\ ChecksKept
      BY <1>3, <1>4, <2>1, <2>2 DEF RowsKeep, ChecksKept, Attempted, FailPending
    <2>4. Sent' = Sent /\ mishaps' = mishaps
      BY DEF FailPending, Sent
    <2> QED
      BY <1>2, <2>3, <2>4, ChecksKeptOK, LeavesKeeps, Quiet
  <1>5. CASE UNCHANGED rows
    BY <1>2, <1>5, LeavesStep DEF FailPending
  <1> QED
    BY <1>4, <1>5 DEF FailPending

\* Task t goes on with the attempt it holds, to a place where the attempt is not taken
\* for unsent unless it is.
LEMMA HoldsOnStep ==
  ASSUME PipelineInv, TypeOK', NEW t \in Tasks, Holds(t), mishaps \subseteq mishaps',
         \A u \in Tasks : u /= t => tasks'[u] = tasks[u],
         tasks'[t].post = tasks[t].post, tasks'[t].attempt = tasks[t].attempt,
         Unsent(t)' => Attempt(t) \notin Sent \/ Excused(tasks[t].post)',
         UNCHANGED <<rows, requests, inflight, delivered>>
  PROVE  PipelineInv'
  <1>1. Keeps(t)
    BY DEF Keeps
  <1>2. \A u \in Tasks : Keeps(u)
    BY <1>1, StillKeeps
  <1>3. Sent' = Sent
    BY DEF Sent
  <1> QED
    BY <1>2, <1>3, RowsSame, ChecksKeptOK, Quiet

\* What Goto and Outcome do to a slot.
LEMMA GotoFields ==
  ASSUME TypeOK, NEW t \in Tasks, NEW pc \in TaskPC, Goto(t, pc)
  PROVE  /\ \A u \in Tasks : u /= t => tasks'[u] = tasks[u]
         /\ tasks'[t].pc = pc
         /\ tasks'[t].post = tasks[t].post
         /\ tasks'[t].attempt = tasks[t].attempt
         /\ tasks'[t].result = tasks[t].result
  <1>1. \A u \in Tasks : tasks'[u] = IF u = t THEN [tasks[t] EXCEPT !.pc = pc] ELSE tasks[u]
    BY GotoSets
  <1> QED
    BY <1>1, Types DEF Task

\* The same for an outcome.
LEMMA OutcomeFields ==
  ASSUME TypeOK, NEW t \in Tasks, NEW pc, NEW result, Outcome(t, pc, result)
  PROVE  /\ \A u \in Tasks : u /= t => tasks'[u] = tasks[u]
         /\ tasks'[t].pc = pc
         /\ tasks'[t].post = tasks[t].post
         /\ tasks'[t].attempt = tasks[t].attempt
         /\ tasks'[t].result = result
  <1>1. tasks' = [tasks EXCEPT ![t] = [tasks[t] EXCEPT !.pc = pc, !.result = result]]
    BY DEF TypeOK, Outcome
  <1>2. \A u \in Tasks : tasks'[u] = IF u = t
          THEN [tasks[t] EXCEPT !.pc = pc, !.result = result] ELSE tasks[u]
    BY <1>1 DEF TypeOK
  <1> QED
    BY <1>2, Types DEF Task

\* A task that takes its attempt for unsent is right, unless its post is excused.
LEMMA UnsentFact ==
  ASSUME PipelineInv, NEW t \in Tasks, Unsent(t)
  PROVE  Attempt(t) \notin Sent \/ Excused(tasks[t].post)
  BY DEF PipelineInv, UnsentIsUnsent

\* As long as its post is the same, it stays so.
LEMMA UnsentStays ==
  ASSUME PipelineInv, mishaps \subseteq mishaps', NEW t \in Tasks, Unsent(t),
         tasks'[t].post = tasks[t].post
  PROVE  Attempt(t) \notin Sent \/ Excused(tasks[t].post)'
  BY UnsentFact DEF Excused

\* claim_for_publish keeps the invariant: the new attempt is unsent and held alone.
LEMMA ClaimStep ==
  ASSUME PipelineInv, TypeOK', NEW t \in Tasks, Claim(t)
  PROVE  PipelineInv'
  <1> DEFINE p == tasks[t].post
             a == rows[p].attempt + 1
  <1>1. TypeOK
    BY DEF PipelineInv
  <1>2. p \in Posts
    BY <1>1 DEF Claim, TypeOK
  <1>3. CASE UNCHANGED rows /\ End(t)
    BY <1>1, <1>3, EndLeaves, LeavesStep DEF Claim
  <1>4. CASE /\ rows[p].status = "pending"
             /\ rows' = [rows EXCEPT ![p] = [rows[p] EXCEPT !.status = "in_progress",
                            !.attempt = a, !.owner = t, !.age = tasks[t].age]]
             /\ tasks' = [tasks EXCEPT ![t] = [tasks[t] EXCEPT !.pc = "reload", !.attempt = a]]
    <2>1. /\ rows'[p].status = "in_progress" /\ rows'[p].attempt = a
          /\ \A q \in Posts : q /= p => rows'[q] = rows[q]
      BY <1>1, <1>2, <1>4, Types DEF TypeOK, Row
    <2>2. /\ tasks'[t].pc = "reload" /\ tasks'[t].post = p /\ tasks'[t].attempt = a
          /\ \A u \in Tasks : u /= t => tasks'[u] = tasks[u]
      BY <1>1, <1>4, Types DEF TypeOK, Task
    <2>3. \/ Excused(p)
          \/ /\ \A x \in Sent : x[1] /= p
             /\ \A u \in Tasks : Holds(u) => tasks[u].post /= p
      BY <1>2, <1>4, NotAttempted DEF Attempted
    <2>4. Sent' = Sent /\ mishaps' = mishaps /\ \A x \in Sent : x[1] \in Posts
      BY <1>1, SentTypes DEF Claim, Sent
    <2>5. \A u \in Tasks : u /= t /\ Holds(u)' => Holds(u) /\ tasks[u].post \in Posts
      BY <1>1, <2>2 DEF Holds, TypeOK
    <2>6. SentIsLast'
      BY <2>1, <2>3, <2>4 DEF PipelineInv, SentIsLast, Attempted, Excused
    <2>7. HolderIsLast'
      <3> SUFFICES ASSUME NEW u \in Tasks, Holds(u)', ~Excused(tasks[u].post)'
                   PROVE  /\ Attempted(tasks[u].post)'
                          /\ tasks'[u].attempt = rows'[tasks'[u].post].attempt
        BY DEF HolderIsLast
      <3>1. CASE u = t
        BY <1>2, <2>1, <2>2, <3>1 DEF Attempted
      <3>2. CASE u /= t
        <4>1. Holds(u) /\ tasks[u].post \in Posts /\ tasks'[u] = tasks[u]
                /\ ~Excused(tasks[u].post)
          BY <2>2, <2>4, <2>5, <3>2 DEF Excused
        <4>2. Holds(u) /\ tasks[u].post \in Posts /\ tasks[u].post /= p /\ tasks'[u] = tasks[u]
          BY <2>3, <4>1
        <4>3. Attempted(tasks[u].post) /\ tasks[u].attempt = rows[tasks[u].post].attempt
          BY <4>1 DEF PipelineInv, HolderIsLast
        <4> QED
          BY <2>1, <4>2, <4>3 DEF Attempted
      <3> QED
        BY <3>1, <3>2
    <2>8. OneHolder'
      <3> SUFFICES ASSUME NEW u \in Tasks, NEW v \in Tasks, Holds(u)', Holds(v)',
                          tasks'[u].post = tasks'[v].post, u /= v
                   PROVE  Excused(tasks[u].post)'
        BY DEF OneHolder
      <3>1. CASE u /= t /\ v /= t
        <4>1. Excused(tasks[u].post) /\ tasks'[u] = tasks[u]
          BY <2>2, <2>5, <3>1 DEF PipelineInv, OneHolder
        <4> QED
          BY <2>4, <4>1 DEF Excused
      <3>2. CASE u = t \/ v = t
        <4>1. tasks'[u].post = p /\ \E w \in Tasks : Holds(w) /\ tasks[w].post = p
          BY <2>2, <2>5, <3>2
        <4> QED
          BY <2>3, <2>4, <4>1 DEF Excused
      <3> QED
        BY <3>1, <3>2
    <2>9. UnsentIsUnsent'
      <3> SUFFICES ASSUME NEW u \in Tasks, Unsent(u)', ~Excused(tasks[u].post)'
                   PROVE  Attempt(u)' \notin Sent
        BY <2>4 DEF UnsentIsUnsent
      <3>1. CASE u = t
        <4>1. Attempt(t)'[1] = p /\ ~Excused(p)
          BY <2>2, <2>4, <3>1 DEF Attempt, Excused
        <4> QED
          BY <2>3, <3>1, <4>1
      <3>2. CASE u /= t
        <4>1. Unsent(u) /\ Attempt(u)' = Attempt(u) /\ ~Excused(tasks[u].post)
          BY <2>2, <2>4, <3>2 DEF Unsent, Attempt, Excused
        <4> QED
          BY <4>1, UnsentFact
      <3> QED
        BY <3>1, <3>2
    <2>10. ChecksHold'
      <3>1. ChecksKept
        BY <1>2, <1>4, <2>1 DEF ChecksKept, Claim
      <3> QED
        BY <2>4, <3>1, ChecksKeptOK
    <2> QED
      BY <2>6, <2>7, <2>8, <2>9, <2>10 DEF PipelineInv
  <1> QED
    BY <1>1, <1>3, <1>4 DEF Claim, TypeOK

\* The read after the claim keeps the invariant.
LEMMA ReloadStep ==
  ASSUME PipelineInv, TypeOK', NEW t \in Tasks, Reload(t)
  PROVE  PipelineInv'
  <1>1. TypeOK
    BY DEF PipelineInv
  <1>2. CASE End(t)
    BY <1>1, <1>2, EndLeaves, LeavesStep DEF Reload
  <1>3. CASE Goto(t, "prepare")
    <2>1. "prepare" \in TaskPC
      BY DEF TaskPC
    <2>2. Attempt(t) \notin Sent \/ Excused(tasks[t].post)'
      BY <1>1, <1>3, <2>1, GotoFields, UnsentStays DEF Reload, Unsent
    <2>3. Holds(t)
      BY DEF Reload, Holds
    <2> QED
      BY <1>1, <1>3, <2>1, <2>2, <2>3, GotoFields, HoldsOnStep DEF Reload
  <1> QED
    BY <1>2, <1>3 DEF Reload

\* The preparation of the content keeps the invariant: a failure there has sent nothing.
LEMMA PrepareStep ==
  ASSUME PipelineInv, TypeOK', NEW t \in Tasks, Prepare(t)
  PROVE  PipelineInv'
  <1>1. TypeOK
    BY DEF PipelineInv
  <1>2. tasks'[t].post = tasks[t].post
    <2>1. "publish" \in TaskPC
      BY DEF TaskPC
    <2> QED
      BY <1>1, <2>1, GotoFields, OutcomeFields DEF Prepare
  <1>3. Holds(t)
    BY DEF Prepare, Holds
  <1>4. Attempt(t) \notin Sent \/ Excused(tasks[t].post)'
    BY <1>2, UnsentStays DEF Prepare, Unsent
  <1>5. CASE Goto(t, "publish")
    <2>1. "publish" \in TaskPC
      BY DEF TaskPC
    <2> QED
      BY <1>1, <1>3, <1>4, <1>5, <2>1, GotoFields, HoldsOnStep DEF Prepare
  <1>6. CASE Outcome(t, "conclude", "failed")
    BY <1>1, <1>3, <1>4, <1>6, OutcomeFields, HoldsOnStep DEF Prepare
  <1> QED
    BY <1>5, <1>6 DEF Prepare

\* The request to the provider keeps the invariant: it is the only one of its post.
LEMMA PublishStep ==
  ASSUME PipelineInv, TypeOK', NEW t \in Tasks, Publish(t)
  PROVE  PipelineInv'
  <1>1. TypeOK
    BY DEF PipelineInv
  <1>2. /\ tasks'[t].pc = "await" /\ tasks'[t].post = tasks[t].post
        /\ tasks'[t].attempt = tasks[t].attempt
        /\ \A u \in Tasks : u /= t => tasks'[u] = tasks[u]
    <2>1. "await" \in TaskPC
      BY DEF TaskPC
    <2> QED
      BY <1>1, <2>1, GotoFields DEF Publish
  <1>3. Holds(t) /\ Sent' = Sent \cup {Attempt(t)}
    BY DEF Publish, Holds, Sent
  <1>4. UNCHANGED <<rows, requests, mishaps>>
    BY DEF Publish
  <1>5. \A u \in Tasks : Holds(u)' => Holds(u) /\ tasks'[u].post = tasks[u].post
                                         /\ tasks'[u].attempt = tasks[u].attempt
    BY <1>2, <1>3 DEF Holds
  <1>6. SentIsLast'
    <2>1. \/ Excused(tasks[t].post)
          \/ Attempted(tasks[t].post) /\ tasks[t].attempt = rows[tasks[t].post].attempt
      BY <1>3 DEF PipelineInv, HolderIsLast
    <2>2. \A x \in Sent' : Excused(x[1]) \/ (Attempted(x[1]) /\ x[2] = rows[x[1]].attempt)
      BY <1>3, <2>1 DEF PipelineInv, SentIsLast, Attempt
    <2> QED
      BY <1>4, <2>2 DEF SentIsLast, Attempted, Excused
  <1>7. HolderIsLast'
    BY <1>4, <1>5 DEF PipelineInv, HolderIsLast, Attempted, Excused
  <1>8. OneHolder'
    BY <1>4, <1>5 DEF PipelineInv, OneHolder, Excused
  <1>9. UnsentIsUnsent'
    <2> SUFFICES ASSUME NEW u \in Tasks, Unsent(u)', ~Excused(tasks[u].post)'
                 PROVE  Attempt(u)' \notin Sent'
      BY DEF UnsentIsUnsent
    <2>1. u /= t
      BY <1>2 DEF Unsent
    <2>2. Unsent(u) /\ Attempt(u)' = Attempt(u) /\ ~Excused(tasks[u].post)
      BY <1>2, <1>4, <2>1 DEF Unsent, Attempt, Excused
    <2>3. Attempt(u) \notin Sent
      BY <2>2, UnsentFact
    <2>4. tasks[u].post /= tasks[t].post
      BY <1>3, <2>1, <2>2, UnsentHolds DEF PipelineInv, OneHolder
    <2>5. Attempt(u) /= Attempt(t)
      BY <2>4 DEF Attempt
    <2> QED
      BY <1>3, <2>2, <2>3, <2>5
  <1>10. ChecksHold'
    BY <1>4, RowsSame, ChecksKeptOK
  <1> QED
    BY <1>6, <1>7, <1>8, <1>9, <1>10 DEF PipelineInv

\* The classified answer keeps the invariant: a failure is definite, or recorded.
LEMMA AnswerStep ==
  ASSUME PipelineInv, TypeOK', NEW t \in Tasks, Answer(t)
  PROVE  PipelineInv'
  <1>1. TypeOK /\ Holds(t) /\ mishaps \subseteq mishaps'
    BY DEF PipelineInv, Answer, Holds
  <1>2. PICK pc \in {"finalize", "conclude"}, result \in {"sent", "failed", "unknown"} :
          /\ Outcome(t, pc, result)
          /\ result = "failed" => \/ Attempt(t) \notin Sent
                                 \/ <<tasks[t].post, "false_error">> \in mishaps'
    BY DEF Answer
  <1>3. /\ \A u \in Tasks : u /= t => tasks'[u] = tasks[u]
        /\ tasks'[t].post = tasks[t].post
        /\ tasks'[t].attempt = tasks[t].attempt
        /\ tasks'[t].result = result
        /\ tasks'[t].pc \in {"finalize", "conclude"}
    BY <1>1, <1>2, OutcomeFields
  <1>4. Unsent(t)' => Attempt(t) \notin Sent \/ Excused(tasks[t].post)'
    BY <1>2, <1>3 DEF Unsent, Excused, Cause
  <1> QED
    BY <1>1, <1>3, <1>4, HoldsOnStep DEF Answer

\* finalize_publish keeps the invariant: a failed row has nothing with the provider.
LEMMA FinalizeStep ==
  ASSUME PipelineInv, TypeOK', NEW t \in Tasks, Finalize(t)
  PROVE  PipelineInv'
  <1> DEFINE p == tasks[t].post
             s == tasks[t].result
  <1>1. TypeOK
    BY DEF PipelineInv
  <1>2. Leaves(t)
    BY <1>1, EndLeaves DEF Finalize
  <1>3. p \in Posts /\ s \in {"sent", "unknown", "failed"}
    <2>1. s \in {"none", "sent", "failed", "unknown"}
      BY <1>1, Types DEF Task
    <2> QED
      BY <1>1, <2>1 DEF Finalize, TypeOK
  <1>4. CASE UNCHANGED rows
    BY <1>2, <1>4, LeavesStep DEF Finalize
  <1>5. CASE Owns(t, p) /\ SetStatus(p, s) /\ s /= "failed"
    <2>1. rows[p].status = "in_progress"
      BY <1>5 DEF Owns
    <2>2. s \in {"sent", "unknown"}
      BY <1>3, <1>5
    <2> QED
      BY <1>2, <1>3, <1>5, <2>1, <2>2, LeavesAndSetsStep DEF Finalize
  <1>6. CASE Owns(t, p) /\ SetStatus(p, s) /\ s = "failed"
    <2>1. \A q \in Posts : rows'[q] = IF q = p
            THEN [rows[p] EXCEPT !.status = "failed", !.age = 0] ELSE rows[q]
      <3>1. "failed" \in Status /\ SetStatus(p, "failed")
        BY <1>6 DEF Status
      <3> QED
        BY <1>1, <1>3, <3>1, SetStatusSets
    <2>2. /\ rows'[p].status = "failed" /\ rows'[p].attempt = rows[p].attempt
          /\ \A q \in Posts : q /= p => rows'[q] = rows[q]
      BY <1>1, <1>3, <2>1, Types DEF Row
    <2>3. Holds(t) /\ Unsent(t)
      BY <1>6 DEF Finalize, Holds, Unsent
    <2>4. Excused(p) \/ \A x \in Sent : x[1] /= p
      <3> SUFFICES ASSUME ~Excused(p), NEW x \in Sent, x[1] = p PROVE FALSE
        OBVIOUS
      <3>1. x[2] = rows[p].attempt /\ x = <<x[1], x[2]>>
        BY <1>1, SentTypes DEF PipelineInv, SentIsLast
      <3>2. x = Attempt(t)
        BY <1>6, <3>1 DEF Owns, Attempt
      <3> QED
        BY <2>3, <3>2, UnsentFact
    <2>5. \A u \in Tasks : Holds(u)' => /\ Holds(u) /\ u /= t /\ tasks'[u] = tasks[u]
                                        /\ tasks[u].post \in Posts
                                        /\ tasks[u].post /= p \/ Excused(p)
      BY <1>1, <1>2, <2>3 DEF Leaves, Holds, PipelineInv, OneHolder, TypeOK
    <2>6. Sent' = Sent /\ mishaps' = mishaps /\ \A x \in Sent : x[1] \in Posts
      BY <1>1, SentTypes DEF Finalize, Sent
    <2>7. SentIsLast'
      BY <2>2, <2>4, <2>6 DEF PipelineInv, SentIsLast, Attempted, Excused
    <2>8. HolderIsLast'
      BY <2>2, <2>5, <2>6 DEF PipelineInv, HolderIsLast, Attempted, Excused
    <2>9. OneHolder'
      BY <2>5, <2>6 DEF PipelineInv, OneHolder, Excused
    <2>10. UnsentIsUnsent'
      <3> SUFFICES ASSUME NEW u \in Tasks, Unsent(u)', ~Excused(tasks[u].post)'
                   PROVE  Attempt(u)' \notin Sent
        BY <2>6 DEF UnsentIsUnsent
      <3>1. tasks'[u] = tasks[u]
        BY <2>5 DEF Unsent, Holds
      <3>2. Unsent(u) /\ Attempt(u)' = Attempt(u) /\ ~Excused(tasks[u].post)
        BY <2>6, <3>1 DEF Unsent, Attempt, Excused
      <3> QED
        BY <3>2, UnsentFact
    <2>11. ChecksHold'
      <3>1. ChecksKept
        BY <1>3, <1>6, <2>2 DEF ChecksKept, Finalize, Owns
      <3> QED
        BY <2>6, <3>1, ChecksKeptOK
    <2> QED
      BY <2>7, <2>8, <2>9, <2>10, <2>11 DEF PipelineInv
  <1> QED
    BY <1>4, <1>5, <1>6 DEF Finalize

\* mark_unknown keeps the invariant, whoever's attempt it ends.
LEMMA MarkStatusStep ==
  ASSUME PipelineInv, TypeOK', NEW t \in Tasks, MarkStatus(t)
  PROVE  PipelineInv'
  <1>1. TypeOK
    BY DEF PipelineInv
  <1>2. Leaves(t)
    BY <1>1, RequeueLeaves, EndLeaves DEF MarkStatus
  <1>3. tasks[t].post \in Posts
    BY <1>1 DEF MarkStatus, TypeOK
  <1>4. CASE rows[tasks[t].post].status = "in_progress" /\ SetStatus(tasks[t].post, "unknown")
    BY <1>2, <1>3, <1>4, LeavesAndSetsStep DEF MarkStatus
  <1>5. CASE UNCHANGED rows
    BY <1>2, <1>5, LeavesStep DEF MarkStatus
  <1> QED
    BY <1>4, <1>5 DEF MarkStatus

\* The time limits, a crash and a database error end the task or send it to its handler.
LEMMA InterruptStep ==
  ASSUME PipelineInv, TypeOK', NEW t \in Tasks,
         SoftTimeLimit(t) \/ DatabaseError(t) \/ Crash(t) \/ HardKill(t)
  PROVE  PipelineInv'
  <1>1. TypeOK
    BY DEF PipelineInv
  <1>2. "marking" \in TaskPC
    BY DEF TaskPC
  <1>3. Leaves(t)
    <2>1. CASE SoftTimeLimit(t)
      BY <1>1, <1>2, <2>1, GotoLeaves DEF SoftTimeLimit
    <2>2. CASE DatabaseError(t)
      BY <1>1, <2>2, ExceptionLeaves, EndLeaves DEF DatabaseError
    <2>3. CASE Crash(t) \/ HardKill(t)
      BY <1>1, <2>3, EndLeaves DEF Crash, HardKill
    <2> QED
      BY <2>1, <2>2, <2>3
  <1>4. UNCHANGED <<rows, requests, inflight, delivered, mishaps>>
    BY DEF SoftTimeLimit, DatabaseError, Crash, HardKill
  <1> QED
    BY <1>3, <1>4, LeavesStep

-----------------------------------------------------------------------------
(* The theorems *)

\* The invariant holds initially.
LEMMA PipelineInit == Init => PipelineInv
  <1> SUFFICES ASSUME Init PROVE PipelineInv
    OBVIOUS
  <1>1. TypeOK
    BY InitType
  <1>2. \A t \in Tasks : tasks[t].pc = "idle"
    BY DEF Init, IdleTask
  <1>3. \A r \in Requests : requests[r] = NoPost
    BY DEF Init
  <1>4. SentIsLast
    BY DEF Init, SentIsLast, Sent
  <1>5. HolderIsLast /\ OneHolder /\ UnsentIsUnsent
    BY <1>2 DEF HolderIsLast, OneHolder, UnsentIsUnsent, Holds, Unsent
  <1>6. ChecksHold
    BY <1>3 DEF ChecksHold, Requests
  <1> QED
    BY <1>1, <1>4, <1>5, <1>6 DEF PipelineInv

\* Every step keeps the invariant.
LEMMA PipelineStep ==
  ASSUME PipelineInv, [Next]_vars
  PROVE  PipelineInv'
  <1>1. TypeOK'
    BY TypeStep DEF PipelineInv
  <1>2. ASSUME NEW t \in Tasks, TaskStep(t) PROVE PipelineInv'
    BY <1>1, <1>2, ReadStep, RecoverStep, FailPendingStep, ClaimStep, ReloadStep, PrepareStep,
       PublishStep, AnswerStep, FinalizeStep, MarkStatusStep DEF TaskStep
  <1>3. ASSUME NEW t \in Tasks,
               SoftTimeLimit(t) \/ DatabaseError(t) \/ Crash(t) \/ HardKill(t)
        PROVE  PipelineInv'
    BY <1>1, <1>3, InterruptStep
  <1>4. ASSUME NEW r \in Creators, CreateInsert(r) \/ \E p \in Posts : CreateCheck(r, p)
        PROVE  PipelineInv'
    BY <1>1, <1>4, CreateInsertStep, CreateCheckStep
  <1>5. ASSUME NEW r \in Retriers, RetryWrite(r) \/ \E p \in Posts : RetryCheck(r, p)
        PROVE  PipelineInv'
    BY <1>1, <1>5, RetryWriteStep, RetryCheckStep
  <1>6. ASSUME NEW r \in Deleters, DeleteWrite(r) \/ \E p \in Posts : DeleteCheck(r, p)
        PROVE  PipelineInv'
    BY <1>1, <1>6, DeleteWriteStep, DeleteCheckStep
  <1>7. ASSUME NEW r \in Requests, Abandon(r) PROVE PipelineInv'
    BY <1>1, <1>7, AbandonStep
  <1>8. ASSUME NEW p \in Posts,
               ComesDue(p) \/ Dispatch(p) \/ Trigger(p) \/ Apply(p) \/ Reject(p)
        PROVE  PipelineInv'
    BY <1>1, <1>8, ComesDueStep, EnqueueStep, ProviderStep
  <1>9. ASSUME NEW c \in Channels,
               DisableCheck(c) \/ DisableCommit(c) \/ DisableRollback(c) \/ Enable(c)
        PROVE  PipelineInv'
    BY <1>1, <1>9, ChannelStep
  <1>10. CASE Tick
    BY <1>1, <1>10, TickStep
  <1>11. CASE UNCHANGED vars
    <2>1. RowsKeep /\ ChecksKept /\ Sent' = Sent /\ UNCHANGED <<tasks, mishaps>>
      BY <1>11, RowsSame DEF vars, Sent
    <2> QED
      BY <1>1, <2>1, ChecksKeptOK, SameKeeps, Quiet
  <1> QED
    BY <1>2, <1>3, <1>4, <1>5, <1>6, <1>7, <1>8, <1>9, <1>10, <1>11 DEF Next

\* The invariant that the claims, the fences and the checks keep.
THEOREM PipelineCorrect == Spec => []PipelineInv
  <1>1. Init => PipelineInv
    BY PipelineInit
  <1>2. PipelineInv /\ [Next]_vars => PipelineInv'
    BY PipelineStep
  <1> QED
    BY <1>1, <1>2, PTL DEF Spec

\* A post reaches the provider in one attempt at most, unless two retries of it
\* overlapped or an error status answered a request of it that was accepted.
THEOREM PublishedAtMostOnce == Spec => []AtMostOnce
  <1>1. PipelineInv => AtMostOnce
    <2> SUFFICES ASSUME PipelineInv, NEW x \in Sent, NEW y \in Sent, x[1] = y[1],
                        ~Excused(x[1])
                 PROVE  x = y
      BY DEF AtMostOnce
    <2>1. x[2] = y[2]
      BY DEF PipelineInv, SentIsLast
    <2> QED
      BY <2>1, SentTypes DEF PipelineInv
  <1> QED
    BY <1>1, PipelineCorrect, PTL

\* A post that failed, the only kind a user can retry, is not published and not about
\* to be, unless two retries of it overlapped or an error status answered a request of
\* it that was accepted.
THEOREM FailureIsDefinite == Spec => []FailedIsDefinite
  <1>1. PipelineInv => FailedIsDefinite
    BY DEF PipelineInv, SentIsLast, Attempted, FailedIsDefinite
  <1> QED
    BY <1>1, PipelineCorrect, PTL

\* What may become pending in one step.
LEMMA PendingComesFrom ==
  ASSUME PipelineInv, [Next]_vars, NEW p \in Posts,
         rows'[p].status = "pending", rows[p].status /= "pending"
  PROVE  rows[p].status \in {"absent", "failed"} \/ <<p, "overlap">> \in mishaps
  <1>1. TypeOK /\ ChecksHold
    BY DEF PipelineInv
  <1>2. ASSUME NEW q \in Posts, NEW s \in Status, s /= "pending", SetStatus(q, s) PROVE FALSE
    <2>1. \A x \in Posts : rows'[x] = IF x = q
            THEN [rows[q] EXCEPT !.status = s, !.age = 0] ELSE rows[x]
      BY <1>1, <1>2, SetStatusSets
    <2>2. rows'[q].status = s
      BY <1>1, <2>1, Types DEF Row
    <2> QED
      BY <1>2, <2>1, <2>2
  <1>3. ~UNCHANGED rows
    OBVIOUS
  <1>4. {"deleted", "unknown", "failed", "sent"} \subseteq Status
    BY DEF Status
  <1>5. ASSUME NEW r \in Creators, CreateInsert(r) PROVE rows[p].status = "absent"
    <2>1. requests[r] \in Posts
      BY <1>1, <1>5 DEF CreateInsert, TypeOK, Requests
    <2>2. p = requests[r]
      BY <1>1, <1>5, <2>1 DEF CreateInsert, TypeOK
    <2> QED
      BY <1>1, <1>5, <2>2 DEF CreateInsert, ChecksHold
  <1>6. ASSUME NEW r \in Retriers, RetryWrite(r)
        PROVE  rows[p].status = "failed" \/ <<p, "overlap">> \in mishaps
    <2>1. requests[r] \in Posts
      BY <1>1, <1>6 DEF RetryWrite, TypeOK, Requests
    <2>2. p = requests[r] /\ rows[p].status /= "deleted"
      BY <1>1, <1>3, <1>6, <2>1 DEF RetryWrite, TypeOK
    <2> QED
      BY <1>1, <1>6, <2>2 DEF RetryWrite, ChecksHold
  <1>7. ASSUME NEW r \in Deleters, DeleteWrite(r) PROVE FALSE
    <2>1. requests[r] \in Posts
      BY <1>1, <1>7 DEF DeleteWrite, TypeOK, Requests
    <2> QED
      BY <1>2, <1>4, <1>7, <2>1 DEF DeleteWrite
  <1>8. ASSUME \E q \in Posts : ComesDue(q) PROVE FALSE
    <2>1. PICK q \in Posts : ComesDue(q)
      BY <1>8
    <2>2. q = p
      BY <1>1, <2>1 DEF ComesDue, TypeOK
    <2> QED
      BY <2>1, <2>2 DEF ComesDue
  <1>9. ASSUME NEW t \in Tasks, TaskStep(t) PROVE FALSE
    <2>1. tasks[t].pc /= "idle" => tasks[t].post \in Posts
      BY <1>1 DEF TypeOK
    <2>2. CASE Recover(t) \/ FailPending(t) \/ MarkStatus(t)
      BY <1>2, <1>3, <1>4, <2>1, <2>2 DEF Recover, FailPending, MarkStatus
    <2>3. CASE Finalize(t)
      <3>1. tasks[t].result \in {"sent", "failed", "unknown"}
        BY <1>1, <2>3, Types DEF Finalize, TypeOK, Task
      <3> QED
        BY <1>2, <1>3, <1>4, <2>1, <2>3, <3>1 DEF Finalize
    <2>4. CASE Claim(t)
      <3>1. tasks[t].post \in Posts
        BY <2>1, <2>4 DEF Claim
      <3>2. rows'[tasks[t].post].status = "in_progress"
              /\ \A q \in Posts : q /= tasks[t].post => rows'[q] = rows[q]
        BY <1>1, <1>3, <2>4, <3>1, Types DEF Claim, TypeOK, Row
      <3> QED
        BY <3>1, <3>2
    <2> QED
      BY <1>3, <1>9, <2>2, <2>3, <2>4 DEF TaskStep, Start, Read, Reload, Prepare, Publish, Answer
  <1>10. ASSUME Tick PROVE FALSE
    BY <1>1, <1>10, Types DEF Tick, Row
  <1> QED
    BY <1>3, <1>5, <1>6, <1>7, <1>8, <1>9, <1>10 DEF Next, vars, CreateCheck, RetryCheck,
       DeleteCheck, Abandon, Dispatch, Trigger, Apply, Reject, DisableCheck, DisableCommit,
       DisableRollback, Enable, SoftTimeLimit, DatabaseError, Crash, HardKill

\* Only overlapping retries take a post back to pending that is being published, was
\* published, or may have been.
THEOREM OnlyOverlapRevives == Spec => RevivedOnlyByOverlap
  <1>1. PipelineInv /\ [Next]_vars
          => [\A p \in Posts :
                rows'[p].status = "pending"
                  /\ rows[p].status \notin {"pending", "absent", "failed"}
                => <<p, "overlap">> \in mishaps]_vars
    BY PendingComesFrom
  <1> QED
    BY <1>1, PipelineCorrect, PTL DEF Spec, RevivedOnlyByOverlap

=============================================================================
