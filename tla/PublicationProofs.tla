--------------------------- MODULE PublicationProofs ---------------------------
(***************************************************************************)
(* Theorems about Publication, for every value of its constants.  What is  *)
(* said of an attempt holds whatever requests race and whatever the        *)
(* provider means by an error: the lease of a row outlives the worker that *)
(* took it, and `sent` is the truth.                                       *)
(***************************************************************************)
EXTENDS Publication, TLAPS

-----------------------------------------------------------------------------
(* The steps that change one slot or one row keep the types. *)

\* A slot given a new content, and the others theirs.
LEMMA SlotSet ==
  ASSUME TypeOK, NEW t \in Tasks, NEW x \in Task, tasks' = [tasks EXCEPT ![t] = x]
  PROVE  /\ tasks' \in [Tasks -> Task]
         /\ \A u \in Tasks : tasks'[u] = IF u = t THEN x ELSE tasks[u]
  <1>1. tasks \in [Tasks -> Task]
    BY DEF TypeOK
  <1> QED
    BY <1>1

\* A row given a new content, and the others theirs.
LEMMA RowSet ==
  ASSUME TypeOK, NEW p \in Posts, NEW x \in Row, rows' = [rows EXCEPT ![p] = x]
  PROVE  /\ rows' \in [Posts -> Row]
         /\ \A q \in Posts : rows'[q] = IF q = p THEN x ELSE rows[q]
  <1>1. rows \in [Posts -> Row]
    BY DEF TypeOK
  <1> QED
    BY <1>1

\* The types of one slot and of one row.
LEMMA Types ==
  ASSUME TypeOK
  PROVE  /\ \A t \in Tasks : tasks[t] \in Task
         /\ \A p \in Posts : rows[p] \in Row
  BY DEF TypeOK

\* Zero is an age and a number of retries.
LEMMA Zero == 0 \in 0..HardLimit /\ 0 \in 0..MaxRetries /\ 0 \in 0..AgeCap
  BY LimitsAssumption, BoundsAssumption DEF AgeCap

\* An idle slot has the type of a slot.
LEMMA IdleTaskType == IdleTask \in Task
  <1>1. "idle" \in TaskPC
    BY DEF TaskPC
  <1>2. 0 \in 0..HardLimit /\ 0 \in 0..MaxRetries
    BY Zero
  <1> QED
    BY <1>1, <1>2 DEF IdleTask, Task

\* So has a new message.
LEMMA EnqueuedType ==
  ASSUME NEW p \in Posts, NEW n \in 0..MaxRetries
  PROVE  Enqueued(p, n) \in Task
  <1>1. "queued" \in TaskPC
    BY DEF TaskPC
  <1>2. 0 \in 0..HardLimit
    BY Zero
  <1> QED
    BY <1>1, <1>2 DEF Enqueued, IdleTask, Task

\* What End does to the slots.
LEMMA EndSets ==
  ASSUME TypeOK, NEW t \in Tasks, End(t)
  PROVE  /\ tasks' \in [Tasks -> Task]
         /\ \A u \in Tasks : tasks'[u] = IF u = t THEN IdleTask ELSE tasks[u]
  BY IdleTaskType, SlotSet DEF End

\* What Goto does to the slots.
LEMMA GotoSets ==
  ASSUME TypeOK, NEW t \in Tasks, NEW pc \in TaskPC, Goto(t, pc)
  PROVE  /\ tasks' \in [Tasks -> Task]
         /\ \A u \in Tasks : tasks'[u] = IF u = t THEN [tasks[t] EXCEPT !.pc = pc] ELSE tasks[u]
  <1>1. tasks' = [tasks EXCEPT ![t] = [tasks[t] EXCEPT !.pc = pc]]
    BY DEF TypeOK, Goto
  <1>2. [tasks[t] EXCEPT !.pc = pc] \in Task
    BY Types DEF Task
  <1> QED
    BY <1>1, <1>2, SlotSet

\* What Requeue does to the slots.
LEMMA RequeueSets ==
  ASSUME TypeOK, NEW t \in Tasks, tasks[t].pc /= "idle", Requeue(t)
  PROVE  /\ tasks' \in [Tasks -> Task]
         /\ \A u \in Tasks : tasks'[u] = IF u = t
              THEN Enqueued(tasks[t].post, tasks[t].retries + 1) ELSE tasks[u]
  <1>1. tasks' = [tasks EXCEPT ![t] = Enqueued(tasks[t].post, tasks[t].retries + 1)]
    BY DEF TypeOK, Requeue
  <1>2. tasks[t].post \in Posts
    BY DEF TypeOK
  <1>3. tasks[t].retries + 1 \in 0..MaxRetries
    BY Types, BoundsAssumption DEF Task, Requeue
  <1> QED
    BY <1>1, <1>2, <1>3, EnqueuedType, SlotSet

\* What Enqueue does to the slots.
LEMMA EnqueueSets ==
  ASSUME TypeOK, NEW p \in Posts, Enqueue(p)
  PROVE  /\ tasks' \in [Tasks -> Task]
         /\ \E t \in Tasks : /\ tasks[t].pc = "idle"
                             /\ \A u \in Tasks : tasks'[u] = IF u = t
                                  THEN Enqueued(p, 0) ELSE tasks[u]
  <1>1. PICK t \in Tasks : /\ tasks[t].pc = "idle"
                           /\ tasks' = [tasks EXCEPT ![t] = Enqueued(p, 0)]
    BY DEF Enqueue
  <1>2. 0 \in 0..MaxRetries
    BY BoundsAssumption
  <1> QED
    BY <1>1, <1>2, EnqueuedType, SlotSet

\* What SetStatus does to the rows.
LEMMA SetStatusSets ==
  ASSUME TypeOK, NEW p \in Posts, NEW s \in Status, SetStatus(p, s)
  PROVE  /\ rows' \in [Posts -> Row]
         /\ \A q \in Posts : rows'[q] = IF q = p
              THEN [rows[p] EXCEPT !.status = s, !.age = 0] ELSE rows[q]
  <1>1. rows' = [rows EXCEPT ![p] = [rows[p] EXCEPT !.status = s, !.age = 0]]
    BY DEF TypeOK, SetStatus
  <1>2. [rows[p] EXCEPT !.status = s, !.age = 0] \in Row
    BY Types, Zero DEF Row
  <1> QED
    BY <1>1, <1>2, RowSet

-----------------------------------------------------------------------------
(* Type correctness *)

\* The types hold initially.
LEMMA InitType == Init => TypeOK
  <1> SUFFICES ASSUME Init PROVE TypeOK
    OBVIOUS
  <1>1. [status |-> "absent", attempt |-> 0, owner |-> NoTask, age |-> 0, due |-> FALSE] \in Row
    BY Zero DEF Row, Status
  <1>2. rows \in [Posts -> Row]
    BY <1>1 DEF Init
  <1>3. tasks \in [Tasks -> Task]
    BY IdleTaskType DEF Init
  <1>4. \A t \in Tasks : tasks[t].pc = "idle"
    BY DEF Init, IdleTask
  <1>5. faults \in 0..MaxFaults
    BY BoundsAssumption DEF Init
  <1> QED
    BY <1>2, <1>3, <1>4, <1>5 DEF Init, TypeOK

\* The part of TypeOK that speaks of tasks, for a step that sets one slot.
TasksOK ==
    /\ tasks \in [Tasks -> Task]
    /\ \A t \in Tasks : tasks[t].pc /= "idle" => tasks[t].post \in Posts
    /\ \A t \in Tasks : tasks[t].pc \in {"conclude", "finalize"} => tasks[t].result /= "none"

\* x is what one slot becomes.
LEMMA SlotOK ==
  ASSUME TypeOK, NEW t \in Tasks, NEW x \in Task,
         tasks' \in [Tasks -> Task],
         \A u \in Tasks : tasks'[u] = IF u = t THEN x ELSE tasks[u],
         x.pc /= "idle" => x.post \in Posts,
         x.pc \in {"conclude", "finalize"} => x.result /= "none"
  PROVE  TasksOK'
  <1>1. \A u \in Tasks : tasks'[u].pc /= "idle" => tasks'[u].post \in Posts
    BY DEF TypeOK
  <1>2. \A u \in Tasks :
          tasks'[u].pc \in {"conclude", "finalize"} => tasks'[u].result /= "none"
    BY DEF TypeOK
  <1> QED
    BY <1>1, <1>2 DEF TasksOK

\* End keeps what TypeOK says of the slots,
LEMMA EndOK ==
  ASSUME TypeOK, NEW t \in Tasks, End(t)
  PROVE  TasksOK'
  BY EndSets, IdleTaskType, SlotOK DEF IdleTask

\* so does Goto, except to a conclusion,
LEMMA GotoOK ==
  ASSUME TypeOK, NEW t \in Tasks, tasks[t].pc /= "idle",
         NEW pc \in TaskPC, pc \notin {"conclude", "finalize"}, Goto(t, pc)
  PROVE  TasksOK'
  <1> DEFINE x == [tasks[t] EXCEPT !.pc = pc]
  <1>1. x \in Task /\ x.pc = pc /\ x.post = tasks[t].post
    BY Types DEF Task
  <1>2. tasks[t].post \in Posts
    BY DEF TypeOK
  <1> HIDE DEF x
  <1>3. /\ tasks' \in [Tasks -> Task]
        /\ \A u \in Tasks : tasks'[u] = IF u = t THEN x ELSE tasks[u]
    BY GotoSets DEF x
  <1> QED
    BY <1>1, <1>2, <1>3, SlotOK

\* Outcome, which brings the result,
LEMMA OutcomeOK ==
  ASSUME TypeOK, NEW t \in Tasks, tasks[t].pc /= "idle", NEW pc \in TaskPC,
         NEW result \in {"sent", "failed", "unknown"}, Outcome(t, pc, result)
  PROVE  TasksOK'
  <1> DEFINE x == [tasks[t] EXCEPT !.pc = pc, !.result = result]
  <1>1. x \in Task /\ x.post = tasks[t].post /\ x.result /= "none"
    BY Types DEF Task
  <1>2. tasks[t].post \in Posts
    BY DEF TypeOK
  <1>3. tasks' = [tasks EXCEPT ![t] = x]
    BY DEF TypeOK, Outcome
  <1> HIDE DEF x
  <1>4. /\ tasks' \in [Tasks -> Task]
        /\ \A u \in Tasks : tasks'[u] = IF u = t THEN x ELSE tasks[u]
    BY <1>1, <1>3, SlotSet
  <1> QED
    BY <1>1, <1>2, <1>4, SlotOK

\* (the fields of a new message)
LEMMA EnqueuedFields ==
  ASSUME NEW p, NEW n
  PROVE  /\ Enqueued(p, n).pc = "queued"
         /\ Enqueued(p, n).post = p
         /\ Enqueued(p, n).result = "none"
         /\ Enqueued(p, n).attempt = 0
         /\ Enqueued(p, n).age = 0
  BY DEF Enqueued, IdleTask

\* Requeue,
LEMMA RequeueOK ==
  ASSUME TypeOK, NEW t \in Tasks, tasks[t].pc /= "idle", Requeue(t)
  PROVE  TasksOK'
  <1> DEFINE x == Enqueued(tasks[t].post, tasks[t].retries + 1)
  <1>1. tasks[t].post \in Posts
    BY DEF TypeOK
  <1>2. tasks[t].retries + 1 \in 0..MaxRetries
    BY Types, BoundsAssumption DEF Task, Requeue
  <1>3. x \in Task /\ x.pc = "queued" /\ x.post \in Posts
    BY <1>1, <1>2, EnqueuedType, EnqueuedFields
  <1> HIDE DEF x
  <1>4. /\ tasks' \in [Tasks -> Task]
        /\ \A u \in Tasks : tasks'[u] = IF u = t THEN x ELSE tasks[u]
    BY RequeueSets DEF x
  <1> QED
    BY <1>3, <1>4, SlotOK

\* Enqueue,
LEMMA EnqueueOK ==
  ASSUME TypeOK, NEW p \in Posts, Enqueue(p)
  PROVE  TasksOK'
  <1>1. PICK t \in Tasks : \A u \in Tasks : tasks'[u] = IF u = t THEN Enqueued(p, 0) ELSE tasks[u]
    BY EnqueueSets
  <1>2. Enqueued(p, 0) \in Task
    BY Zero, EnqueuedType
  <1>3. tasks' \in [Tasks -> Task]
    BY EnqueueSets
  <1> QED
    BY <1>1, <1>2, <1>3, EnqueuedFields, SlotOK

\* and Exception.
LEMMA ExceptionOK ==
  ASSUME TypeOK, NEW t \in Tasks, tasks[t].pc /= "idle", Exception(t)
  PROVE  TasksOK'
  <1>1. "marking" \in TaskPC
    BY DEF TaskPC
  <1> QED
    BY <1>1, RequeueOK, GotoOK, EndOK DEF Exception

\* Nothing that TypeOK speaks of is touched but tasks (and what is counted or recorded).
LEMMA TasksStepOK ==
  ASSUME TypeOK, TasksOK', faults' \in 0..MaxFaults, mishaps' \subseteq Posts \X Cause,
         UNCHANGED <<rows, active, disabling, requests, inflight, delivered>>
  PROVE  TypeOK'
  BY DEF TypeOK, TasksOK

\* A row gets a status (or nothing changes) and the task ends.
LEMMA SetAndEndOK ==
  ASSUME TypeOK, NEW t \in Tasks, NEW p \in Posts, NEW s \in Status,
         SetStatus(p, s) \/ UNCHANGED rows, TasksOK',
         UNCHANGED <<active, disabling, requests, inflight, delivered, faults, mishaps>>
  PROVE  TypeOK'
  <1>1. rows' \in [Posts -> Row]
    BY SetStatusSets DEF TypeOK
  <1> QED
    BY <1>1 DEF TypeOK, TasksOK

\* The number of faults stays within its bound.
LEMMA FaultType == ASSUME TypeOK, Fault PROVE faults' \in 0..MaxFaults
  BY BoundsAssumption DEF TypeOK, Fault

\* A request's slot given a new post, and the others theirs.
LEMMA RequestStep ==
  ASSUME TypeOK, NEW r \in Requests, NEW p \in Posts \cup {NoPost},
         requests' = [requests EXCEPT ![r] = p]
  PROVE  /\ requests' \in [Requests -> Posts \cup {NoPost}]
         /\ \A q \in Requests : requests'[q] = IF q = r THEN p ELSE requests[q]
  BY DEF TypeOK

\* One step of a worker keeps the types.
LEMMA TaskStepType ==
  ASSUME TypeOK, NEW t \in Tasks, TaskStep(t)
  PROVE  TypeOK'
  <1>pc. {"read", "recover", "fail_pending", "claim", "reload", "prepare", "publish", "await",
          "conclude", "finalize", "marking"} \subseteq TaskPC
    BY DEF TaskPC
  <1>status. {"pending", "deleted", "unknown", "failed", "sent", "in_progress"} \subseteq Status
    BY DEF Status
  <1>faults. faults \in 0..MaxFaults /\ mishaps \subseteq Posts \X Cause
    BY DEF TypeOK
  <1>post. tasks[t].pc /= "idle" => tasks[t].post \in Posts
    BY DEF TypeOK
  <1>1. CASE Start(t)
    BY <1>1, <1>pc, <1>faults, GotoOK, TasksStepOK DEF Start
  <1>2. CASE Read(t)
    <2>1. Goto(t, "recover") \/ Goto(t, "fail_pending") \/ Goto(t, "claim")
            \/ Exception(t) \/ End(t)
      BY <1>2 DEF Read
    <2>2. tasks[t].pc /= "idle"
      BY <1>2 DEF Read
    <2>3. TasksOK'
      BY <2>1, <2>2, <1>pc, GotoOK, ExceptionOK, EndOK
    <2> QED
      BY <1>2, <2>3, <1>faults, TasksStepOK DEF Read
  <1>3. CASE Recover(t)
    <2>1. tasks[t].post \in Posts /\ TasksOK'
      BY <1>3, <1>post, EndOK DEF Recover
    <2>2. SetStatus(tasks[t].post, "unknown") \/ UNCHANGED rows
      BY <1>3 DEF Recover
    <2> QED
      BY <1>3, <2>1, <2>2, <1>status, SetAndEndOK DEF Recover
  <1>4. CASE FailPending(t)
    <2>1. tasks[t].post \in Posts /\ TasksOK'
      BY <1>4, <1>post, EndOK DEF FailPending
    <2>2. SetStatus(tasks[t].post, "failed") \/ UNCHANGED rows
      BY <1>4 DEF FailPending
    <2> QED
      BY <1>4, <2>1, <2>2, <1>status, SetAndEndOK DEF FailPending
  <1>5. CASE Claim(t)
    <2> DEFINE p == tasks[t].post
               a == rows[p].attempt + 1
               row == [rows[p] EXCEPT !.status = "in_progress", !.attempt = a,
                                      !.owner = t, !.age = tasks[t].age]
               x == [tasks[t] EXCEPT !.pc = "reload", !.attempt = a]
    <2>1. p \in Posts
      BY <1>5, <1>post DEF Claim
    <2>2. a \in Nat
      BY <2>1, Types DEF Row
    <2>3. CASE rows' = [rows EXCEPT ![p] = row] /\ tasks' = [tasks EXCEPT ![t] = x]
      <3>1. tasks[t].age \in 0..AgeCap
        BY Types, LimitsAssumption DEF Task, AgeCap
      <3>2. row \in Row
        BY <2>1, <2>2, <3>1, <1>status, Types DEF Row
      <3>3. x \in Task /\ x.pc = "reload" /\ x.post = p
        BY <2>2, <1>pc, Types DEF Task
      <3> HIDE DEF row, x
      <3>4. rows' \in [Posts -> Row]
        BY <2>1, <2>3, <3>2, RowSet
      <3>5. TasksOK'
        BY <2>1, <2>3, <3>3, SlotSet, SlotOK
      <3> QED
        BY <1>5, <3>4, <3>5 DEF Claim, TypeOK, TasksOK
    <2>4. CASE UNCHANGED rows /\ End(t)
      BY <1>5, <2>4, <1>faults, EndOK, TasksStepOK DEF Claim
    <2> QED
      BY <1>5, <2>3, <2>4 DEF Claim, TypeOK
  <1>6. CASE Reload(t)
    BY <1>6, <1>pc, <1>faults, GotoOK, EndOK, TasksStepOK DEF Reload
  <1>7. CASE Prepare(t)
    BY <1>7, <1>pc, <1>faults, GotoOK, OutcomeOK, TasksStepOK DEF Prepare
  <1>8. CASE Publish(t)
    <2>1. TasksOK'
      BY <1>8, <1>pc, GotoOK DEF Publish
    <2>2. Attempt(t) \in Posts \X Nat
      BY <1>8, <1>post, Types DEF Publish, Attempt, Task
    <2> QED
      BY <1>8, <2>1, <2>2 DEF Publish, TypeOK, TasksOK
  <1>9. CASE Answer(t)
    <2>1. TasksOK'
      BY <1>9, <1>pc, OutcomeOK DEF Answer
    <2>2. mishaps' = mishaps \/ mishaps' = mishaps \cup {<<tasks[t].post, "false_error">>}
      BY <1>9 DEF Answer
    <2>3. <<tasks[t].post, "false_error">> \in Posts \X Cause
      BY <1>9, <1>post DEF Answer, Cause
    <2>4. mishaps' \subseteq Posts \X Cause
      BY <2>2, <2>3, <1>faults
    <2> QED
      BY <1>9, <2>1, <2>4, <1>faults, TasksStepOK DEF Answer
  <1>10. CASE Finalize(t)
    <2>1. tasks[t].post \in Posts /\ TasksOK'
      BY <1>10, <1>post, EndOK DEF Finalize
    <2>2. tasks[t].result \in {"none", "sent", "failed", "unknown"}
      BY Types DEF Task
    <2>3. tasks[t].result \in Status
      BY <1>10, <2>2, <1>status DEF Finalize, TypeOK
    <2>4. SetStatus(tasks[t].post, tasks[t].result) \/ UNCHANGED rows
      BY <1>10 DEF Finalize
    <2> QED
      BY <1>10, <2>1, <2>3, <2>4, SetAndEndOK DEF Finalize
  <1>11. CASE MarkStatus(t)
    <2>1. tasks[t].post \in Posts /\ TasksOK'
      BY <1>11, <1>post, RequeueOK, EndOK DEF MarkStatus
    <2>2. SetStatus(tasks[t].post, "unknown") \/ UNCHANGED rows
      BY <1>11 DEF MarkStatus
    <2> QED
      BY <1>11, <2>1, <2>2, <1>status, SetAndEndOK DEF MarkStatus
  <1> QED
    BY <1>1, <1>2, <1>3, <1>4, <1>5, <1>6, <1>7, <1>8, <1>9, <1>10, <1>11 DEF TaskStep

\* Time keeps the types: ages stop at their caps, and no task outlives its limit.
LEMMA TickType == TypeOK /\ Tick => TypeOK'
  <1> SUFFICES ASSUME TypeOK, Tick PROVE TypeOK'
    OBVIOUS
  <1>1. \A t \in Tasks : Running(t) => tasks[t].age + 1 \in 0..HardLimit
    BY Types, LimitsAssumption DEF Tick, Task
  <1>2. \A t \in Tasks : tasks'[t] \in Task /\ tasks'[t].pc = tasks[t].pc
          /\ tasks'[t].post = tasks[t].post /\ tasks'[t].result = tasks[t].result
    BY <1>1, Types DEF Tick, Task
  <1>3. tasks' \in [Tasks -> Task]
    <2>1. tasks' = [t \in Tasks |-> tasks'[t]]
      BY DEF Tick
    <2> QED
      BY <1>2, <2>1
  <1>4. \A p \in Posts : rows[p].age < AgeCap => rows[p].age + 1 \in 0..AgeCap
    BY Types, LimitsAssumption DEF AgeCap, Row
  <1>5. \A p \in Posts : rows'[p] \in Row
    BY <1>4, Types DEF Tick, Row
  <1>6. rows' \in [Posts -> Row]
    <2>1. rows' = [p \in Posts |-> rows'[p]]
      BY DEF Tick
    <2> QED
      BY <1>5, <2>1
  <1> QED
    BY <1>2, <1>3, <1>6 DEF Tick, TypeOK

\* Every step keeps the types.
LEMMA TypeStep == TypeOK /\ [Next]_vars => TypeOK'
  <1> SUFFICES ASSUME TypeOK, [Next]_vars PROVE TypeOK'
    OBVIOUS
  <1> USE DEF Requests
  <1>status. {"pending", "deleted", "unknown", "failed", "sent", "in_progress"} \subseteq Status
    BY DEF Status
  <1>request. ASSUME NEW r \in Requests, requests[r] /= NoPost PROVE requests[r] \in Posts
    BY <1>request DEF TypeOK
  <1>1. ASSUME NEW r \in Creators, NEW p \in Posts, CreateCheck(r, p) PROVE TypeOK'
    BY <1>1 DEF TypeOK, CreateCheck
  <1>2. ASSUME NEW r \in Creators, CreateInsert(r) PROVE TypeOK'
    <2> DEFINE p == requests[r]
    <2>1. p \in Posts
      BY <1>2, <1>request DEF CreateInsert
    <2>2. PICK d \in BOOLEAN :
            rows' = [rows EXCEPT ![p] = [rows[p] EXCEPT !.status = "pending", !.due = d]]
      BY <1>2, <2>1 DEF CreateInsert, TypeOK
    <2>3. [rows[p] EXCEPT !.status = "pending", !.due = d] \in Row
      BY <2>1, <1>status, Types DEF Row
    <2>4. rows' \in [Posts -> Row]
      BY <2>1, <2>2, <2>3, RowSet
    <2> QED
      BY <1>2, <2>4 DEF CreateInsert, TypeOK
  <1>3. ASSUME NEW r \in Retriers, NEW p \in Posts, RetryCheck(r, p) PROVE TypeOK'
    <2>1. mishaps' \subseteq mishaps \cup {<<p, "overlap">>}
      BY <1>3 DEF RetryCheck
    <2>2. <<p, "overlap">> \in Posts \X Cause
      BY DEF Cause
    <2>3. mishaps' \subseteq Posts \X Cause
      BY <2>1, <2>2 DEF TypeOK
    <2> QED
      BY <1>3, <2>3 DEF TypeOK, RetryCheck
  <1>4. ASSUME NEW r \in Retriers, RetryWrite(r) PROVE TypeOK'
    <2> DEFINE p == requests[r]
    <2>1. p \in Posts
      BY <1>4, <1>request DEF RetryWrite
    <2>2. \/ UNCHANGED rows
          \/ rows' = [rows EXCEPT ![p] = [rows[p] EXCEPT !.status = "pending"]]
      BY <1>4, <2>1 DEF RetryWrite, TypeOK
    <2>3. [rows[p] EXCEPT !.status = "pending"] \in Row
      BY <2>1, <1>status, Types DEF Row
    <2>4. rows' \in [Posts -> Row]
      BY <2>1, <2>2, <2>3, RowSet DEF TypeOK
    <2> QED
      BY <1>4, <2>4 DEF RetryWrite, TypeOK
  <1>5. ASSUME NEW r \in Deleters, NEW p \in Posts, DeleteCheck(r, p) PROVE TypeOK'
    BY <1>5 DEF TypeOK, DeleteCheck
  <1>6. ASSUME NEW r \in Deleters, DeleteWrite(r) PROVE TypeOK'
    <2>1. requests[r] \in Posts
      BY <1>6, <1>request DEF DeleteWrite
    <2>2. rows' \in [Posts -> Row]
      BY <1>6, <2>1, <1>status, SetStatusSets DEF DeleteWrite
    <2> QED
      BY <1>6, <2>2 DEF DeleteWrite, TypeOK
  <1>7. ASSUME NEW r \in Requests, Abandon(r) PROVE TypeOK'
    BY <1>7 DEF TypeOK, Abandon
  <1>8. ASSUME NEW p \in Posts, ComesDue(p) PROVE TypeOK'
    <2>1. rows' = [rows EXCEPT ![p] = [rows[p] EXCEPT !.due = TRUE]]
      BY <1>8 DEF ComesDue, TypeOK
    <2>2. [rows[p] EXCEPT !.due = TRUE] \in Row
      BY Types DEF Row
    <2>3. rows' \in [Posts -> Row]
      BY <2>1, <2>2, RowSet
    <2> QED
      BY <1>8, <2>3 DEF ComesDue, TypeOK
  <1>9. ASSUME NEW p \in Posts, Dispatch(p) PROVE TypeOK'
    BY <1>9, EnqueueOK, TasksStepOK DEF Dispatch, TypeOK
  <1>10. ASSUME NEW p \in Posts, Trigger(p) PROVE TypeOK'
    BY <1>10, EnqueueOK, TasksStepOK DEF Trigger, TypeOK
  <1>11. ASSUME NEW p \in Posts, Apply(p) PROVE TypeOK'
    BY <1>11 DEF TypeOK, Apply
  <1>12. ASSUME NEW p \in Posts, Reject(p) PROVE TypeOK'
    BY <1>12 DEF TypeOK, Reject
  <1>13. ASSUME NEW c \in Channels, DisableCheck(c) \/ DisableRollback(c) PROVE TypeOK'
    BY <1>13 DEF TypeOK, DisableCheck, DisableRollback
  <1>14. ASSUME NEW c \in Channels, DisableCommit(c) \/ Enable(c) PROVE TypeOK'
    BY <1>14 DEF TypeOK, DisableCommit, Enable
  <1>15. ASSUME NEW t \in Tasks, TaskStep(t) PROVE TypeOK'
    BY <1>15, TaskStepType
  <1>16. ASSUME NEW t \in Tasks, SoftTimeLimit(t) PROVE TypeOK'
    <2>1. "marking" \in TaskPC
      BY DEF TaskPC
    <2> QED
      BY <1>16, <2>1, GotoOK, TasksStepOK DEF SoftTimeLimit, Running, TypeOK
  <1>17. ASSUME NEW t \in Tasks, DatabaseError(t) PROVE TypeOK'
    BY <1>17, ExceptionOK, EndOK, FaultType, TasksStepOK DEF DatabaseError, TypeOK
  <1>18. ASSUME NEW t \in Tasks, Crash(t) PROVE TypeOK'
    BY <1>18, EndOK, FaultType, TasksStepOK DEF Crash, TypeOK
  <1>19. ASSUME NEW t \in Tasks, HardKill(t) PROVE TypeOK'
    BY <1>19, EndOK, TasksStepOK DEF HardKill, TypeOK
  <1>20. CASE Tick
    BY <1>20, TickType
  <1>21. CASE UNCHANGED vars
    BY <1>21 DEF TypeOK, vars
  <1> QED
    BY <1>1, <1>2, <1>3, <1>4, <1>5, <1>6, <1>7, <1>8, <1>9, <1>10, <1>11, <1>12, <1>13,
       <1>14, <1>15, <1>16, <1>17, <1>18, <1>19, <1>20, <1>21 DEF Next

\* The types hold in every reachable state.
THEOREM TypeCorrect == Spec => []TypeOK
  <1>1. Init => TypeOK
    BY InitType
  <1>2. TypeOK /\ [Next]_vars => TypeOK'
    BY TypeStep
  <1> QED
    BY <1>1, <1>2, PTL DEF Spec

-----------------------------------------------------------------------------
(* An attempt, whatever races *)

\* The lease is as old as the task that took it, as long as the task owns the row.
LeaseAge ==
    \A t \in Tasks :
      Holds(t) /\ Owns(t, tasks[t].post) => rows[tasks[t].post].age = tasks[t].age

\* A task that is about to record `sent` has the provider's word for it.
SentAnswer ==
    \A t \in Tasks :
      tasks[t].pc \in {"conclude", "finalize"} /\ tasks[t].result = "sent"
        => Attempt(t) \in delivered

AttemptInv ==
    /\ TypeOK
    /\ LeaseAge
    /\ SentAnswer
    /\ SentWasDelivered

-----------------------------------------------------------------------------
(* What most steps do to a row and to a slot *)

\* Row p is the same, but for its due date, or is not in progress after the step, and
\* sent only if it was.
RowFine(p) ==
    /\ rows'[p].status = "in_progress" =>
         /\ rows[p].status = "in_progress"
         /\ rows'[p].owner = rows[p].owner
         /\ rows'[p].attempt = rows[p].attempt
         /\ rows'[p].age = rows[p].age
    /\ rows'[p].status = "sent" =>
         <<p, rows'[p].attempt>> \in delivered

\* Task t holds, after the step, what it held and is as old; and says `sent` only if the
\* provider did.
SlotFine(t) ==
    /\ Holds(t)' =>
         /\ Holds(t)
         /\ tasks'[t].post = tasks[t].post
         /\ tasks'[t].attempt = tasks[t].attempt
         /\ tasks'[t].age = tasks[t].age
    /\ tasks'[t].pc \in {"conclude", "finalize"} /\ tasks'[t].result = "sent"
         => Attempt(t)' \in delivered

\* A step after which every row and slot is fine keeps AttemptInv.
LEMMA FineStep ==
  ASSUME AttemptInv, TypeOK', delivered \subseteq delivered',
         \A p \in Posts : RowFine(p), \A t \in Tasks : SlotFine(t)
  PROVE  AttemptInv'
  <1>1. LeaseAge'
    <2> SUFFICES ASSUME NEW t \in Tasks, Holds(t)', Owns(t, tasks[t].post)'
                 PROVE  rows'[tasks'[t].post].age = tasks'[t].age
      BY DEF LeaseAge
    <2>1. /\ Holds(t)
          /\ tasks'[t].post = tasks[t].post
          /\ tasks'[t].attempt = tasks[t].attempt
          /\ tasks'[t].age = tasks[t].age
      BY DEF SlotFine
    <2>2. tasks[t].post \in Posts
      BY <2>1 DEF AttemptInv, TypeOK, Holds
    <2>3. Owns(t, tasks[t].post) /\ rows'[tasks[t].post].age = rows[tasks[t].post].age
      BY <2>1, <2>2 DEF Owns, RowFine
    <2> QED
      BY <2>1, <2>3 DEF AttemptInv, LeaseAge
  <1>2. SentAnswer'
    BY DEF SentAnswer, SlotFine
  <1>3. SentWasDelivered'
    BY DEF SentWasDelivered, RowFine
  <1> QED
    BY <1>1, <1>2, <1>3 DEF AttemptInv

\* Rows that a step leaves alone.
LEMMA RowSame ==
  ASSUME AttemptInv, NEW p \in Posts, rows'[p] = rows[p]
  PROVE  RowFine(p)
  BY DEF AttemptInv, SentWasDelivered, RowFine

\* Slots that a step leaves alone.
LEMMA SlotSame ==
  ASSUME AttemptInv, NEW t \in Tasks, tasks'[t] = tasks[t]
  PROVE  SlotFine(t)
  BY DEF AttemptInv, SentAnswer, SlotFine, Holds, Attempt

\* A row that leaves in_progress is fine, if `sent` is the truth.
LEMMA SetStatusFine ==
  ASSUME AttemptInv, NEW p \in Posts, NEW s \in Status \ {"in_progress"},
         SetStatus(p, s), s = "sent" => <<p, rows[p].attempt>> \in delivered
  PROVE  \A q \in Posts : RowFine(q)
  <1>1. \A q \in Posts : rows'[q] = IF q = p
          THEN [rows[p] EXCEPT !.status = s, !.age = 0] ELSE rows[q]
    BY SetStatusSets DEF AttemptInv
  <1>2. rows'[p].status = s /\ rows'[p].attempt = rows[p].attempt
    BY <1>1, Types DEF AttemptInv, Row
  <1>3. RowFine(p)
    BY <1>2 DEF RowFine
  <1> QED
    BY <1>1, <1>3, RowSame

\* A slot that comes to hold nothing.
LEMMA FreeSlotFine ==
  ASSUME AttemptInv, NEW t \in Tasks, ~Holds(t)',
         \A u \in Tasks : u /= t => tasks'[u] = tasks[u]
  PROVE  \A u \in Tasks : SlotFine(u)
  <1>1. SlotFine(t)
    BY DEF SlotFine, Holds
  <1> QED
    BY <1>1, SlotSame

\* A task that ends is fine,
LEMMA EndFine ==
  ASSUME AttemptInv, NEW t \in Tasks, End(t)
  PROVE  \A u \in Tasks : SlotFine(u)
  <1>1. IdleTask.pc = "idle"
    BY DEF IdleTask
  <1>2. \A u \in Tasks : tasks'[u] = IF u = t THEN IdleTask ELSE tasks[u]
    BY EndSets DEF AttemptInv
  <1> QED
    BY <1>1, <1>2, FreeSlotFine DEF Holds

\* so is one that goes on with what it holds,
LEMMA GotoFine ==
  ASSUME AttemptInv, NEW t \in Tasks, NEW pc \in TaskPC, pc \notin {"conclude", "finalize"},
         pc \in {"prepare", "publish", "await"} => Holds(t), pc /= "reload", Goto(t, pc)
  PROVE  \A u \in Tasks : SlotFine(u)
  <1>1. \A u \in Tasks : tasks'[u] = IF u = t THEN [tasks[t] EXCEPT !.pc = pc] ELSE tasks[u]
    BY GotoSets DEF AttemptInv
  <1>2. /\ tasks'[t].pc = pc
        /\ tasks'[t].post = tasks[t].post
        /\ tasks'[t].attempt = tasks[t].attempt
        /\ tasks'[t].age = tasks[t].age
    BY <1>1, Types DEF AttemptInv, Task
  <1>3. SlotFine(t)
    BY <1>2 DEF SlotFine, Holds
  <1> QED
    BY <1>1, <1>3, SlotSame

\* one that takes a truthful outcome,
LEMMA OutcomeFine ==
  ASSUME AttemptInv, NEW t \in Tasks, NEW pc, NEW result, Holds(t), Outcome(t, pc, result),
         result = "sent" => Attempt(t) \in delivered
  PROVE  \A u \in Tasks : SlotFine(u)
  <1>1. tasks' = [tasks EXCEPT ![t] = [tasks[t] EXCEPT !.pc = pc, !.result = result]]
    BY DEF AttemptInv, TypeOK, Outcome
  <1>2. \A u \in Tasks : tasks'[u] = IF u = t
          THEN [tasks[t] EXCEPT !.pc = pc, !.result = result] ELSE tasks[u]
    BY <1>1 DEF AttemptInv, TypeOK
  <1>3. /\ tasks'[t].result = result
        /\ tasks'[t].post = tasks[t].post
        /\ tasks'[t].attempt = tasks[t].attempt
        /\ tasks'[t].age = tasks[t].age
    BY <1>2, Types DEF AttemptInv, Task
  <1>4. SlotFine(t)
    BY <1>3 DEF SlotFine, Attempt
  <1> QED
    BY <1>2, <1>4, SlotSame

\* one that is queued again,
LEMMA RequeueFine ==
  ASSUME AttemptInv, NEW t \in Tasks, tasks[t].pc /= "idle", Requeue(t)
  PROVE  \A u \in Tasks : SlotFine(u)
  <1>1. \A u \in Tasks : tasks'[u] = IF u = t
          THEN Enqueued(tasks[t].post, tasks[t].retries + 1) ELSE tasks[u]
    BY RequeueSets DEF AttemptInv
  <1>2. tasks'[t].pc = "queued"
    BY <1>1, EnqueuedFields
  <1> QED
    BY <1>1, <1>2, FreeSlotFine DEF Holds

\* and one that handles an exception.
LEMMA ExceptionFine ==
  ASSUME AttemptInv, NEW t \in Tasks, tasks[t].pc /= "idle", Exception(t)
  PROVE  \A u \in Tasks : SlotFine(u)
  <1>1. "marking" \in TaskPC
    BY DEF TaskPC
  <1> QED
    BY <1>1, RequeueFine, GotoFine, EndFine DEF Exception

-----------------------------------------------------------------------------
(* The steps *)

\* Slots change, the rest does not.
LEMMA SlotsStep ==
  ASSUME AttemptInv, TypeOK', \A t \in Tasks : SlotFine(t), UNCHANGED <<rows, delivered>>
  PROVE  AttemptInv'
  BY RowSame, FineStep

\* Rows change, the rest does not.
LEMMA RowsStep ==
  ASSUME AttemptInv, TypeOK', \A p \in Posts : RowFine(p), UNCHANGED <<tasks, delivered>>
  PROVE  AttemptInv'
  BY SlotSame, FineStep

\* No API request starts an attempt or says that a post is sent.
LEMMA RequestsStep ==
  ASSUME AttemptInv, TypeOK', NEW r \in Requests,
         \/ CreateInsert(r) \/ \E p \in Posts : CreateCheck(r, p)
         \/ RetryWrite(r) \/ \E p \in Posts : RetryCheck(r, p)
         \/ DeleteWrite(r) \/ \E p \in Posts : DeleteCheck(r, p)
         \/ Abandon(r)
  PROVE  AttemptInv'
  <1> DEFINE p == requests[r]
  <1>1. p /= NoPost => p \in Posts
    BY DEF AttemptInv, TypeOK
  <1>2. UNCHANGED <<tasks, delivered>>
    BY DEF CreateInsert, CreateCheck, RetryWrite, RetryCheck, DeleteWrite, DeleteCheck, Abandon
  <1>3. CASE UNCHANGED rows
    BY <1>2, <1>3, RowSame, RowsStep
  <1>4. CASE CreateInsert(r)
    <2>1. PICK d \in BOOLEAN :
            rows' = [rows EXCEPT ![p] = [rows[p] EXCEPT !.status = "pending", !.due = d]]
      BY <1>1, <1>4 DEF CreateInsert, AttemptInv, TypeOK
    <2>2. rows'[p].status = "pending" /\ \A q \in Posts : q /= p => rows'[q] = rows[q]
      BY <1>1, <1>4, <2>1, Types DEF CreateInsert, AttemptInv, TypeOK, Row
    <2>3. \A q \in Posts : RowFine(q)
      BY <2>2, RowSame DEF RowFine
    <2> QED
      BY <1>2, <2>3, RowsStep
  <1>5. CASE RetryWrite(r) /\ ~UNCHANGED rows
    <2>1. rows' = [rows EXCEPT ![p] = [rows[p] EXCEPT !.status = "pending"]]
      BY <1>1, <1>5 DEF RetryWrite, AttemptInv, TypeOK
    <2>2. rows'[p].status = "pending" /\ \A q \in Posts : q /= p => rows'[q] = rows[q]
      BY <1>1, <1>5, <2>1, Types DEF RetryWrite, AttemptInv, TypeOK, Row
    <2>3. \A q \in Posts : RowFine(q)
      BY <2>2, RowSame DEF RowFine
    <2> QED
      BY <1>2, <2>3, RowsStep
  <1>6. CASE DeleteWrite(r)
    <2>1. "deleted" \in Status \ {"in_progress"}
      BY DEF Status
    <2>2. \A q \in Posts : RowFine(q)
      BY <1>1, <1>6, <2>1, SetStatusFine DEF DeleteWrite
    <2> QED
      BY <1>2, <2>2, RowsStep
  <1>7. UNCHANGED rows \/ CreateInsert(r) \/ RetryWrite(r) \/ DeleteWrite(r)
    BY DEF CreateCheck, RetryCheck, DeleteCheck, Abandon
  <1> QED
    BY <1>3, <1>4, <1>5, <1>6, <1>7

\* Neither does a post that comes due,
LEMMA ComesDueFine ==
  ASSUME AttemptInv, TypeOK', NEW p \in Posts, ComesDue(p)
  PROVE  AttemptInv'
  <1>1. rows' = [rows EXCEPT ![p] = [rows[p] EXCEPT !.due = TRUE]]
    BY DEF ComesDue, AttemptInv, TypeOK
  <1>2. rows'[p].status = "pending" /\ \A q \in Posts : q /= p => rows'[q] = rows[q]
    BY <1>1, Types DEF ComesDue, AttemptInv, TypeOK, Row
  <1>3. \A q \in Posts : RowFine(q)
    BY <1>2, RowSame DEF RowFine
  <1> QED
    BY <1>3, RowsStep DEF ComesDue

\* nor a new message.
LEMMA EnqueueFine ==
  ASSUME AttemptInv, TypeOK', NEW p \in Posts, Dispatch(p) \/ Trigger(p)
  PROVE  AttemptInv'
  <1>1. Enqueue(p) /\ UNCHANGED <<rows, delivered>>
    BY DEF Dispatch, Trigger
  <1>2. PICK t \in Tasks : \A u \in Tasks : tasks'[u] = IF u = t THEN Enqueued(p, 0) ELSE tasks[u]
    BY <1>1, EnqueueSets DEF AttemptInv
  <1>3. tasks'[t].pc = "queued"
    BY <1>2, EnqueuedFields
  <1>4. \A u \in Tasks : SlotFine(u)
    BY <1>2, <1>3, FreeSlotFine DEF Holds
  <1> QED
    BY <1>1, <1>4, SlotsStep

\* The claim makes the lease as old as its task.
LEMMA ClaimFine ==
  ASSUME AttemptInv, TypeOK', NEW t \in Tasks, Claim(t)
  PROVE  AttemptInv'
  <1> DEFINE p == tasks[t].post
             a == rows[p].attempt + 1
  <1>1. p \in Posts
    BY DEF AttemptInv, Claim, TypeOK
  <1>2. CASE UNCHANGED rows /\ End(t)
    BY <1>2, EndFine, SlotsStep DEF Claim
  <1>3. CASE /\ rows' = [rows EXCEPT ![p] = [rows[p] EXCEPT !.status = "in_progress",
                            !.attempt = a, !.owner = t, !.age = tasks[t].age]]
             /\ tasks' = [tasks EXCEPT ![t] = [tasks[t] EXCEPT !.pc = "reload", !.attempt = a]]
    <2>1. /\ rows'[p].status = "in_progress" /\ rows'[p].attempt = a
          /\ rows'[p].owner = t /\ rows'[p].age = tasks[t].age
          /\ \A q \in Posts : q /= p => rows'[q] = rows[q]
      BY <1>1, <1>3, Types DEF AttemptInv, TypeOK, Row
    <2>2. /\ tasks'[t].pc = "reload" /\ tasks'[t].post = p /\ tasks'[t].age = tasks[t].age
          /\ \A u \in Tasks : u /= t => tasks'[u] = tasks[u]
      BY <1>3, Types DEF AttemptInv, TypeOK, Task
    <2>3. LeaseAge'
      <3> SUFFICES ASSUME NEW u \in Tasks, Holds(u)', Owns(u, tasks[u].post)'
                   PROVE  rows'[tasks'[u].post].age = tasks'[u].age
        BY DEF LeaseAge
      <3>1. CASE u = t
        BY <2>1, <2>2, <3>1
      <3>2. CASE u /= t
        <4>1. tasks'[u] = tasks[u] /\ tasks[u].post \in Posts
          BY <2>2, <3>2 DEF AttemptInv, TypeOK, Holds
        <4>2. tasks[u].post /= p
          BY <2>1, <3>2, <4>1 DEF Owns
        <4>3. rows'[tasks[u].post] = rows[tasks[u].post]
          BY <2>1, <4>1, <4>2
        <4> QED
          BY <4>1, <4>3 DEF AttemptInv, LeaseAge, Holds, Owns
      <3> QED
        BY <3>1, <3>2
    <2>4. SentAnswer'
      BY <2>2 DEF Claim, AttemptInv, SentAnswer, Attempt
    <2>5. SentWasDelivered'
      BY <2>1 DEF Claim, AttemptInv, SentWasDelivered
    <2> QED
      BY <2>3, <2>4, <2>5 DEF AttemptInv
  <1> QED
    BY <1>2, <1>3 DEF AttemptInv, Claim, TypeOK

\* The steps in which a task reads, prepares, sends or takes the answer.
LEMMA WorkFine ==
  ASSUME AttemptInv, TypeOK', NEW t \in Tasks,
         Start(t) \/ Read(t) \/ Reload(t) \/ Prepare(t) \/ Publish(t) \/ Answer(t)
  PROVE  AttemptInv'
  <1>1. {"read", "recover", "fail_pending", "claim", "prepare", "publish", "await"} \subseteq TaskPC
    BY DEF TaskPC
  <1>2. UNCHANGED <<rows, delivered>>
    BY DEF Start, Read, Reload, Prepare, Publish, Answer
  <1>3. \A u \in Tasks : SlotFine(u)
    <2>1. CASE Start(t)
      BY <1>1, <2>1, GotoFine DEF Start
    <2>2. CASE Read(t)
      <3>1. /\ tasks[t].pc /= "idle"
            /\ Goto(t, "recover") \/ Goto(t, "fail_pending") \/ Goto(t, "claim")
                 \/ Exception(t) \/ End(t)
        BY <2>2 DEF Read
      <3> QED
        BY <1>1, <3>1, GotoFine, ExceptionFine, EndFine
    <2>3. CASE Reload(t)
      BY <1>1, <2>3, GotoFine, EndFine DEF Reload, Holds
    <2>4. CASE Prepare(t)
      BY <1>1, <2>4, GotoFine, OutcomeFine DEF Prepare, Holds
    <2>5. CASE Publish(t)
      BY <1>1, <2>5, GotoFine DEF Publish, Holds
    <2>6. CASE Answer(t)
      BY <2>6, OutcomeFine DEF Answer, Holds
    <2> QED
      BY <2>1, <2>2, <2>3, <2>4, <2>5, <2>6
  <1> QED
    BY <1>2, <1>3, SlotsStep

\* The steps in which a task writes a status.
LEMMA WriteFine ==
  ASSUME AttemptInv, TypeOK', NEW t \in Tasks,
         Recover(t) \/ FailPending(t) \/ Finalize(t) \/ MarkStatus(t)
  PROVE  AttemptInv'
  <1> DEFINE p == tasks[t].post
  <1>1. p \in Posts /\ {"unknown", "failed", "sent"} \subseteq Status \ {"in_progress"}
    BY DEF Recover, FailPending, Finalize, MarkStatus, AttemptInv, TypeOK, Status
  <1>2. \A u \in Tasks : SlotFine(u)
    BY EndFine, RequeueFine DEF Recover, FailPending, Finalize, MarkStatus
  <1>3. \A q \in Posts : RowFine(q)
    <2>1. CASE UNCHANGED rows
      BY <2>1, RowSame
    <2>2. CASE SetStatus(p, "unknown") \/ SetStatus(p, "failed")
      BY <1>1, <2>2, SetStatusFine
    <2>3. CASE Finalize(t) /\ Owns(t, p) /\ SetStatus(p, tasks[t].result)
      <3>1. tasks[t].result \in {"unknown", "failed", "sent"}
        BY <2>3, Types DEF AttemptInv, TypeOK, Task, Finalize
      <3>2. tasks[t].result = "sent" => <<p, rows[p].attempt>> \in delivered
        BY <2>3 DEF Finalize, Owns, AttemptInv, SentAnswer, Attempt
      <3> QED
        BY <1>1, <2>3, <3>1, <3>2, SetStatusFine
    <2> QED
      BY <2>1, <2>2, <2>3 DEF Recover, FailPending, Finalize, MarkStatus
  <1> QED
    BY <1>2, <1>3, FineStep DEF Recover, FailPending, Finalize, MarkStatus

\* A time limit, a crash or a database error leaves the rows alone.
LEMMA InterruptFine ==
  ASSUME AttemptInv, TypeOK', NEW t \in Tasks,
         SoftTimeLimit(t) \/ DatabaseError(t) \/ Crash(t) \/ HardKill(t)
  PROVE  AttemptInv'
  <1>1. "marking" \in TaskPC
    BY DEF TaskPC
  <1>2. \A u \in Tasks : SlotFine(u)
    <2>1. CASE SoftTimeLimit(t)
      BY <1>1, <2>1, GotoFine DEF SoftTimeLimit
    <2>2. CASE DatabaseError(t)
      BY <2>2, ExceptionFine, EndFine DEF DatabaseError
    <2>3. CASE Crash(t) \/ HardKill(t)
      BY <2>3, EndFine DEF Crash, HardKill
    <2> QED
      BY <2>1, <2>2, <2>3
  <1> QED
    BY <1>2, SlotsStep DEF SoftTimeLimit, DatabaseError, Crash, HardKill

\* A task and its lease age together, and the cap is out of the task's reach.
LEMMA TickFine ==
  ASSUME AttemptInv, TypeOK', Tick
  PROVE  AttemptInv'
  <1>1. \A p \in Posts : /\ rows'[p].status = rows[p].status
                         /\ rows'[p].attempt = rows[p].attempt
                         /\ rows'[p].owner = rows[p].owner
                         /\ rows'[p].age = IF rows[p].status = "in_progress" /\ rows[p].age < AgeCap
                                           THEN rows[p].age + 1 ELSE rows[p].age
    BY Types DEF Tick, AttemptInv, Row
  <1>2. \A t \in Tasks : /\ tasks'[t].pc = tasks[t].pc
                         /\ tasks'[t].post = tasks[t].post
                         /\ tasks'[t].attempt = tasks[t].attempt
                         /\ tasks'[t].result = tasks[t].result
                         /\ Running(t) => tasks'[t].age = tasks[t].age + 1
    BY Types DEF Tick, AttemptInv, Task
  <1>3. LeaseAge'
    <2> SUFFICES ASSUME NEW t \in Tasks, Holds(t)', Owns(t, tasks[t].post)'
                 PROVE  rows'[tasks'[t].post].age = tasks'[t].age
      BY DEF LeaseAge
    <2>1. Holds(t) /\ Running(t) /\ tasks[t].post \in Posts
      BY <1>2 DEF Holds, Running, AttemptInv, TypeOK
    <2>2. Owns(t, tasks[t].post)
      BY <1>1, <1>2, <2>1 DEF Owns
    <2>3. rows[tasks[t].post].age = tasks[t].age
      BY <2>1, <2>2 DEF AttemptInv, LeaseAge
    <2>4. tasks[t].age < AgeCap
      BY <2>1, Types, LimitsAssumption DEF Tick, AgeCap, AttemptInv, Task
    <2> QED
      BY <1>1, <1>2, <2>1, <2>2, <2>3, <2>4 DEF Owns
  <1>4. SentAnswer'
    BY <1>2 DEF Tick, AttemptInv, SentAnswer, Attempt
  <1>5. SentWasDelivered'
    BY <1>1 DEF Tick, AttemptInv, SentWasDelivered
  <1> QED
    BY <1>3, <1>4, <1>5 DEF AttemptInv

\* AttemptInv holds initially.
LEMMA AttemptInit == Init => AttemptInv
  <1> SUFFICES ASSUME Init PROVE AttemptInv
    OBVIOUS
  <1>1. \A t \in Tasks : tasks[t].pc = "idle"
    BY DEF Init, IdleTask
  <1>2. LeaseAge /\ SentAnswer
    BY <1>1 DEF LeaseAge, SentAnswer, Holds
  <1>3. SentWasDelivered
    BY DEF Init, SentWasDelivered
  <1> QED
    BY <1>2, <1>3, InitType DEF AttemptInv

\* Every step keeps AttemptInv.
LEMMA AttemptStep ==
  ASSUME AttemptInv, [Next]_vars
  PROVE  AttemptInv'
  <1>1. TypeOK'
    BY TypeStep DEF AttemptInv
  <1>2. ASSUME NEW r \in Requests,
               \/ CreateInsert(r) \/ \E p \in Posts : CreateCheck(r, p)
               \/ RetryWrite(r) \/ \E p \in Posts : RetryCheck(r, p)
               \/ DeleteWrite(r) \/ \E p \in Posts : DeleteCheck(r, p)
               \/ Abandon(r)
        PROVE  AttemptInv'
    BY <1>1, <1>2, RequestsStep
  <1>3. ASSUME NEW p \in Posts,
               ComesDue(p) \/ Dispatch(p) \/ Trigger(p) \/ Apply(p) \/ Reject(p)
        PROVE  AttemptInv'
    <2>1. CASE Apply(p) \/ Reject(p)
      <3>1. delivered \subseteq delivered' /\ UNCHANGED <<rows, tasks>>
        BY <2>1 DEF Apply, Reject
      <3> QED
        BY <1>1, <3>1, RowSame, SlotSame, FineStep
    <2> QED
      BY <1>1, <1>3, <2>1, ComesDueFine, EnqueueFine
  <1>4. ASSUME NEW c \in Channels,
               DisableCheck(c) \/ DisableCommit(c) \/ DisableRollback(c) \/ Enable(c)
        PROVE  AttemptInv'
    <2>1. UNCHANGED <<rows, tasks, delivered>>
      BY <1>4 DEF DisableCheck, DisableCommit, DisableRollback, Enable
    <2> QED
      BY <1>1, <2>1, SlotSame, SlotsStep
  <1>5. ASSUME NEW t \in Tasks, TaskStep(t) PROVE AttemptInv'
    BY <1>1, <1>5, WorkFine, WriteFine, ClaimFine DEF TaskStep
  <1>6. ASSUME NEW t \in Tasks,
               SoftTimeLimit(t) \/ DatabaseError(t) \/ Crash(t) \/ HardKill(t)
        PROVE  AttemptInv'
    BY <1>1, <1>6, InterruptFine
  <1>7. CASE Tick
    BY <1>1, <1>7, TickFine
  <1>8. CASE UNCHANGED vars
    BY <1>1, <1>8, SlotSame, SlotsStep DEF vars
  <1> QED
    BY <1>2, <1>3, <1>4, <1>5, <1>6, <1>7, <1>8 DEF Next, Requests

-----------------------------------------------------------------------------
(* The theorems *)

\* AttemptInv is an invariant of the pipeline.
LEMMA AttemptCorrect == Spec => []AttemptInv
  <1>1. Init => AttemptInv
    BY AttemptInit
  <1>2. AttemptInv /\ [Next]_vars => AttemptInv'
    BY AttemptStep
  <1> QED
    BY <1>1, <1>2, PTL DEF Spec

\* No reader ever takes a row from a worker that is still at it, because the time limit
\* is shorter than the lease.
THEOREM LeaseIsLongEnough == Spec => []LeaseOutlivesOwner
  <1>1. AttemptInv => LeaseOutlivesOwner
    <2> SUFFICES ASSUME AttemptInv, NEW t \in Tasks, NEW u \in Tasks,
                        Holds(t), Owns(t, tasks[t].post)
                 PROVE  ~Expired(u, tasks[t].post)
      BY DEF LeaseOutlivesOwner
    <2>1. rows[tasks[t].post].age = tasks[t].age
      BY DEF AttemptInv, LeaseAge
    <2>2. tasks[t].age \in 0..HardLimit /\ tasks[u].age \in 0..HardLimit
      BY Types DEF AttemptInv, Task
    <2> QED
      BY <2>1, <2>2, LimitsAssumption DEF Expired
  <1> QED
    BY <1>1, AttemptCorrect, PTL

\* A post is `sent` only if the provider applied the attempt its row names.
THEOREM SentIsTrue == Spec => []SentWasDelivered
  <1>1. AttemptInv => SentWasDelivered
    BY DEF AttemptInv
  <1> QED
    BY <1>1, AttemptCorrect, PTL

=============================================================================
