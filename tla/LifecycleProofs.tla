---------------------------- MODULE LifecycleProofs ----------------------------
(***************************************************************************)
(* The pipeline implements the life of a post of PostLifecycle, as long as *)
(* no mishap is recorded: every step of a task, a request, the beat or the *)
(* provider is a step of one post's life, or leaves all of them.           *)
(***************************************************************************)
EXTENDS AtMostOnceProofs, FiniteSetTheorems

\* What the pipeline keeps to implement the life of a post.
LifeInv ==
    /\ PipelineInv
    /\ AttemptInv
    /\ AtMostOnce
    /\ mishaps = {}

\* Without a mishap no post is excused.
LEMMA NoneExcused == LifeInv => \A p : ~Excused(p)
  BY DEF LifeInv, Excused

\* The copies of post p that the provider has published.
CopiesOf(p) == {x \in delivered : x[1] = p}

-----------------------------------------------------------------------------
(* The mapping *)

\* A step that moves the status of one post, as the life of a post does.
LEMMA MoveMaps ==
  ASSUME NEW p \in Posts, NEW s,
         \A q \in Posts \ {p} : rows'[q].status = rows[q].status,
         rows'[p].status = s,
         delivered' = delivered
  PROVE  Lifecycle!Move(p, rows[p].status, s)
  BY DEF Lifecycle!Move

\* A step that changes no status and publishes nothing is a stutter.
LEMMA StutterMaps ==
  ASSUME \A q \in Posts : rows'[q].status = rows[q].status, delivered' = delivered
  PROVE  UNCHANGED Lifecycle!vars
  BY DEF Lifecycle!vars

\* What SetStatus does to the statuses.
LEMMA SetStatusMoves ==
  ASSUME TypeOK, NEW p \in Posts, NEW s \in Status, SetStatus(p, s)
  PROVE  /\ \A q \in Posts \ {p} : rows'[q].status = rows[q].status
         /\ rows'[p].status = s
  <1>1. \A q \in Posts : rows'[q] = IF q = p
          THEN [rows[p] EXCEPT !.status = s, !.age = 0] ELSE rows[q]
    BY SetStatusSets
  <1>2. [rows[p] EXCEPT !.status = s, !.age = 0].status = s
    OBVIOUS
  <1> QED
    BY <1>1, <1>2

\* The names of the statuses.
LEMMA Statuses ==
    {"absent", "pending", "in_progress", "sent", "failed", "unknown", "deleted"} \subseteq Status
  BY DEF Status

\* No copy of a post counts as none, one as one.
LEMMA CopiesCount ==
  ASSUME NEW p \in Posts
  PROVE  /\ CopiesOf(p) = {} => Cardinality(CopiesOf(p)) = 0
         /\ \A x : CopiesOf(p) = {x} => Cardinality(CopiesOf(p)) = 1
  BY FS_EmptySet, FS_Singleton

-----------------------------------------------------------------------------
(* The requests *)

\* A creation makes an id a pending post, a retry a failed post a pending one, a deletion
\* any row no row.
LEMMA RequestMaps ==
  ASSUME LifeInv, NEW r \in Requests,
         \/ r \in Creators /\ CreateInsert(r)
         \/ r \in Retriers /\ RetryWrite(r)
         \/ r \in Deleters /\ DeleteWrite(r)
  PROVE  [Lifecycle!Next]_(Lifecycle!vars)
  <1>0. PICK p \in Posts : p = requests[r]
    BY DEF LifeInv, PipelineInv, TypeOK, CreateInsert, RetryWrite, DeleteWrite
  <1>1. TypeOK /\ ChecksHold
    BY DEF LifeInv, PipelineInv
  <1>2. rows \in [Posts -> Row] /\ rows[p] \in Row /\ delivered' = delivered
    BY <1>1 DEF TypeOK, CreateInsert, RetryWrite, DeleteWrite
  <1>3. CASE r \in Creators /\ CreateInsert(r)
    <2>1. rows[p].status = "absent"
      BY <1>0, <1>1, <1>3 DEF ChecksHold, CreateInsert
    <2>2. PICK d \in BOOLEAN :
            rows' = [rows EXCEPT ![p] = [rows[p] EXCEPT !.status = "pending", !.due = d]]
      BY <1>0, <1>3 DEF CreateInsert
    <2>3. [rows[p] EXCEPT !.status = "pending", !.due = d].status = "pending"
      OBVIOUS
    <2>4. rows'[p].status = "pending" /\ \A q \in Posts \ {p} : rows'[q].status = rows[q].status
      BY <1>2, <2>2
    <2>5. Lifecycle!Create(p)
      BY <1>2, <2>1, <2>4, MoveMaps DEF Lifecycle!Create
    <2> QED
      BY <2>5 DEF Lifecycle!Next
  <1>4. CASE r \in Retriers /\ RetryWrite(r) /\ rows[p].status /= "deleted"
    <2>1. rows[p].status = "failed"
      BY <1>0, <1>1, <1>4 DEF ChecksHold, RetryWrite, LifeInv
    <2>2. rows' = [rows EXCEPT ![p] = [rows[p] EXCEPT !.status = "pending"]]
      BY <1>0, <1>4 DEF RetryWrite
    <2>3. [rows[p] EXCEPT !.status = "pending"].status = "pending"
      OBVIOUS
    <2>4. rows'[p].status = "pending" /\ \A q \in Posts \ {p} : rows'[q].status = rows[q].status
      BY <1>2, <2>2
    <2>5. Lifecycle!Retry(p)
      BY <1>2, <2>1, <2>4, MoveMaps DEF Lifecycle!Retry
    <2> QED
      BY <2>5 DEF Lifecycle!Next
  <1>5. CASE r \in Retriers /\ RetryWrite(r) /\ rows[p].status = "deleted"
    BY <1>0, <1>5, StutterMaps DEF RetryWrite
  <1>6. CASE r \in Deleters /\ DeleteWrite(r)
    <2>1. rows[p].status /= "absent"
      BY <1>0, <1>1, <1>6 DEF ChecksHold, DeleteWrite
    <2>2. rows'[p].status = "deleted" /\ \A q \in Posts \ {p} : rows'[q].status = rows[q].status
      BY <1>0, <1>1, <1>6, Statuses, SetStatusMoves DEF DeleteWrite
    <2>3. Lifecycle!Move(p, rows[p].status, "deleted")
      BY <1>2, <2>2, MoveMaps
    <2>4. Lifecycle!Delete(p)
      BY <2>1, <2>3 DEF Lifecycle!Delete
    <2> QED
      BY <2>4 DEF Lifecycle!Next
  <1> QED
    BY <1>3, <1>4, <1>5, <1>6

-----------------------------------------------------------------------------
(* The task *)

\* The claim is the beginning of an attempt, or nothing.
LEMMA ClaimMaps ==
  ASSUME LifeInv, NEW t \in Tasks, Claim(t)
  PROVE  [Lifecycle!Next]_(Lifecycle!vars)
  <1>0. PICK p \in Posts : p = tasks[t].post
    BY DEF LifeInv, PipelineInv, TypeOK, Claim
  <1> DEFINE a == rows[p].attempt + 1
             x == [rows[p] EXCEPT !.status = "in_progress", !.attempt = a,
                                  !.owner = t, !.age = tasks[t].age]
  <1>1. TypeOK /\ rows \in [Posts -> Row] /\ rows[p] \in Row /\ delivered' = delivered
    BY DEF LifeInv, PipelineInv, TypeOK, Claim
  <1>2. CASE UNCHANGED rows
    BY <1>1, <1>2, StutterMaps
  <1>3. CASE rows[p].status = "pending" /\ rows' = [rows EXCEPT ![p] = x]
    <2>1. x.status = "in_progress"
      OBVIOUS
    <2> HIDE DEF x
    <2>2. rows'[p].status = "in_progress" /\ \A q \in Posts \ {p} : rows'[q].status = rows[q].status
      BY <1>1, <1>3, <2>1
    <2>3. Lifecycle!Attempt(p)
      BY <1>1, <1>3, <2>2, MoveMaps DEF Lifecycle!Attempt
    <2> QED
      BY <2>3 DEF Lifecycle!Next
  <1>4. UNCHANGED rows \/ (rows[p].status = "pending" /\ rows' = [rows EXCEPT ![p] = x])
    BY <1>0 DEF Claim
  <1> QED
    BY <1>2, <1>3, <1>4

\* An attempt given up is unknown: by the lease or by the task's own handler.
LEMMA GivenUpMaps ==
  ASSUME LifeInv, NEW t \in Tasks, Recover(t) \/ MarkStatus(t)
  PROVE  [Lifecycle!Next]_(Lifecycle!vars)
  <1>0. PICK p \in Posts : p = tasks[t].post
    BY DEF LifeInv, PipelineInv, TypeOK, Recover, MarkStatus
  <1>1. TypeOK /\ delivered' = delivered
    BY DEF LifeInv, PipelineInv, Recover, MarkStatus
  <1>2. CASE UNCHANGED rows
    BY <1>1, <1>2, StutterMaps
  <1>3. CASE rows[p].status = "in_progress" /\ SetStatus(p, "unknown")
    <2>1. rows'[p].status = "unknown" /\ \A q \in Posts \ {p} : rows'[q].status = rows[q].status
      BY <1>1, <1>3, Statuses, SetStatusMoves
    <2>2. Lifecycle!Move(p, "in_progress", "unknown")
      BY <1>1, <1>3, <2>1, MoveMaps
    <2> QED
      BY <2>2 DEF Lifecycle!Next, Lifecycle!Resolve
  <1> QED
    BY <1>0, <1>2, <1>3 DEF Recover, MarkStatus

\* A post of a disabled channel is refused.
LEMMA FailPendingMaps ==
  ASSUME LifeInv, NEW t \in Tasks, FailPending(t)
  PROVE  [Lifecycle!Next]_(Lifecycle!vars)
  <1>0. PICK p \in Posts : p = tasks[t].post
    BY DEF LifeInv, PipelineInv, TypeOK, FailPending
  <1>1. TypeOK /\ delivered' = delivered
    BY DEF LifeInv, PipelineInv, FailPending
  <1>2. CASE UNCHANGED rows
    BY <1>1, <1>2, StutterMaps
  <1>3. CASE rows[p].status = "pending" /\ SetStatus(p, "failed")
    <2>1. rows'[p].status = "failed" /\ \A q \in Posts \ {p} : rows'[q].status = rows[q].status
      BY <1>1, <1>3, Statuses, SetStatusMoves
    <2>2. Lifecycle!Refuse(p)
      BY <1>1, <1>3, <2>1, MoveMaps DEF Lifecycle!Refuse
    <2> QED
      BY <2>2 DEF Lifecycle!Next
  <1> QED
    BY <1>0, <1>2, <1>3 DEF FailPending

\* A result is recorded for the attempt the row names.  If it is `sent`, that attempt is the
\* one copy; if it is `failed`, the provider has none.
LEMMA FinalizeMaps ==
  ASSUME LifeInv, NEW t \in Tasks, Finalize(t)
  PROVE  [Lifecycle!Next]_(Lifecycle!vars)
  <1>0. PICK p \in Posts : p = tasks[t].post
    BY DEF LifeInv, PipelineInv, TypeOK, Finalize
  <1>1. /\ TypeOK /\ delivered' = delivered
        /\ tasks[t].pc \in {"conclude", "finalize"}
    BY DEF LifeInv, PipelineInv, Finalize
  <1>2. PICK s \in {"sent", "failed", "unknown"} : s = tasks[t].result
    BY <1>1 DEF TypeOK, Task
  <1>3. CASE UNCHANGED rows
    BY <1>1, <1>3, StutterMaps
  <1>4. CASE Owns(t, p) /\ SetStatus(p, s)
    <2>1. /\ rows'[p].status = s /\ rows[p].status = "in_progress"
          /\ \A q \in Posts \ {p} : rows'[q].status = rows[q].status
      BY <1>1, <1>4, Statuses, SetStatusMoves DEF Owns
    <2>2. Lifecycle!Move(p, "in_progress", s)
      BY <1>1, <2>1, MoveMaps
    <2>3. CASE s = "sent"
      <3>1. Attempt(t) \in delivered /\ Attempt(t)[1] = p
        BY <1>0, <1>2, <1>1, <2>3 DEF LifeInv, AttemptInv, SentAnswer, Attempt
      <3>2. CopiesOf(p) = {Attempt(t)}
        BY <3>1, NoneExcused DEF CopiesOf, LifeInv, AtMostOnce, Sent
      <3>3. Cardinality(CopiesOf(p)) = 1
        BY <3>2, CopiesCount
      <3> QED
        BY <2>2, <2>3, <3>3 DEF Lifecycle!Next, Lifecycle!Resolve, CopiesOf
    <2>4. CASE s = "failed"
      <3>1. Attempt(t) \notin Sent
        BY <1>2, <1>1, <2>4, NoneExcused DEF LifeInv, PipelineInv, UnsentIsUnsent, Unsent
      <3>2. ASSUME NEW x \in CopiesOf(p) PROVE FALSE
        <4>1. x \in Sent /\ x[1] = p
          BY DEF CopiesOf, Sent
        <4>2. x[2] = tasks[t].attempt
          BY <1>4, <4>1, NoneExcused DEF LifeInv, PipelineInv, SentIsLast, Owns
        <4>3. x = Attempt(t)
          BY <1>0, <1>1, <4>1, <4>2, SentTypes DEF Attempt
        <4> QED
          BY <3>1, <4>1, <4>3
      <3>3. Cardinality(CopiesOf(p)) = 0
        BY <3>2, CopiesCount
      <3> QED
        BY <2>2, <2>4, <3>3 DEF Lifecycle!Next, Lifecycle!Resolve, CopiesOf
    <2>5. CASE s = "unknown"
      BY <2>2, <2>5 DEF Lifecycle!Next, Lifecycle!Resolve
    <2> QED
      BY <2>3, <2>4, <2>5
  <1> QED
    BY <1>0, <1>2, <1>3, <1>4 DEF Finalize

-----------------------------------------------------------------------------
(* The provider *)

\* The provider publishes the one copy, or has applied the attempt before.
LEMMA ApplyMaps ==
  ASSUME LifeInv, NEW p \in Posts, Apply(p)
  PROVE  [Lifecycle!Next]_(Lifecycle!vars)
  <1>1. TypeOK /\ UNCHANGED rows
    BY DEF LifeInv, PipelineInv, Apply
  <1>2. PICK x \in inflight : x[1] = p /\ delivered' = delivered \cup {x}
    <2>1. PICK a \in {x[2] : x \in {y \in inflight : y[1] = p}} : delivered' = delivered \cup {<<p, a>>}
      BY DEF Apply
    <2>2. PICK x \in inflight : x[1] = p /\ x[2] = a
      OBVIOUS
    <2>3. x = <<p, a>>
      BY <1>1, <2>2, SentTypes DEF Sent
    <2> QED
      BY <2>1, <2>3
  <1>3. CASE x \in delivered
    BY <1>1, <1>2, <1>3, StutterMaps
  <1>4. CASE x \notin delivered
    <2>1. CopiesOf(p) = {}
      BY <1>2, <1>4, NoneExcused DEF CopiesOf, LifeInv, AtMostOnce, Sent
    <2>2. {y \in delivered' : y[1] = p} = {x}
      BY <1>2, <2>1 DEF CopiesOf
    <2>3. \A q \in Posts \ {p} : {y \in delivered' : y[1] = q} = CopiesOf(q)
      BY <1>2 DEF CopiesOf
    <2>4. Cardinality(CopiesOf(p)) = 0 /\ Cardinality({y \in delivered' : y[1] = p}) = 1
      BY <2>1, <2>2, CopiesCount, FS_Singleton
    <2>5. rows[p].status \in {"in_progress", "unknown", "deleted"}
      <3>1. rows[p].status \notin {"absent", "pending", "failed"}
        BY <1>2, NoneExcused DEF LifeInv, PipelineInv, SentIsLast, Attempted, Sent
      <3>2. ASSUME rows[p].status = "sent" PROVE FALSE
        <4>1. <<p, rows[p].attempt>> \in delivered
          BY <3>2 DEF LifeInv, AttemptInv, SentWasDelivered
        <4>2. <<p, rows[p].attempt>> \in CopiesOf(p)
          BY <4>1 DEF CopiesOf
        <4> QED
          BY <2>1, <4>2
      <3> QED
        BY <1>1, <3>1, <3>2, Types DEF Row, Status
    <2>6. [q \in Posts |-> Cardinality({y \in delivered' : y[1] = q})] =
            [[q \in Posts |-> Cardinality({y \in delivered : y[1] = q})] EXCEPT ![p] = 1]
      BY <2>3, <2>4 DEF CopiesOf
    <2>7. Lifecycle!Publish(p)
      <3>1. [q \in Posts |-> rows[q].status][p] \in {"in_progress", "unknown", "deleted"}
        BY <2>5
      <3>2. [q \in Posts |-> Cardinality({y \in delivered : y[1] = q})][p] = 0
        BY <2>4 DEF CopiesOf
      <3> QED
        BY <1>1, <2>6, <3>1, <3>2 DEF Lifecycle!Publish
    <2> QED
      BY <2>7 DEF Lifecycle!Next
  <1> QED
    BY <1>3, <1>4

-----------------------------------------------------------------------------
(* The refinement *)

\* The initial states map to the initial state of the life.
LEMMA InitMaps == Init => Lifecycle!Init
  <1> SUFFICES ASSUME Init PROVE Lifecycle!Init
    OBVIOUS
  <1>1. \A p \in Posts : rows[p].status = "absent" /\ CopiesOf(p) = {}
    BY DEF Init, CopiesOf
  <1>2. \A p \in Posts : Cardinality(CopiesOf(p)) = 0
    BY <1>1, CopiesCount
  <1> QED
    BY <1>1, <1>2 DEF Lifecycle!Init, CopiesOf

\* The rows change in no other way: time ages them and makes them due.
LEMMA OtherStepsMap ==
  ASSUME LifeInv,
         \/ \E p \in Posts : ComesDue(p)
         \/ Tick
         \/ UNCHANGED <<rows, delivered>>
  PROVE  [Lifecycle!Next]_(Lifecycle!vars)
  <1>1. TypeOK /\ rows \in [Posts -> Row] /\ \A q \in Posts : rows[q] \in Row
    BY DEF LifeInv, PipelineInv, TypeOK
  <1>2. CASE \E p \in Posts : ComesDue(p)
    <2>1. PICK p \in Posts : rows' = [rows EXCEPT ![p] = [rows[p] EXCEPT !.due = TRUE]]
      BY <1>2 DEF ComesDue
    <2>2. [rows[p] EXCEPT !.due = TRUE].status = rows[p].status
      OBVIOUS
    <2> QED
      BY <1>2, StutterMaps DEF ComesDue
  <1>3. CASE Tick
    <2>1. \A q \in Posts : [rows[q] EXCEPT !.age = rows[q].age + 1].status = rows[q].status
      OBVIOUS
    <2>2. \A q \in Posts : rows'[q].status = rows[q].status
      BY <1>3 DEF Tick
    <2> QED
      BY <1>3, StutterMaps DEF Tick
  <1>4. CASE UNCHANGED <<rows, delivered>>
    BY <1>4, StutterMaps
  <1> QED
    BY <1>2, <1>3, <1>4

\* Every step of the pipeline is a step of one post's life or none of any.
LEMMA StepMaps ==
  ASSUME LifeInv, [Next]_vars
  PROVE  [Lifecycle!Next]_(Lifecycle!vars)
  <1>1. ASSUME NEW t \in Tasks, TaskStep(t)
        PROVE  [Lifecycle!Next]_(Lifecycle!vars)
    <2>1. CASE Start(t) \/ Read(t) \/ Reload(t) \/ Prepare(t) \/ Publish(t) \/ Answer(t)
      <3>1. UNCHANGED <<rows, delivered>>
        BY <2>1 DEF Start, Read, Reload, Prepare, Publish, Answer
      <3> QED
        BY <3>1, OtherStepsMap
    <2> QED
      BY <1>1, <2>1, ClaimMaps, GivenUpMaps, FailPendingMaps, FinalizeMaps DEF TaskStep
  <1>2. ASSUME NEW p \in Posts, Apply(p)
        PROVE  [Lifecycle!Next]_(Lifecycle!vars)
    BY <1>2, ApplyMaps
  <1>3. ASSUME NEW r \in Requests,
               \/ r \in Creators /\ CreateInsert(r)
               \/ r \in Retriers /\ RetryWrite(r)
               \/ r \in Deleters /\ DeleteWrite(r)
        PROVE  [Lifecycle!Next]_(Lifecycle!vars)
    BY <1>3, RequestMaps
  <1>4. CASE \/ \E p \in Posts : ComesDue(p)
             \/ Tick
             \/ UNCHANGED <<rows, delivered>>
    BY <1>4, OtherStepsMap
  <1> QED
    BY <1>1, <1>2, <1>3, <1>4 DEF Next, vars, Requests, CreateCheck, RetryCheck, DeleteCheck,
       Abandon, Dispatch, Trigger, Reject, DisableCheck, DisableCommit, DisableRollback, Enable,
       SoftTimeLimit, DatabaseError, Crash, HardKill

\* The pipeline implements the life of a post: what the API shows of a post and the copies
\* the provider has of it change only as PostLifecycle allows, until retries of a post
\* overlap or an error status answers an accepted request.
THEOREM LifecycleRefined == Spec => RefinesLifecycle
  <1>1. Init => Lifecycle!Init
    BY InitMaps
  <1>2. PipelineInv /\ AttemptInv /\ AtMostOnce /\ [Next]_vars
          => [mishaps = {} => Lifecycle!Next]_(Lifecycle!vars)
    BY StepMaps DEF LifeInv
  <1> QED
    BY <1>1, <1>2, PipelineCorrect, AttemptCorrect, PublishedAtMostOnce, PTL
       DEF Spec, RefinesLifecycle

\* A behaviour without either is one that PostLifecycle specifies.
THEOREM LifecycleImplemented == Spec /\ [](mishaps = {}) => Lifecycle!Spec
  <1>1. (mishaps = {}) /\ [mishaps = {} => Lifecycle!Next]_(Lifecycle!vars)
          => [Lifecycle!Next]_(Lifecycle!vars)
    OBVIOUS
  <1> QED
    BY <1>1, LifecycleRefined, PTL DEF RefinesLifecycle, Lifecycle!Spec

=============================================================================
