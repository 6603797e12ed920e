----------------------------- MODULE QuotaLedger -----------------------------
(***************************************************************************)
(* The daily generation quota of one user: a generation request reserves   *)
(* its units, generates, and consumes or releases the reservation, while   *)
(* other requests of the same user do the same.  Users share no rows.      *)
(*                                                                         *)
(* Locks are those PostgreSQL takes.  A reserving request holds the user   *)
(* row FOR UPDATE until its transaction ends.  The INSERT of a usage log   *)
(* takes that row FOR KEY SHARE (its foreign key), which waits for, and    *)
(* keeps out, a FOR UPDATE.  A reservation row is locked by whoever        *)
(* finalizes or expires it.                                                *)
(***************************************************************************)
EXTENDS Integers, FiniteSets

CONSTANTS
    Operations,    \* operation_id, one per generation request
    Units,         \* the usage actions each operation is charged for
    Limit,         \* get_daily_generation_limit
    TTL,           \* _RESERVATION_TTL, in ticks
    DayLength,     \* ticks in a UTC day
    MaxClock,      \* bound: the last tick
    MaxFaults      \* bound: crashes and database errors in a behaviour

Action == {"post_generated", "image_generated"}

ASSUME OperationsAssumption ==
    /\ IsFiniteSet(Operations)
    /\ Units \in [Operations -> (SUBSET Action) \ {{}}]

ASSUME QuotaAssumption ==
    /\ Limit \in Nat /\ TTL \in Nat /\ MaxClock \in Nat /\ MaxFaults \in Nat
    /\ DayLength \in Nat \ {0}

VARIABLES
    clock,
    reservations,  \* quota_reservations, by operation
    logs,          \* usage_logs; `op` names the operation a row charges
    requests,      \* the requests and what each has read
    faults

vars == <<clock, reservations, logs, requests, faults>>

Day(time) == time \div DayLength

PC == {"begin", "lock_user", "release_expired", "count", "sum", "insert", "build",
       "generate", "store", "consume", "log", "commit", "release", "succeeded", "failed"}

Ended(o) == requests[o].pc \in {"succeeded", "failed"}

Time == 0..MaxClock

Reservation == [status : {"none", "reserved", "consumed", "released"},
                day : {Day(time) : time \in Time}, expires : 0..(MaxClock + TTL)]

Log == [op : Operations, action : Action, day : {Day(time) : time \in Time}]

\* `now` of the reservation, the count of usage, the rows this transaction has set to
\* released, and the start of the transaction that writes the usage (created_at).
Request == [pc : PC, now : Time, used : Nat, expired : SUBSET Operations, started : Time]

-----------------------------------------------------------------------------
(* Locks *)

\* Mutant: the user is read without FOR UPDATE.
HoldsUserNever(o) == FALSE

\* Mutant: a refused reservation is not rolled back.
HoldsUserAfterFailure(o) ==
    requests[o].pc \in {"release_expired", "count", "sum", "insert", "failed"}

\* The user row FOR UPDATE: from the lock to the end of the reserving transaction.
HoldsUser(o) == requests[o].pc \in {"release_expired", "count", "sum", "insert"}

\* The user row FOR KEY SHARE: from the INSERT of the usage logs to the commit.
SharesUser(o) == requests[o].pc = "commit"

\* The reservation row of r: get_for_update on the operation's own, or the UPDATE of
\* expired ones.
HoldsRow(o, r) ==
    \/ o = r /\ requests[o].pc \in {"log", "commit"}
    \/ r \in requests[o].expired

UserFree(o) == \A x \in Operations \ {o} : ~HoldsUser(x)

RowFree(o, r) == \A x \in Operations \ {o} : ~HoldsRow(x, r)

-----------------------------------------------------------------------------
(* reserve_generation *)

Goto(o, pc) == requests' = [requests EXCEPT ![o].pc = pc]

\* A transaction that ends gives up what it released and did not commit.
EndReserving(o, pc) ==
    requests' = [requests EXCEPT ![o] = [@ EXCEPT !.pc = pc, !.expired = {}]]

\* `now` and its day are taken before the lock is waited for.
Begin(o) ==
    /\ requests[o].pc = "begin"
    /\ requests' = [requests EXCEPT ![o] = [@ EXCEPT !.pc = "lock_user", !.now = clock]]
    /\ UNCHANGED <<clock, reservations, logs, faults>>

LockUser(o) ==
    /\ requests[o].pc = "lock_user"
    /\ UserFree(o)
    /\ \A x \in Operations \ {o} : ~SharesUser(x)
    /\ Goto(o, "release_expired")
    /\ UNCHANGED <<clock, reservations, logs, faults>>

\* Mutant: the UPDATE of expired reservations asks for no status.
ExpiredAnyStatus(o) == {r \in Operations : /\ reservations[r].status /= "none"
                                           /\ reservations[r].expires <= requests[o].now}

Expired(o) == {r \in Operations : /\ reservations[r].status = "reserved"
                                  /\ reservations[r].expires <= requests[o].now}

\* The UPDATE waits for each row that a finalizing request has locked.
ReleaseExpired(o) ==
    /\ requests[o].pc = "release_expired"
    /\ \A r \in Expired(o) : RowFree(o, r)
    /\ requests' = [requests EXCEPT ![o] = [@ EXCEPT !.pc = "count", !.expired = Expired(o)]]
    /\ UNCHANGED <<clock, reservations, logs, faults>>

LogsOf(day) == {l \in logs : l.day = day}

CountUsed(o) ==
    /\ requests[o].pc = "count"
    /\ requests' = [requests EXCEPT ![o] =
                      [@ EXCEPT !.pc = "sum",
                                !.used = Cardinality(LogsOf(Day(requests[o].now)))]]
    /\ UNCHANGED <<clock, reservations, logs, faults>>

\* The units of a set of operations, one pair for each.
UnitsOf(S) == UNION {{o} \X Units[o] : o \in S}

Active(day, now) == {r \in Operations : /\ reservations[r].status = "reserved"
                                        /\ reservations[r].day = day
                                        /\ reservations[r].expires > now}

\* A second statement, with a snapshot of its own; then the check and, if the units
\* do not fit, the rollback.
SumReserved(o) ==
    LET now == requests[o].now IN
    /\ requests[o].pc = "sum"
    /\ IF requests[o].used + Cardinality(UnitsOf(Active(Day(now), now)))
            + Cardinality(Units[o]) > Limit
       THEN EndReserving(o, "failed")
       ELSE Goto(o, "insert")
    /\ UNCHANGED <<clock, reservations, logs, faults>>

\* Mutant: the time to live is counted twice.
InsertLongLived(o) ==
    LET now == requests[o].now IN
    /\ requests[o].pc = "insert"
    /\ reservations' = [r \in Operations |->
         IF r = o THEN [status |-> "reserved", day |-> Day(now), expires |-> now + TTL + TTL]
         ELSE IF r \in requests[o].expired THEN [reservations[r] EXCEPT !.status = "released"]
         ELSE reservations[r]]
    /\ EndReserving(o, "build")
    /\ UNCHANGED <<clock, logs, faults>>

\* The INSERT and the commit, which publishes the expired rows' release too.
Insert(o) ==
    LET now == requests[o].now IN
    /\ requests[o].pc = "insert"
    /\ reservations' = [r \in Operations |->
         IF r = o THEN [status |-> "reserved", day |-> Day(now), expires |-> now + TTL]
         ELSE IF r \in requests[o].expired THEN [reservations[r] EXCEPT !.status = "released"]
         ELSE reservations[r]]
    /\ EndReserving(o, "build")
    /\ UNCHANGED <<clock, logs, faults>>

-----------------------------------------------------------------------------
(* The generation *)

HasImage(o) == "image_generated" \in Units[o]

\* _build_generator reads the user, which opens the next transaction unless the session has
\* the object at hand.
Build(o) ==
    /\ requests[o].pc = "build"
    /\ requests' = [requests EXCEPT ![o] = [@ EXCEPT !.pc = "generate", !.started = clock]]
    /\ UNCHANGED <<clock, reservations, logs, faults>>

\* The providers answer or fail.
Generate(o) ==
    /\ requests[o].pc = "generate"
    /\ Goto(o, IF HasImage(o) THEN "store" ELSE "consume") \/ Goto(o, "release")
    /\ UNCHANGED <<clock, reservations, logs, faults>>

\* The upload and the asset row, whose commit ends the transaction; or a failure.
Store(o) ==
    /\ requests[o].pc = "store"
    /\ Goto(o, "consume") \/ Goto(o, "release")
    /\ UNCHANGED <<clock, reservations, logs, faults>>

-----------------------------------------------------------------------------
(* _finalize_generation *)

\* An exception of finalize_consumed: with an image the request goes on to release.
ConsumeFails(o) == Goto(o, IF HasImage(o) THEN "release" ELSE "failed")

\* When the recording transaction may have begun: here, or in Build.
Begun(o) == IF HasImage(o) THEN {clock} ELSE {clock, requests[o].started}

\* get_for_update and the check of the status.
Consume(o) ==
    /\ requests[o].pc = "consume"
    /\ RowFree(o, o)
    /\ \/ /\ reservations[o].status = "reserved"
          /\ \E started \in Begun(o) :
               requests' = [requests EXCEPT ![o] = [@ EXCEPT !.pc = "log", !.started = started]]
       \/ reservations[o].status = "released" /\ ConsumeFails(o)
    /\ UNCHANGED <<clock, reservations, logs, faults>>

\* The flush: the INSERTs wait for the user row.
LogUsage(o) ==
    /\ requests[o].pc = "log"
    /\ UserFree(o)
    /\ Goto(o, "commit")
    /\ UNCHANGED <<clock, reservations, logs, faults>>

Charge(o) ==
    /\ reservations' = [reservations EXCEPT ![o].status = "consumed"]
    /\ logs' = logs \cup {[op |-> o, action |-> a, day |-> Day(requests[o].started)] :
                          a \in Units[o]}

Commit(o) ==
    /\ requests[o].pc = "commit"
    /\ Charge(o)
    /\ Goto(o, "succeeded")
    /\ UNCHANGED <<clock, faults>>

\* Mutant: finalize_released without its look at the status.
ReleaseBlind(o) ==
    /\ requests[o].pc = "release"
    /\ RowFree(o, o)
    /\ reservations' = [reservations EXCEPT ![o].status = "released"]
    /\ Goto(o, "failed")
    /\ UNCHANGED <<clock, logs, faults>>

\* finalize_released; the request answers with an error either way.
Release(o) ==
    /\ requests[o].pc = "release"
    /\ RowFree(o, o)
    /\ IF reservations[o].status = "reserved"
       THEN reservations' = [reservations EXCEPT ![o].status = "released"]
       ELSE UNCHANGED reservations
    /\ Goto(o, "failed")
    /\ UNCHANGED <<clock, logs, faults>>

-----------------------------------------------------------------------------
(* Faults and time *)

\* o waits for the row of r, and r for the user row of o.
Deadlocked(o, r) ==
    /\ requests[o].pc = "release_expired"
    /\ requests[r].pc = "log"
    /\ r \in Expired(o)

\* PostgreSQL aborts one of the two transactions.
DeadlockVictim(o) ==
    /\ \/ \E r \in Operations : Deadlocked(o, r) /\ EndReserving(o, "failed")
       \/ \E r \in Operations : Deadlocked(r, o) /\ ConsumeFails(o)
    /\ UNCHANGED <<clock, reservations, logs, faults>>

Fault == faults < MaxFaults /\ faults' = faults + 1

\* The server dies, or the connection to the database does in an unprotected place.
Crash(o) ==
    /\ Fault
    /\ ~Ended(o)
    /\ EndReserving(o, "failed")
    /\ UNCHANGED <<clock, reservations, logs>>

\* A database error while the usage is recorded; the commit may have happened.
ConsumeError(o) ==
    /\ Fault
    /\ \/ requests[o].pc \in {"consume", "log", "commit"} /\ UNCHANGED <<reservations, logs>>
       \/ requests[o].pc = "commit" /\ Charge(o)
    /\ ConsumeFails(o)
    /\ UNCHANGED clock

Tick ==
    /\ clock < MaxClock
    /\ clock' = clock + 1
    /\ UNCHANGED <<reservations, logs, requests, faults>>

-----------------------------------------------------------------------------

Init ==
    /\ clock = 0
    /\ reservations = [o \in Operations |-> [status |-> "none", day |-> 0, expires |-> 0]]
    /\ logs = {}
    /\ requests = [o \in Operations |->
                     [pc |-> "begin", now |-> 0, used |-> 0, expired |-> {}, started |-> 0]]
    /\ faults = 0

Step(o) ==
    \/ Begin(o) \/ LockUser(o) \/ ReleaseExpired(o) \/ CountUsed(o) \/ SumReserved(o)
    \/ Insert(o) \/ Build(o) \/ Generate(o) \/ Store(o) \/ Consume(o) \/ LogUsage(o)
    \/ Commit(o) \/ Release(o) \/ DeadlockVictim(o)

\* Every request has been answered: the system may rest.
Rest == (\A o \in Operations : Ended(o)) /\ UNCHANGED vars

Next ==
    \/ \E o \in Operations : Step(o) \/ Crash(o) \/ ConsumeError(o)
    \/ Tick
    \/ Rest

Spec == Init /\ [][Next]_vars

\* A request goes on by itself whenever no lock holds it back.
FairSpec == Spec /\ \A o \in Operations : WF_vars(Step(o))

-----------------------------------------------------------------------------
(* Properties *)

\* The state has its types.
TypeOK ==
    /\ clock \in Time
    /\ reservations \in [Operations -> Reservation]
    /\ logs \subseteq Log
    /\ requests \in [Operations -> Request]
    /\ faults \in 0..MaxFaults

\* No day's usage exceeds the limit, however many requests race, expire or fail
\* between the two statements that add up what is used and what is reserved.
WithinLimit == \A time \in Time : Cardinality(LogsOf(Day(time))) <= Limit

\* The usage log and the reservations tell the same story: exactly the consumed
\* operations are charged, each for its own units, once, on one day.
LedgerAgrees ==
    \A o \in Operations :
      LET charged == {l \in logs : l.op = o} IN
      IF reservations[o].status = "consumed"
      THEN \E d \in {l.day : l \in charged} :
             charged = {[op |-> o, action |-> a, day |-> d] : a \in Units[o]}
      ELSE charged = {}

\* A user who gets a generation has been charged for it.
SuccessIsCharged ==
    \A o \in Operations :
      requests[o].pc = "succeeded" => reservations[o].status = "consumed"

\* Locks are never waited for forever: each request is answered, the mutual waits of an
\* expiring and a finalizing request included.
EveryRequestEnds == <>(\A o \in Operations : Ended(o))

=============================================================================
