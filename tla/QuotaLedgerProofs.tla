-------------------------- MODULE QuotaLedgerProofs --------------------------
(***************************************************************************)
(* What the locks on the user's row and on the reservations buy, for every *)
(* number of requests, every limit and every time to live: the usage log   *)
(* charges exactly what was consumed, always, and a day's usage stays      *)
(* within the limit as long as no request spans midnight.                  *)
(***************************************************************************)
EXTENDS QuotaLedger, FiniteSetTheorems, FunctionTheorems, TLAPS

-----------------------------------------------------------------------------
(* The ledger's invariant *)

\* A request that has not inserted its reservation yet.
Unborn(o) == requests[o].pc \in {"begin", "lock_user", "release_expired", "count", "sum", "insert"}

\* The user row is held by one request, and shared with nobody meanwhile.
Alone ==
    \A o, x \in Operations : HoldsUser(o) =>
        /\ HoldsUser(x) => x = o
        /\ ~SharesUser(x)

\* A reservation exists once its request has inserted it, and stands while it is finalized.
RowsStand ==
    \A o \in Operations :
        /\ Unborn(o) => reservations[o].status = "none"
        /\ requests[o].pc \in {"log", "commit"} => reservations[o].status = "reserved"

\* What a request has set to released still stands for the others, and nobody finalizes it.
ReleasesStand ==
    \A o \in Operations : \A r \in requests[o].expired :
        /\ requests[o].pc \in {"count", "sum", "insert"}
        /\ reservations[r].status = "reserved"
        /\ requests[r].pc \notin {"log", "commit"}

LedgerInv ==
    /\ TypeOK
    /\ IsFiniteSet(logs)
    /\ Alone
    /\ RowsStand
    /\ ReleasesStand
    /\ LedgerAgrees
    /\ SuccessIsCharged

-----------------------------------------------------------------------------
(* The daily limit's invariant *)

\* No request spans midnight: the day is that of its `now` while it runs.
NoMidnight ==
    \A o \in Operations :
        requests[o].pc \notin {"begin", "succeeded", "failed"} =>
            Day(requests[o].now) = Day(clock)

Consumed(day) == {r \in Operations : reservations[r].status = "consumed" /\ reservations[r].day = day}

Live(day) == {r \in Operations : /\ reservations[r].status \in {"reserved", "consumed"}
                                 /\ reservations[r].day = day}

\* A request reserves, consumes and is charged on one day.
OneDay ==
    /\ \A o \in Operations :
         /\ reservations[o].status /= "none" => reservations[o].day = Day(requests[o].now)
         /\ requests[o].pc \in {"generate", "store", "consume", "log", "commit"} =>
              Day(requests[o].started) = Day(requests[o].now)
    /\ \A l \in logs : l.day = reservations[l.op].day

\* The reservations that have expired for a request are those it has set to released.
Swept ==
    \A o \in Operations :
        requests[o].pc \in {"count", "sum"} => Expired(o) \subseteq requests[o].expired

\* What a request has counted is still so, and what it has checked still fits.
CountStands ==
    \A o \in Operations : LET day == Day(requests[o].now) IN
        /\ requests[o].pc = "sum" => requests[o].used = Cardinality(LogsOf(day))
        /\ requests[o].pc = "insert" =>
             Cardinality(UnitsOf(Live(day) \ requests[o].expired)) + Cardinality(Units[o]) <= Limit

\* The units reserved or consumed on a day are within the limit.
LiveFits == \A time \in Time : Cardinality(UnitsOf(Live(Day(time)))) <= Limit

DayInv ==
    /\ LedgerInv
    /\ OneDay
    /\ Swept
    /\ CountStands
    /\ LiveFits

-----------------------------------------------------------------------------
(* The slots of the requests *)

\* One request's slot given a new content, and the others theirs.
LEMMA SlotSets ==
  ASSUME TypeOK, NEW o \in Operations, NEW x \in Request, requests' = [requests EXCEPT ![o] = x]
  PROVE  /\ requests' \in [Operations -> Request]
         /\ \A q \in Operations : requests'[q] = IF q = o THEN x ELSE requests[q]
  BY DEF TypeOK

\* What Goto does to the slots.
LEMMA GotoSets ==
  ASSUME TypeOK, NEW o \in Operations, NEW pc \in PC, Goto(o, pc)
  PROVE  /\ requests' \in [Operations -> Request]
         /\ \A q \in Operations \ {o} : requests'[q] = requests[q]
         /\ requests'[o] = [requests[o] EXCEPT !.pc = pc]
         /\ requests'[o].pc = pc
         /\ requests'[o].now = requests[o].now
         /\ requests'[o].used = requests[o].used
         /\ requests'[o].expired = requests[o].expired
         /\ requests'[o].started = requests[o].started
  <1> DEFINE x == [requests[o] EXCEPT !.pc = pc]
  <1>1. requests[o] \in Request
    BY DEF TypeOK
  <1>2. /\ x \in Request
        /\ x.pc = pc /\ x.now = requests[o].now /\ x.used = requests[o].used
        /\ x.expired = requests[o].expired /\ x.started = requests[o].started
    BY <1>1 DEF Request
  <1>3. requests' = [requests EXCEPT ![o] = x]
    BY DEF Goto, TypeOK
  <1> QED
    BY <1>2, <1>3, SlotSets

\* What the end of a reserving transaction does to the slots.
LEMMA EndSets ==
  ASSUME TypeOK, NEW o \in Operations, NEW pc \in PC, EndReserving(o, pc)
  PROVE  /\ requests' \in [Operations -> Request]
         /\ \A q \in Operations \ {o} : requests'[q] = requests[q]
         /\ requests'[o].pc = pc
         /\ requests'[o].now = requests[o].now
         /\ requests'[o].expired = {}
         /\ requests'[o].started = requests[o].started
  <1> DEFINE x == [requests[o] EXCEPT !.pc = pc, !.expired = {}]
  <1>1. requests[o] \in Request
    BY DEF TypeOK
  <1>2. /\ x \in Request
        /\ x.pc = pc /\ x.now = requests[o].now
        /\ x.expired = {} /\ x.started = requests[o].started
    BY <1>1 DEF Request
  <1>3. requests' = [requests EXCEPT ![o] = x]
    BY DEF EndReserving, TypeOK
  <1> QED
    BY <1>2, <1>3, SlotSets

\* The places a request can be sent to.
LEMMA Places ==
    {"begin", "lock_user", "release_expired", "count", "sum", "insert", "build",
     "generate", "store", "consume", "log", "commit", "release", "succeeded", "failed"} \subseteq PC
  BY DEF PC

\* A count of rows is a number.
LEMMA CountType ==
  ASSUME IsFiniteSet(logs), NEW day
  PROVE  IsFiniteSet(LogsOf(day)) /\ Cardinality(LogsOf(day)) \in Nat
  <1>1. LogsOf(day) \in SUBSET logs
    BY DEF LogsOf
  <1> QED
    BY <1>1, FS_Subset, FS_CardinalityType

-----------------------------------------------------------------------------
(* The ledger: steps *)

\* A step of one request that leaves the rows alone keeps the invariant, if what it newly
\* claims of them is true.
LEMMA RowsAlone ==
  ASSUME LedgerInv, NEW o \in Operations,
         UNCHANGED <<reservations, logs>>,
         clock' \in Time, faults' \in 0..MaxFaults,
         requests' \in [Operations -> Request],
         \A q \in Operations \ {o} : requests'[q] = requests[q],
         HoldsUser(o)' => HoldsUser(o) \/ (UserFree(o) /\ \A x \in Operations : ~SharesUser(x)),
         SharesUser(o)' => SharesUser(o) \/ UserFree(o),
         Unborn(o)' => reservations[o].status = "none",
         requests'[o].pc \in {"log", "commit"} =>
           /\ reservations[o].status = "reserved"
           /\ \A x \in Operations \ {o} : o \notin requests[x].expired,
         \A r \in requests'[o].expired :
           /\ requests'[o].pc \in {"count", "sum", "insert"}
           /\ reservations[r].status = "reserved"
           /\ r \in Operations \ {o} => requests[r].pc \notin {"log", "commit"},
         requests'[o].pc = "succeeded" => reservations[o].status = "consumed"
  PROVE  LedgerInv'
  <1>1. TypeOK'
    BY DEF LedgerInv, TypeOK
  <1>2. Alone'
    <2> SUFFICES ASSUME NEW q \in Operations, NEW x \in Operations, HoldsUser(q)'
                 PROVE  (HoldsUser(x)' => x = q) /\ ~SharesUser(x)'
      BY DEF Alone
    <2>1. \A y \in Operations \ {o} : /\ HoldsUser(y)' <=> HoldsUser(y)
                                      /\ SharesUser(y)' <=> SharesUser(y)
      BY DEF HoldsUser, SharesUser
    <2>2. ~(HoldsUser(o)' /\ SharesUser(o)')
      BY DEF HoldsUser, SharesUser
    <2> QED
      BY <2>1, <2>2 DEF LedgerInv, Alone, UserFree
  <1>3. RowsStand'
    BY DEF LedgerInv, RowsStand, Unborn
  <1>4. ReleasesStand'
    <2> SUFFICES ASSUME NEW q \in Operations, NEW r \in requests'[q].expired
                 PROVE  /\ requests'[q].pc \in {"count", "sum", "insert"}
                        /\ reservations[r].status = "reserved"
                        /\ requests'[r].pc \notin {"log", "commit"}
      BY DEF ReleasesStand
    <2>1. r \in Operations
      BY DEF Request
    <2>2. CASE q = o
      BY <2>1, <2>2
    <2>3. CASE q /= o
      BY <2>1, <2>3 DEF LedgerInv, ReleasesStand
    <2> QED
      BY <2>2, <2>3
  <1>5. LedgerAgrees' /\ SuccessIsCharged' /\ IsFiniteSet(logs')
    BY DEF LedgerInv, LedgerAgrees, SuccessIsCharged
  <1> QED
    BY <1>1, <1>2, <1>3, <1>4, <1>5 DEF LedgerInv

\* Nothing is expired by a request outside of its reserving transaction.
LEMMA NothingExpired ==
  ASSUME LedgerInv, NEW o \in Operations, requests[o].pc \notin {"count", "sum", "insert"}
  PROVE  requests[o].expired = {}
  BY DEF LedgerInv, ReleasesStand

\* A request that ends, or goes on to generate or to release, keeps the invariant.
LEMMA LetGoStep ==
  ASSUME LedgerInv, NEW o \in Operations, UNCHANGED <<clock, reservations, logs>>,
         faults' \in 0..MaxFaults,
         NEW pc \in {"generate", "store", "consume", "release", "failed"},
         EndReserving(o, pc) \/ (Goto(o, pc) /\ requests[o].pc \notin {"count", "sum", "insert"})
  PROVE  LedgerInv'
  <1>1. TypeOK /\ pc \in PC
    BY Places DEF LedgerInv
  <1>2. /\ requests' \in [Operations -> Request]
        /\ \A q \in Operations \ {o} : requests'[q] = requests[q]
        /\ requests'[o].pc = pc
        /\ requests'[o].expired = {}
    BY <1>1, EndSets, GotoSets, NothingExpired
  <1>3. ~HoldsUser(o)' /\ ~SharesUser(o)' /\ ~Unborn(o)'
    BY <1>2 DEF HoldsUser, SharesUser, Unborn
  <1> QED
    BY <1>1, <1>2, <1>3, RowsAlone DEF TypeOK

\* The exceptions of a finalizing request keep the invariant.
LEMMA ConsumeFailsStep ==
  ASSUME LedgerInv, NEW o \in Operations, UNCHANGED <<clock, reservations, logs>>,
         faults' \in 0..MaxFaults, ConsumeFails(o),
         requests[o].pc \in {"consume", "log", "commit"}
  PROVE  LedgerInv'
  BY LetGoStep DEF ConsumeFails

\* Reserving, up to the insert, keeps the invariant: the user row is taken when it is free,
\* and reservations are expired when nobody finalizes them.
LEMMA ReserveStep ==
  ASSUME LedgerInv, NEW o \in Operations,
         Begin(o) \/ LockUser(o) \/ ReleaseExpired(o) \/ CountUsed(o) \/ SumReserved(o)
  PROVE  LedgerInv'
  <1>1. TypeOK /\ IsFiniteSet(logs) /\ requests[o] \in Request
    BY DEF LedgerInv, TypeOK
  <1>2. faults' \in 0..MaxFaults /\ clock' \in Time /\ UNCHANGED <<reservations, logs>>
    BY <1>1 DEF Begin, LockUser, ReleaseExpired, CountUsed, SumReserved, TypeOK
  <1>3. CASE Begin(o)
    <2> DEFINE x == [requests[o] EXCEPT !.pc = "lock_user", !.now = clock]
    <2>1. /\ x \in Request
          /\ x.pc = "lock_user" /\ x.expired = requests[o].expired
      BY <1>1, Places DEF Request, TypeOK
    <2>2. requests' = [requests EXCEPT ![o] = x]
      BY <1>3 DEF Begin
    <2>3. /\ requests' \in [Operations -> Request]
          /\ \A q \in Operations \ {o} : requests'[q] = requests[q]
          /\ requests'[o] = x
      BY <1>1, <2>1, <2>2, SlotSets
    <2>4. requests[o].pc = "begin" /\ requests'[o].expired = {}
      BY <1>3, <2>1, <2>3, NothingExpired DEF Begin
    <2>5. ~HoldsUser(o)' /\ ~SharesUser(o)' /\ reservations[o].status = "none"
      BY <2>1, <2>3, <2>4 DEF HoldsUser, SharesUser, LedgerInv, RowsStand, Unborn
    <2> QED
      BY <1>2, <2>1, <2>3, <2>4, <2>5, RowsAlone
  <1>4. CASE LockUser(o)
    <2>1. /\ requests[o].pc = "lock_user" /\ UserFree(o)
          /\ \A y \in Operations : ~SharesUser(y)
      BY <1>4 DEF LockUser, SharesUser
    <2>2. /\ requests' \in [Operations -> Request]
          /\ \A q \in Operations \ {o} : requests'[q] = requests[q]
          /\ requests'[o].pc = "release_expired" /\ requests'[o].expired = {}
      BY <1>1, <1>4, <2>1, Places, GotoSets, NothingExpired DEF LockUser
    <2>3. ~SharesUser(o)' /\ reservations[o].status = "none"
      BY <2>1, <2>2 DEF SharesUser, LedgerInv, RowsStand, Unborn
    <2> QED
      BY <1>2, <2>1, <2>2, <2>3, RowsAlone
  <1>5. CASE ReleaseExpired(o)
    <2> DEFINE x == [requests[o] EXCEPT !.pc = "count", !.expired = Expired(o)]
    <2>1. /\ x \in Request
          /\ x.pc = "count" /\ x.expired = Expired(o)
      BY <1>1, Places DEF Request, Expired
    <2>2. requests' = [requests EXCEPT ![o] = x]
      BY <1>5 DEF ReleaseExpired
    <2>3. /\ requests' \in [Operations -> Request]
          /\ \A q \in Operations \ {o} : requests'[q] = requests[q]
          /\ requests'[o] = x
      BY <1>1, <2>1, <2>2, SlotSets
    <2>4. \A r \in Expired(o) : reservations[r].status = "reserved" /\ RowFree(o, r)
      BY <1>5 DEF ReleaseExpired, Expired
    <2>5. \A r \in Operations \ {o} : RowFree(o, r) => requests[r].pc \notin {"log", "commit"}
      BY DEF RowFree, HoldsRow
    <2>6. HoldsUser(o) /\ ~SharesUser(o)' /\ reservations[o].status = "none"
      BY <1>5, <2>1, <2>3 DEF ReleaseExpired, HoldsUser, SharesUser, LedgerInv, RowsStand, Unborn
    <2>7. \A r \in requests'[o].expired :
            /\ requests'[o].pc \in {"count", "sum", "insert"}
            /\ reservations[r].status = "reserved"
            /\ r \in Operations \ {o} => requests[r].pc \notin {"log", "commit"}
      BY <2>1, <2>3, <2>4, <2>5
    <2>8. requests'[o].pc = "count"
      BY <2>1, <2>3
    <2> QED
      BY <1>2, <2>3, <2>6, <2>7, <2>8, RowsAlone
  <1>6. CASE CountUsed(o)
    <2> DEFINE n == Cardinality(LogsOf(Day(requests[o].now)))
               x == [requests[o] EXCEPT !.pc = "sum", !.used = n]
    <2>1. n \in Nat
      BY <1>1, CountType
    <2>2. /\ x \in Request
          /\ x.pc = "sum" /\ x.expired = requests[o].expired
      BY <1>1, <2>1, Places DEF Request
    <2>3. requests' = [requests EXCEPT ![o] = x]
      BY <1>6 DEF CountUsed
    <2>4. /\ requests' \in [Operations -> Request]
          /\ \A q \in Operations \ {o} : requests'[q] = requests[q]
          /\ requests'[o] = x
      BY <1>1, <2>2, <2>3, SlotSets
    <2>5. requests[o].pc = "count"
      BY <1>6 DEF CountUsed
    <2>6. HoldsUser(o) /\ ~SharesUser(o)' /\ reservations[o].status = "none"
      BY <2>2, <2>4, <2>5 DEF HoldsUser, SharesUser, LedgerInv, RowsStand, Unborn
    <2>7. \A r \in requests[o].expired :
            /\ reservations[r].status = "reserved"
            /\ requests[r].pc \notin {"log", "commit"}
      BY DEF LedgerInv, ReleasesStand
    <2> QED
      BY <1>2, <2>2, <2>4, <2>6, <2>7, RowsAlone
  <1>7. CASE SumReserved(o)
    <2>1. requests[o].pc = "sum" /\ (Goto(o, "insert") \/ EndReserving(o, "failed"))
      BY <1>7 DEF SumReserved
    <2>2. CASE EndReserving(o, "failed")
      BY <1>1, <1>7, <2>2, LetGoStep DEF SumReserved, TypeOK
    <2>3. CASE Goto(o, "insert")
      <3>1. /\ requests' \in [Operations -> Request]
            /\ \A q \in Operations \ {o} : requests'[q] = requests[q]
            /\ requests'[o].pc = "insert" /\ requests'[o].expired = requests[o].expired
        BY <1>1, <2>3, Places, GotoSets
      <3>2. HoldsUser(o) /\ ~SharesUser(o)' /\ reservations[o].status = "none"
        BY <2>1, <3>1 DEF HoldsUser, SharesUser, LedgerInv, RowsStand, Unborn
      <3>3. \A r \in requests[o].expired :
              /\ reservations[r].status = "reserved"
              /\ requests[r].pc \notin {"log", "commit"}
        BY DEF LedgerInv, ReleasesStand
      <3> QED
        BY <1>2, <3>1, <3>2, <3>3, RowsAlone
    <2> QED
      BY <2>1, <2>2, <2>3
  <1> QED
    BY <1>3, <1>4, <1>5, <1>6, <1>7

\* The generation itself keeps the invariant.
LEMMA GenerationStep ==
  ASSUME LedgerInv, NEW o \in Operations, Build(o) \/ Generate(o) \/ Store(o)
  PROVE  LedgerInv'
  <1>1. TypeOK /\ requests[o] \in Request
    BY DEF LedgerInv, TypeOK
  <1>2. CASE Build(o)
    <2> DEFINE x == [requests[o] EXCEPT !.pc = "generate", !.started = clock]
    <2>1. /\ x \in Request
          /\ x.pc = "generate" /\ x.expired = requests[o].expired
      BY <1>1, Places DEF Request, TypeOK
    <2>2. requests' = [requests EXCEPT ![o] = x]
      BY <1>2 DEF Build
    <2>3. /\ requests' \in [Operations -> Request]
          /\ \A q \in Operations \ {o} : requests'[q] = requests[q]
          /\ requests'[o] = x
      BY <1>1, <2>1, <2>2, SlotSets
    <2>4. requests'[o].expired = {}
      BY <1>2, <2>1, <2>3, NothingExpired DEF Build
    <2>5. ~HoldsUser(o)' /\ ~SharesUser(o)' /\ ~Unborn(o)'
      BY <2>1, <2>3 DEF HoldsUser, SharesUser, Unborn
    <2> QED
      BY <1>1, <1>2, <2>1, <2>3, <2>4, <2>5, RowsAlone DEF Build, TypeOK
  <1>3. CASE Generate(o) \/ Store(o)
    <2>1. /\ requests[o].pc \in {"generate", "store"}
          /\ \E pc \in {"store", "consume", "release"} : Goto(o, pc)
          /\ UNCHANGED <<clock, reservations, logs, faults>>
      BY <1>3 DEF Generate, Store
    <2> QED
      BY <1>1, <2>1, LetGoStep DEF TypeOK
  <1> QED
    BY <1>2, <1>3

\* So does finalizing, up to the commit: the reservation is locked, and the user row shared,
\* when they are free.
LEMMA FinalizeStep ==
  ASSUME LedgerInv, NEW o \in Operations, Consume(o) \/ LogUsage(o)
  PROVE  LedgerInv'
  <1>1. TypeOK /\ requests[o] \in Request
    BY DEF LedgerInv, TypeOK
  <1>2. UNCHANGED <<clock, reservations, logs, faults>> /\ requests[o].pc \in {"consume", "log"}
    BY DEF Consume, LogUsage
  <1>3. CASE Consume(o) /\ reservations[o].status = "reserved"
    <2>0. PICK started \in Begun(o) :
            requests' = [requests EXCEPT ![o] = [@ EXCEPT !.pc = "log", !.started = started]]
      BY <1>3 DEF Consume
    <2> DEFINE x == [requests[o] EXCEPT !.pc = "log", !.started = started]
    <2>1. /\ x \in Request
          /\ x.pc = "log" /\ x.expired = requests[o].expired
      BY <1>1, <2>0, Places DEF Begun, Request, TypeOK
    <2>2. requests' = [requests EXCEPT ![o] = x]
      BY <2>0
    <2>3. /\ requests' \in [Operations -> Request]
          /\ \A q \in Operations \ {o} : requests'[q] = requests[q]
          /\ requests'[o] = x
      BY <1>1, <2>1, <2>2, SlotSets
    <2>4. requests'[o].expired = {}
      BY <1>2, <2>1, <2>3, NothingExpired
    <2>5. ~HoldsUser(o)' /\ ~SharesUser(o)' /\ ~Unborn(o)'
      BY <2>1, <2>3 DEF HoldsUser, SharesUser, Unborn
    <2>6. \A y \in Operations \ {o} : o \notin requests[y].expired
      BY <1>3 DEF Consume, RowFree, HoldsRow
    <2> QED
      BY <1>1, <1>2, <1>3, <2>1, <2>3, <2>4, <2>5, <2>6, RowsAlone DEF TypeOK
  <1>4. CASE Consume(o) /\ reservations[o].status /= "reserved"
    <2>1. ConsumeFails(o)
      BY <1>4 DEF Consume
    <2> QED
      BY <1>1, <1>2, <2>1, ConsumeFailsStep DEF TypeOK
  <1>5. CASE LogUsage(o)
    <2>1. requests[o].pc = "log" /\ UserFree(o) /\ Goto(o, "commit")
      BY <1>5 DEF LogUsage
    <2>2. /\ requests' \in [Operations -> Request]
          /\ \A q \in Operations \ {o} : requests'[q] = requests[q]
          /\ requests'[o].pc = "commit" /\ requests'[o].expired = {}
      BY <1>1, <2>1, Places, GotoSets, NothingExpired
    <2>3. ~HoldsUser(o)' /\ ~Unborn(o)'
      BY <2>2 DEF HoldsUser, Unborn
    <2>4. /\ reservations[o].status = "reserved"
          /\ \A y \in Operations : o \notin requests[y].expired
      BY <2>1 DEF LedgerInv, RowsStand, ReleasesStand
    <2> QED
      BY <1>1, <1>2, <2>1, <2>2, <2>3, <2>4, RowsAlone DEF TypeOK
  <1> QED
    BY <1>3, <1>4, <1>5

\* The insert keeps the invariant: the rows it releases are still reserved and belong to
\* nobody, and no other request is between an UPDATE of its own and its end.
LEMMA InsertStep ==
  ASSUME LedgerInv, NEW o \in Operations, Insert(o)
  PROVE  LedgerInv'
  <1> DEFINE now == requests[o].now
             row == [status |-> "reserved", day |-> Day(now), expires |-> now + TTL]
  <1>1. TypeOK /\ requests[o] \in Request /\ requests[o].pc = "insert"
    BY DEF LedgerInv, TypeOK, Insert
  <1>2. /\ requests' \in [Operations -> Request]
        /\ \A q \in Operations \ {o} : requests'[q] = requests[q]
        /\ requests'[o].pc = "build"
        /\ requests'[o].expired = {}
        /\ UNCHANGED <<clock, logs, faults>>
    BY <1>1, Places, EndSets DEF Insert
  <1>3. /\ reservations[o].status = "none"
        /\ \A r \in requests[o].expired : /\ reservations[r].status = "reserved"
                                          /\ requests[r].pc \notin {"log", "commit"}
        /\ o \notin requests[o].expired
    BY <1>1 DEF LedgerInv, RowsStand, ReleasesStand, Unborn
  <1>4. /\ reservations' \in [Operations -> Reservation]
        /\ reservations'[o].status = "reserved"
        /\ \A r \in requests[o].expired : reservations'[r].status = "released"
        /\ \A r \in Operations \ {o} :
             r \notin requests[o].expired => reservations'[r] = reservations[r]
    <2>1. row \in Reservation
      BY <1>1, QuotaAssumption DEF Reservation, Request, Time
    <2>2. /\ \A r \in Operations : [reservations[r] EXCEPT !.status = "released"] \in Reservation
          /\ \A r \in Operations : [reservations[r] EXCEPT !.status = "released"].status = "released"
      BY <1>1 DEF TypeOK, Reservation
    <2>3. /\ requests[o].expired \subseteq Operations
          /\ reservations \in [Operations -> Reservation]
      BY <1>1 DEF TypeOK, Request
    <2>4. reservations' = [r \in Operations |->
             IF r = o THEN row
             ELSE IF r \in requests[o].expired THEN [reservations[r] EXCEPT !.status = "released"]
             ELSE reservations[r]]
      BY DEF Insert
    <2> HIDE DEF row
    <2>5. row.status = "reserved"
      BY DEF row
    <2> QED
      BY <1>3, <2>1, <2>2, <2>3, <2>4, <2>5
  <1>5. \A q \in Operations \ {o} : requests[q].expired = {} /\ requests[q].pc /= "commit"
    <2>1. HoldsUser(o)
      BY <1>1 DEF HoldsUser
    <2>2. \A q \in Operations \ {o} : ~HoldsUser(q) /\ ~SharesUser(q)
      BY <2>1 DEF LedgerInv, Alone
    <2> QED
      BY <2>2 DEF LedgerInv, ReleasesStand, HoldsUser, SharesUser
  <1>6. TypeOK'
    BY <1>1, <1>2, <1>4 DEF TypeOK
  <1>7. Alone'
    <2>1. ~HoldsUser(o)' /\ ~SharesUser(o)'
      BY <1>2 DEF HoldsUser, SharesUser
    <2> QED
      BY <1>2, <2>1 DEF LedgerInv, Alone, HoldsUser, SharesUser
  <1>8. RowsStand'
    <2>1. ~Unborn(o)' /\ requests'[o].pc \notin {"log", "commit"}
      BY <1>2 DEF Unborn
    <2>2. \A q \in Operations \ {o} : Unborn(q)' => q \notin requests[o].expired
      BY <1>2, <1>3 DEF LedgerInv, RowsStand, Unborn
    <2> QED
      BY <1>2, <1>3, <1>4, <2>1, <2>2 DEF LedgerInv, RowsStand, Unborn
  <1>9. ReleasesStand'
    BY <1>2, <1>5 DEF ReleasesStand
  <1>10. \A q \in Operations : reservations'[q].status = "consumed" <=>
                               reservations[q].status = "consumed"
    BY <1>3, <1>4
  <1>11. LedgerAgrees' /\ SuccessIsCharged' /\ IsFiniteSet(logs')
    <2>1. LedgerAgrees'
      BY <1>2, <1>10 DEF LedgerInv, LedgerAgrees
    <2>2. SuccessIsCharged'
      BY <1>2, <1>10 DEF LedgerInv, SuccessIsCharged
    <2> QED
      BY <1>2, <2>1, <2>2 DEF LedgerInv
  <1> QED
    BY <1>6, <1>7, <1>8, <1>9, <1>11 DEF LedgerInv

\* The rows that charge an operation are finitely many.
LEMMA RowsFinite ==
  ASSUME NEW o \in Operations, NEW d
  PROVE  IsFiniteSet({[op |-> o, action |-> a, day |-> d] : a \in Units[o]})
  <1> DEFINE row(a) == [op |-> o, action |-> a, day |-> d]
             two == {row("post_generated"), row("image_generated")}
  <1>1. IsFiniteSet({row("post_generated")})
    BY FS_Singleton
  <1>2. IsFiniteSet({row("post_generated")} \cup {row("image_generated")})
    BY <1>1, FS_AddElement
  <1>3. two = {row("post_generated")} \cup {row("image_generated")}
    OBVIOUS
  <1>4. Units[o] \subseteq Action
    BY OperationsAssumption
  <1>5. {row(a) : a \in Units[o]} \in SUBSET two
    BY <1>4 DEF Action
  <1> QED
    BY <1>2, <1>3, <1>5, FS_Subset

\* What the commit charges: it agrees with the rows of its operation and touches no other's.
LEMMA ChargeAgrees ==
  ASSUME LedgerInv, NEW o \in Operations, requests[o].pc = "commit", Charge(o)
  PROVE  /\ reservations' \in [Operations -> Reservation]
         /\ reservations'[o] = [reservations[o] EXCEPT !.status = "consumed"]
         /\ reservations'[o].status = "consumed"
         /\ reservations'[o].day = reservations[o].day
         /\ \A q \in Operations \ {o} : reservations'[q] = reservations[q]
         /\ logs' \subseteq Log /\ IsFiniteSet(logs')
         /\ LedgerAgrees'
  <1> DEFINE d == Day(requests[o].started)
             rows == {[op |-> o, action |-> a, day |-> d] : a \in Units[o]}
  <1>1. TypeOK /\ requests[o] \in Request /\ reservations[o] \in Reservation
    BY DEF LedgerInv, TypeOK
  <1>2. /\ reservations' \in [Operations -> Reservation]
        /\ reservations'[o] = [reservations[o] EXCEPT !.status = "consumed"]
        /\ reservations'[o].status = "consumed"
        /\ reservations'[o].day = reservations[o].day
        /\ \A q \in Operations \ {o} : reservations'[q] = reservations[q]
    <2>1. [reservations[o] EXCEPT !.status = "consumed"] \in Reservation
      BY <1>1 DEF Reservation
    <2>2. reservations' = [reservations EXCEPT ![o] = [reservations[o] EXCEPT !.status = "consumed"]]
      BY DEF Charge
    <2>3. /\ [reservations[o] EXCEPT !.status = "consumed"].status = "consumed"
          /\ [reservations[o] EXCEPT !.status = "consumed"].day = reservations[o].day
      BY <1>1 DEF Reservation
    <2> QED
      BY <1>1, <2>1, <2>2, <2>3 DEF TypeOK
  <1>3. logs' = logs \cup rows /\ IsFiniteSet(rows) /\ rows \subseteq Log
    <2>1. d \in {Day(time) : time \in Time} /\ Units[o] \subseteq Action
      BY <1>1, OperationsAssumption DEF Request
    <2>2. rows \subseteq Log
      BY <2>1 DEF Log
    <2> QED
      BY <2>2, RowsFinite DEF Charge
  <1>4. logs' \subseteq Log /\ IsFiniteSet(logs')
    BY <1>1, <1>3, FS_Union DEF LedgerInv, TypeOK
  <1>5. LedgerAgrees'
    <2> DEFINE charged(q) == {l \in logs : l.op = q}
    <2>1. charged(o) = {}
      BY DEF LedgerInv, LedgerAgrees, RowsStand
    <2>2. \A l \in rows : l.op = o /\ l.day = d
      OBVIOUS
    <2>3. {l \in logs' : l.op = o} = rows
      BY <1>3, <2>1, <2>2
    <2>4. \A q \in Operations \ {o} : {l \in logs' : l.op = q} = charged(q)
      BY <1>3, <2>2
    <2>5. PICK a \in Units[o] : TRUE
      BY OperationsAssumption
    <2>6. d \in {l.day : l \in rows}
      <3>1. [op |-> o, action |-> a, day |-> d] \in rows
        BY <2>5
      <3> QED
        BY <2>2, <3>1
    <2>7. \A q \in Operations \ {o} :
            IF reservations'[q].status = "consumed"
            THEN \E e \in {l.day : l \in charged(q)} :
                   charged(q) = {[op |-> q, action |-> b, day |-> e] : b \in Units[q]}
            ELSE charged(q) = {}
      BY <1>2 DEF LedgerInv, LedgerAgrees
    <2>8. \E e \in {l.day : l \in rows} :
            rows = {[op |-> o, action |-> b, day |-> e] : b \in Units[o]}
      BY <2>6
    <2> HIDE DEF rows, d
    <2>9. ASSUME NEW q \in Operations
          PROVE  IF reservations'[q].status = "consumed"
                 THEN \E e \in {l.day : l \in {k \in logs' : k.op = q}} :
                        {l \in logs' : l.op = q} =
                          {[op |-> q, action |-> b, day |-> e] : b \in Units[q]}
                 ELSE {l \in logs' : l.op = q} = {}
      <3>1. CASE q = o
        <4> DEFINE mine == {l \in logs' : l.op = q}
        <4>1. mine = rows /\ reservations'[q].status = "consumed"
          BY <1>2, <2>3, <3>1
        <4>2. \E e \in {l.day : l \in mine} :
                mine = {[op |-> q, action |-> b, day |-> e] : b \in Units[q]}
          BY <2>8, <3>1, <4>1
        <4> QED
          BY <4>1, <4>2
      <3>2. CASE q /= o
        BY <2>4, <2>7, <3>2
      <3> QED
        BY <3>1, <3>2
    <2> QED
      BY <2>9 DEF LedgerAgrees
  <1> QED
    BY <1>2, <1>4, <1>5

\* The commit keeps the invariant, also when its answer is lost.
LEMMA ChargeStep ==
  ASSUME LedgerInv, NEW o \in Operations, requests[o].pc = "commit", Charge(o),
         NEW pc \in {"succeeded", "release", "failed"}, Goto(o, pc),
         UNCHANGED clock, faults' \in 0..MaxFaults
  PROVE  LedgerInv'
  <1>1. TypeOK /\ pc \in PC
    BY Places DEF LedgerInv
  <1>2. /\ requests' \in [Operations -> Request]
        /\ \A q \in Operations \ {o} : requests'[q] = requests[q]
        /\ requests'[o].pc = pc
        /\ requests'[o].expired = {}
    BY <1>1, GotoSets, NothingExpired
  <1>3. /\ reservations' \in [Operations -> Reservation]
        /\ reservations'[o].status = "consumed"
        /\ \A q \in Operations \ {o} : reservations'[q] = reservations[q]
        /\ logs' \subseteq Log /\ IsFiniteSet(logs')
        /\ LedgerAgrees'
    BY ChargeAgrees
  <1>4. TypeOK'
    BY <1>1, <1>2, <1>3 DEF TypeOK
  <1>5. Alone'
    <2>1. ~HoldsUser(o)' /\ ~SharesUser(o)'
      BY <1>2 DEF HoldsUser, SharesUser
    <2> QED
      BY <1>2, <2>1 DEF LedgerInv, Alone, HoldsUser, SharesUser
  <1>6. RowsStand'
    <2>1. ~Unborn(o)'
      BY <1>2 DEF Unborn
    <2> QED
      BY <1>2, <1>3, <2>1 DEF LedgerInv, RowsStand, Unborn
  <1>7. ReleasesStand'
    <2>1. \A q \in Operations : o \notin requests[q].expired
      BY DEF LedgerInv, ReleasesStand
    <2>2. \A q \in Operations \ {o} : \A r \in requests[q].expired : r \in Operations \ {o}
      BY <1>1, <2>1 DEF TypeOK, Request
    <2> QED
      BY <1>2, <1>3, <2>2 DEF LedgerInv, ReleasesStand
  <1>8. SuccessIsCharged'
    BY <1>2, <1>3 DEF LedgerInv, SuccessIsCharged
  <1> QED
    BY <1>3, <1>4, <1>5, <1>6, <1>7, <1>8 DEF LedgerInv

\* Giving a reservation back keeps the invariant: nobody is expiring it.
LEMMA ReleaseStep ==
  ASSUME LedgerInv, NEW o \in Operations, Release(o)
  PROVE  LedgerInv'
  <1>1. TypeOK /\ requests[o].pc = "release" /\ Goto(o, "failed") /\ UNCHANGED <<clock, logs, faults>>
    BY DEF LedgerInv, Release
  <1>2. CASE UNCHANGED reservations
    BY <1>1, <1>2, LetGoStep DEF TypeOK
  <1>3. CASE /\ reservations[o].status = "reserved"
             /\ reservations' = [reservations EXCEPT ![o].status = "released"]
    <2>1. /\ requests' \in [Operations -> Request]
          /\ \A q \in Operations \ {o} : requests'[q] = requests[q]
          /\ requests'[o].pc = "failed"
          /\ requests'[o].expired = {}
      BY <1>1, Places, GotoSets, NothingExpired
    <2>2. /\ reservations' \in [Operations -> Reservation]
          /\ reservations'[o].status = "released"
          /\ \A q \in Operations \ {o} : reservations'[q] = reservations[q]
      BY <1>1, <1>3 DEF TypeOK, Reservation
    <2>3. \A q \in Operations : reservations'[q].status = "consumed" <=>
                                reservations[q].status = "consumed"
      BY <1>3, <2>2
    <2>4. TypeOK'
      BY <1>1, <2>1, <2>2 DEF TypeOK
    <2>5. Alone'
      <3>1. ~HoldsUser(o)' /\ ~SharesUser(o)'
        BY <2>1 DEF HoldsUser, SharesUser
      <3> QED
        BY <2>1, <3>1 DEF LedgerInv, Alone, HoldsUser, SharesUser
    <2>6. RowsStand'
      <3>1. ~Unborn(o)'
        BY <2>1 DEF Unborn
      <3> QED
        BY <2>1, <2>2, <3>1 DEF LedgerInv, RowsStand, Unborn
    <2>7. ReleasesStand'
      <3>1. \A q \in Operations \ {o} : o \notin requests[q].expired
        BY DEF Release, RowFree, HoldsRow
      <3>2. \A q \in Operations \ {o} : \A r \in requests[q].expired : r \in Operations \ {o}
        BY <1>1, <3>1 DEF TypeOK, Request
      <3> QED
        BY <2>1, <2>2, <3>2 DEF LedgerInv, ReleasesStand
    <2>8. LedgerAgrees' /\ SuccessIsCharged' /\ IsFiniteSet(logs')
      <3>1. LedgerAgrees'
        BY <1>1, <2>3 DEF LedgerInv, LedgerAgrees
      <3>2. SuccessIsCharged'
        BY <2>1, <2>3 DEF LedgerInv, SuccessIsCharged
      <3> QED
        BY <1>1, <3>1, <3>2 DEF LedgerInv
    <2> QED
      BY <2>4, <2>5, <2>6, <2>7, <2>8 DEF LedgerInv
  <1> QED
    BY <1>2, <1>3 DEF Release

-----------------------------------------------------------------------------
(* The ledger: theorems *)

\* The invariant holds initially: nothing is reserved, charged or locked.
LEMMA LedgerInit ==
  ASSUME Init
  PROVE  LedgerInv
  <1>1. 0 \in Time /\ 0 = Day(0)
    BY QuotaAssumption DEF Time, Day
  <1>2. [status |-> "none", day |-> 0, expires |-> 0] \in Reservation
    BY <1>1, QuotaAssumption DEF Reservation
  <1>3. [pc |-> "begin", now |-> 0, used |-> 0, expired |-> {}, started |-> 0] \in Request
    BY <1>1, Places DEF Request
  <1>4. TypeOK
    BY <1>1, <1>2, <1>3, QuotaAssumption DEF Init, TypeOK
  <1>5. IsFiniteSet(logs)
    BY FS_EmptySet DEF Init
  <1>6. Alone /\ RowsStand /\ ReleasesStand
    BY DEF Init, Alone, RowsStand, ReleasesStand, HoldsUser, Unborn
  <1>7. LedgerAgrees /\ SuccessIsCharged
    BY DEF Init, LedgerAgrees, SuccessIsCharged
  <1> QED
    BY <1>4, <1>5, <1>6, <1>7 DEF LedgerInv

\* Every step keeps the ledger's invariant.
LEMMA LedgerStep ==
  ASSUME LedgerInv, [Next]_vars
  PROVE  LedgerInv'
  <1>1. faults \in 0..MaxFaults /\ clock \in Time
    BY DEF LedgerInv, TypeOK
  <1>2. ASSUME NEW o \in Operations, Step(o)
        PROVE  LedgerInv'
    <2>1. CASE Begin(o) \/ LockUser(o) \/ ReleaseExpired(o) \/ CountUsed(o) \/ SumReserved(o)
      BY <2>1, ReserveStep
    <2>2. CASE Insert(o)
      BY <2>2, InsertStep
    <2>3. CASE Build(o) \/ Generate(o) \/ Store(o)
      BY <2>3, GenerationStep
    <2>4. CASE Consume(o) \/ LogUsage(o)
      BY <2>4, FinalizeStep
    <2>5. CASE Commit(o)
      BY <1>1, <2>5, ChargeStep DEF Commit
    <2>6. CASE Release(o)
      BY <2>6, ReleaseStep
    <2>7. CASE DeadlockVictim(o)
      <3>1. UNCHANGED <<clock, reservations, logs, faults>>
        BY <2>7 DEF DeadlockVictim
      <3>2. \/ EndReserving(o, "failed")
            \/ requests[o].pc = "log" /\ ConsumeFails(o)
        BY <2>7 DEF DeadlockVictim, Deadlocked
      <3> QED
        BY <1>1, <3>1, <3>2, LetGoStep, ConsumeFailsStep
    <2> QED
      BY <1>2, <2>1, <2>2, <2>3, <2>4, <2>5, <2>6, <2>7 DEF Step
  <1>3. ASSUME Fault PROVE faults' \in 0..MaxFaults
    BY <1>1, <1>3, QuotaAssumption DEF Fault
  <1>4. ASSUME NEW o \in Operations, Crash(o)
        PROVE  LedgerInv'
    BY <1>3, <1>4, LetGoStep DEF Crash
  <1>5. ASSUME NEW o \in Operations, ConsumeError(o)
        PROVE  LedgerInv'
    <2>1. /\ faults' \in 0..MaxFaults /\ UNCHANGED clock /\ ConsumeFails(o)
          /\ \/ requests[o].pc \in {"consume", "log", "commit"} /\ UNCHANGED <<reservations, logs>>
             \/ requests[o].pc = "commit" /\ Charge(o)
      BY <1>3, <1>5 DEF ConsumeError
    <2>2. CASE requests[o].pc = "commit" /\ Charge(o)
      BY <2>1, <2>2, ChargeStep DEF ConsumeFails
    <2>3. CASE requests[o].pc \in {"consume", "log", "commit"} /\ UNCHANGED <<reservations, logs>>
      BY <2>1, <2>3, ConsumeFailsStep
    <2> QED
      BY <2>1, <2>2, <2>3
  <1>6. CASE Tick
    <2>1. TypeOK'
      BY <1>6, QuotaAssumption DEF Tick, LedgerInv, TypeOK, Time
    <2>2. UNCHANGED <<reservations, logs, requests>>
      BY <1>6 DEF Tick
    <2> QED
      BY <2>1, <2>2 DEF LedgerInv, Alone, HoldsUser, SharesUser, RowsStand, Unborn, ReleasesStand,
                        LedgerAgrees, SuccessIsCharged
  <1>7. CASE UNCHANGED vars
    BY <1>7 DEF vars, LedgerInv, TypeOK, Alone, HoldsUser, SharesUser, RowsStand, Unborn,
                ReleasesStand, LedgerAgrees, SuccessIsCharged
  <1> QED
    BY <1>2, <1>4, <1>5, <1>6, <1>7 DEF Next, Rest

\* The invariant is one.
THEOREM LedgerHolds == Spec => []LedgerInv
  <1>1. Init => LedgerInv
    BY LedgerInit
  <1>2. LedgerInv /\ [Next]_vars => LedgerInv'
    BY LedgerStep
  <1> QED
    BY <1>1, <1>2, PTL DEF Spec

\* Every variable keeps its type.
THEOREM TypeCorrect == Spec => []TypeOK
  <1>1. LedgerInv => TypeOK
    BY DEF LedgerInv
  <1> QED
    BY <1>1, LedgerHolds, PTL

\* The usage log charges exactly the consumed operations, each for its own units, once and
\* on one day: whatever expires, fails, dies or loses the answer of its commit.
THEOREM LedgerIsTrue == Spec => []LedgerAgrees
  <1>1. LedgerInv => LedgerAgrees
    BY DEF LedgerInv
  <1> QED
    BY <1>1, LedgerHolds, PTL

\* A request that answers with a generation has been charged for it.
THEOREM SuccessCharged == Spec => []SuccessIsCharged
  <1>1. LedgerInv => SuccessIsCharged
    BY DEF LedgerInv
  <1> QED
    BY <1>1, LedgerHolds, PTL

-----------------------------------------------------------------------------
(* Units and rows *)

\* Finitely many units belong to finitely many operations.
LEMMA UnitsFinite ==
  ASSUME NEW S \in SUBSET Operations
  PROVE  IsFiniteSet(UnitsOf(S)) /\ Cardinality(UnitsOf(S)) \in Nat
  <1>1. IsFiniteSet({"post_generated"} \cup {"image_generated"})
    BY FS_Singleton, FS_AddElement
  <1>2. IsFiniteSet(Action)
    <2>1. Action = {"post_generated"} \cup {"image_generated"}
      BY DEF Action
    <2> QED
      BY <1>1, <2>1
  <1>3. IsFiniteSet(Operations \X Action)
    BY <1>2, OperationsAssumption, FS_Product
  <1>4. UnitsOf(S) \in SUBSET (Operations \X Action)
    BY OperationsAssumption DEF UnitsOf
  <1> QED
    BY <1>3, <1>4, FS_Subset, FS_CardinalityType

\* Fewer operations have no more units.
LEMMA UnitsMonotone ==
  ASSUME NEW T \in SUBSET Operations, NEW S \in SUBSET T
  PROVE  Cardinality(UnitsOf(S)) <= Cardinality(UnitsOf(T))
  <1>1. UnitsOf(S) \in SUBSET UnitsOf(T)
    BY DEF UnitsOf
  <1> QED
    BY <1>1, UnitsFinite, FS_Subset

\* Two sets of operations together have at most the units of each.
LEMMA UnitsUnion ==
  ASSUME NEW S \in SUBSET Operations, NEW T \in SUBSET Operations
  PROVE  Cardinality(UnitsOf(S \cup T)) <= Cardinality(UnitsOf(S)) + Cardinality(UnitsOf(T))
  <1> DEFINE A == UnitsOf(S)
             B == UnitsOf(T)
             both == Cardinality(A \cap B)
  <1>1. UnitsOf(S \cup T) = A \cup B
    BY DEF UnitsOf
  <1>2. /\ IsFiniteSet(A) /\ Cardinality(A) \in Nat
        /\ IsFiniteSet(B) /\ Cardinality(B) \in Nat
    BY UnitsFinite
  <1>3. both \in Nat
    <2>1. A \cap B \in SUBSET A
      OBVIOUS
    <2> QED
      BY <1>2, <2>1, FS_Subset, FS_CardinalityType
  <1>4. Cardinality(A \cup B) = Cardinality(A) + Cardinality(B) - both
    BY <1>2, FS_Union
  <1> HIDE DEF A, B, both
  <1>5. Cardinality(A \cup B) <= Cardinality(A) + Cardinality(B)
    BY <1>2, <1>3, <1>4
  <1> QED
    BY <1>1, <1>5 DEF A, B

\* One operation has its own units.
LEMMA UnitsSingle ==
  ASSUME NEW o \in Operations
  PROVE  Cardinality(UnitsOf({o})) = Cardinality(Units[o]) /\ Cardinality(Units[o]) \in Nat
  <1>1. UnitsOf({o}) = {o} \X Units[o]
    BY DEF UnitsOf
  <1>2. IsFiniteSet(Units[o])
    <2>1. IsFiniteSet({"post_generated"} \cup {"image_generated"})
      BY FS_Singleton, FS_AddElement
    <2>2. Units[o] \in SUBSET ({"post_generated"} \cup {"image_generated"})
      BY OperationsAssumption DEF Action
    <2> QED
      BY <2>1, <2>2, FS_Subset
  <1>3. /\ Cardinality({o} \X Units[o]) = Cardinality({o}) * Cardinality(Units[o])
        /\ IsFiniteSet({o}) /\ Cardinality({o}) = 1
    BY <1>2, FS_Singleton, FS_Product
  <1>4. Cardinality(Units[o]) \in Nat
    BY <1>2, FS_CardinalityType
  <1> DEFINE n == Cardinality(Units[o])
  <1>5. Cardinality(UnitsOf({o})) = Cardinality({o}) * n
    BY <1>1, <1>3
  <1> HIDE DEF n
  <1> QED
    BY <1>3, <1>4, <1>5 DEF n

\* The usage of a day is the units of the operations consumed on it, one row for each.
LEMMA UsageIsUnits ==
  ASSUME LedgerInv, OneDay, NEW d
  PROVE  Cardinality(LogsOf(d)) = Cardinality(UnitsOf(Consumed(d)))
  <1> DEFINE S == UnitsOf(Consumed(d))
             T == LogsOf(d)
             f == [u \in S |-> [op |-> u[1], action |-> u[2], day |-> d]]
  <1>1. \A u \in S : /\ u = <<u[1], u[2]>>
                     /\ u[1] \in Consumed(d) /\ u[2] \in Units[u[1]]
    BY DEF UnitsOf
  <1>2. \A l \in logs : l.op \in Operations /\ l = [op |-> l.op, action |-> l.action, day |-> l.day]
    BY DEF LedgerInv, TypeOK, Log
  <1>3. ASSUME NEW u \in S
        PROVE  f[u] \in T
    <2>1. u[1] \in Operations /\ reservations[u[1]].status = "consumed" /\ reservations[u[1]].day = d
      BY <1>1 DEF Consumed
    <2>2. PICK e : {l \in logs : l.op = u[1]} = {[op |-> u[1], action |-> a, day |-> e] : a \in Units[u[1]]}
      BY <2>1 DEF LedgerInv, LedgerAgrees
    <2>3. [op |-> u[1], action |-> u[2], day |-> e] \in logs
      BY <1>1, <2>2
    <2>4. e = d
      BY <2>1, <2>3 DEF OneDay
    <2> QED
      BY <2>3, <2>4 DEF LogsOf
  <1>4. \A u, v \in S : f[u] = f[v] => u = v
    <2> SUFFICES ASSUME NEW u \in S, NEW v \in S, f[u] = f[v]
                 PROVE  u = v
      OBVIOUS
    <2>1. u[1] = v[1] /\ u[2] = v[2]
      <3>1. /\ f[u].op = u[1] /\ f[u].action = u[2]
            /\ f[v].op = v[1] /\ f[v].action = v[2]
        OBVIOUS
      <3> QED
        BY <3>1
    <2> QED
      BY <1>1, <2>1
  <1>5. ASSUME NEW l \in T
        PROVE  \E u \in S : f[u] = l
    <2>1. l \in logs /\ l.day = d /\ l.op \in Operations
      BY <1>2 DEF LogsOf
    <2>2. reservations[l.op].status = "consumed"
      BY <2>1 DEF LedgerInv, LedgerAgrees
    <2>3. PICK e : {k \in logs : k.op = l.op} = {[op |-> l.op, action |-> a, day |-> e] : a \in Units[l.op]}
      BY <2>1, <2>2 DEF LedgerInv, LedgerAgrees
    <2>4. PICK a \in Units[l.op] : l = [op |-> l.op, action |-> a, day |-> e]
      BY <2>1, <2>3
    <2>5. e = d /\ l.op \in Consumed(d)
      BY <2>1, <2>2, <2>4 DEF OneDay, Consumed
    <2>6. <<l.op, a>> \in S
      BY <2>5 DEF UnitsOf
    <2>7. f[<<l.op, a>>] = l
      BY <2>4, <2>5, <2>6
    <2> QED
      BY <2>6, <2>7
  <1>6. f \in [S -> T]
    BY <1>3
  <1> HIDE DEF f
  <1>7. f \in Bijection(S, T)
    BY <1>4, <1>5, <1>6, Fun_IsBij
  <1>8. ExistsBijection(S, T)
    BY <1>7 DEF ExistsBijection
  <1>9. Consumed(d) \in SUBSET Operations
    BY DEF Consumed
  <1>10. IsFiniteSet(S)
    BY <1>9, UnitsFinite
  <1> QED
    BY <1>8, <1>10, FS_Bijection

-----------------------------------------------------------------------------
(* The daily limit: steps *)

\* A step of one request that leaves the rows alone keeps the day's invariant, if what the
\* request has read is right.
LEMMA DayRowsAlone ==
  ASSUME DayInv, LedgerInv', NEW o \in Operations,
         UNCHANGED <<reservations, logs>>,
         \A q \in Operations \ {o} : requests'[q] = requests[q],
         reservations[o].status /= "none" => requests'[o].now = requests[o].now,
         requests'[o].pc \in {"generate", "store", "consume", "log", "commit"} =>
           Day(requests'[o].started) = Day(requests'[o].now),
         requests'[o].pc \in {"count", "sum"} => Expired(o)' \subseteq requests'[o].expired,
         requests'[o].pc = "sum" =>
           requests'[o].used = Cardinality(LogsOf(Day(requests'[o].now))),
         requests'[o].pc = "insert" =>
           Cardinality(UnitsOf(Live(Day(requests'[o].now)) \ requests'[o].expired))
             + Cardinality(Units[o]) <= Limit
  PROVE  DayInv'
  <1>1. OneDay'
    BY DEF DayInv, OneDay
  <1>2. Swept'
    <2> SUFFICES ASSUME NEW q \in Operations, requests'[q].pc \in {"count", "sum"}
                 PROVE  Expired(q)' \subseteq requests'[q].expired
      BY DEF Swept
    <2>1. CASE q = o
      BY <2>1
    <2>2. CASE q /= o
      BY <2>2 DEF DayInv, Swept, Expired
    <2> QED
      BY <2>1, <2>2
  <1>3. \A d : LogsOf(d)' = LogsOf(d) /\ Live(d)' = Live(d)
    BY DEF LogsOf, Live
  <1>4. CountStands'
    <2> SUFFICES ASSUME NEW q \in Operations
                 PROVE  /\ requests'[q].pc = "sum" =>
                             requests'[q].used = Cardinality(LogsOf(Day(requests'[q].now)))
                        /\ requests'[q].pc = "insert" =>
                             Cardinality(UnitsOf(Live(Day(requests'[q].now)) \ requests'[q].expired))
                               + Cardinality(Units[q]) <= Limit
      BY <1>3 DEF CountStands, LogsOf, Live
    <2>1. CASE q = o
      BY <2>1
    <2>2. CASE q /= o
      BY <2>2 DEF DayInv, CountStands
    <2> QED
      BY <2>1, <2>2
  <1>5. LiveFits'
    BY DEF DayInv, LiveFits, Live
  <1> QED
    BY <1>1, <1>2, <1>4, <1>5 DEF DayInv

\* What a request has found to fit does: nothing is used or reserved on its day but what it
\* has counted, and what has expired for it, which it releases.
LEMMA CheckedFits ==
  ASSUME DayInv, NEW o \in Operations, requests[o].pc = "sum",
         requests[o].used + Cardinality(UnitsOf(Active(Day(requests[o].now), requests[o].now)))
           + Cardinality(Units[o]) <= Limit
  PROVE  Cardinality(UnitsOf(Live(Day(requests[o].now)) \ requests[o].expired))
           + Cardinality(Units[o]) <= Limit
  <1> DEFINE now == requests[o].now
             d == Day(now)
             A == Active(d, now)
             C == Consumed(d)
             R == Live(d) \ requests[o].expired
  <1>1. /\ A \in SUBSET Operations /\ C \in SUBSET Operations /\ A \cup C \in SUBSET Operations
        /\ TypeOK /\ LedgerInv /\ OneDay
    BY DEF Active, Consumed, DayInv, LedgerInv
  <1>2. R \subseteq A \cup C
    <2>1. \A r \in Operations : reservations[r].expires \in Int /\ requests[o].now \in Int
      BY <1>1, QuotaAssumption DEF TypeOK, Reservation, Request, Time
    <2>2. Expired(o) \subseteq requests[o].expired
      BY DEF DayInv, Swept
    <2> QED
      BY <2>1, <2>2 DEF Live, Active, Consumed, Expired
  <1>3. Cardinality(LogsOf(d)) = Cardinality(UnitsOf(C))
    BY <1>1, UsageIsUnits
  <1>4. requests[o].used = Cardinality(LogsOf(d))
    BY DEF DayInv, CountStands
  <1>5. Cardinality(UnitsOf(R)) <= Cardinality(UnitsOf(A \cup C))
    BY <1>1, <1>2, UnitsMonotone
  <1>6. Cardinality(UnitsOf(A \cup C)) <= Cardinality(UnitsOf(A)) + Cardinality(UnitsOf(C))
    BY <1>1, UnitsUnion
  <1>7. /\ Cardinality(UnitsOf(A)) \in Nat /\ Cardinality(UnitsOf(C)) \in Nat
        /\ Cardinality(UnitsOf(A \cup C)) \in Nat /\ Cardinality(UnitsOf(R)) \in Nat
        /\ Cardinality(Units[o]) \in Nat
    <2>1. R \in SUBSET Operations
      BY <1>1, <1>2
    <2> QED
      BY <1>1, <2>1, UnitsFinite, UnitsSingle
  <1> HIDE DEF A, C, R, d
  <1>8. Cardinality(UnitsOf(C)) + Cardinality(UnitsOf(A)) + Cardinality(Units[o]) <= Limit
    BY <1>3, <1>4 DEF A, d, now
  <1>9. Cardinality(UnitsOf(R)) + Cardinality(Units[o]) <= Limit
    BY <1>5, <1>6, <1>7, <1>8, QuotaAssumption
  <1> QED
    BY <1>9 DEF R, d, now

\* Reserving, up to the insert, keeps the day's invariant.
LEMMA DayReserveStep ==
  ASSUME DayInv, LedgerInv', NEW o \in Operations,
         Begin(o) \/ LockUser(o) \/ ReleaseExpired(o) \/ CountUsed(o) \/ SumReserved(o)
  PROVE  DayInv'
  <1>1. TypeOK /\ IsFiniteSet(logs) /\ LedgerInv /\ requests[o] \in Request
    BY DEF DayInv, LedgerInv, TypeOK
  <1>2. UNCHANGED <<reservations, logs>>
    BY DEF Begin, LockUser, ReleaseExpired, CountUsed, SumReserved
  <1>3. CASE Begin(o)
    <2> DEFINE x == [requests[o] EXCEPT !.pc = "lock_user", !.now = clock]
    <2>1. x \in Request /\ x.pc = "lock_user"
      BY <1>1, Places DEF Request, TypeOK
    <2>2. requests' = [requests EXCEPT ![o] = x]
      BY <1>3 DEF Begin
    <2>3. requests'[o].pc = "lock_user" /\ \A q \in Operations \ {o} : requests'[q] = requests[q]
      BY <1>1, <2>1, <2>2, SlotSets
    <2>4. reservations[o].status = "none"
      BY <1>1, <1>3 DEF Begin, LedgerInv, RowsStand, Unborn
    <2> QED
      BY <1>2, <2>3, <2>4, DayRowsAlone
  <1>4. CASE LockUser(o)
    <2>1. /\ \A q \in Operations \ {o} : requests'[q] = requests[q]
          /\ requests'[o].pc = "release_expired" /\ requests'[o].now = requests[o].now
      BY <1>1, <1>4, Places, GotoSets DEF LockUser
    <2> QED
      BY <1>2, <2>1, DayRowsAlone
  <1>5. CASE ReleaseExpired(o)
    <2> DEFINE x == [requests[o] EXCEPT !.pc = "count", !.expired = Expired(o)]
    <2>1. /\ x \in Request
          /\ x.pc = "count" /\ x.expired = Expired(o) /\ x.now = requests[o].now
      BY <1>1, Places DEF Request, Expired
    <2>2. requests' = [requests EXCEPT ![o] = x]
      BY <1>5 DEF ReleaseExpired
    <2>3. /\ \A q \in Operations \ {o} : requests'[q] = requests[q]
          /\ requests'[o] = x
      BY <1>1, <2>1, <2>2, SlotSets
    <2>4. /\ requests'[o].pc = "count" /\ requests'[o].now = requests[o].now
          /\ requests'[o].expired = Expired(o)
      BY <2>1, <2>3
    <2>5. Expired(o)' = Expired(o)
      BY <1>2, <2>4 DEF Expired
    <2> HIDE DEF x
    <2> QED
      BY <1>2, <2>3, <2>4, <2>5, DayRowsAlone
  <1>6. CASE CountUsed(o)
    <2> DEFINE n == Cardinality(LogsOf(Day(requests[o].now)))
               x == [requests[o] EXCEPT !.pc = "sum", !.used = n]
    <2>1. n \in Nat
      BY <1>1, CountType
    <2>2. /\ x \in Request
          /\ x.pc = "sum" /\ x.expired = requests[o].expired /\ x.now = requests[o].now /\ x.used = n
      BY <1>1, <2>1, Places DEF Request
    <2>3. requests' = [requests EXCEPT ![o] = x]
      BY <1>6 DEF CountUsed
    <2>4. /\ \A q \in Operations \ {o} : requests'[q] = requests[q]
          /\ requests'[o] = x
      BY <1>1, <2>2, <2>3, SlotSets
    <2>5. /\ requests'[o].pc = "sum" /\ requests'[o].now = requests[o].now
          /\ requests'[o].expired = requests[o].expired /\ requests'[o].used = n
      BY <2>2, <2>4
    <2>6. Expired(o)' \subseteq requests'[o].expired
      <3>1. requests[o].pc = "count"
        BY <1>6 DEF CountUsed
      <3>2. Expired(o)' = Expired(o)
        BY <1>2, <2>5 DEF Expired
      <3> QED
        BY <2>5, <3>1, <3>2 DEF DayInv, Swept
    <2> HIDE DEF x
    <2> QED
      BY <1>2, <2>4, <2>5, <2>6, DayRowsAlone
  <1>7. CASE SumReserved(o)
    <2> DEFINE now == requests[o].now
               total == requests[o].used + Cardinality(UnitsOf(Active(Day(now), now)))
                          + Cardinality(Units[o])
    <2>1. CASE total > Limit
      <3>1. EndReserving(o, "failed")
        BY <1>7, <2>1 DEF SumReserved
      <3>2. /\ \A q \in Operations \ {o} : requests'[q] = requests[q]
            /\ requests'[o].pc = "failed" /\ requests'[o].now = requests[o].now
        BY <1>1, <3>1, Places, EndSets
      <3> QED
        BY <1>2, <3>2, DayRowsAlone
    <2>2. CASE ~(total > Limit)
      <3>1. Goto(o, "insert") /\ requests[o].pc = "sum"
        BY <1>7, <2>2 DEF SumReserved
      <3>2. /\ \A q \in Operations \ {o} : requests'[q] = requests[q]
            /\ requests'[o].pc = "insert" /\ requests'[o].now = requests[o].now
            /\ requests'[o].expired = requests[o].expired
        BY <1>1, <3>1, Places, GotoSets
      <3>3. total \in Nat
        <4>1. Active(Day(now), now) \in SUBSET Operations
          BY DEF Active
        <4>2. requests[o].used \in Nat
          BY <1>1 DEF Request
        <4> DEFINE a == Cardinality(UnitsOf(Active(Day(now), now)))
                   n == Cardinality(Units[o])
        <4>3. a \in Nat /\ n \in Nat
          BY <4>1, UnitsFinite, UnitsSingle
        <4> HIDE DEF a, n
        <4>4. requests[o].used + a + n \in Nat
          BY <4>2, <4>3
        <4> QED
          BY <4>4 DEF a, n
      <3>4. total <= Limit
        BY <2>2, <3>3, QuotaAssumption
      <3>5. Cardinality(UnitsOf(Live(Day(requests[o].now)) \ requests[o].expired))
              + Cardinality(Units[o]) <= Limit
        BY <3>1, <3>4, CheckedFits
      <3> QED
        BY <1>2, <3>2, <3>5, DayRowsAlone
    <2> QED
      BY <2>1, <2>2
  <1> QED
    BY <1>3, <1>4, <1>5, <1>6, <1>7

\* The insert keeps it: the units were checked while the user row was held.
LEMMA DayInsertStep ==
  ASSUME DayInv, LedgerInv', NEW o \in Operations, Insert(o)
  PROVE  DayInv'
  <1> DEFINE now == requests[o].now
             d == Day(now)
             rest == Live(d) \ requests[o].expired
             row == [status |-> "reserved", day |-> Day(now), expires |-> now + TTL]
  <1>1. TypeOK /\ LedgerInv /\ requests[o] \in Request /\ requests[o].pc = "insert" /\ HoldsUser(o)
    BY DEF DayInv, LedgerInv, TypeOK, Insert, HoldsUser
  <1>2. /\ \A q \in Operations \ {o} : requests'[q] = requests[q]
        /\ requests'[o].pc = "build" /\ requests'[o].now = now
        /\ UNCHANGED logs
    BY <1>1, Places, EndSets DEF Insert
  <1>3. /\ reservations[o].status = "none"
        /\ \A q \in Operations : requests'[q].pc \notin {"count", "sum", "insert"}
        /\ \A r \in requests[o].expired : reservations[r].status = "reserved"
    BY <1>1, <1>2 DEF LedgerInv, RowsStand, Unborn, Alone, HoldsUser, ReleasesStand
  <1>4. /\ reservations'[o].status = "reserved" /\ reservations'[o].day = d
        /\ \A r \in Operations \ {o} :
             /\ reservations'[r].day = reservations[r].day
             /\ r \in requests[o].expired => reservations'[r].status = "released"
             /\ r \notin requests[o].expired => reservations'[r] = reservations[r]
    <2>1. /\ \A r \in Operations :
               /\ [reservations[r] EXCEPT !.status = "released"].status = "released"
               /\ [reservations[r] EXCEPT !.status = "released"].day = reservations[r].day
      BY <1>1 DEF TypeOK, Reservation
    <2>2. row.status = "reserved" /\ row.day = d
      OBVIOUS
    <2>3. reservations' = [r \in Operations |->
             IF r = o THEN row
             ELSE IF r \in requests[o].expired THEN [reservations[r] EXCEPT !.status = "released"]
             ELSE reservations[r]]
      BY DEF Insert
    <2> HIDE DEF row, d
    <2> QED
      BY <2>1, <2>2, <2>3
  <1>5. OneDay'
    <2>1. \A r \in Operations : reservations'[r].status /= "none" =>
                                  reservations'[r].day = Day(requests'[r].now)
      BY <1>2, <1>3, <1>4 DEF DayInv, OneDay
    <2>2. \A r \in Operations :
            requests'[r].pc \in {"generate", "store", "consume", "log", "commit"} =>
              Day(requests'[r].started) = Day(requests'[r].now)
      BY <1>2 DEF DayInv, OneDay
    <2>3. \A l \in logs : l.op \in Operations \ {o}
      BY <1>1, <1>3 DEF LedgerInv, LedgerAgrees, TypeOK, Log
    <2>4. \A l \in logs' : l.day = reservations'[l.op].day
      BY <1>2, <1>4, <2>3 DEF DayInv, OneDay
    <2> QED
      BY <2>1, <2>2, <2>4 DEF OneDay
  <1>6. Swept' /\ CountStands'
    BY <1>3 DEF Swept, CountStands
  <1>7. LiveFits'
    <2> DEFINE next(e) == {r \in Operations : /\ reservations'[r].status \in {"reserved", "consumed"}
                                              /\ reservations'[r].day = e}
    <2> SUFFICES ASSUME NEW time \in Time
                 PROVE  Cardinality(UnitsOf(next(Day(time)))) <= Limit
      BY DEF LiveFits, UnitsOf, Live
    <2>1. \A e : Live(e) \in SUBSET Operations /\ next(e) \in SUBSET Operations
      BY DEF Live
    <2>2. CASE Day(time) = d
      <3>1. next(d) \subseteq rest \cup {o}
        BY <1>3, <1>4 DEF Live
      <3>2. rest \in SUBSET Operations /\ {o} \in SUBSET Operations /\ rest \cup {o} \in SUBSET Operations
        BY <2>1
      <3>3. Cardinality(UnitsOf(rest)) + Cardinality(Units[o]) <= Limit
        BY <1>1 DEF DayInv, CountStands
      <3>4. /\ Cardinality(UnitsOf(next(d))) <= Cardinality(UnitsOf(rest \cup {o}))
            /\ Cardinality(UnitsOf(rest \cup {o})) <= Cardinality(UnitsOf(rest)) + Cardinality(UnitsOf({o}))
            /\ Cardinality(UnitsOf({o})) = Cardinality(Units[o])
        BY <3>1, <3>2, UnitsMonotone, UnitsUnion, UnitsSingle
      <3>5. /\ Cardinality(UnitsOf(next(d))) \in Nat /\ Cardinality(UnitsOf(rest \cup {o})) \in Nat
            /\ Cardinality(UnitsOf(rest)) \in Nat /\ Cardinality(Units[o]) \in Nat
        BY <2>1, <3>2, UnitsFinite, UnitsSingle
      <3> DEFINE n == Cardinality(Units[o])
                 before == Cardinality(UnitsOf(rest))
                 both == Cardinality(UnitsOf(rest \cup {o}))
                 after == Cardinality(UnitsOf(next(d)))
      <3>6. /\ after \in Nat /\ both \in Nat /\ before \in Nat /\ n \in Nat
            /\ after <= both /\ both <= before + n /\ before + n <= Limit
        BY <3>3, <3>4, <3>5
      <3> HIDE DEF n, before, both, after
      <3>7. after <= Limit
        BY <3>6, QuotaAssumption
      <3> QED
        BY <2>2, <3>7 DEF after
    <2>3. CASE Day(time) /= d
      <3>1. next(Day(time)) \in SUBSET Live(Day(time))
        BY <1>3, <1>4, <2>3 DEF Live
      <3>2. Cardinality(UnitsOf(Live(Day(time)))) <= Limit
        BY DEF DayInv, LiveFits
      <3>3. Cardinality(UnitsOf(next(Day(time)))) <= Cardinality(UnitsOf(Live(Day(time))))
        BY <2>1, <3>1, UnitsMonotone
      <3>4. /\ Cardinality(UnitsOf(next(Day(time)))) \in Nat
            /\ Cardinality(UnitsOf(Live(Day(time)))) \in Nat
        BY <2>1, UnitsFinite
      <3> DEFINE before == Cardinality(UnitsOf(Live(Day(time))))
                 after == Cardinality(UnitsOf(next(Day(time))))
      <3> HIDE DEF before, after
      <3>5. after <= Limit
        <4>1. after \in Nat /\ before \in Nat /\ after <= before /\ before <= Limit
          BY <3>2, <3>3, <3>4 DEF before, after
        <4> QED
          BY <4>1, QuotaAssumption
      <3> QED
        BY <3>5 DEF after
    <2> QED
      BY <2>2, <2>3
  <1> QED
    BY <1>5, <1>6, <1>7 DEF DayInv

\* A request that ends, or goes on, without dates of its own keeps the day's invariant.
LEMMA DayLetGoStep ==
  ASSUME DayInv, LedgerInv', NEW o \in Operations, UNCHANGED <<reservations, logs>>,
         NEW pc \in {"generate", "store", "consume", "log", "commit", "release", "succeeded", "failed"},
         EndReserving(o, pc) \/ Goto(o, pc),
         pc \in {"release", "succeeded", "failed"} \/ 
           requests[o].pc \in {"generate", "store", "consume", "log", "commit"}
  PROVE  DayInv'
  <1>1. TypeOK /\ pc \in PC
    BY Places DEF DayInv, LedgerInv
  <1>2. /\ \A q \in Operations \ {o} : requests'[q] = requests[q]
        /\ requests'[o].pc = pc /\ requests'[o].now = requests[o].now
        /\ requests'[o].started = requests[o].started
    BY <1>1, EndSets, GotoSets
  <1>3. requests[o].pc \in {"generate", "store", "consume", "log", "commit"} =>
          Day(requests'[o].started) = Day(requests'[o].now)
    BY <1>2 DEF DayInv, OneDay
  <1> QED
    BY <1>2, <1>3, DayRowsAlone

\* Generating and finalizing, up to the commit, keep it: without a midnight between them the
\* transaction that writes the usage starts on the day of the reservation.
LEMMA DayGenerationStep ==
  ASSUME DayInv, LedgerInv', NoMidnight, NEW o \in Operations,
         Build(o) \/ Generate(o) \/ Store(o) \/ Consume(o) \/ LogUsage(o)
  PROVE  DayInv'
  <1>1. TypeOK /\ LedgerInv /\ requests[o] \in Request
    BY DEF DayInv, LedgerInv, TypeOK
  <1>2. UNCHANGED <<clock, reservations, logs>>
    BY DEF Build, Generate, Store, Consume, LogUsage
  <1>3. CASE Build(o)
    <2> DEFINE x == [requests[o] EXCEPT !.pc = "generate", !.started = clock]
    <2>1. /\ x \in Request
          /\ x.pc = "generate" /\ x.now = requests[o].now /\ x.started = clock
      BY <1>1, Places DEF Request, TypeOK
    <2>2. requests' = [requests EXCEPT ![o] = x]
      BY <1>3 DEF Build
    <2>3. /\ \A q \in Operations \ {o} : requests'[q] = requests[q]
          /\ requests'[o].pc = "generate" /\ requests'[o].now = requests[o].now
          /\ requests'[o].started = clock
      BY <1>1, <2>1, <2>2, SlotSets
    <2>4. Day(clock) = Day(requests[o].now)
      BY <1>3 DEF Build, NoMidnight
    <2> QED
      BY <1>2, <2>3, <2>4, DayRowsAlone
  <1>4. CASE Generate(o) \/ Store(o)
    <2>1. /\ requests[o].pc \in {"generate", "store"}
          /\ \E pc \in {"store", "consume", "release"} : Goto(o, pc)
      BY <1>4 DEF Generate, Store
    <2> QED
      BY <1>2, <2>1, DayLetGoStep
  <1>5. CASE Consume(o) /\ reservations[o].status = "reserved"
    <2>0. PICK started \in Begun(o) :
            requests' = [requests EXCEPT ![o] = [@ EXCEPT !.pc = "log", !.started = started]]
      BY <1>5 DEF Consume
    <2> DEFINE x == [requests[o] EXCEPT !.pc = "log", !.started = started]
    <2>1. /\ x \in Request
          /\ x.pc = "log" /\ x.now = requests[o].now /\ x.started = started
      BY <1>1, <2>0, Places DEF Begun, Request, TypeOK
    <2>2. requests' = [requests EXCEPT ![o] = x]
      BY <2>0
    <2>3. /\ \A q \in Operations \ {o} : requests'[q] = requests[q]
          /\ requests'[o].pc = "log" /\ requests'[o].now = requests[o].now
          /\ requests'[o].started = started
      BY <1>1, <2>1, <2>2, SlotSets
    <2>4. Day(started) = Day(requests[o].now)
      BY <1>5, <2>0 DEF Begun, Consume, NoMidnight, DayInv, OneDay
    <2> QED
      BY <1>2, <2>3, <2>4, DayRowsAlone
  <1>6. CASE Consume(o) /\ reservations[o].status /= "reserved"
    BY <1>2, <1>6, DayLetGoStep DEF Consume, ConsumeFails
  <1>7. CASE LogUsage(o)
    BY <1>2, <1>7, DayLetGoStep DEF LogUsage
  <1> QED
    BY <1>3, <1>4, <1>5, <1>6, <1>7

\* The commit keeps it: the units move from the reserved to the consumed ones of one day, and
\* no request is counting.
LEMMA DayChargeStep ==
  ASSUME DayInv, LedgerInv', NEW o \in Operations, requests[o].pc = "commit", Charge(o),
         NEW pc \in {"succeeded", "release", "failed"}, Goto(o, pc)
  PROVE  DayInv'
  <1>1. TypeOK /\ LedgerInv /\ SharesUser(o)
    BY DEF DayInv, LedgerInv, SharesUser
  <1>2. /\ \A q \in Operations \ {o} : requests'[q] = requests[q]
        /\ requests'[o].pc = pc /\ requests'[o].now = requests[o].now
    BY <1>1, Places, GotoSets
  <1>3. \A q \in Operations : requests'[q].pc \notin {"count", "sum", "insert"}
    BY <1>1, <1>2 DEF LedgerInv, Alone, HoldsUser
  <1>4. /\ reservations[o].status = "reserved"
        /\ reservations'[o].status = "consumed"
        /\ reservations'[o].day = reservations[o].day
        /\ \A q \in Operations \ {o} : reservations'[q] = reservations[q]
    BY <1>1, ChargeAgrees DEF LedgerInv, RowsStand
  <1>5. OneDay'
    <2>1. \A r \in Operations : reservations'[r].status /= "none" =>
                                  reservations'[r].day = Day(requests'[r].now)
      BY <1>2, <1>4 DEF DayInv, OneDay
    <2>2. \A r \in Operations :
            requests'[r].pc \in {"generate", "store", "consume", "log", "commit"} =>
              Day(requests'[r].started) = Day(requests'[r].now)
      BY <1>2 DEF DayInv, OneDay
    <2>3. reservations[o].day = Day(requests[o].started)
      BY <1>4 DEF DayInv, OneDay
    <2>4. \A l \in logs : l.op \in Operations
      BY <1>1 DEF TypeOK, Log
    <2>5. \A l \in logs' : l \in logs \/ (l.op = o /\ l.day = Day(requests[o].started))
      BY DEF Charge
    <2>6. \A l \in logs' : l.day = reservations'[l.op].day
      BY <1>4, <2>3, <2>4, <2>5 DEF DayInv, OneDay
    <2> QED
      BY <2>1, <2>2, <2>6 DEF OneDay
  <1>6. Swept' /\ CountStands'
    BY <1>3 DEF Swept, CountStands
  <1>7. LiveFits'
    <2>1. \A d : {r \in Operations : /\ reservations'[r].status \in {"reserved", "consumed"}
                                     /\ reservations'[r].day = d} = Live(d)
      BY <1>4 DEF Live
    <2> QED
      BY <2>1 DEF DayInv, LiveFits, Live
  <1> QED
    BY <1>5, <1>6, <1>7 DEF DayInv

\* Giving a reservation back keeps it, whoever is counting.
LEMMA DayReleaseStep ==
  ASSUME DayInv, LedgerInv', NEW o \in Operations, Release(o)
  PROVE  DayInv'
  <1>1. TypeOK /\ LedgerInv /\ requests[o].pc = "release" /\ Goto(o, "failed") /\ UNCHANGED logs
    BY DEF DayInv, LedgerInv, Release
  <1>2. CASE UNCHANGED reservations
    BY <1>1, <1>2, DayLetGoStep
  <1>3. CASE /\ reservations[o].status = "reserved"
             /\ reservations' = [reservations EXCEPT ![o].status = "released"]
    <2> DEFINE next(e) == {r \in Operations : /\ reservations'[r].status \in {"reserved", "consumed"}
                                              /\ reservations'[r].day = e}
    <2>1. /\ \A q \in Operations \ {o} : requests'[q] = requests[q]
          /\ requests'[o].pc = "failed" /\ requests'[o].now = requests[o].now
      BY <1>1, Places, GotoSets
    <2>2. /\ reservations'[o].status = "released"
          /\ reservations'[o].day = reservations[o].day
          /\ \A q \in Operations \ {o} : reservations'[q] = reservations[q]
      BY <1>1, <1>3 DEF TypeOK, Reservation
    <2>3. OneDay'
      BY <1>1, <1>3, <2>1, <2>2 DEF DayInv, OneDay, TypeOK, Log
    <2>4. Swept'
      <3> SUFFICES ASSUME NEW q \in Operations, requests'[q].pc \in {"count", "sum"}
                   PROVE  Expired(q)' \subseteq requests'[q].expired
        BY DEF Swept
      <3>1. q /= o /\ requests'[q] = requests[q]
        BY <2>1
      <3>2. Expired(q)' \subseteq Expired(q)
        BY <2>2, <3>1 DEF Expired
      <3> QED
        BY <3>1, <3>2 DEF DayInv, Swept
    <2>5. \A e : next(e) \in SUBSET Live(e) /\ Live(e) \in SUBSET Operations
      BY <2>2 DEF Live
    <2>6. CountStands'
      <3> SUFFICES ASSUME NEW q \in Operations
                   PROVE  /\ requests'[q].pc = "sum" =>
                               requests'[q].used = Cardinality(LogsOf(Day(requests'[q].now)))
                          /\ requests'[q].pc = "insert" =>
                               Cardinality(UnitsOf(next(Day(requests'[q].now)) \ requests'[q].expired))
                                 + Cardinality(Units[q]) <= Limit
        BY <1>1 DEF CountStands, LogsOf, Live, UnitsOf
      <3>1. CASE q = o
        BY <2>1, <3>1
      <3>2. CASE q /= o
        <4> DEFINE d == Day(requests[q].now)
                   S == next(d) \ requests[q].expired
                   T == Live(d) \ requests[q].expired
                   n == Cardinality(Units[q])
        <4>1. requests'[q] = requests[q]
          BY <2>1, <3>2
        <4>2. S \in SUBSET T /\ T \in SUBSET Operations
          BY <2>5
        <4>3. /\ Cardinality(UnitsOf(S)) \in Nat /\ Cardinality(UnitsOf(T)) \in Nat
              /\ Cardinality(UnitsOf(S)) <= Cardinality(UnitsOf(T))
              /\ n \in Nat
          BY <4>2, UnitsFinite, UnitsMonotone, UnitsSingle
        <4>4. requests[q].pc = "insert" => Cardinality(UnitsOf(T)) + n <= Limit
          BY DEF DayInv, CountStands
        <4>5. requests[q].pc = "sum" => requests[q].used = Cardinality(LogsOf(d))
          BY DEF DayInv, CountStands
        <4> HIDE DEF S, T, n
        <4>6. requests[q].pc = "insert" => Cardinality(UnitsOf(S)) + n <= Limit
          BY <4>3, <4>4, QuotaAssumption
        <4> QED
          BY <4>1, <4>5, <4>6 DEF S, n
      <3> QED
        BY <3>1, <3>2
    <2>7. LiveFits'
      <3> SUFFICES ASSUME NEW time \in Time
                   PROVE  Cardinality(UnitsOf(next(Day(time)))) <= Limit
        BY DEF LiveFits, UnitsOf, Live
      <3> DEFINE S == next(Day(time))
                 T == Live(Day(time))
      <3>1. S \in SUBSET T /\ T \in SUBSET Operations
        BY <2>5
      <3>2. /\ Cardinality(UnitsOf(S)) \in Nat /\ Cardinality(UnitsOf(T)) \in Nat
            /\ Cardinality(UnitsOf(S)) <= Cardinality(UnitsOf(T))
        BY <3>1, UnitsFinite, UnitsMonotone
      <3>3. Cardinality(UnitsOf(T)) <= Limit
        BY DEF DayInv, LiveFits
      <3> HIDE DEF S, T
      <3>4. Cardinality(UnitsOf(S)) <= Limit
        BY <3>2, <3>3, QuotaAssumption
      <3> QED
        BY <3>4 DEF S
    <2> QED
      BY <2>3, <2>4, <2>6, <2>7 DEF DayInv
  <1> QED
    BY <1>2, <1>3 DEF Release

-----------------------------------------------------------------------------
(* The daily limit: theorem *)

\* The day's invariant holds initially: no day has a unit.
LEMMA DayInit ==
  ASSUME Init
  PROVE  DayInv
  <1>1. LedgerInv
    BY LedgerInit
  <1>2. OneDay /\ Swept /\ CountStands
    BY DEF Init, OneDay, Swept, CountStands
  <1>3. LiveFits
    <2>1. \A d : Live(d) = {}
      BY DEF Init, Live
    <2>2. UnitsOf({}) = {}
      BY DEF UnitsOf
    <2> QED
      BY <2>1, <2>2, FS_EmptySet, QuotaAssumption DEF LiveFits
  <1> QED
    BY <1>1, <1>2, <1>3 DEF DayInv

\* Every step from a state without a midnight keeps it.
LEMMA DayStep ==
  ASSUME DayInv, NoMidnight, [Next]_vars
  PROVE  DayInv'
  <1>1. LedgerInv'
    BY LedgerStep DEF DayInv
  <1>2. ASSUME NEW o \in Operations, Step(o)
        PROVE  DayInv'
    <2>1. CASE Begin(o) \/ LockUser(o) \/ ReleaseExpired(o) \/ CountUsed(o) \/ SumReserved(o)
      BY <1>1, <2>1, DayReserveStep
    <2>2. CASE Insert(o)
      BY <1>1, <2>2, DayInsertStep
    <2>3. CASE Build(o) \/ Generate(o) \/ Store(o) \/ Consume(o) \/ LogUsage(o)
      BY <1>1, <2>3, DayGenerationStep
    <2>4. CASE Commit(o)
      BY <1>1, <2>4, DayChargeStep DEF Commit
    <2>5. CASE Release(o)
      BY <1>1, <2>5, DayReleaseStep
    <2>6. CASE DeadlockVictim(o)
      BY <1>1, <2>6, DayLetGoStep DEF DeadlockVictim, ConsumeFails
    <2> QED
      BY <1>2, <2>1, <2>2, <2>3, <2>4, <2>5, <2>6 DEF Step
  <1>3. ASSUME NEW o \in Operations, Crash(o)
        PROVE  DayInv'
    BY <1>1, <1>3, DayLetGoStep DEF Crash
  <1>4. ASSUME NEW o \in Operations, ConsumeError(o)
        PROVE  DayInv'
    <2>1. /\ ConsumeFails(o)
          /\ \/ UNCHANGED <<reservations, logs>>
             \/ requests[o].pc = "commit" /\ Charge(o)
      BY <1>4 DEF ConsumeError
    <2> QED
      BY <1>1, <2>1, DayLetGoStep, DayChargeStep DEF ConsumeFails
  <1>5. CASE UNCHANGED <<reservations, logs, requests>>
    BY <1>1, <1>5 DEF DayInv, OneDay, Swept, Expired, CountStands, LiveFits, LogsOf, Live, UnitsOf
  <1> QED
    BY <1>2, <1>3, <1>4, <1>5 DEF Next, Tick, Rest, vars

\* What is charged on a day is within the limit, since what is consumed is.
LEMMA UsageFits ==
  ASSUME DayInv
  PROVE  WithinLimit
  <1> SUFFICES ASSUME NEW time \in Time
               PROVE  Cardinality(LogsOf(Day(time))) <= Limit
    BY DEF WithinLimit
  <1> DEFINE C == Consumed(Day(time))
             L == Live(Day(time))
  <1>1. C \in SUBSET L /\ L \in SUBSET Operations
    BY DEF Consumed, Live
  <1>2. /\ Cardinality(UnitsOf(C)) \in Nat /\ Cardinality(UnitsOf(L)) \in Nat
        /\ Cardinality(UnitsOf(C)) <= Cardinality(UnitsOf(L))
    BY <1>1, UnitsFinite, UnitsMonotone
  <1>3. Cardinality(UnitsOf(L)) <= Limit
    BY DEF DayInv, LiveFits
  <1>4. Cardinality(LogsOf(Day(time))) = Cardinality(UnitsOf(C))
    BY UsageIsUnits DEF DayInv
  <1> HIDE DEF C, L
  <1> QED
    BY <1>2, <1>3, <1>4, QuotaAssumption

\* As long as no request spans midnight, no day's usage exceeds the limit: however many
\* requests race, expire, fail or die between counting what is used and what is reserved.
THEOREM DailyLimit == Spec /\ []NoMidnight => []WithinLimit
  <1>1. Init => DayInv
    BY DayInit
  <1>2. DayInv /\ NoMidnight /\ [Next]_vars => DayInv'
    BY DayStep
  <1>3. DayInv => WithinLimit
    BY UsageFits
  <1> QED
    BY <1>1, <1>2, <1>3, PTL DEF Spec

\* No midnight comes within one day.
LEMMA OneDayNoMidnight ==
  ASSUME TypeOK, MaxClock < DayLength
  PROVE  NoMidnight
  <1>1. \A time \in Time : Day(time) = 0
    BY QuotaAssumption DEF Time, Day
  <1> QED
    BY <1>1 DEF NoMidnight, TypeOK, Request

\* Within one day the limit holds without a premise on the behaviour.
THEOREM OneDayLimit ==
  ASSUME MaxClock < DayLength
  PROVE  Spec => []WithinLimit
  <1>1. TypeOK => NoMidnight
    BY OneDayNoMidnight
  <1> QED
    BY <1>1, TypeCorrect, DailyLimit, PTL

=============================================================================
