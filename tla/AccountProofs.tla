---------------------------- MODULE AccountProofs ----------------------------
(***************************************************************************)
(* What the lock of the user's row buys, for every number of requests,     *)
(* channels and posts, and every limit: see AccountLimits.  And the limits *)
(* of the plan, where the code can keep them: the channel limit as long as *)
(* no PATCH switches a channel on, the daily limit as long as no request   *)
(* that creates a post spans midnight.                                     *)
(***************************************************************************)
EXTENDS AccountLimits, FiniteSetTheorems, TLAPS

-----------------------------------------------------------------------------
(* The slots of the requests *)

\* One request's slot given a new content, and the others theirs.
LEMMA SlotSets ==
  ASSUME TypeOK, NEW r \in Requests, NEW x \in Request, requests' = [requests EXCEPT ![r] = x]
  PROVE  /\ requests' \in [Requests -> Request]
         /\ \A q \in Requests : requests'[q] = IF q = r THEN x ELSE requests[q]
  BY DEF TypeOK

\* What Goto does to the slots.
LEMMA GotoSets ==
  ASSUME TypeOK, NEW r \in Requests, NEW pc \in PC, Goto(r, pc)
  PROVE  /\ requests' \in [Requests -> Request]
         /\ \A q \in Requests :
              /\ requests'[q].pc = IF q = r THEN pc ELSE requests[q].pc
              /\ requests'[q].channel = requests[q].channel
              /\ requests'[q].started = requests[q].started
  <1> DEFINE x == [requests[r] EXCEPT !.pc = pc]
  <1>1. requests[r] \in Request
    BY DEF TypeOK
  <1>2. /\ x \in Request
        /\ x.pc = pc /\ x.channel = requests[r].channel /\ x.started = requests[r].started
    BY <1>1 DEF Request
  <1>3. requests' = [requests EXCEPT ![r] = x]
    BY DEF Goto, TypeOK
  <1> QED
    BY <1>2, <1>3, SlotSets

\* The places a request can be sent to.
LEMMA Places ==
    /\ {"begin", "find_key", "lock_user", "count", "verify", "look_up", "insert",
        "reactivate", "switch", "succeeded", "failed"} \subseteq PC
  BY DEF PC

-----------------------------------------------------------------------------
(* Type correctness *)

\* The types hold initially.
LEMMA InitType == Init => TypeOK
  <1> SUFFICES ASSUME Init PROVE TypeOK
    OBVIOUS
  <1>1. 0 \in 0..MaxDay
    BY LimitsAssumption
  <1>2. requests \in [Requests -> Request]
    BY <1>1, Places DEF Init, Request
  <1>3. posts \in [Creates -> Post] /\ channels \in [Connects -> Channel]
    BY <1>1 DEF Init, Post, Channel
  <1> QED
    BY <1>1, <1>2, <1>3 DEF Init, TypeOK

\* Every step keeps the types.
LEMMA TypeStep == TypeOK /\ [Next]_vars => TypeOK'
  <1> SUFFICES ASSUME TypeOK, [Next]_vars PROVE TypeOK'
    OBVIOUS
  <1> USE Places
  <1>1. CASE UNCHANGED vars
    BY <1>1 DEF vars, TypeOK
  <1>2. ASSUME NEW r \in Requests, LockUser(r) PROVE TypeOK'
    BY <1>2, GotoSets DEF LockUser, TypeOK
  <1>3. ASSUME NEW r \in Connects, CountChannels(r) \/ Verify(r) PROVE TypeOK'
    BY <1>3, GotoSets DEF CountChannels, Verify, TypeOK, Requests
  <1>4. ASSUME NEW r \in Connects, LookUp(r) PROVE TypeOK'
    <2>1. CASE \E pc \in {"insert", "failed"} : Goto(r, pc)
      BY <1>4, <2>1, GotoSets DEF LookUp, TypeOK, Requests
    <2>2. CASE \E c \in Connects :
                 requests' = [requests EXCEPT ![r] =
                               [requests[r] EXCEPT !.pc = "reactivate", !.channel = c]]
      <3>1. PICK c \in Connects :
                 requests' = [requests EXCEPT ![r] =
                               [requests[r] EXCEPT !.pc = "reactivate", !.channel = c]]
        BY <2>2
      <3>2. [requests[r] EXCEPT !.pc = "reactivate", !.channel = c] \in Request
        BY DEF TypeOK, Request, Requests
      <3> QED
        BY <1>4, <3>1, <3>2, SlotSets DEF LookUp, TypeOK, Requests
    <2>3. \/ \E pc \in {"insert", "failed"} : Goto(r, pc)
          \/ \E c \in Connects :
                 requests' = [requests EXCEPT ![r] =
                               [requests[r] EXCEPT !.pc = "reactivate", !.channel = c]]
      BY <1>4 DEF LookUp, SameExternal, TypeOK, Requests
    <2> QED
      BY <2>1, <2>2, <2>3
  <1>5. ASSUME NEW r \in Connects, InsertChannel(r) PROVE TypeOK'
    BY <1>5, GotoSets DEF InsertChannel, TypeOK, Requests, Channel
  <1>6. ASSUME NEW r \in Connects, Reactivate(r) PROVE TypeOK'
    BY <1>6, GotoSets DEF Reactivate, TypeOK, Requests, Channel
  <1>7. ASSUME NEW s \in Switches, Switch(s) PROVE TypeOK'
    BY <1>7, GotoSets DEF Switch, TypeOK, Requests, Channel
  <1>8. ASSUME NEW s \in Switches, NEW c \in Connects, LockChannel(s, c) PROVE TypeOK'
    <2>1. CASE Goto(s, "failed")
      BY <1>8, <2>1, GotoSets DEF LockChannel, TypeOK, Requests
    <2>2. CASE requests' = [requests EXCEPT ![s] =
                             [requests[s] EXCEPT !.pc = "switch", !.channel = c]]
      <3>1. [requests[s] EXCEPT !.pc = "switch", !.channel = c] \in Request
        BY DEF TypeOK, Request, Requests
      <3> QED
        BY <1>8, <2>2, <3>1, SlotSets DEF LockChannel, TypeOK, Requests
    <2> QED
      BY <1>8, <2>1, <2>2 DEF LockChannel, TypeOK, Requests
  <1>9. ASSUME NEW r \in Creates, BeginCreate(r) PROVE TypeOK'
    <2> DEFINE x == [requests[r] EXCEPT
                       !.pc = IF channels[ChannelOf[r]] = "active" THEN "find_key" ELSE "failed",
                       !.started = day]
    <2>1. x \in Request
      BY DEF TypeOK, Request, Requests
    <2>2. requests' = [requests EXCEPT ![r] = x]
      BY <1>9 DEF BeginCreate, TypeOK, Requests
    <2> QED
      BY <1>9, <2>1, <2>2, SlotSets DEF BeginCreate, TypeOK, Requests
  <1>10. ASSUME NEW r \in Creates, FindKey(r) \/ CountPosts(r) PROVE TypeOK'
    BY <1>10, GotoSets DEF FindKey, CountPosts, TypeOK, Requests
  <1>11. ASSUME NEW r \in Creates, InsertPost(r) PROVE TypeOK'
    <2>1. [row |-> "there", day |-> requests[r].started] \in Post
      BY DEF TypeOK, Request, Post, Requests
    <2>2. r \in Requests
      BY DEF Requests
    <2> QED
      BY <1>11, <2>1, <2>2, GotoSets DEF InsertPost, TypeOK
  <1>12. ASSUME NEW p \in Creates, DeletePost(p) PROVE TypeOK'
    BY <1>12 DEF DeletePost, TypeOK, Post
  <1>13. ASSUME NEW r \in Requests, Abort(r) PROVE TypeOK'
    BY <1>13, GotoSets DEF Abort, TypeOK
  <1>14. CASE Midnight
    BY <1>14, LimitsAssumption DEF Midnight, TypeOK
  <1> QED
    BY <1>1, <1>2, <1>3, <1>4, <1>5, <1>6, <1>7, <1>8, <1>9, <1>10, <1>11, <1>12, <1>13, <1>14
    DEF Next, Rest, Requests

\* Every reachable state has its types.
THEOREM TypeCorrect == Spec => []TypeOK
  BY InitType, TypeStep, PTL DEF Spec

-----------------------------------------------------------------------------
(* One at a time: what the user row's lock keeps true *)

\* Who holds the user row holds it alone.
Alone == \A q, r \in Requests : HoldsUser(q) /\ HoldsUser(r) => q = r

\* A channel exists once its request has succeeded; a request that reconnects or switches
\* a channel names one that exists.
Known ==
    /\ \A c \in Connects : channels[c] /= "none" => At(c, "succeeded")
    /\ \A r \in Requests : requests[r].pc \in {"reactivate", "switch"} =>
         requests[r].channel \in Connects /\ channels[requests[r].channel] /= "none"

\* A request that is about to insert a channel has found none of the same external id.
Fresh == \A r \in Connects : At(r, "insert") => SameExternal(r) = {}

AccountInv ==
    /\ TypeOK
    /\ Alone
    /\ Known
    /\ Fresh
    /\ ConnectedOnce
    /\ OnePostPerKey

\* Posts that are not touched stay one per key.
LEMMA PostsStay ==
  ASSUME OnePostPerKey, UNCHANGED posts
  PROVE  OnePostPerKey'
  BY DEF OnePostPerKey, SameKey, There

\* The invariant holds initially.
LEMMA AccountInit == Init => AccountInv
  <1> SUFFICES ASSUME Init PROVE AccountInv
    OBVIOUS
  <1>1. Alone /\ Known /\ Fresh
    BY DEF Init, Alone, HoldsUser, Known, Fresh, At, Requests
  <1>2. ConnectedOnce /\ OnePostPerKey
    BY DEF Init, ConnectedOnce, OnePostPerKey, SameKey, There
  <1> QED
    BY <1>1, <1>2, InitType DEF AccountInv

\* What the step of a request must not do: take the user row from another, reach the
\* insertion of a channel that is there, name a channel that is not, or make or remove a
\* channel.
LEMMA MoveStep ==
  ASSUME AccountInv, TypeOK', OnePostPerKey', NEW r \in Requests,
         ~At(r, "succeeded"),
         \A q \in Requests : q /= r => requests'[q] = requests[q],
         \A c \in Connects : channels'[c] = "none" <=> channels[c] = "none",
         HoldsUser(r)' => HoldsUser(r) \/ \A q \in Requests : ~HoldsUser(q),
         At(r, "insert")' => r \notin Connects \/ SameExternal(r) = {},
         requests'[r].pc \in {"reactivate", "switch"} =>
           requests'[r].channel \in Connects /\ channels[requests'[r].channel] /= "none"
  PROVE  AccountInv'
  <1>1. Alone'
    BY DEF AccountInv, Alone, HoldsUser
  <1>2. \A c \in Connects : channels'[c] /= "none" => At(c, "succeeded")'
    BY DEF AccountInv, Known, At, Requests
  <1>3. \A q \in Requests : requests'[q].pc \in {"reactivate", "switch"} =>
          requests'[q].channel \in Connects /\ channels'[requests'[q].channel] /= "none"
    BY DEF AccountInv, Known
  <1>4. Fresh'
    BY DEF AccountInv, Fresh, SameExternal, At, Requests
  <1>5. ConnectedOnce'
    BY DEF AccountInv, ConnectedOnce
  <1> QED
    BY <1>1, <1>2, <1>3, <1>4, <1>5 DEF AccountInv, Known

\* The same for a request that goes to a place where it names no channel.
LEMMA GotoStep ==
  ASSUME AccountInv, TypeOK', OnePostPerKey', NEW r \in Requests, NEW pc \in PC, Goto(r, pc),
         ~At(r, "succeeded"),
         \A c \in Connects : channels'[c] = "none" <=> channels[c] = "none",
         pc \notin {"reactivate", "switch"},
         pc = "insert" => r \notin Connects \/ SameExternal(r) = {},
         pc \in {"count", "verify", "look_up", "insert"} =>
           HoldsUser(r) \/ \A q \in Requests : ~HoldsUser(q)
  PROVE  AccountInv'
  <1>1. /\ requests'[r].pc = pc
        /\ \A q \in Requests : q /= r => requests'[q] = requests[q]
    <2>1. requests \in [Requests -> Request]
      BY DEF AccountInv, TypeOK
    <2> QED
      BY <2>1, GotoSets DEF AccountInv, Goto
  <1> QED
    BY <1>1, MoveStep DEF At, HoldsUser

\* Connecting a new channel: nobody else is about to insert one.
LEMMA InsertChannelStep ==
  ASSUME AccountInv, TypeOK', NEW r \in Connects, InsertChannel(r)
  PROVE  AccountInv'
  <1>1. r \in Requests /\ HoldsUser(r)
    BY DEF InsertChannel, At, HoldsUser, Requests
  <1>2. \A q \in Requests : /\ requests'[q].pc = IF q = r THEN "succeeded" ELSE requests[q].pc
                           /\ requests'[q].channel = requests[q].channel
    BY <1>1, Places, GotoSets DEF AccountInv, InsertChannel
  <1>3. \A c \in Connects : channels'[c] = IF c = r THEN "active" ELSE channels[c]
    BY DEF InsertChannel, AccountInv, TypeOK
  <1>4. Alone'
    BY <1>2 DEF AccountInv, Alone, HoldsUser
  <1>5. Known'
    BY <1>2, <1>3 DEF AccountInv, Known, At, Requests
  <1>6. Fresh'
    BY <1>1, <1>2 DEF AccountInv, Alone, HoldsUser, Fresh, At, Requests
  <1>7. ConnectedOnce'
    BY <1>3 DEF InsertChannel, AccountInv, Fresh, SameExternal, ConnectedOnce
  <1> QED
    BY <1>4, <1>5, <1>6, <1>7, PostsStay DEF AccountInv, InsertChannel

\* The unique constraint keeps posts one per key.
LEMMA InsertPostKeeps ==
  ASSUME AccountInv, NEW r \in Creates, InsertPost(r)
  PROVE  OnePostPerKey'
  <1>1. CASE UNCHANGED posts
    BY <1>1, PostsStay DEF AccountInv
  <1>2. CASE SameKey(r) = {} /\ posts' = [posts EXCEPT ![r] =
                                     [row |-> "there", day |-> requests[r].started]]
    <2>1. \A p \in Creates : p \in There' <=> p = r \/ p \in There
      BY <1>2 DEF There, AccountInv, TypeOK
    <2>2. SUFFICES ASSUME NEW p \in There', NEW q \in There', (p \in SameKey(q))'
                   PROVE  p = q
      BY DEF OnePostPerKey
    <2>3. p \in Creates /\ q \in Creates
      BY DEF There
    <2>4. Key[q] /= NoKey /\ Key[p] = Key[q] /\ ChannelOf[p] = ChannelOf[q]
      BY <2>2 DEF SameKey
    <2>5. CASE p \in There /\ q \in There
      BY <2>4, <2>5 DEF AccountInv, OnePostPerKey, SameKey
    <2>6. CASE p = r /\ q \in There
      BY <1>2, <2>4, <2>6 DEF SameKey
    <2>7. CASE q = r /\ p \in There
      BY <1>2, <2>4, <2>7 DEF SameKey
    <2> QED
      BY <2>1, <2>3, <2>5, <2>6, <2>7
  <1> QED
    BY <1>1, <1>2 DEF InsertPost

\* A deleted post leaves the others one per key.
LEMMA DeletePostKeeps ==
  ASSUME AccountInv, NEW r \in Creates, DeletePost(r)
  PROVE  OnePostPerKey'
  <1>1. There' \subseteq There
    BY DEF DeletePost, There, AccountInv, TypeOK
  <1> QED
    BY <1>1 DEF AccountInv, OnePostPerKey, SameKey

\* Steps that leave channels and requests alone.
LEMMA RequestsStay ==
  ASSUME AccountInv, TypeOK', OnePostPerKey', UNCHANGED <<channels, requests>>
  PROVE  AccountInv'
  <1>1. Alone' /\ Known' /\ Fresh'
    BY DEF AccountInv, Alone, HoldsUser, Known, Fresh, SameExternal, At
  <1>2. ConnectedOnce'
    BY DEF AccountInv, ConnectedOnce
  <1> QED
    BY <1>1, <1>2 DEF AccountInv

\* Every step keeps the invariant.
LEMMA AccountStep == AccountInv /\ [Next]_vars => AccountInv'
  <1> SUFFICES ASSUME AccountInv, [Next]_vars PROVE AccountInv'
    OBVIOUS
  <1> USE Places
  <1>t. TypeOK /\ TypeOK'
    BY TypeStep DEF AccountInv
  <1>s. UNCHANGED posts => OnePostPerKey'
    BY PostsStay DEF AccountInv
  <1>1. CASE UNCHANGED vars
    BY <1>1, <1>t, <1>s, RequestsStay DEF vars
  <1>2. ASSUME NEW r \in Requests, LockUser(r) PROVE AccountInv'
    BY <1>2, <1>t, <1>s, GotoStep DEF LockUser, At
  <1>3. ASSUME NEW r \in Connects, CountChannels(r) PROVE AccountInv'
    <2>1. HoldsUser(r) /\ ~At(r, "succeeded") /\ r \in Requests
      BY <1>3 DEF CountChannels, At, HoldsUser, Requests
    <2>2. Goto(r, "failed") \/ Goto(r, "verify")
      BY <1>3 DEF CountChannels
    <2> QED
      BY <1>3, <2>1, <2>2, <1>t, <1>s, GotoStep DEF CountChannels
  <1>4. ASSUME NEW r \in Connects, Verify(r) PROVE AccountInv'
    <2>1. HoldsUser(r) /\ ~At(r, "succeeded") /\ r \in Requests
      BY <1>4 DEF Verify, At, HoldsUser, Requests
    <2> QED
      BY <1>4, <2>1, <1>t, <1>s, GotoStep DEF Verify
  <1>5. ASSUME NEW r \in Connects, LookUp(r) PROVE AccountInv'
    <2>1. HoldsUser(r) /\ ~At(r, "succeeded") /\ r \in Requests
      BY <1>5 DEF LookUp, At, HoldsUser, Requests
    <2>2. CASE Goto(r, "failed")
      BY <1>5, <2>1, <2>2, <1>t, <1>s, GotoStep DEF LookUp
    <2>3. CASE SameExternal(r) = {} /\ Goto(r, "insert")
      BY <1>5, <2>1, <2>3, <1>t, <1>s, GotoStep DEF LookUp
    <2>4. CASE \E c \in SameExternal(r) :
                 requests' = [requests EXCEPT ![r] =
                               [requests[r] EXCEPT !.pc = "reactivate", !.channel = c]]
      <3>1. PICK c \in SameExternal(r) :
                 requests' = [requests EXCEPT ![r] =
                               [requests[r] EXCEPT !.pc = "reactivate", !.channel = c]]
        BY <2>4
      <3>2. c \in Connects /\ channels[c] /= "none"
        BY DEF SameExternal
      <3>3. /\ requests'[r].pc = "reactivate" /\ requests'[r].channel = c
            /\ \A q \in Requests : q /= r => requests'[q] = requests[q]
        BY <2>1, <3>1, <1>t DEF TypeOK, Request
      <3> QED
        BY <1>5, <2>1, <3>2, <3>3, <1>t, <1>s, MoveStep DEF LookUp, At
    <2> QED
      BY <1>5, <2>2, <2>3, <2>4, <1>t, <2>1 DEF LookUp
  <1>6. ASSUME NEW r \in Connects, InsertChannel(r) PROVE AccountInv'
    BY <1>6, <1>t, InsertChannelStep
  <1>7. ASSUME NEW r \in Connects, Reactivate(r) PROVE AccountInv'
    <2>1. ~At(r, "succeeded") /\ r \in Requests
      BY <1>7 DEF Reactivate, At, Requests
    <2>2. \A c \in Connects : channels'[c] = "none" <=> channels[c] = "none"
      BY <1>7, <2>1, <1>t DEF Reactivate, AccountInv, Known, TypeOK, At
    <2> QED
      BY <1>7, <2>1, <2>2, <1>t, <1>s, GotoStep DEF Reactivate
  <1>8. ASSUME NEW s \in Switches, Switch(s) PROVE AccountInv'
    <2>1. ~At(s, "succeeded") /\ s \in Requests
      BY <1>8 DEF Switch, At, Requests
    <2>2. \A c \in Connects : channels'[c] = "none" <=> channels[c] = "none"
      BY <1>8, <2>1, <1>t DEF Switch, AccountInv, Known, TypeOK, At
    <2> QED
      BY <1>8, <2>1, <2>2, <1>t, <1>s, GotoStep DEF Switch
  <1>9. ASSUME NEW s \in Switches, NEW c \in Connects, LockChannel(s, c) PROVE AccountInv'
    <2>1. ~At(s, "succeeded") /\ s \in Requests
      BY <1>9 DEF LockChannel, At, Requests
    <2>2. CASE Goto(s, "failed")
      BY <1>9, <2>1, <2>2, <1>t, <1>s, GotoStep DEF LockChannel
    <2>3. CASE requests' = [requests EXCEPT ![s] =
                             [requests[s] EXCEPT !.pc = "switch", !.channel = c]]
      <3>1. /\ requests'[s].pc = "switch" /\ requests'[s].channel = c
            /\ \A q \in Requests : q /= s => requests'[q] = requests[q]
        BY <2>1, <2>3, <1>t DEF TypeOK, Request
      <3> QED
        BY <1>9, <2>1, <3>1, <1>t, <1>s, MoveStep DEF LockChannel, At, HoldsUser
    <2> QED
      BY <1>9, <2>2, <2>3, <2>1, <1>t DEF LockChannel
  <1>10. ASSUME NEW r \in Creates, BeginCreate(r) PROVE AccountInv'
    <2>1. ~At(r, "succeeded") /\ r \in Requests /\ r \notin Connects
      BY <1>10, RequestsAssumption DEF BeginCreate, At, Requests
    <2>2. /\ requests'[r].pc \in {"find_key", "failed"}
          /\ \A q \in Requests : q /= r => requests'[q] = requests[q]
      BY <1>10, <2>1, <1>t DEF BeginCreate, TypeOK, Request
    <2> QED
      BY <1>10, <2>1, <2>2, <1>t, <1>s, MoveStep DEF BeginCreate, At, HoldsUser
  <1>11. ASSUME NEW r \in Creates, FindKey(r) PROVE AccountInv'
    <2>1. ~At(r, "succeeded") /\ r \in Requests
      BY <1>11 DEF FindKey, At, Requests
    <2>2. Goto(r, "lock_user") \/ Goto(r, "succeeded")
      BY <1>11 DEF FindKey
    <2> QED
      BY <1>11, <2>1, <2>2, <1>t, <1>s, GotoStep DEF FindKey
  <1>12. ASSUME NEW r \in Creates, CountPosts(r) PROVE AccountInv'
    <2>1. HoldsUser(r) /\ ~At(r, "succeeded") /\ r \in Requests /\ r \notin Connects
      BY <1>12, RequestsAssumption DEF CountPosts, At, HoldsUser, Requests
    <2>2. Goto(r, "failed") \/ Goto(r, "insert")
      BY <1>12 DEF CountPosts
    <2> QED
      BY <1>12, <2>1, <2>2, <1>t, <1>s, GotoStep DEF CountPosts
  <1>13. ASSUME NEW r \in Creates, InsertPost(r) PROVE AccountInv'
    <2>1. ~At(r, "succeeded") /\ r \in Requests /\ UNCHANGED channels
      BY <1>13 DEF InsertPost, At, Requests
    <2>2. Goto(r, "failed") \/ Goto(r, "succeeded")
      BY <1>13 DEF InsertPost
    <2> QED
      BY <1>13, <2>1, <2>2, <1>t, InsertPostKeeps, GotoStep
  <1>14. ASSUME NEW p \in Creates, DeletePost(p) PROVE AccountInv'
    BY <1>14, <1>t, DeletePostKeeps, RequestsStay DEF DeletePost
  <1>15. ASSUME NEW r \in Requests, Abort(r) PROVE AccountInv'
    BY <1>15, <1>t, <1>s, GotoStep DEF Abort, Ended, At
  <1>16. CASE Midnight
    BY <1>16, <1>t, <1>s, RequestsStay DEF Midnight
  <1> QED
    BY <1>1, <1>2, <1>3, <1>4, <1>5, <1>6, <1>7, <1>8, <1>9, <1>10, <1>11, <1>12, <1>13,
       <1>14, <1>15, <1>16
    DEF Next, Rest, Requests

\* The invariant holds in every reachable state.
THEOREM AccountCorrect == Spec => []AccountInv
  BY AccountInit, AccountStep, PTL DEF Spec

\* No external channel is ever connected twice, however many requests race.
THEOREM ChannelConnectedOnce == Spec => []ConnectedOnce
  <1>1. AccountInv => ConnectedOnce
    BY DEF AccountInv
  <1> QED
    BY <1>1, AccountCorrect, PTL

\* No two posts of a channel ever carry one idempotency key.
THEOREM OnePostForOneKey == Spec => []OnePostPerKey
  <1>1. AccountInv => OnePostPerKey
    BY DEF AccountInv
  <1> QED
    BY <1>1, AccountCorrect, PTL

-----------------------------------------------------------------------------
(* The limits of the plan *)

(* Counting *)

\* A part of a finite set with at most one element more is at most one larger.
LEMMA OneMore ==
  ASSUME NEW S, NEW T, IsFiniteSet(S), NEW x, T \subseteq S \cup {x}
  PROVE  Cardinality(T) <= Cardinality(S) + 1 /\ Cardinality(T) \in Nat /\ Cardinality(S) \in Nat
  <1>1. /\ IsFiniteSet(S \cup {x})
        /\ Cardinality(S \cup {x}) \in {Cardinality(S), Cardinality(S) + 1}
    BY FS_AddElement
  <1>2. IsFiniteSet(T) /\ Cardinality(T) <= Cardinality(S \cup {x})
    BY <1>1, FS_Subset
  <1>3. Cardinality(T) \in Nat /\ Cardinality(S) \in Nat
    BY <1>2, FS_CardinalityType
  <1> QED
    BY <1>1, <1>2, <1>3

\* A part of a finite set is no larger.
LEMMA NoMore ==
  ASSUME NEW S, NEW T, IsFiniteSet(S), T \subseteq S
  PROVE  Cardinality(T) <= Cardinality(S) /\ Cardinality(T) \in Nat /\ Cardinality(S) \in Nat
  BY FS_Subset, FS_CardinalityType

\* The active channels and the posts of a day are finite in number.
LEMMA Finite ==
  /\ IsFiniteSet(Active)
  /\ \A d : IsFiniteSet(PostsOn(d))
  <1>1. Active \subseteq Requests /\ \A d : PostsOn(d) \subseteq Requests
    BY DEF Active, PostsOn, There, Requests
  <1> QED
    BY <1>1, RequestsAssumption, FS_Subset

-----------------------------------------------------------------------------
(* The channel limit *)

\* The request that has passed the check of the channel limit still has room.
ChannelRoom ==
  \A r \in Connects : requests[r].pc \in {"verify", "look_up", "insert", "reactivate"} =>
    Cardinality(Active) < ChannelLimit

ChannelInv == AccountInv /\ ChannelRoom /\ ChannelsWithinLimit

\* Nobody else is past its check when a request adds a channel.
LEMMA ChannelAdded ==
  ASSUME ChannelInv, NEW r \in Connects, InsertChannel(r) \/ Reactivate(r)
  PROVE  ChannelRoom' /\ ChannelsWithinLimit'
  <1>1. PICK c \in Connects : channels' = [channels EXCEPT ![c] = "active"]
    BY DEF InsertChannel, Reactivate, ChannelInv, AccountInv, Known, At, Requests
  <1>2. Active' \subseteq Active \cup {c}
    BY <1>1 DEF Active, ChannelInv, AccountInv, TypeOK
  <1>3. Cardinality(Active) < ChannelLimit /\ HoldsUser(r) /\ r \in Requests
    BY DEF ChannelInv, ChannelRoom, InsertChannel, Reactivate, At, HoldsUser, Requests
  <1>4. ChannelsWithinLimit'
    BY <1>2, <1>3, OneMore, Finite, LimitsAssumption DEF ChannelsWithinLimit
  <1>5. \A q \in Connects : requests'[q].pc = IF q = r THEN "succeeded" ELSE requests[q].pc
    BY <1>3, Places, GotoSets DEF InsertChannel, Reactivate, ChannelInv, AccountInv, Requests
  <1>6. ChannelRoom'
    BY <1>3, <1>5 DEF ChannelRoom, ChannelInv, AccountInv, Alone, HoldsUser, Requests
  <1> QED
    BY <1>4, <1>6

\* Where no channel is added, only the check itself has to be looked at.
LEMMA ChannelNotAdded ==
  ASSUME ChannelInv, Active' \subseteq Active,
         \A r \in Connects : requests'[r].pc \in {"verify", "look_up", "insert", "reactivate"} =>
           \/ requests[r].pc \in {"verify", "look_up", "insert", "reactivate"}
           \/ ~(Cardinality(Active) >= ChannelLimit)
  PROVE  ChannelRoom' /\ ChannelsWithinLimit'
  BY NoMore, Finite, LimitsAssumption DEF ChannelInv, ChannelRoom, ChannelsWithinLimit

\* Every step keeps the channel limit, if no PATCH switches a channel on.
LEMMA ChannelStep ==
  ASSUME PatchValues \subseteq {FALSE}
  PROVE  ChannelInv /\ [Next]_vars => ChannelInv'
  <1> SUFFICES ASSUME ChannelInv, [Next]_vars PROVE ChannelRoom' /\ ChannelsWithinLimit'
    BY AccountStep DEF ChannelInv
  <1> DEFINE Room == {"verify", "look_up", "insert", "reactivate"}
  <1>t. TypeOK /\ AccountInv
    BY DEF ChannelInv, AccountInv
  <1>a. UNCHANGED channels => Active' \subseteq Active
    BY DEF Active
  <1>g. ASSUME NEW r \in Requests, NEW pc \in PC, Goto(r, pc), pc \notin Room
        PROVE  \A q \in Connects : requests'[q].pc \in Room => requests[q].pc \in Room
    BY <1>g, <1>t, GotoSets DEF Requests
  <1>1. ASSUME NEW r \in Requests, LockUser(r) \/ Abort(r)
        PROVE  ChannelRoom' /\ ChannelsWithinLimit'
    BY <1>1, <1>a, <1>g, Places, ChannelNotAdded DEF LockUser, Abort
  <1>2. ASSUME NEW r \in Connects, CountChannels(r) \/ Verify(r)
        PROVE  ChannelRoom' /\ ChannelsWithinLimit'
    BY <1>2, <1>a, <1>t, Places, GotoSets, ChannelNotAdded
    DEF CountChannels, Verify, At, Requests
  <1>3. ASSUME NEW r \in Connects, LookUp(r)
        PROVE  ChannelRoom' /\ ChannelsWithinLimit'
    <2>1. \A q \in Connects : q /= r => requests'[q] = requests[q]
      BY <1>3, <1>t DEF LookUp, Goto, TypeOK, Requests
    <2> QED
      BY <1>3, <2>1, <1>a, ChannelNotAdded DEF LookUp, At
  <1>4. ASSUME NEW r \in Connects, InsertChannel(r) \/ Reactivate(r)
        PROVE  ChannelRoom' /\ ChannelsWithinLimit'
    BY <1>4, ChannelAdded
  <1>5. ASSUME NEW s \in Switches, Switch(s)
        PROVE  ChannelRoom' /\ ChannelsWithinLimit'
    <2>1. Active' \subseteq Active
      BY <1>5, <1>t DEF Switch, Active, TypeOK
    <2> QED
      BY <1>5, <2>1, <1>g, Places, ChannelNotAdded DEF Switch, Requests
  <1>6. ASSUME NEW s \in Switches, NEW c \in Connects, LockChannel(s, c)
        PROVE  ChannelRoom' /\ ChannelsWithinLimit'
    <2>1. \A q \in Connects : requests'[q] = requests[q]
      BY <1>6, <1>t, RequestsAssumption DEF LockChannel, Goto, TypeOK, Requests
    <2> QED
      BY <1>6, <2>1, <1>a, ChannelNotAdded DEF LockChannel
  <1>7. ASSUME NEW r \in Creates,
               BeginCreate(r) \/ FindKey(r) \/ CountPosts(r) \/ InsertPost(r)
        PROVE  ChannelRoom' /\ ChannelsWithinLimit'
    <2>1. \A q \in Connects : requests'[q] = requests[q]
      BY <1>7, <1>t, RequestsAssumption
      DEF BeginCreate, FindKey, CountPosts, InsertPost, Goto, TypeOK, Requests
    <2> QED
      BY <1>7, <2>1, <1>a, ChannelNotAdded DEF BeginCreate, FindKey, CountPosts, InsertPost
  <1>8. CASE UNCHANGED <<channels, requests>>
    BY <1>8, <1>a, ChannelNotAdded
  <1> QED
    BY <1>1, <1>2, <1>3, <1>4, <1>5, <1>6, <1>7, <1>8
    DEF Next, Rest, Requests, DeletePost, Midnight, vars

\* The plan's channel limit holds in every reachable state, however many requests race,
\* if no PATCH switches a disconnected channel on again.
THEOREM ChannelLimitKept ==
  ASSUME PatchValues \subseteq {FALSE}
  PROVE  Spec => []ChannelsWithinLimit
  <1>1. Init => ChannelInv
    <2> SUFFICES ASSUME Init PROVE ChannelRoom /\ ChannelsWithinLimit
      BY AccountInit DEF ChannelInv
    <2>1. Active = {}
      BY DEF Init, Active
    <2>2. ChannelRoom
      BY DEF Init, ChannelRoom, Requests
    <2> QED
      BY <2>1, <2>2, FS_EmptySet, LimitsAssumption DEF ChannelsWithinLimit
  <1>2. ChannelInv /\ [Next]_vars => ChannelInv'
    BY ChannelStep
  <1>3. ChannelInv => ChannelsWithinLimit
    BY DEF ChannelInv
  <1> QED
    BY <1>1, <1>2, <1>3, PTL DEF Spec

-----------------------------------------------------------------------------
(* The daily limit *)

\* A request that creates a post is of today while it runs, if none spans midnight.
SameDay == \A r \in Creates : ~At(r, "begin") /\ ~Ended(r) => requests[r].started = day

\* The request that has passed the check of the daily limit still has room.
PostRoom ==
  \A r \in Creates : At(r, "insert") => Cardinality(PostsOn(day)) < PostLimit

PostInv == AccountInv /\ SameDay /\ PostRoom /\ PostsWithinLimit

\* Where no post is added, only the check itself has to be looked at.
LEMMA PostNotAdded ==
  ASSUME PostInv, There' \subseteq There, day' = day,
         \A p \in There' : posts'[p].day = posts[p].day,
         \A r \in Creates : At(r, "insert")' =>
           At(r, "insert") \/ ~(Cardinality(PostsOn(day)) >= PostLimit)
  PROVE  PostRoom' /\ PostsWithinLimit'
  <1>1. \A d : PostsOn(d)' \subseteq PostsOn(d)
    BY DEF PostsOn
  <1>2. \A d : /\ Cardinality(PostsOn(d)') <= Cardinality(PostsOn(d))
               /\ Cardinality(PostsOn(d)') \in Nat /\ Cardinality(PostsOn(d)) \in Nat
    BY <1>1, NoMore, Finite
  <1>3. PostsWithinLimit'
    BY <1>2, LimitsAssumption DEF PostInv, PostsWithinLimit
  <1>4. PostRoom'
    BY <1>2, LimitsAssumption DEF PostInv, PostRoom, At
  <1> QED
    BY <1>3, <1>4

\* Nobody else is past its check when a request adds a post.
LEMMA PostAdded ==
  ASSUME PostInv, NEW r \in Creates, InsertPost(r)
  PROVE  PostRoom' /\ PostsWithinLimit'
  <1>1. r \in Requests /\ HoldsUser(r) /\ requests[r].started = day
    BY DEF InsertPost, At, Ended, HoldsUser, Requests, PostInv, SameDay
  <1>2. \A q \in Creates : requests'[q].pc =
          IF q = r THEN requests'[r].pc ELSE requests[q].pc
    BY <1>1, Places, GotoSets DEF InsertPost, PostInv, AccountInv, Requests
  <1>3. requests'[r].pc /= "insert"
    BY <1>1, Places, GotoSets DEF InsertPost, PostInv, AccountInv
  <1>4. PostRoom'
    BY <1>1, <1>2, <1>3 DEF PostRoom, At, InsertPost, PostInv, AccountInv, Alone, HoldsUser,
                            Requests
  <1>5. /\ PostsOn(day)' \subseteq PostsOn(day) \cup {r}
        /\ \A d : d /= day => PostsOn(d)' \subseteq PostsOn(d)
    BY <1>1 DEF InsertPost, PostsOn, There, PostInv, AccountInv, TypeOK
  <1>6. Cardinality(PostsOn(day)) < PostLimit
    BY DEF PostInv, PostRoom, InsertPost
  <1>7. Cardinality(PostsOn(day)') <= PostLimit
    BY <1>5, <1>6, OneMore, Finite, LimitsAssumption DEF InsertPost
  <1>8. ASSUME NEW d \in 0..MaxDay, d /= day PROVE Cardinality(PostsOn(d)') <= PostLimit
    <2>1. Cardinality(PostsOn(d)) <= PostLimit
      BY DEF PostInv, PostsWithinLimit
    <2>2. /\ Cardinality(PostsOn(d)') <= Cardinality(PostsOn(d))
          /\ Cardinality(PostsOn(d)') \in Nat /\ Cardinality(PostsOn(d)) \in Nat
      BY <1>5, <1>8, NoMore, Finite
    <2> QED
      BY <2>1, <2>2, LimitsAssumption
  <1>9. PostsWithinLimit'
    BY <1>7, <1>8 DEF PostsWithinLimit, InsertPost
  <1> QED
    BY <1>4, <1>9

\* Every step keeps the daily limit, if no request that creates a post spans midnight.
LEMMA PostStep ==
  ASSUME QuietMidnight
  PROVE  PostInv /\ [Next]_vars => PostInv'
  <1> SUFFICES ASSUME PostInv, [Next]_vars
               PROVE  SameDay' /\ PostRoom' /\ PostsWithinLimit'
    BY AccountStep DEF PostInv
  <1>t. TypeOK /\ AccountInv
    BY DEF PostInv, AccountInv
  <1>p. UNCHANGED posts => There' \subseteq There
    BY DEF There
  <1>1. ASSUME NEW r \in Requests, LockUser(r) \/ Abort(r)
        PROVE  SameDay' /\ PostRoom' /\ PostsWithinLimit'
    <2>1. \A q \in Creates : /\ requests'[q].started = requests[q].started
                             /\ q /= r => requests'[q].pc = requests[q].pc
      BY <1>1, <1>t, Places, GotoSets DEF LockUser, Abort, Requests
    <2>2. requests'[r].pc \in {"count", "failed"}
      BY <1>1, <1>t, Places, GotoSets DEF LockUser, Abort, At
    <2>3. requests'[r].pc = "failed" \/ requests[r].pc = "lock_user"
      BY <1>1, <1>t, Places, GotoSets DEF LockUser, Abort, At
    <2>4. day' = day
      BY <1>1 DEF LockUser, Abort
    <2>5. SameDay'
      BY <2>1, <2>2, <2>3, <2>4 DEF SameDay, PostInv, At, Ended
    <2> QED
      BY <1>1, <2>1, <2>2, <2>5, <1>p, PostNotAdded DEF LockUser, Abort, At
  <1>2. ASSUME NEW r \in Connects \cup Switches, UNCHANGED <<day, posts>>,
               \A q \in Requests : q /= r => requests'[q] = requests[q]
        PROVE  SameDay' /\ PostRoom' /\ PostsWithinLimit'
    <2>1. \A q \in Creates : requests'[q] = requests[q]
      BY <1>2, RequestsAssumption DEF Requests
    <2> QED
      BY <1>2, <2>1, <1>p, PostNotAdded DEF SameDay, PostInv, At, Ended
  <1>3. ASSUME NEW r \in Connects, \/ CountChannels(r) \/ Verify(r) \/ LookUp(r)
                                   \/ InsertChannel(r) \/ Reactivate(r)
        PROVE  SameDay' /\ PostRoom' /\ PostsWithinLimit'
    <2>1. \A q \in Requests : q /= r => requests'[q] = requests[q]
      BY <1>3, <1>t
      DEF CountChannels, Verify, LookUp, InsertChannel, Reactivate, Goto, TypeOK, Requests
    <2> QED
      BY <1>2, <1>3, <2>1 DEF CountChannels, Verify, LookUp, InsertChannel, Reactivate
  <1>4. ASSUME NEW s \in Switches, Switch(s) \/ \E c \in Connects : LockChannel(s, c)
        PROVE  SameDay' /\ PostRoom' /\ PostsWithinLimit'
    <2>1. \A q \in Requests : q /= s => requests'[q] = requests[q]
      BY <1>4, <1>t DEF Switch, LockChannel, Goto, TypeOK, Requests
    <2> QED
      BY <1>2, <1>4, <2>1 DEF Switch, LockChannel
  <1>5. ASSUME NEW r \in Creates, BeginCreate(r)
        PROVE  SameDay' /\ PostRoom' /\ PostsWithinLimit'
    <2>1. /\ \A q \in Creates : q /= r => requests'[q] = requests[q]
          /\ requests'[r].started = day /\ requests'[r].pc /= "insert"
      BY <1>5, <1>t DEF BeginCreate, TypeOK, Request, Requests
    <2>2. SameDay'
      BY <1>5, <2>1 DEF BeginCreate, SameDay, PostInv, At, Ended
    <2> QED
      BY <1>5, <2>1, <2>2, <1>p, PostNotAdded DEF BeginCreate, At
  <1>6. ASSUME NEW r \in Creates, FindKey(r) \/ CountPosts(r)
        PROVE  SameDay' /\ PostRoom' /\ PostsWithinLimit'
    <2>1. \A q \in Creates : /\ requests'[q].started = requests[q].started
                             /\ q /= r => requests'[q].pc = requests[q].pc
      BY <1>6, <1>t, Places, GotoSets DEF FindKey, CountPosts, Requests
    <2>2. SameDay'
      BY <1>6, <2>1 DEF FindKey, CountPosts, SameDay, PostInv, At, Ended
    <2>3. requests'[r].pc = "insert" => ~(Cardinality(PostsOn(day)) >= PostLimit)
      BY <1>6, <1>t, Places, GotoSets DEF FindKey, CountPosts, Requests
    <2> QED
      BY <1>6, <2>1, <2>2, <2>3, <1>p, PostNotAdded DEF FindKey, CountPosts, At
  <1>7. ASSUME NEW r \in Creates, InsertPost(r)
        PROVE  SameDay' /\ PostRoom' /\ PostsWithinLimit'
    <2>1. \A q \in Creates : /\ requests'[q].started = requests[q].started
                             /\ q /= r => requests'[q].pc = requests[q].pc
                             /\ requests'[r].pc \in {"succeeded", "failed"}
      BY <1>7, <1>t, Places, GotoSets DEF InsertPost, Requests
    <2>2. SameDay'
      BY <1>7, <2>1 DEF InsertPost, SameDay, PostInv, At, Ended
    <2> QED
      BY <1>7, <2>2, PostAdded
  <1>8. ASSUME NEW p \in Creates, DeletePost(p)
        PROVE  SameDay' /\ PostRoom' /\ PostsWithinLimit'
    <2>1. There' \subseteq There /\ \A q \in There' : posts'[q].day = posts[q].day
      BY <1>8, <1>t DEF DeletePost, There, TypeOK, Post
    <2> QED
      BY <1>8, <2>1, PostNotAdded DEF DeletePost, SameDay, PostInv, At, Ended
  <1>9. CASE Midnight
    <2>1. SameDay' /\ PostRoom'
      BY <1>9 DEF Midnight, SameDay, PostRoom, At, Ended
    <2> QED
      BY <1>9, <2>1 DEF Midnight, PostsWithinLimit, PostInv, PostsOn, There
  <1>10. CASE UNCHANGED vars
    BY <1>10, <1>p, PostNotAdded DEF vars, SameDay, PostInv, At, Ended
  <1> QED
    BY <1>1, <1>3, <1>4, <1>5, <1>6, <1>7, <1>8, <1>9, <1>10 DEF Next, Rest, Requests

\* No day has more posts than the plan allows, in every reachable state and however many
\* requests race, if none of them spans midnight.
THEOREM DailyLimitKept ==
  ASSUME QuietMidnight
  PROVE  Spec => []PostsWithinLimit
  <1>1. Init => PostInv
    <2> SUFFICES ASSUME Init PROVE SameDay /\ PostRoom /\ PostsWithinLimit
      BY AccountInit DEF PostInv
    <2>1. \A d : PostsOn(d) = {}
      BY DEF Init, PostsOn, There
    <2>2. SameDay /\ PostRoom
      BY RequestsAssumption DEF Init, SameDay, PostRoom, At, Requests
    <2> QED
      BY <2>1, <2>2, FS_EmptySet, LimitsAssumption DEF PostsWithinLimit
  <1>2. PostInv /\ [Next]_vars => PostInv'
    BY PostStep
  <1>3. PostInv => PostsWithinLimit
    BY DEF PostInv
  <1> QED
    BY <1>1, <1>2, <1>3, PTL DEF Spec

=============================================================================
