--------------------------- MODULE BotSessionProofs ---------------------------
(***************************************************************************)
(* The user is told that the session is over only for a reason, for every  *)
(* number of handlers, of repeated actions and of faults, and whatever the *)
(* tasks that clear the cache drop: see BotSession.                        *)
(***************************************************************************)
EXTENDS BotSession, FiniteSetTheorems, FunctionTheorems, TLAPS

\* The programs.
LEMMA Programs ==
  ASSUME NEW k \in DOMAIN Program
  PROVE  Program[k] \in {<<"token">>, <<"token", "call">>, <<"token", "call", "call">>,
                         <<"token", "call", "ask">>, <<"token", "call", "token", "call", "call">>,
                         <<"user">>}
  BY DEF Program, SetModel, ShowChannels, DisableChannel, ShowProfile, ShowModels, ShowPassword

\* A program begins with a token or with the password, which it then shows and ends; a request
\* comes after a token.
LEMMA ProgramFacts ==
  ASSUME NEW k \in DOMAIN Program
  PROVE  /\ Len(Program[k]) \in 1..5
         /\ \A i \in 1..Len(Program[k]) :
              /\ Program[k][i] \in {"token", "user", "call", "ask"}
              /\ i = 1 => Program[k][i] \in {"token", "user"}
              /\ Program[k][i] = "user" => i = Len(Program[k])
  <1> DEFINE P == Program[k]
  <1>1. P \in {<<"token">>, <<"token", "call">>, <<"token", "call", "call">>,
                         <<"token", "call", "ask">>, <<"token", "call", "token", "call", "call">>,
                         <<"user">>}
    BY Programs
  <1> HIDE DEF P
  <1> QED
    BY <1>1 DEF P

-----------------------------------------------------------------------------
(* The invariant *)

\* A handler with the slot x is at a step of the operation its program has come to, and holds
\* a token when it makes a request.
Placed(h, x) ==
    LET op == Program[Kind[h]][x.next] IN
    /\ x.next \in 1..Len(Program[Kind[h]])
    /\ x.pc \in Outcome => x.next = 1 /\ x.token = NoToken /\ x.fresh = NoToken
    /\ x.pc \in {"token", "ask"} => op = x.pc
    /\ x.pc \in {"call", "delete", "again"} => op = "call"
    /\ x.pc \in {"user", "insert", "password"} => op \in {"token", "user", "call"}
    /\ x.pc \in {"login", "store"} => op \in {"token", "call"}
    /\ op \in {"call", "ask"} => x.token \in Tokens
    /\ x.pc \in {"store", "again"} => x.fresh \in Tokens

\* What a handler with the slot x relies on is accepted, or the handler is disturbed.
Sound(h, x) ==
    \/ h \in disturbed
    \/ /\ {x.token, x.fresh} \subseteq valid \cup {NoToken}
       /\ x.pc = "login" => password = h
       /\ x.pc /= "unauthorized"

SessionInv ==
    /\ TypeOK
    /\ \A h \in Handlers : Placed(h, handlers[h])
    /\ \A h \in Handlers : Sound(h, handlers[h])

-----------------------------------------------------------------------------
(* The slots of the handlers *)

\* What a step of handler h does to the rest of the state: what the others hold stays
\* accepted, and a password is replaced to their disturbance.
Spares(h) ==
    /\ registered' \in BOOLEAN
    /\ password' \in Handlers \cup {Nobody}
    /\ valid' \subseteq Tokens /\ cache' \in Token /\ owners' \subseteq Tokens
    /\ clearing' \in [start : Nat, delete : Nat]
    /\ disturbed' \subseteq Handlers
    /\ faults' \in 0..MaxFaults
    /\ valid \cap Held \subseteq valid'
    /\ disturbed \ {h} \subseteq disturbed'
    /\ \A g \in Handlers \ {h} : At(g, "login") => password' = password \/ g \in disturbed'

\* A step of one handler that spares the others keeps the invariant, if its new slot does.
LEMMA SlotStep ==
  ASSUME SessionInv, NEW h \in Handlers, NEW x \in Handler,
         handlers' = [handlers EXCEPT ![h] = x],
         Spares(h), Placed(h, x), Sound(h, x)'
  PROVE  SessionInv'
  <1>1. /\ handlers' \in [Handlers -> Handler]
        /\ handlers'[h] = x
        /\ \A g \in Handlers \ {h} : handlers'[g] = handlers[g]
    BY DEF SessionInv, TypeOK
  <1>2. TypeOK'
    BY <1>1 DEF Spares, TypeOK
  <1>3. \A g \in Handlers : Placed(g, handlers'[g])
    BY <1>1 DEF SessionInv
  <1>4. ASSUME NEW g \in Handlers
        PROVE  Sound(g, handlers[g])'
    <2>1. CASE g = h
      BY <1>1, <2>1 DEF Sound
    <2>2. CASE g /= h
      <3>1. {handlers[g].token, handlers[g].fresh} \subseteq Held
        BY DEF Held
      <3> QED
        BY <1>1, <2>2, <3>1 DEF SessionInv, Sound, Spares, At
    <2> QED
      BY <2>1, <2>2
  <1> QED
    BY <1>2, <1>3, <1>4 DEF SessionInv, Placed

\* A slot with other values in its fields.
LEMMA SlotType ==
  ASSUME NEW x \in Handler, NEW pc \in PC, NEW next \in 1..5, NEW token \in Token,
         NEW fresh \in Token
  PROVE  [x EXCEPT !.pc = pc, !.next = next, !.token = token, !.fresh = fresh] \in Handler
  BY Zenon DEF Handler

\* A handler that ends keeps the invariant, if it has a reason to say that the session is over.
LEMMA EndStep ==
  ASSUME SessionInv, NEW h \in Handlers, NEW outcome \in Outcome, End(h, outcome), Spares(h),
         outcome = "unauthorized" => h \in disturbed'
  PROVE  SessionInv'
  <1>1. handlers \in [Handlers -> Handler] /\ handlers[h] \in Handler
    BY DEF SessionInv, TypeOK
  <1>2. PICK x \in Handler :
          x = [handlers[h] EXCEPT !.pc = outcome, !.next = 1, !.token = NoToken, !.fresh = NoToken]
    <2>1. outcome \in PC /\ 1 \in 1..5 /\ NoToken \in Token
      BY DEF PC, Token
    <2> QED
      BY <1>1, <2>1, SlotType
  <1>3. x.pc = outcome /\ x.next = 1 /\ x.token = NoToken /\ x.fresh = NoToken
    BY <1>1, <1>2 DEF Handler
  <1>4. handlers' = [handlers EXCEPT ![h] = x]
    BY <1>1, <1>2 DEF End
  <1>5. Placed(h, x)
    <2>1. /\ 1 \in 1..Len(Program[Kind[h]])
          /\ Program[Kind[h]][1] \in {"token", "user"}
      BY HandlersAssumption, ProgramFacts
    <2> QED
      BY <1>3, <2>1 DEF Placed, Outcome
  <1>6. Sound(h, x)'
    BY <1>3 DEF Sound, Outcome
  <1> QED
    BY <1>4, <1>5, <1>6, SlotStep

\* A handler that goes on to its next operation, or ends, keeps the invariant, if it goes on
\* with a token that is accepted.
LEMMA ProceedStep ==
  ASSUME SessionInv, NEW h \in Handlers, NEW token \in Token, Proceed(h, token), Spares(h),
         token \in Tokens \/ Operation(h) = "user",
         h \in disturbed' \/ token \in valid' \cup {NoToken}
  PROVE  SessionInv'
  <1>1. /\ handlers \in [Handlers -> Handler] /\ handlers[h] \in Handler
        /\ Placed(h, handlers[h])
        /\ Kind[h] \in DOMAIN Program
    BY HandlersAssumption DEF SessionInv, TypeOK
  <1>2. PICK next \in Nat : next = handlers[h].next + 1
    BY <1>1 DEF Handler
  <1>3. PICK P : P = Program[Kind[h]]
    OBVIOUS
  <1>4. CASE next > Len(P)
    BY <1>2, <1>3, <1>4, EndStep DEF Proceed, Outcome
  <1>5. CASE ~(next > Len(P))
    <2>1. Len(P) \in 1..5 /\ handlers[h].next \in 1..Len(P) /\ next \in 2..Len(P) /\ next \in 1..5
      BY <1>1, <1>2, <1>3, <1>5, ProgramFacts DEF Placed
    <2>2. /\ P[next] \in {"token", "user", "call", "ask"}
          /\ Operation(h) /= "user"
      BY <1>1, <1>2, <1>3, <2>1, ProgramFacts DEF Operation
    <2>3. PICK x \in Handler :
            x = [handlers[h] EXCEPT !.pc = P[next], !.next = next,
                                    !.token = token, !.fresh = NoToken]
      <3>1. P[next] \in PC /\ NoToken \in Token
        BY <2>2 DEF PC, Token
      <3> QED
        BY <1>1, <2>1, <3>1, SlotType
    <2>4. x.pc = P[next] /\ x.next = next /\ x.token = token /\ x.fresh = NoToken
      BY <1>1, <2>3 DEF Handler
    <2>5. handlers' = [handlers EXCEPT ![h] = x]
      BY <1>1, <1>2, <1>3, <1>5, <2>3 DEF Proceed
    <2>6. Placed(h, x)
      <3>1. next \in 1..Len(P)
        BY <2>1
      <3>2. x.pc \notin Outcome /\ x.pc \in {"token", "user", "call", "ask"}
        BY <2>2, <2>4 DEF Outcome
      <3> QED
        BY <1>3, <2>2, <2>4, <3>1, <3>2 DEF Placed
    <2>7. Sound(h, x)'
      <3>1. x.pc \notin {"login", "unauthorized"}
        BY <2>2, <2>4
      <3> QED
        BY <2>4, <3>1 DEF Sound
    <2> QED
      BY <2>5, <2>6, <2>7, SlotStep
  <1> QED
    BY <1>4, <1>5

\* A handler that goes on within its operation keeps the invariant, if the step is one of it
\* and the password it goes to log in with is its own.
LEMMA GotoStep ==
  ASSUME SessionInv, NEW h \in Handlers, NEW pc \in PC \ Outcome, Goto(h, pc), Spares(h),
         \/ h \notin disturbed
         \/ h \in disturbed'
         \/ handlers[h].token = NoToken /\ handlers[h].fresh = NoToken,
         pc = "login" => password' = h,
         Placed(h, [handlers[h] EXCEPT !.pc = pc])
  PROVE  SessionInv'
  <1>1. handlers \in [Handlers -> Handler] /\ handlers[h] \in Handler
    BY DEF SessionInv, TypeOK
  <1>2. PICK x \in Handler : x = [handlers[h] EXCEPT !.pc = pc]
    BY <1>1 DEF Handler
  <1>3. x.pc = pc /\ x.token = handlers[h].token /\ x.fresh = handlers[h].fresh
    BY <1>1, <1>2 DEF Handler
  <1>4. handlers' = [handlers EXCEPT ![h] = x]
    BY <1>1, <1>2 DEF Goto
  <1>5. Sound(h, x)'
    <2>1. pc /= "unauthorized"
      BY DEF Outcome
    <2>2. {handlers[h].token, handlers[h].fresh} \subseteq Held
      BY DEF Held
    <2> QED
      BY <1>3, <2>1, <2>2 DEF SessionInv, Sound, Spares
  <1>6. Placed(h, x)
    BY <1>2
  <1> QED
    BY <1>4, <1>5, <1>6, SlotStep

-----------------------------------------------------------------------------
(* The actions *)

\* Where handler h stands, and what its slot is worth.
LEMMA SlotFacts ==
  ASSUME SessionInv, NEW h \in Handlers
  PROVE  /\ TypeOK
         /\ handlers[h] \in Handler
         /\ Placed(h, handlers[h]) /\ Sound(h, handlers[h])
         /\ Kind[h] \in DOMAIN Program
         /\ {handlers[h].token, handlers[h].fresh} \subseteq Held
  BY HandlersAssumption DEF SessionInv, TypeOK, Held

\* A handler begins with its first operation, and with no old reason.
LEMMA StartStep ==
  ASSUME SessionInv, NEW h \in Handlers, handlers[h].pc \in Outcome, Start(h)
  PROVE  SessionInv'
  <1>1. /\ handlers[h] \in Handler /\ handlers[h].next = 1
        /\ handlers[h].token = NoToken /\ handlers[h].fresh = NoToken
    BY SlotFacts DEF Placed
  <1>2. PICK pc \in {"token", "user"} : pc = Program[Kind[h]][1]
    BY SlotFacts, ProgramFacts
  <1>3. Spares(h)
    BY DEF SessionInv, TypeOK, Spares, Start, server, client
  <1>4. pc \in PC \ Outcome
    BY DEF PC, Outcome
  <1>5. PICK x : x = [handlers[h] EXCEPT !.pc = pc]
    OBVIOUS
  <1>6. x.pc = pc /\ x.next = 1 /\ x.token = NoToken /\ x.fresh = NoToken
    BY <1>1, <1>5 DEF Handler
  <1>7. 1 \in 1..Len(Program[Kind[h]])
    BY HandlersAssumption, ProgramFacts
  <1>8. Placed(h, x)
    BY <1>2, <1>4, <1>6, <1>7 DEF Placed
  <1> QED
    BY <1>1, <1>2, <1>3, <1>4, <1>5, <1>8, GotoStep DEF Start

\* Within an operation a handler goes from a step to another for which the slot will do.
LEMMA PlacedGoto ==
  ASSUME SessionInv, NEW h \in Handlers, NEW pc \in PC \ Outcome,
         handlers[h].pc \in {"token", "user", "insert", "password", "store", "call", "delete"},
         pc \in {"user", "insert", "password", "login", "again", "delete"},
         handlers[h].pc = "token" => pc = "user",
         pc = "login" => Operation(h) /= "user",
         pc = "delete" => Operation(h) = "call",
         pc = "again" => Operation(h) /= "token" /\ handlers[h].pc = "store"
  PROVE  Placed(h, [handlers[h] EXCEPT !.pc = pc])
  <1>1. PICK x : x = [handlers[h] EXCEPT !.pc = pc]
    OBVIOUS
  <1>2. /\ x.pc = pc /\ x.next = handlers[h].next
        /\ x.token = handlers[h].token /\ x.fresh = handlers[h].fresh
    BY <1>1, SlotFacts DEF Handler
  <1>3. Placed(h, x)
    BY <1>2, SlotFacts DEF Placed, Operation
  <1> QED
    BY <1>1, <1>3

\* The SELECT of get_or_create_user.
LEMMA FindUserStep ==
  ASSUME SessionInv, NEW h \in Handlers, FindUser(h)
  PROVE  SessionInv'
  <1>1. PICK pc \in {"password", "insert"} : pc = IF registered THEN "password" ELSE "insert"
    OBVIOUS
  <1>2. Spares(h)
    BY DEF SessionInv, TypeOK, Spares, FindUser, server, client
  <1>3. pc \in PC \ Outcome
    BY DEF PC, Outcome
  <1>4. Placed(h, [handlers[h] EXCEPT !.pc = pc])
    BY <1>3, PlacedGoto DEF FindUser, At
  <1> QED
    BY <1>1, <1>2, <1>3, <1>4, GotoStep DEF FindUser

\* The INSERT.
LEMMA InsertUserStep ==
  ASSUME SessionInv, NEW h \in Handlers, InsertUser(h)
  PROVE  SessionInv'
  <1>1. Spares(h)
    BY DEF SessionInv, TypeOK, Spares, InsertUser, client
  <1>2. CASE registered
    BY <1>1, <1>2, EndStep DEF InsertUser, Outcome
  <1>3. CASE ~registered
    <2>1. "password" \in PC \ Outcome
      BY DEF PC, Outcome
    <2>2. Placed(h, [handlers[h] EXCEPT !.pc = "password"])
      BY <2>1, PlacedGoto DEF InsertUser, At
    <2> QED
      BY <1>1, <1>3, <2>1, <2>2, GotoStep DEF InsertUser
  <1> QED
    BY <1>2, <1>3

\* A password that replaces another disturbs the handlers that were to use that one.
LEMMA SetPasswordStep ==
  ASSUME SessionInv, NEW h \in Handlers, SetPassword(h)
  PROVE  SessionInv'
  <1>1. Spares(h) /\ disturbed \subseteq disturbed' /\ password' = h
    BY DEF SessionInv, TypeOK, Spares, SetPassword, Replace, client
  <1>2. CASE Operation(h) = "user"
    BY <1>1, <1>2, ProceedStep DEF SetPassword, Token
  <1>3. CASE Operation(h) /= "user"
    <2>1. "login" \in PC \ Outcome
      BY DEF PC, Outcome
    <2>2. Placed(h, [handlers[h] EXCEPT !.pc = "login"])
      BY <1>3, <2>1, PlacedGoto DEF SetPassword, At
    <2> QED
      BY <1>1, <1>3, <2>1, <2>2, GotoStep DEF SetPassword
  <1> QED
    BY <1>2, <1>3

\* The slots hold at most two tokens each, and Redis one: there is a name for a new token.
LEMMA FreeToken ==
  ASSUME TypeOK
  PROVE  \E t \in Tokens : t \notin Held
  <1> DEFINE T == {handlers[h].token : h \in Handlers}
             F == {handlers[h].fresh : h \in Handlers}
             n == Cardinality(Handlers)
             k == Cardinality(T)
             l == Cardinality(F)
             m == Cardinality(T \cup F)
             c == Cardinality(Held)
  <1>1. IsFiniteSet(Handlers) /\ n \in Nat
    BY HandlersAssumption, FS_CardinalityType
  <1>2. IsFiniteSet(T) /\ k \in Nat /\ k <= n
    <2> DEFINE f == [h \in Handlers |-> handlers[h].token]
    <2>1. f \in Surjection(Handlers, T)
      BY DEF Surjection
    <2> HIDE DEF f, T
    <2> QED
      BY <1>1, <2>1, FS_Surjection, FS_CardinalityType
  <1>3. IsFiniteSet(F) /\ l \in Nat /\ l <= n
    <2> DEFINE f == [h \in Handlers |-> handlers[h].fresh]
    <2>1. f \in Surjection(Handlers, F)
      BY DEF Surjection
    <2> HIDE DEF f, F
    <2> QED
      BY <1>1, <2>1, FS_Surjection, FS_CardinalityType
  <1> HIDE DEF T, F
  <1>4. IsFiniteSet(T \cup F) /\ m \in Nat /\ m <= k + l
    <2>1. PICK i \in Nat : i = Cardinality(T \cap F)
      BY <1>2, FS_Intersection, FS_CardinalityType
    <2>2. IsFiniteSet(T \cup F) /\ m = k + l - i
      BY <1>2, <1>3, <2>1, FS_Union
    <2>3. m \in Nat
      BY <2>2, FS_CardinalityType
    <2> HIDE DEF m, k, l
    <2> QED
      BY <1>2, <1>3, <2>2, <2>3
  <1>5. Held = (T \cup F) \cup {cache}
    BY DEF Held, T, F
  <1>6. IsFiniteSet(Held) /\ c \in Nat /\ c <= m + 1
    <2>1. IsFiniteSet(Held) /\ c = IF cache \in T \cup F THEN m ELSE m + 1
      BY <1>4, <1>5, FS_AddElement
    <2> HIDE DEF m, c
    <2> QED
      BY <1>4, <2>1
  <1> HIDE DEF n, k, l, m, c
  <1>7. c <= 2 * n + 1
    BY <1>1, <1>2, <1>3, <1>4, <1>6
  <1>8. SUFFICES ASSUME Tokens \subseteq Held PROVE FALSE
    OBVIOUS
  <1>9. Cardinality(Tokens) \in Nat /\ Cardinality(Tokens) <= c
    BY <1>6, <1>8, FS_Subset, FS_CardinalityType DEF c
  <1>10. Cardinality(Tokens) > 2 * n + 1
    BY TokensAssumption DEF n
  <1> QED
    BY <1>1, <1>6, <1>7, <1>9, <1>10

\* A login with a password that still works brings a new token; otherwise the password was
\* replaced under the handler.
LEMMA LoginStep ==
  ASSUME SessionInv, NEW h \in Handlers, Login(h)
  PROVE  SessionInv'
  <1>1. PICK token \in Tokens :
          token \notin Held /\ token = CHOOSE t \in Tokens : t \notin Held
    BY FreeToken DEF SessionInv
  <1>2. Spares(h)
    BY <1>1 DEF SessionInv, TypeOK, Spares, Login, Unauthorized, Token
  <1>3. CASE password = h
    <2>1. PICK x : x = [handlers[h] EXCEPT !.pc = "store", !.fresh = token]
      OBVIOUS
    <2>2. /\ x \in Handler
          /\ x.pc = "store" /\ x.next = handlers[h].next
          /\ x.token = handlers[h].token /\ x.fresh = token
      BY <2>1, SlotFacts DEF Handler, PC, Token
    <2>3. handlers' = [handlers EXCEPT ![h] = x]
      BY <1>1, <1>3, <2>1 DEF Login
    <2>4. Placed(h, x)
      BY <2>2, SlotFacts DEF Placed, Login, At, Outcome
    <2>5. Sound(h, x)'
      BY <1>1, <1>3, <2>2, SlotFacts DEF Sound, Login
    <2> QED
      BY <1>2, <2>2, <2>3, <2>4, <2>5, SlotStep
  <1>4. CASE password /= h
    <2>1. End(h, "unauthorized")
      BY <1>4 DEF Login, Unauthorized
    <2>2. h \in disturbed'
      BY <1>4, SlotFacts DEF Sound, Login, At
    <2> QED
      BY <1>2, <2>1, <2>2, EndStep DEF Outcome
  <1> QED
    BY <1>3, <1>4

\* A cached token that is no longer accepted disturbs the handler that takes it.
LEMMA GetCachedStep ==
  ASSUME SessionInv, NEW h \in Handlers, GetCached(h)
  PROVE  SessionInv'
  <1>1. Spares(h)
    BY DEF SessionInv, TypeOK, Spares, GetCached, server, Token
  <1>2. CASE cache = NoToken
    <2>1. "user" \in PC \ Outcome
      BY DEF PC, Outcome
    <2>2. Placed(h, [handlers[h] EXCEPT !.pc = "user"])
      BY <2>1, PlacedGoto DEF GetCached, At
    <2> QED
      BY <1>1, <1>2, <2>1, <2>2, GotoStep DEF GetCached
  <1>3. CASE cache /= NoToken
    <2>1. cache \in Tokens
      BY <1>3 DEF SessionInv, TypeOK, Token
    <2>2. h \in disturbed' \/ cache \in valid'
      BY <1>3, <2>1 DEF GetCached, server
    <2>3. PICK token \in Tokens : token = cache
      BY <2>1
    <2> QED
      BY <1>1, <1>3, <2>2, <2>3, ProceedStep DEF GetCached, Token
  <1> QED
    BY <1>2, <1>3

\* The fresh token goes into the cache.
LEMMA StoreStep ==
  ASSUME SessionInv, NEW h \in Handlers, Store(h)
  PROVE  SessionInv'
  <1>1. PICK token \in Tokens : token = handlers[h].fresh
    BY SlotFacts DEF Placed, Store, At
  <1>2. Spares(h)
    BY <1>1 DEF SessionInv, TypeOK, Spares, Store, server, Token
  <1>3. CASE Operation(h) = "token"
    <2>1. h \in disturbed' \/ token \in valid' \cup {NoToken}
      BY <1>1, SlotFacts DEF Sound, Store, server
    <2> QED
      BY <1>1, <1>2, <1>3, <2>1, ProceedStep DEF Store, Token
  <1>4. CASE Operation(h) /= "token"
    <2>1. "again" \in PC \ Outcome
      BY DEF PC, Outcome
    <2>2. Placed(h, [handlers[h] EXCEPT !.pc = "again"])
      BY <1>4, <2>1, PlacedGoto DEF Store, At
    <2> QED
      BY <1>2, <1>4, <2>1, <2>2, GotoStep DEF Store
  <1> QED
    BY <1>3, <1>4

\* A request: it is served, or its token is replaced, or the token was taken from the handler.
LEMMA CallStep ==
  ASSUME SessionInv, NEW h \in Handlers, Call(h)
  PROVE  SessionInv'
  <1>1. PICK token \in Tokens : token = handlers[h].token
    BY SlotFacts DEF Placed, Call, At
  <1>2. Spares(h)
    BY DEF SessionInv, TypeOK, Spares, Call, Unauthorized, server
  <1>3. Operation(h) = "call"
    BY SlotFacts DEF Placed, Operation, Call, At
  <1>4. CASE token \in valid /\ Proceed(h, token)
    BY <1>2, <1>4, ProceedStep DEF Call, server, Token
  <1>5. CASE Goto(h, "delete")
    <2>1. "delete" \in PC \ Outcome
      BY DEF PC, Outcome
    <2>2. Placed(h, [handlers[h] EXCEPT !.pc = "delete"])
      BY <1>3, <2>1, PlacedGoto DEF Call, At
    <2> QED
      BY <1>2, <1>5, <2>1, <2>2, GotoStep DEF Call
  <1>6. CASE token \notin owners \cup valid /\ Unauthorized(h)
    <2>1. h \in disturbed'
      BY <1>1, <1>6, TokensAssumption, SlotFacts DEF Sound, Call
    <2> QED
      BY <1>2, <1>6, <2>1, EndStep DEF Unauthorized, Outcome
  <1> QED
    BY <1>1, <1>4, <1>5, <1>6 DEF Call

\* The DEL of a refresh.
LEMMA DeleteStep ==
  ASSUME SessionInv, NEW h \in Handlers, Delete(h)
  PROVE  SessionInv'
  <1>1. Spares(h)
    BY DEF SessionInv, TypeOK, Spares, Delete, server, Token
  <1>2. "user" \in PC \ Outcome
    BY DEF PC, Outcome
  <1>3. Placed(h, [handlers[h] EXCEPT !.pc = "user"])
    BY <1>2, PlacedGoto DEF Delete, At
  <1> QED
    BY <1>1, <1>2, <1>3, GotoStep DEF Delete

\* The request once more: it is refused only to a disturbed handler, and the handler goes on
\* with its old token only as one.
LEMMA CallAgainStep ==
  ASSUME SessionInv, NEW h \in Handlers, CallAgain(h)
  PROVE  SessionInv'
  <1>1. PICK token \in Tokens : token = handlers[h].token
    BY SlotFacts DEF Placed, CallAgain, At
  <1>2. Spares(h)
    BY DEF SessionInv, TypeOK, Spares, CallAgain, Unauthorized, server
  <1>3. CASE handlers[h].fresh \in valid
    <2>1. h \in disturbed' \/ token \in valid' \cup {NoToken}
      BY <1>1, SlotFacts DEF Sound, CallAgain, server
    <2> QED
      BY <1>1, <1>2, <1>3, <2>1, ProceedStep DEF CallAgain, Token
  <1>4. CASE handlers[h].fresh \notin valid
    <2>1. handlers[h].fresh \in Tokens
      BY SlotFacts DEF Placed, CallAgain, At
    <2>2. h \in disturbed'
      BY <1>4, <2>1, TokensAssumption, SlotFacts DEF Sound, CallAgain
    <2> QED
      BY <1>2, <1>4, <2>2, EndStep DEF CallAgain, Unauthorized, Outcome
  <1> QED
    BY <1>3, <1>4

\* The request that takes no token.
LEMMA AskStep ==
  ASSUME SessionInv, NEW h \in Handlers, Ask(h)
  PROVE  SessionInv'
  <1>1. PICK token \in Tokens : token = handlers[h].token
    BY SlotFacts DEF Placed, Ask, At
  <1>2. Spares(h)
    BY DEF SessionInv, TypeOK, Spares, Ask, server, client
  <1>3. h \in disturbed' \/ token \in valid' \cup {NoToken}
    BY <1>1, SlotFacts DEF Sound, Ask, server
  <1> QED
    BY <1>1, <1>2, <1>3, ProceedStep DEF Ask, Token

\* A lost request ends its handler, without a claim that the session is over.
LEMMA LostStep ==
  ASSUME SessionInv, NEW h \in Handlers, Lost(h)
  PROVE  SessionInv'
  <1>1. Spares(h)
    <2>1. cache' \in Token
      BY DEF SessionInv, TypeOK, Lost, Token, Handler
    <2> QED
      BY <2>1, TokensAssumption DEF SessionInv, TypeOK, Spares, Lost, Fault, Replace
  <1> QED
    BY <1>1, EndStep DEF Lost, Outcome

\* A step that leaves the handlers where they are keeps the invariant, if a token that is no
\* longer accepted disturbs the handlers that hold it.
LEMMA StillStep ==
  ASSUME SessionInv, TypeOK', handlers' = handlers, password' = password,
         disturbed \subseteq disturbed',
         \A h \in Handlers :
           h \in disturbed' \/ {handlers[h].token, handlers[h].fresh} \cap valid \subseteq valid'
  PROVE  SessionInv'
  <1>1. ASSUME NEW h \in Handlers
        PROVE  Sound(h, handlers[h])'
    BY DEF SessionInv, Sound
  <1> QED
    BY <1>1 DEF SessionInv, Placed

\* The steps that leave the handlers where they are.
LEMMA BackgroundStep ==
  ASSUME SessionInv,
         \/ ClearForget \/ ClearDelete \/ LostClear \/ Evict
         \/ \E t \in Tokens : Expire(t)
         \/ UNCHANGED vars
  PROVE  SessionInv'
  <1>1. TypeOK
    BY DEF SessionInv
  <1>2. CASE ClearForget
    <2>1. TypeOK'
      BY <1>1, <1>2 DEF TypeOK, ClearForget, server
    <2> QED
      BY <1>2, <2>1, StillStep DEF ClearForget, server
  <1>3. CASE ClearDelete
    <2>1. TypeOK'
      BY <1>1, <1>3 DEF TypeOK, ClearDelete, server, Token
    <2> QED
      BY <1>3, <2>1, StillStep DEF ClearDelete, server
  <1>4. CASE Evict
    <2>1. TypeOK'
      BY <1>1, <1>4, TokensAssumption DEF TypeOK, Evict, Fault, server, Token
    <2> QED
      BY <1>4, <2>1, StillStep DEF Evict, server
  <1>5. CASE \E t \in Tokens : Expire(t)
    <2>1. PICK t \in Tokens : Expire(t)
      BY <1>5
    <2>2. TypeOK'
      BY <1>1, <2>1, TokensAssumption DEF TypeOK, Expire, Fault, client
    <2>3. \A h \in Handlers :
            h \in disturbed' \/ {handlers[h].token, handlers[h].fresh} \cap valid \subseteq valid'
      BY <2>1 DEF Expire
    <2> QED
      BY <2>1, <2>2, <2>3, StillStep DEF Expire
  <1>6. CASE LostClear
    <2>1. TypeOK'
      BY <1>1, <1>6, TokensAssumption DEF TypeOK, LostClear, Fault, server
    <2> QED
      BY <1>6, <2>1, StillStep DEF LostClear, server
  <1>7. CASE UNCHANGED vars
    BY <1>7 DEF vars, server, client, SessionInv, TypeOK, Placed, Sound
  <1> QED
    BY <1>2, <1>3, <1>4, <1>5, <1>6, <1>7

-----------------------------------------------------------------------------
(* The theorems *)

\* What every handler holds is accepted by the API, and the password it is to log in with its
\* own, as long as nothing disturbs it (get_or_refresh_token and _authorized_request,
\* api_client.py): a handler is never stranded by what another handler or task of the bot
\* forgets.
THEOREM SessionHolds == Spec => []SessionInv
  <1>1. Init => SessionInv
    <2> SUFFICES ASSUME Init PROVE SessionInv
      OBVIOUS
    <2>1. [pc |-> "idle", next |-> 1, token |-> NoToken, fresh |-> NoToken] \in Handler
      BY DEF Handler, PC, Outcome, Token
    <2>2. TypeOK
      <3>1. handlers \in [Handlers -> Handler]
        BY <2>1 DEF Init
      <3>2. faults \in 0..MaxFaults
        BY TokensAssumption DEF Init
      <3>3. clearing \in [start : Nat, delete : Nat]
        BY DEF Init
      <3> QED
        BY <3>1, <3>2, <3>3 DEF Init, TypeOK, Token
    <2>3. ASSUME NEW h \in Handlers
          PROVE  Placed(h, handlers[h]) /\ Sound(h, handlers[h])
      <3>1. /\ 1 \in 1..Len(Program[Kind[h]])
            /\ Program[Kind[h]][1] \in {"token", "user"}
        BY HandlersAssumption, ProgramFacts
      <3> QED
        BY <3>1 DEF Init, Placed, Sound
    <2> QED
      BY <2>2, <2>3 DEF SessionInv
  <1>2. SessionInv /\ [Next]_vars => SessionInv'
    <2> SUFFICES ASSUME SessionInv, [Next]_vars PROVE SessionInv'
      OBVIOUS
    <2>1. CASE \E h \in Handlers : Begin(h) \/ Repeat(h)
      BY <2>1, StartStep DEF Begin, Repeat, At, Outcome
    <2>2. CASE \E h \in Handlers : Step(h)
      BY <2>2, FindUserStep, InsertUserStep, SetPasswordStep, LoginStep, GetCachedStep,
         StoreStep, CallStep, DeleteStep, CallAgainStep, AskStep DEF Step
    <2>3. CASE \E h \in Handlers : Lost(h)
      BY <2>3, LostStep
    <2>4. CASE \/ ClearForget \/ ClearDelete \/ LostClear \/ Evict
               \/ \E t \in Tokens : Expire(t)
               \/ Rest
               \/ UNCHANGED vars
      BY <2>4, BackgroundStep DEF Rest
    <2> QED
      BY <2>1, <2>2, <2>3, <2>4 DEF Next
  <1> QED
    BY <1>1, <1>2, PTL DEF Spec

\* The variables keep their types.
THEOREM TypeCorrect == Spec => []TypeOK
  <1>1. SessionInv => TypeOK
    BY DEF SessionInv
  <1> QED
    BY <1>1, SessionHolds, PTL

\* "Log in again" is said only to a handler whose token expired or whose password was replaced
\* before its use (api_client.py:180-184).
THEOREM RefusalHasReason == Spec => []RefusedForAReason
  <1>1. SessionInv => RefusedForAReason
    BY DEF SessionInv, Sound, RefusedForAReason, At
  <1> QED
    BY <1>1, SessionHolds, PTL

=============================================================================
