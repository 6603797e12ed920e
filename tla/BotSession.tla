------------------------------ MODULE BotSession -----------------------------
(***************************************************************************)
(* The bot's session with the API for one Telegram user.  The bot keeps a  *)
(* token in Redis and, in its own memory, whose token it is.  Without a    *)
(* token, or when the API answers 401, a handler obtains one: it has the   *)
(* API generate a new password, which replaces the user's old one, and     *)
(* logs in with it.                                                        *)
(*                                                                         *)
(* Each request to the API, each of its database statements that another   *)
(* request can come between, and each Redis command is one step.  Handlers *)
(* overlap; a handler that was answered 401 leaves behind a task that      *)
(* drops the cached token.                                                 *)
(***************************************************************************)
EXTENDS Naturals, Sequences, FiniteSets

CONSTANTS
    Handlers,     \* actions of the user, and the handlers that serve them
    Kind,         \* what each of them does
    Patient,      \* actions the user repeats until they succeed
    Tokens,       \* access tokens; a name is used again when nothing holds it
    NoToken,
    Nobody,       \* the user has no API password yet
    MaxClears,    \* bound: clearing tasks under way when a handler begins
    MaxFaults     \* bound: lost requests, expired and evicted tokens in a behaviour

\* What a handler asks of the API client, one after the other: a token from
\* get_or_refresh_token, a request made with it, a request that needs none, a password to show.
ShowChannels == <<"token", "call">>

DisableChannel == <<"token", "call">>

ShowProfile == <<"token", "call", "call">>

ShowModels == <<"token", "call", "ask">>

\* The profile is loaded again, with a token of its own.
SetModel == <<"token", "call", "token", "call", "call">>

ShowPassword == <<"user">>

Program == [start |-> <<"token">>, channels |-> ShowChannels, disable |-> DisableChannel,
            profile |-> ShowProfile, models |-> ShowModels, set_model |-> SetModel,
            password |-> ShowPassword]

ASSUME HandlersAssumption ==
    /\ IsFiniteSet(Handlers) /\ Kind \in [Handlers -> DOMAIN Program]
    /\ Patient \subseteq Handlers /\ Nobody \notin Handlers

ASSUME TokensAssumption ==
    /\ IsFiniteSet(Tokens) /\ NoToken \notin Tokens
    /\ Cardinality(Tokens) > 2 * Cardinality(Handlers) + 1
    /\ MaxClears \in Nat \ {0} /\ MaxFaults \in Nat

VARIABLES
    registered,   \* the users row exists
    password,     \* users.api_password_hash, by the handler it was generated for
    valid,        \* tokens the API accepts
    cache,        \* the token in Redis
    owners,       \* tokens in _token_owner_cache
    clearing,     \* tasks of clear_cached_token: those to start, those before their DEL
    handlers,     \* where each handler stands, and what it holds
    disturbed,    \* handlers whose token expired, or whose password was replaced before its use
    faults

server == <<registered, password, valid>>

client == <<cache, owners, clearing>>

vars == <<server, client, handlers, disturbed, faults>>

-----------------------------------------------------------------------------
(* Types *)

Token == Tokens \cup {NoToken}

Outcome == {"idle", "succeeded", "unavailable", "unauthorized"}

PC == Outcome \cup {"token", "user", "insert", "password", "login", "store", "call",
                    "ask", "delete", "again"}

\* `next` is the operation of the Program under way, `fresh` the token a refresh has brought.
Handler == [pc : PC, next : 1..5, token : Token, fresh : Token]

Operation(h) == Program[Kind[h]][handlers[h].next]

At(h, pc) == handlers[h].pc = pc

Active(h) == handlers[h].pc \notin Outcome

Goto(h, pc) == handlers' = [handlers EXCEPT ![h].pc = pc]

\* A handler ends, and forgets what it held.
End(h, outcome) ==
    handlers' = [handlers EXCEPT ![h] =
      [@ EXCEPT !.pc = outcome, !.next = 1, !.token = NoToken, !.fresh = NoToken]]

\* On to the next operation, or to the end.
Proceed(h, token) ==
    LET next == handlers[h].next + 1 IN
    IF next > Len(Program[Kind[h]])
      THEN End(h, "succeeded")
      ELSE handlers' = [handlers EXCEPT ![h] =
             [@ EXCEPT !.pc = Program[Kind[h]][next], !.next = next,
                       !.token = token, !.fresh = NoToken]]

\* A handler that is answered 401 clears the cached token in the background; start does not.
Unauthorized(h) ==
    /\ End(h, "unauthorized")
    /\ clearing' = IF Kind[h] = "start" THEN clearing ELSE [clearing EXCEPT !.start = @ + 1]

Held == {cache} \cup {handlers[h].token : h \in Handlers} \cup {handlers[h].fresh : h \in Handlers}

-----------------------------------------------------------------------------
(* The API *)

\* Mutant: a user who is there is not found.
FindUserNever(h) ==
    /\ At(h, "user")
    /\ Goto(h, "insert")
    /\ UNCHANGED <<server, client, disturbed, faults>>

\* get_or_create_user: the SELECT.
FindUser(h) ==
    /\ At(h, "user")
    /\ Goto(h, IF registered THEN "password" ELSE "insert")
    /\ UNCHANGED <<server, client, disturbed, faults>>

\* The INSERT; telegram_id is unique, and its violation an internal error.
InsertUser(h) ==
    /\ At(h, "insert")
    /\ registered' = TRUE
    /\ IF registered THEN End(h, "unavailable") ELSE Goto(h, "password")
    /\ UNCHANGED <<password, valid, client, disturbed, faults>>

\* The password another handler is about to log in with no longer works.
Replace(h) ==
    /\ password' = h
    /\ disturbed' = disturbed \cup {x \in Handlers \ {h} : At(x, "login")}

\* Mutant: a password is stored once.
SetPasswordOnce(h) ==
    /\ At(h, "password")
    /\ IF password = Nobody THEN Replace(h) ELSE UNCHANGED <<password, disturbed>>
    /\ IF Operation(h) = "user" THEN Proceed(h, NoToken) ELSE Goto(h, "login")
    /\ UNCHANGED <<registered, valid, client, faults>>

\* generate_api_password, for the user to see or to log in with.
SetPassword(h) ==
    /\ At(h, "password")
    /\ Replace(h)
    /\ IF Operation(h) = "user" THEN Proceed(h, NoToken) ELSE Goto(h, "login")
    /\ UNCHANGED <<registered, valid, client, faults>>

\* auth_service.login; the client notes whose the new token is.  A name that nothing holds any
\* more is free for it.
Login(h) ==
    LET token == CHOOSE t \in Tokens : t \notin Held IN
    /\ At(h, "login")
    /\ IF password = h
         THEN /\ valid' = (valid \cap Held) \cup {token}
              /\ owners' = (owners \cap Held) \cup {token}
              /\ handlers' = [handlers EXCEPT ![h] = [@ EXCEPT !.pc = "store", !.fresh = token]]
              /\ UNCHANGED clearing
         ELSE Unauthorized(h) /\ UNCHANGED <<valid, owners>>
    /\ UNCHANGED <<registered, password, cache, disturbed, faults>>

-----------------------------------------------------------------------------
(* The API client *)

Start(h) ==
    /\ clearing.start + clearing.delete < MaxClears
    /\ Goto(h, Program[Kind[h]][1])
    /\ disturbed' = disturbed \ {h}
    /\ UNCHANGED <<server, client, faults>>

Begin(h) == At(h, "idle") /\ Start(h)

\* The user presses the same button again.
Repeat(h) == h \in Patient /\ handlers[h].pc \in {"unavailable", "unauthorized"} /\ Start(h)

\* get_or_refresh_token; it does not know whether the token has expired.
GetCached(h) ==
    /\ At(h, "token")
    /\ IF cache = NoToken
         THEN Goto(h, "user") /\ UNCHANGED <<owners, disturbed>>
         ELSE /\ Proceed(h, cache)
              /\ owners' = owners \cup {cache}
              /\ disturbed' = IF cache \in valid THEN disturbed ELSE disturbed \cup {h}
    /\ UNCHANGED <<server, cache, clearing, faults>>

\* _cache_token; get_or_refresh_token returns the new token, a refused request is made again.
Store(h) ==
    /\ At(h, "store")
    /\ cache' = handlers[h].fresh
    /\ IF Operation(h) = "token" THEN Proceed(h, handlers[h].fresh) ELSE Goto(h, "again")
    /\ UNCHANGED <<server, owners, clearing, disturbed, faults>>

\* _authorized_request.  A refused token of a known owner is forgotten, with all tokens of
\* that owner, and replaced.
Call(h) ==
    LET token == handlers[h].token IN
    /\ At(h, "call")
    /\ \/ token \in valid /\ Proceed(h, token) /\ UNCHANGED <<owners, clearing>>
       \/ /\ token \in owners \ valid
          /\ Goto(h, "delete")
          /\ owners' = {}
          /\ UNCHANGED clearing
       \/ token \notin owners \cup valid /\ Unauthorized(h) /\ UNCHANGED owners
    /\ UNCHANGED <<server, cache, disturbed, faults>>

\* The DEL of invalidate_token.
Delete(h) ==
    /\ At(h, "delete")
    /\ cache' = NoToken
    /\ Goto(h, "user")
    /\ UNCHANGED <<server, owners, clearing, disturbed, faults>>

\* The request once more.  The handler goes on with the token it had before.
CallAgain(h) ==
    /\ At(h, "again")
    /\ IF handlers[h].fresh \in valid
         THEN Proceed(h, handlers[h].token) /\ UNCHANGED clearing
         ELSE Unauthorized(h)
    /\ UNCHANGED <<server, cache, owners, disturbed, faults>>

\* get_models, which takes no token.
Ask(h) ==
    /\ At(h, "ask")
    /\ Proceed(h, handlers[h].token)
    /\ UNCHANGED <<server, client, disturbed, faults>>

\* clear_cached_token drops whatever is there by the time it runs.
ClearForget ==
    /\ clearing.start > 0
    /\ clearing' = [start |-> clearing.start - 1, delete |-> clearing.delete + 1]
    /\ owners' = {}
    /\ UNCHANGED <<server, cache, handlers, disturbed, faults>>

\* Mutant: the DEL is sent though no task asks for it.
ClearDeleteAnyTime ==
    /\ clearing' = [clearing EXCEPT !.delete = @ - 1]
    /\ cache' = NoToken
    /\ UNCHANGED <<server, owners, handlers, disturbed, faults>>

ClearDelete ==
    /\ clearing.delete > 0
    /\ clearing' = [clearing EXCEPT !.delete = @ - 1]
    /\ cache' = NoToken
    /\ UNCHANGED <<server, owners, handlers, disturbed, faults>>

-----------------------------------------------------------------------------
(* Faults *)

Fault == faults < MaxFaults /\ faults' = faults + 1

\* The API or Redis does not answer in time; what was asked may have been done all the same.
Lost(h) ==
    /\ Fault
    /\ Active(h)
    /\ End(h, "unavailable")
    /\ \/ UNCHANGED <<password, disturbed>>
       \/ At(h, "password") /\ Replace(h)
    /\ \/ UNCHANGED cache
       \/ At(h, "store") /\ cache' = handlers[h].fresh
       \/ At(h, "delete") /\ cache' = NoToken
    /\ UNCHANGED <<registered, valid, owners, clearing>>

\* The DEL of a clearing task fails.  (If it was applied, the step is ClearDelete.)
LostClear ==
    /\ Fault
    /\ clearing.delete > 0
    /\ clearing' = [clearing EXCEPT !.delete = @ - 1]
    /\ UNCHANGED <<server, cache, owners, handlers, disturbed>>

\* A token expires, or the secret it was signed with is changed.
Expire(t) ==
    /\ Fault
    /\ t \in valid \cap Held
    /\ valid' = valid \ {t}
    /\ disturbed' = disturbed \cup {h \in Handlers : t \in {handlers[h].token, handlers[h].fresh}}
    /\ UNCHANGED <<registered, password, client, handlers>>

\* The key of the cached token expires in Redis.
Evict ==
    /\ Fault
    /\ cache /= NoToken
    /\ cache' = NoToken
    /\ UNCHANGED <<server, owners, clearing, handlers, disturbed>>

-----------------------------------------------------------------------------

Init ==
    /\ registered = FALSE
    /\ password = Nobody
    /\ valid = {} /\ cache = NoToken /\ owners = {}
    /\ clearing = [start |-> 0, delete |-> 0]
    /\ handlers = [h \in Handlers |-> [pc |-> "idle", next |-> 1, token |-> NoToken, fresh |-> NoToken]]
    /\ disturbed = {}
    /\ faults = 0

Step(h) ==
    \/ FindUser(h) \/ InsertUser(h) \/ SetPassword(h) \/ Login(h)
    \/ GetCached(h) \/ Store(h) \/ Call(h) \/ Delete(h) \/ CallAgain(h) \/ Ask(h)

\* Every action has been tried, those of the patient with success.
Rest ==
    /\ \A h \in Handlers : At(h, "succeeded") \/ (h \notin Patient /\ ~Active(h) /\ ~At(h, "idle"))
    /\ clearing.start + clearing.delete = 0
    /\ UNCHANGED vars

Next ==
    \/ \E h \in Handlers : Begin(h) \/ Repeat(h) \/ Step(h) \/ Lost(h)
    \/ ClearForget \/ ClearDelete \/ LostClear
    \/ \E t \in Tokens : Expire(t)
    \/ Evict
    \/ Rest

Spec == Init /\ [][Next]_vars

\* Handlers and tasks of one event loop go on by themselves; the user repeats what failed, as
\* the bot asks to.
FairSpec ==
    /\ Spec
    /\ \A h \in Handlers : WF_vars(Step(h)) /\ WF_vars(Repeat(h))
    /\ WF_vars(ClearForget) /\ WF_vars(ClearDelete)

-----------------------------------------------------------------------------
(* Properties *)

\* The variables have their types.
TypeOK ==
    /\ registered \in BOOLEAN
    /\ password \in Handlers \cup {Nobody}
    /\ valid \subseteq Tokens /\ cache \in Token /\ owners \subseteq Tokens
    /\ clearing \in [start : Nat, delete : Nat]
    /\ handlers \in [Handlers -> Handler]
    /\ disturbed \subseteq Handlers
    /\ faults \in 0..MaxFaults

\* The user is told that the session is over (401) only if a token really expired under the
\* handler, or another request replaced the password between its generation and the login
\* (api_client.py:180-184): forgotten owners, cleared caches, lost answers and a first login
\* by two handlers at once are never the reason.
RefusedForAReason == \A h \in Handlers : At(h, "unauthorized") => h \in disturbed

\* "The session was renewed, repeat the action" (api_client.py:46) is true: an action answered
\* 401 that the user repeats succeeds in the end, whatever the tasks that clear the cache drop
\* meanwhile, once the user's other actions and the faults are over.
RepeatSucceeds == \A h \in Patient : At(h, "unauthorized") ~> At(h, "succeeded")

=============================================================================
