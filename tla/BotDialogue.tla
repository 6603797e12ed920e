----------------------------- MODULE BotDialogue -----------------------------
(***************************************************************************)
(* The bot's dialogue with one user in one chat: the generation of a post  *)
(* and the connection of a channel, which share one FSM state and one FSM  *)
(* data in Redis.                                                          *)
(*                                                                         *)
(* aiogram runs the handlers of several updates at the same time.  The     *)
(* state a message is routed by is read before its handler starts.         *)
(* state.update_data is a read and a write, state.clear two writes; each   *)
(* Redis command, and each request to the API, is one step here.  Inline   *)
(* keyboards stay in the chat: a button may be pressed in any state.       *)
(***************************************************************************)
EXTENDS Integers, FiniteSets

CONSTANTS
    Handlers,     \* handlers that may run at the same time
    Channels,     \* active channels of the user, by channel_id
    Results,      \* generated results; a bound on their number
    NoChannel, NoResult

ASSUME NamesAssumption == NoChannel \notin Channels /\ NoResult \notin Results

VARIABLES
    state,      \* the FSM state
    data,       \* the FSM data
    handlers,   \* where each handler stands and what it has read
    captions,   \* the channel a result was generated for, which its caption names
    posts,      \* post_queue: the posts of generated results
    issued      \* how many keys uuid4 has drawn; a key is its number

vars == <<state, data, handlers, captions, posts, issued>>

-----------------------------------------------------------------------------
(* Types *)

State == {"none",
          "choosing_channel", "waiting_for_prompt", "waiting_for_schedule", "waiting_for_time",
          "choosing_platform", "vk_name", "vk_group", "vk_token", "tg_name", "tg_chat_id"}

NoKey == 0

\* channel_id with channel_name; last_result with last_prompt; idempotency_key; whether there
\* is any of vk_name, vk_group, tg_name.
Data == [channel : Channels \cup {NoChannel}, result : Results \cup {NoResult}, key : Nat,
         details : BOOLEAN]

NoData == [channel |-> NoChannel, result |-> NoResult, key |-> NoKey, details |-> FALSE]

Post == [channel : Channels, result : Results, key : Nat]

PC == {"idle", "load_channels", "check_channel", "regenerate", "send", "generate",
       "read", "write", "set_state", "save", "create", "clear_state", "clear_data"}

\* What get_data returned, what update_data is to change, and the state to set.
Handler == [pc : PC, data : Data, patch : Data, target : State]

Idle == [pc |-> "idle", data |-> NoData, patch |-> NoData, target |-> "none"]

At(h, pc) == handlers[h].pc = pc

Run(h, handler) == handlers' = [handlers EXCEPT ![h] = handler]

Goto(h, pc) == Run(h, [handlers[h] EXCEPT !.pc = pc])

End(h) == Run(h, Idle)

\* Mutant: set_state(None) where the code calls clear(): the data is kept.
ClearKeepsData(h) == Run(h, [Idle EXCEPT !.pc = "set_state"])

\* state.clear(), from its first write on.
Clear(h) == Run(h, [Idle EXCEPT !.pc = "clear_state"])

-----------------------------------------------------------------------------
(* Updates *)

Detail == {"vk_name", "vk_group", "tg_name"}

\* Mutant: a state that no group declares.
AfterDetailUnknown(s) == IF s = "tg_name" THEN "tg_group" ELSE "vk_token"

AfterDetail(s) == CASE s = "vk_name"  -> "vk_group"
                    [] s = "vk_group" -> "vk_token"
                    [] s = "tg_name"  -> "tg_chat_id"

\* The handler of a text, by the order of the routers: the dialogue of channels takes any text
\* it waits for, /cancel and /generate included, before the commands are looked at.
TextHandler(text) ==
    CASE state \in Detail ->
            [Idle EXCEPT !.pc = "read", !.patch = [NoData EXCEPT !.details = TRUE],
                          !.target = AfterDetail(state)]
      [] state \in {"vk_token", "tg_chat_id"} -> [Idle EXCEPT !.pc = "clear_state"]
      [] state \notin Detail \cup {"vk_token", "tg_chat_id"} /\ text = "/cancel" ->
            [Idle EXCEPT !.pc = "clear_state"]
      [] state \notin Detail \cup {"vk_token", "tg_chat_id"} /\ text = "/generate" ->
            [Idle EXCEPT !.pc = "load_channels"]
      [] state = "waiting_for_prompt" /\ text = "words" -> [Idle EXCEPT !.pc = "send"]
      [] state = "waiting_for_time" /\ text = "words" -> [Idle EXCEPT !.pc = "save"]
      [] OTHER -> Idle

\* A text no handler waits for, or one it refuses (empty, no date, a token in a group), ends
\* where it began.
Message(h) ==
    /\ At(h, "idle")
    /\ \E text \in {"words", "/cancel", "/generate"} : Run(h, TextHandler(text))
    /\ UNCHANGED <<state, data, captions, posts, issued>>

\* The handlers of buttons look at no state.  (That of "create a post" does, and only shows the
\* buttons of the schedule.)
GenerateButton(h) ==
    /\ At(h, "idle")
    /\ \/ \E c \in Channels :
            Run(h, [Idle EXCEPT !.pc = "check_channel", !.patch = [NoData EXCEPT !.channel = c]])
       \/ \E pc \in {"regenerate", "save", "clear_state"} : Run(h, [Idle EXCEPT !.pc = pc])
       \/ Run(h, [Idle EXCEPT !.pc = "set_state", !.target = "waiting_for_time"])
    /\ UNCHANGED <<state, data, captions, posts, issued>>

ChannelsButton(h) ==
    /\ At(h, "idle")
    /\ \/ \E s \in {"choosing_platform", "vk_name", "tg_name"} :
            Run(h, [Idle EXCEPT !.pc = "set_state", !.target = s])
       \/ Clear(h)
    /\ UNCHANGED <<state, data, captions, posts, issued>>

-----------------------------------------------------------------------------
(* Redis *)

\* state.update_data, its read.
Read(h) ==
    /\ At(h, "read")
    /\ Run(h, [handlers[h] EXCEPT !.pc = "write", !.data = data])
    /\ UNCHANGED <<state, data, captions, posts, issued>>

\* What a handler has read, with the keys it changes.
Updated(h) ==
    LET old == handlers[h].data  patch == handlers[h].patch IN
    [channel |-> IF patch.channel = NoChannel THEN old.channel ELSE patch.channel,
     result  |-> IF patch.result = NoResult THEN old.result ELSE patch.result,
     key     |-> IF patch.key = NoKey THEN old.key ELSE patch.key,
     details |-> old.details \/ patch.details]

\* Its write.
Write(h) ==
    /\ At(h, "write")
    /\ data' = Updated(h)
    /\ Run(h, [Idle EXCEPT !.pc = "set_state", !.target = handlers[h].target])
    /\ UNCHANGED <<state, captions, posts, issued>>

SetState(h) ==
    /\ At(h, "set_state")
    /\ state' = handlers[h].target
    /\ End(h)
    /\ UNCHANGED <<data, captions, posts, issued>>

ClearState(h) ==
    /\ At(h, "clear_state")
    /\ state' = "none"
    /\ Goto(h, "clear_data")
    /\ UNCHANGED <<data, captions, posts, issued>>

ClearData(h) ==
    /\ At(h, "clear_data")
    /\ data' = NoData
    /\ End(h)
    /\ UNCHANGED <<state, captions, posts, issued>>

-----------------------------------------------------------------------------
(* Generation *)

\* _start_generation: no answer, no active channel, or the list of channels.
LoadChannels(h) ==
    /\ At(h, "load_channels")
    /\ \/ End(h)
       \/ Clear(h)
       \/ Run(h, [Idle EXCEPT !.pc = "set_state", !.target = "choosing_channel"])
    /\ UNCHANGED <<state, data, captions, posts, issued>>

\* choose_channel_handler: the channel may be gone.
CheckChannel(h) ==
    /\ At(h, "check_channel")
    /\ \/ End(h)
       \/ Run(h, [handlers[h] EXCEPT !.pc = "read", !.target = "waiting_for_prompt"])
    /\ UNCHANGED <<state, data, captions, posts, issued>>

\* regenerate_handler.  It answers the button first, which may fail.
Regenerate(h) ==
    /\ At(h, "regenerate")
    /\ \/ End(h)
       \/ IF data.result = NoResult \/ data.channel = NoChannel THEN Clear(h) ELSE Goto(h, "send")
    /\ UNCHANGED <<state, data, captions, posts, issued>>

\* _send_generation_result reads the data once, before it answers and generates.
Send(h) ==
    /\ At(h, "send")
    /\ \/ End(h)
       \/ IF data.channel = NoChannel
            THEN Clear(h)
            ELSE Run(h, [handlers[h] EXCEPT !.pc = "generate",
                                            !.data = [NoData EXCEPT !.channel = data.channel]])
    /\ UNCHANGED <<state, data, captions, posts, issued>>

\* Mutant: a key in the data is kept for the new result.
GenerateKeepsKey(h) ==
    /\ At(h, "generate")
    /\ \/ End(h) /\ UNCHANGED <<captions, issued>>
       \/ \E r \in Results :
            /\ captions[r] = NoChannel
            /\ captions' = [captions EXCEPT ![r] = handlers[h].data.channel]
            /\ issued' = issued + 1
            /\ Run(h, [Idle EXCEPT !.pc = "read", !.target = "waiting_for_schedule",
                       !.patch = [NoData EXCEPT !.result = r,
                                    !.key = IF data.key = NoKey THEN issued' ELSE data.key]])
    /\ UNCHANGED <<state, data, posts>>

\* The generation fails, or its result is shown with the channel read before it and stored
\* with a new key.
Generate(h) ==
    /\ At(h, "generate")
    /\ \/ End(h) /\ UNCHANGED <<captions, issued>>
       \/ \E r \in Results :
            /\ captions[r] = NoChannel
            /\ captions' = [captions EXCEPT ![r] = handlers[h].data.channel]
            /\ issued' = issued + 1
            /\ Run(h, [Idle EXCEPT !.pc = "read", !.target = "waiting_for_schedule",
                                   !.patch = [NoData EXCEPT !.result = r, !.key = issued']])
    /\ UNCHANGED <<state, data, posts>>

-----------------------------------------------------------------------------
(* Saving the post *)

\* What a save has read, and the key it sends.
Saved(key) == [data EXCEPT !.details = FALSE, !.key = key]

\* Mutant: a key for each press, not for each result.
SaveOwnKey(h) ==
    /\ At(h, "save")
    /\ IF data.channel = NoChannel \/ data.result = NoResult
         THEN Clear(h) /\ UNCHANGED issued
         ELSE /\ issued' = issued + 1
              /\ Run(h, [handlers[h] EXCEPT !.pc = "create", !.data = Saved(issued')])
    /\ UNCHANGED <<state, data, captions, posts>>

\* _save_generated_post, for a button and for a time: nothing to save (the answer that says so
\* may fail), or a request with the result's key, or with a new one if there were none.
Save(h) ==
    /\ At(h, "save")
    /\ IF data.channel = NoChannel \/ data.result = NoResult
         THEN (Clear(h) \/ End(h)) /\ UNCHANGED issued
         ELSE /\ issued' = IF data.key = NoKey THEN issued + 1 ELSE issued
              /\ Run(h, [handlers[h] EXCEPT !.pc = "create",
                             !.data = Saved(IF data.key = NoKey THEN issued' ELSE data.key)])
    /\ UNCHANGED <<state, data, captions, posts>>

\* The server has a post of this channel with this key.
KeyKnown(c, key) == \E x \in posts : x.channel = c /\ x.key = key

\* POST /posts: refused (also when another request with the key commits first); or it
\* finds the post of the key, or inserts one, and then its answer comes or is lost.
Create(h) ==
    LET d == handlers[h].data IN
    /\ At(h, "create")
    /\ \/ End(h) /\ UNCHANGED posts
       \/ /\ posts' = IF KeyKnown(d.channel, d.key) THEN posts
                      ELSE posts \cup {[channel |-> d.channel, result |-> d.result, key |-> d.key]}
          /\ Clear(h) \/ End(h)
    /\ UNCHANGED <<state, data, captions, issued>>

-----------------------------------------------------------------------------

Init ==
    /\ state = "none"
    /\ data = NoData
    /\ handlers = [h \in Handlers |-> Idle]
    /\ captions = [r \in Results |-> NoChannel]
    /\ posts = {}
    /\ issued = 0

Step(h) ==
    \/ Message(h) \/ GenerateButton(h) \/ ChannelsButton(h)
    \/ Read(h) \/ Write(h) \/ SetState(h) \/ ClearState(h) \/ ClearData(h)
    \/ LoadChannels(h) \/ CheckChannel(h) \/ Regenerate(h) \/ Send(h) \/ Generate(h)
    \/ Save(h) \/ Create(h)

Next == \E h \in Handlers : Step(h)

Spec == Init /\ [][Next]_vars

-----------------------------------------------------------------------------
(* Properties *)

\* The variables have their types.
TypeOK ==
    /\ state \in State
    /\ data \in Data
    /\ handlers \in [Handlers -> Handler]
    /\ captions \in [Results -> Channels \cup {NoChannel}]
    /\ posts \subseteq Post
    /\ issued \in Nat

\* A result becomes one post of a channel at most, however often its buttons are pressed, by
\* however many handlers at once, whatever update_data overwrote and whatever answer of the
\* server was lost (README.md:110: "Повторное нажатие использует один ключ идемпотентности
\* и не должно создавать дубль").
OnePostPerResult ==
    \A x, y \in posts : x.channel = y.channel /\ x.result = y.result => x = y

\* A user who is told that the post is saved has a post of the result he saved: the key the
\* server knows is never that of another result (generate.py:113, 247, post_service.py:84-89).
SavedIsStored ==
    [][\A h \in Handlers : At(h, "create") /\ handlers'[h].pc = "clear_state" =>
         \E x \in posts' : /\ x.channel = handlers[h].data.channel
                           /\ x.result = handlers[h].data.result]_vars

Quiet == \A h \in Handlers : At(h, "idle")

\* Once a dialogue is over and no handler runs, nothing of it is left: a button of an earlier
\* message saves nothing, whatever overlapped (the order of the writes in generate.py:102-108,
\* 150-153, channels.py:150-158, and in state.clear).
OverMeansForgotten == Quiet /\ state = "none" => data = NoData

\* A post is saved in the channel that the caption of its result names (generate.py:107-109;
\* "the choice is kept when it is generated again", generate.py:66).
PostGoesWhereShown == \A x \in posts : captions[x.result] = x.channel

=============================================================================
