-------------------------- MODULE BotDialogueProofs --------------------------
(***************************************************************************)
(* What the order of the bot's writes and the idempotency key buy, for     *)
(* every number of handlers, channels and results: see BotDialogue.        *)
(***************************************************************************)
EXTENDS BotDialogue, TLAPS

-----------------------------------------------------------------------------
(* The invariant *)

\* A handler that is to set a state sets one of a dialogue; one that creates a post has a
\* channel and a result to create it from; one that generates has a channel.
Sound(x) ==
    /\ x \in Handler
    /\ x.pc \in {"read", "write", "set_state"} => x.target /= "none"
    /\ x.pc = "create" => x.data.channel \in Channels /\ x.data.result \in Results
    /\ x.pc = "generate" => x.data.channel \in Channels

\* A handler that will give the data a state, or take it away.
Settles(x) == x.pc = "clear_data" \/ (x.pc = "set_state" /\ x.target /= "none")

DialogueInv ==
    /\ TypeOK
    /\ \A h \in Handlers : Sound(handlers[h])
    /\ state = "none" /\ data /= NoData => \E h \in Handlers : Settles(handlers[h])

-----------------------------------------------------------------------------
(* Handlers *)

\* What Run does to the handlers.
LEMMA RunSets ==
  ASSUME DialogueInv, NEW h \in Handlers, NEW x, Sound(x), Run(h, x)
  PROVE  /\ handlers' \in [Handlers -> Handler]
         /\ \A k \in Handlers : handlers'[k] = IF k = h THEN x ELSE handlers[k]
         /\ \A k \in Handlers : Sound(handlers'[k])
  <1>1. /\ handlers \in [Handlers -> Handler]
        /\ \A k \in Handlers : Sound(handlers[k])
        /\ x \in Handler
    BY DEF DialogueInv, TypeOK, Sound
  <1>2. /\ handlers' \in [Handlers -> Handler]
        /\ \A k \in Handlers : handlers'[k] = IF k = h THEN x ELSE handlers[k]
    BY <1>1 DEF Run
  <1> QED
    BY <1>1, <1>2

\* A handler that neither touches the data nor was about to settle them keeps the invariant.
LEMMA RunKeeps ==
  ASSUME DialogueInv, NEW h \in Handlers, NEW x, Sound(x), Run(h, x),
         ~Settles(handlers[h]),
         UNCHANGED <<state, data, posts>>, issued' \in Nat,
         captions' \in [Results -> Channels \cup {NoChannel}]
  PROVE  DialogueInv'
  <1>1. /\ handlers' \in [Handlers -> Handler]
        /\ \A k \in Handlers : handlers'[k] = IF k = h THEN x ELSE handlers[k]
        /\ \A k \in Handlers : Sound(handlers'[k])
    BY RunSets
  <1>2. TypeOK'
    BY <1>1 DEF DialogueInv, TypeOK
  <1>3. (state = "none" /\ data /= NoData => \E k \in Handlers : Settles(handlers[k]))'
    <2>1. ASSUME state = "none", data /= NoData
          PROVE  \E k \in Handlers : Settles(handlers'[k])
      <3>1. PICK k \in Handlers : Settles(handlers[k])
        BY <2>1 DEF DialogueInv
      <3>2. k /= h
        BY <3>1
      <3> QED
        BY <1>1, <3>1, <3>2
    <2> QED
      BY <2>1 DEF NoData, Settles
  <1> QED
    BY <1>1, <1>2, <1>3 DEF DialogueInv, Sound, Handler, PC, Data, State

\* The places a handler can be sent to.
LEMMA Places ==
    {"idle", "load_channels", "check_channel", "regenerate", "send", "generate",
     "read", "write", "set_state", "save", "create", "clear_state", "clear_data"} \subseteq PC
  BY DEF PC

\* The records that handlers start from, and end with.
LEMMA Records == NoData \in Data /\ Idle \in Handler /\ Sound(Idle)
  <1>1. NoData \in Data
    BY DEF NoData, NoKey, Data
  <1>2. Idle \in Handler
    BY <1>1, Places DEF Idle, Handler, State
  <1> QED
    BY <1>1, <1>2 DEF Sound, Idle

\* A handler that has read nothing is sound wherever it is sent, if it is sent to no write.
LEMMA SentSound ==
  ASSUME NEW x, Sound(x), NEW pc \in PC \ {"read", "write", "set_state", "create", "generate"}
  PROVE  Sound([x EXCEPT !.pc = pc])
  <1>1. x \in [pc : PC, data : Data, patch : Data, target : State]
    BY DEF Sound, Handler
  <1> DEFINE y == [x EXCEPT !.pc = pc]
  <1>2. y \in [pc : PC, data : Data, patch : Data, target : State] /\ y.pc = pc
    BY <1>1
  <1> HIDE DEF y
  <1>3. Sound(y)
    BY <1>2 DEF Sound, Handler
  <1> QED
    BY <1>3 DEF y

-----------------------------------------------------------------------------
(* Steps *)

\* A handler of the slots is sound, and ends soundly.
LEMMA Slots ==
  ASSUME DialogueInv, NEW h \in Handlers
  PROVE  Sound(handlers[h]) /\ handlers[h] \in Handler /\ Sound(Idle)
  BY Records DEF DialogueInv, TypeOK

\* A handler may be sent back to idle, or to state.clear.
LEMMA EndSound ==
    /\ Sound(Idle)
    /\ Sound([Idle EXCEPT !.pc = "clear_state"])
  <1>1. "clear_state" \in PC \ {"read", "write", "set_state", "create", "generate"}
    BY DEF PC
  <1> QED
    BY <1>1, Records, SentSound

\* What a handler becomes at its start, or when it is told the state it will set.
LEMMA TargetSound ==
  ASSUME NEW x, Sound(x), NEW pc \in PC \ {"create", "generate"}, NEW s \in State \ {"none"}
  PROVE  Sound([x EXCEPT !.pc = pc, !.target = s])
  <1>1. x \in [pc : PC, data : Data, patch : Data, target : State]
    BY DEF Sound, Handler
  <1> DEFINE y == [x EXCEPT !.pc = pc, !.target = s]
  <1>2. y \in [pc : PC, data : Data, patch : Data, target : State] /\ y.pc = pc /\ y.target = s
    BY <1>1
  <1> HIDE DEF y
  <1>3. Sound(y)
    BY <1>2 DEF Sound, Handler
  <1> QED
    BY <1>3 DEF y

\* What a handler becomes when it is told the data to change.
LEMMA PatchSound ==
  ASSUME NEW x, Sound(x), x.pc \notin {"read", "write", "set_state", "create", "generate"},
         NEW patch \in Data, NEW pc \in PC \ {"create", "generate"}, NEW s \in State,
         pc \in {"read", "write", "set_state"} => s /= "none"
  PROVE  Sound([x EXCEPT !.pc = pc, !.patch = patch, !.target = s])
  <1>1. x \in [pc : PC, data : Data, patch : Data, target : State]
    BY DEF Sound, Handler
  <1> DEFINE y == [x EXCEPT !.pc = pc, !.patch = patch, !.target = s]
  <1>2. y \in [pc : PC, data : Data, patch : Data, target : State] /\ y.pc = pc /\ y.target = s
    BY <1>1
  <1> HIDE DEF y
  <1>3. Sound(y)
    BY <1>2 DEF Sound, Handler
  <1> QED
    BY <1>3 DEF y

\* An update's handler keeps the invariant.
LEMMA MessageStep ==
  ASSUME DialogueInv, NEW h \in Handlers, Message(h)
  PROVE  DialogueInv'
  <1> USE Places
  <1>1. PICK text \in {"words", "/cancel", "/generate"} : Run(h, TextHandler(text))
    BY DEF Message
  <1>2. state \in State
    BY DEF DialogueInv, TypeOK
  <1>3. Sound(TextHandler(text))
    <2>1. CASE state \in Detail
      <3>1. AfterDetail(state) \in State \ {"none"}
        BY <2>1 DEF AfterDetail, Detail, State
      <3>2. [NoData EXCEPT !.details = TRUE] \in Data
        BY DEF NoData, NoKey, Data
      <3>3. Sound([Idle EXCEPT !.pc = "read", !.patch = [NoData EXCEPT !.details = TRUE],
                                !.target = AfterDetail(state)])
        BY <3>1, <3>2, Records, PatchSound DEF Idle, PC
      <3>4. TextHandler(text) = [Idle EXCEPT !.pc = "read",
                !.patch = [NoData EXCEPT !.details = TRUE], !.target = AfterDetail(state)]
        BY <2>1 DEF TextHandler, Detail
      <3> QED
        BY <3>3, <3>4
    <2>2. ASSUME NEW pc \in {"clear_state", "load_channels", "send", "save"}
          PROVE  Sound([Idle EXCEPT !.pc = pc])
      BY Records, SentSound DEF PC
    <2>3. CASE state \notin Detail
      BY <2>2, <2>3, Records DEF TextHandler
    <2> QED
      BY <2>1, <2>3
  <1>4. ~Settles(handlers[h])
    BY DEF Message, At, Settles
  <1> QED
    BY <1>1, <1>3, <1>4, RunKeeps DEF Message, DialogueInv, TypeOK

\* A button of generation keeps the invariant,
LEMMA GenerateButtonStep ==
  ASSUME DialogueInv, NEW h \in Handlers, GenerateButton(h)
  PROVE  DialogueInv'
  <1>1. ~Settles(handlers[h]) /\ UNCHANGED <<state, data, captions, posts, issued>>
    BY DEF GenerateButton, At, Settles
  <1>2. ASSUME NEW x, Sound(x), Run(h, x)
        PROVE  DialogueInv'
    BY <1>1, <1>2, RunKeeps DEF DialogueInv, TypeOK
  <1>3. ASSUME NEW c \in Channels,
               Run(h, [Idle EXCEPT !.pc = "check_channel", !.patch = [NoData EXCEPT !.channel = c]])
        PROVE  DialogueInv'
    <2>1. [NoData EXCEPT !.channel = c] \in Data
      BY DEF NoData, NoKey, Data
    <2> DEFINE x == [Idle EXCEPT !.pc = "check_channel", !.patch = [NoData EXCEPT !.channel = c]]
    <2>2. x \in Handler /\ x.pc = "check_channel"
      BY <2>1, Records, Places DEF Idle, Handler
    <2>3. Run(h, x)
      BY <1>3
    <2> HIDE DEF x
    <2>4. Sound(x)
      BY <2>2 DEF Sound
    <2> QED
      BY <1>2, <2>3, <2>4
  <1>4. ASSUME NEW pc \in {"regenerate", "save", "clear_state"}, Run(h, [Idle EXCEPT !.pc = pc])
        PROVE  DialogueInv'
    <2>1. Sound([Idle EXCEPT !.pc = pc])
      BY Records, SentSound DEF PC
    <2> QED
      BY <1>2, <1>4, <2>1
  <1>5. ASSUME Run(h, [Idle EXCEPT !.pc = "set_state", !.target = "waiting_for_time"])
        PROVE  DialogueInv'
    <2>1. Sound([Idle EXCEPT !.pc = "set_state", !.target = "waiting_for_time"])
      BY Records, TargetSound DEF PC, State
    <2> QED
      BY <1>2, <1>5, <2>1
  <1> QED
    BY <1>3, <1>4, <1>5 DEF GenerateButton

\* so does a button of channels.
LEMMA ChannelsButtonStep ==
  ASSUME DialogueInv, NEW h \in Handlers, ChannelsButton(h)
  PROVE  DialogueInv'
  <1>1. ~Settles(handlers[h]) /\ UNCHANGED <<state, data, captions, posts, issued>>
    BY DEF ChannelsButton, At, Settles
  <1>2. ASSUME NEW x, Sound(x), Run(h, x)
        PROVE  DialogueInv'
    BY <1>1, <1>2, RunKeeps DEF DialogueInv, TypeOK
  <1>3. ASSUME NEW s \in {"choosing_platform", "vk_name", "tg_name"}
        PROVE  Sound([Idle EXCEPT !.pc = "set_state", !.target = s])
    BY Records, TargetSound DEF PC, State
  <1> QED
    BY <1>2, <1>3, EndSound DEF ChannelsButton, Clear

\* What update_data read, and what it changes, keeps the invariant.
LEMMA ReadStep ==
  ASSUME DialogueInv, NEW h \in Handlers, Read(h)
  PROVE  DialogueInv'
  <1>1. handlers[h] \in [pc : PC, data : Data, patch : Data, target : State]
        /\ handlers[h].pc = "read" /\ handlers[h].target /= "none" /\ data \in Data
    BY Slots DEF Read, At, DialogueInv, TypeOK, Sound, Handler
  <1> DEFINE x == [handlers[h] EXCEPT !.pc = "write", !.data = data]
  <1>2. x \in [pc : PC, data : Data, patch : Data, target : State]
        /\ x.pc = "write" /\ x.target = handlers[h].target
    BY <1>1, Places
  <1>3. Run(h, x)
    BY DEF Read
  <1> HIDE DEF x
  <1>4. Sound(x)
    BY <1>1, <1>2 DEF Sound, Handler
  <1>5. ~Settles(handlers[h])
    BY <1>1 DEF Settles
  <1> QED
    BY <1>3, <1>4, <1>5, RunKeeps DEF Read, DialogueInv, TypeOK

\* Its write keeps it: the state it is to set is that of a dialogue.
LEMMA WriteStep ==
  ASSUME DialogueInv, NEW h \in Handlers, Write(h)
  PROVE  DialogueInv'
  <1> DEFINE x == [Idle EXCEPT !.pc = "set_state", !.target = handlers[h].target]
  <1>1. handlers[h] \in [pc : PC, data : Data, patch : Data, target : State]
        /\ handlers[h].pc = "write" /\ handlers[h].target \in State \ {"none"}
    BY Slots DEF Write, At, Sound, Handler
  <1>2. Sound(x) /\ Settles(x)
    <2>1. Sound(x)
      BY <1>1, Records, TargetSound DEF PC
    <2>2. x.pc = "set_state" /\ x.target = handlers[h].target
      BY DEF Idle
    <2> QED
      BY <1>1, <2>1, <2>2 DEF Settles
  <1>3. Run(h, x)
    BY DEF Write
  <1> HIDE DEF x
  <1>4. /\ handlers' \in [Handlers -> Handler]
        /\ handlers'[h] = x
        /\ \A k \in Handlers : Sound(handlers'[k])
    BY <1>2, <1>3, RunSets
  <1>5. data' \in Data
    BY <1>1 DEF Write, Updated, Data
  <1>6. TypeOK'
    BY <1>4, <1>5 DEF Write, DialogueInv, TypeOK
  <1>7. \E k \in Handlers : Settles(handlers'[k])
    BY <1>2, <1>4
  <1> QED
    BY <1>4, <1>6, <1>7 DEF DialogueInv, Sound, Settles, Handler, PC, Data, State

\* A state that is set is that of a dialogue, so the data may stay.
LEMMA SetStateStep ==
  ASSUME DialogueInv, NEW h \in Handlers, SetState(h)
  PROVE  DialogueInv'
  <1>1. handlers[h].target \in State \ {"none"}
    BY Slots DEF SetState, At, Sound, Handler
  <1>2. /\ handlers' \in [Handlers -> Handler]
        /\ \A k \in Handlers : Sound(handlers'[k])
    BY EndSound, RunSets DEF SetState, End
  <1>3. TypeOK'
    BY <1>1, <1>2 DEF SetState, DialogueInv, TypeOK
  <1>4. state' /= "none"
    BY <1>1 DEF SetState
  <1> QED
    BY <1>2, <1>3, <1>4 DEF DialogueInv, Sound, Handler, PC, Data, State

\* state.clear resets the state, and is then about to clear the data.
LEMMA ClearStateStep ==
  ASSUME DialogueInv, NEW h \in Handlers, ClearState(h)
  PROVE  DialogueInv'
  <1> DEFINE x == [handlers[h] EXCEPT !.pc = "clear_data"]
  <1>1. Sound(x) /\ x.pc = "clear_data"
    BY Slots, SentSound DEF PC, Handler
  <1>2. Run(h, x)
    BY DEF ClearState, Goto
  <1> HIDE DEF x
  <1>3. /\ handlers' \in [Handlers -> Handler]
        /\ handlers'[h] = x
        /\ \A k \in Handlers : Sound(handlers'[k])
    BY <1>1, <1>2, RunSets
  <1>4. TypeOK'
    BY <1>3 DEF ClearState, DialogueInv, TypeOK, State
  <1>5. \E k \in Handlers : Settles(handlers'[k])
    BY <1>1, <1>3 DEF Settles
  <1> QED
    BY <1>3, <1>4, <1>5 DEF DialogueInv, Sound, Settles, Handler, PC, Data, State

\* The data are then cleared.
LEMMA ClearDataStep ==
  ASSUME DialogueInv, NEW h \in Handlers, ClearData(h)
  PROVE  DialogueInv'
  <1>1. /\ handlers' \in [Handlers -> Handler]
        /\ \A k \in Handlers : Sound(handlers'[k])
    BY EndSound, RunSets DEF ClearData, End
  <1>2. TypeOK'
    BY <1>1, Records DEF ClearData, DialogueInv, TypeOK
  <1>3. data' = NoData
    BY DEF ClearData
  <1> QED
    BY <1>1, <1>2, <1>3 DEF DialogueInv, Sound, NoData, Handler, PC, Data, State

\* The questions to the API and the reads of the data keep the invariant.
LEMMA AskStep ==
  ASSUME DialogueInv, NEW h \in Handlers,
         LoadChannels(h) \/ CheckChannel(h) \/ Regenerate(h) \/ Send(h) \/ Save(h)
  PROVE  DialogueInv'
  <1>1. ~Settles(handlers[h]) /\ UNCHANGED <<state, data, captions, posts>> /\ issued' \in Nat
    BY DEF LoadChannels, CheckChannel, Regenerate, Send, Save, At, Settles, DialogueInv, TypeOK
  <1>2. ASSUME NEW x, Sound(x), Run(h, x)
        PROVE  DialogueInv'
    BY <1>1, <1>2, RunKeeps DEF DialogueInv, TypeOK
  <1>3. ASSUME End(h) \/ Clear(h) PROVE DialogueInv'
    BY <1>2, <1>3, EndSound DEF End, Clear
  <1>4. CASE LoadChannels(h)
    <2>1. Sound([Idle EXCEPT !.pc = "set_state", !.target = "choosing_channel"])
      BY Records, TargetSound DEF PC, State
    <2> QED
      BY <1>2, <1>3, <1>4, <2>1 DEF LoadChannels
  <1>5. CASE CheckChannel(h)
    <2>1. Sound([handlers[h] EXCEPT !.pc = "read", !.target = "waiting_for_prompt"])
      BY Slots, TargetSound DEF PC, State
    <2> QED
      BY <1>2, <1>3, <1>5, <2>1 DEF CheckChannel
  <1>6. CASE Regenerate(h)
    <2>1. Sound([handlers[h] EXCEPT !.pc = "send"])
      BY Slots, SentSound DEF PC
    <2> QED
      BY <1>2, <1>3, <1>6, <2>1 DEF Regenerate, Goto
  <1>7. handlers[h] \in [pc : PC, data : Data, patch : Data, target : State] /\ data \in Data
    BY Slots DEF DialogueInv, TypeOK, Handler
  <1>8. CASE Send(h)
    <2> DEFINE d == [NoData EXCEPT !.channel = data.channel]
               x == [handlers[h] EXCEPT !.pc = "generate", !.data = d]
    <2>1. d \in Data
      BY <1>7 DEF NoData, NoKey, Data
    <2>2. x \in [pc : PC, data : Data, patch : Data, target : State] /\ x.pc = "generate"
      BY <1>7, <2>1, Places
    <2>3. ~(End(h) \/ Clear(h)) => Run(h, x) /\ data.channel \in Channels
      BY <1>7, <1>8 DEF Send, Data
    <2>4. x.data = d /\ d.channel = data.channel
      BY <1>7 DEF NoData
    <2> HIDE DEF x, d
    <2>5. ~(End(h) \/ Clear(h)) => Sound(x)
      BY <2>2, <2>3, <2>4 DEF Sound, Handler
    <2> QED
      BY <1>2, <1>3, <2>3, <2>5
  <1>9. CASE Save(h)
    <2> DEFINE d == Saved(IF data.key = NoKey THEN issued' ELSE data.key)
               x == [handlers[h] EXCEPT !.pc = "create", !.data = d]
    <2>1. d \in Data /\ d.channel = data.channel /\ d.result = data.result
      BY <1>1, <1>7 DEF Saved, Data
    <2> HIDE DEF d
    <2>2. x \in [pc : PC, data : Data, patch : Data, target : State]
          /\ x.pc = "create" /\ x.data = d
      BY <1>7, <2>1, Places
    <2>3. ~(End(h) \/ Clear(h)) => Run(h, x) /\ data.channel /= NoChannel /\ data.result /= NoResult
      BY <1>9 DEF Save, d
    <2> HIDE DEF x
    <2>4. ~(End(h) \/ Clear(h)) => Sound(x)
      BY <1>7, <2>1, <2>2, <2>3 DEF Sound, Handler, Data
    <2> QED
      BY <1>2, <1>3, <2>3, <2>4
  <1> QED
    BY <1>4, <1>5, <1>6, <1>8, <1>9

\* A generation keeps the invariant.
LEMMA GenerateStep ==
  ASSUME DialogueInv, NEW h \in Handlers, Generate(h)
  PROVE  DialogueInv'
  <1>1. ~Settles(handlers[h]) /\ UNCHANGED <<state, data, posts>> /\ issued \in Nat
    BY DEF Generate, At, Settles, DialogueInv, TypeOK
  <1>2. CASE End(h) /\ UNCHANGED <<captions, issued>>
    BY <1>1, <1>2, EndSound, RunKeeps DEF End, DialogueInv, TypeOK
  <1>3. ASSUME NEW r \in Results,
               captions' = [captions EXCEPT ![r] = handlers[h].data.channel],
               issued' = issued + 1,
               Run(h, [Idle EXCEPT !.pc = "read", !.target = "waiting_for_schedule",
                                   !.patch = [NoData EXCEPT !.result = r, !.key = issued']])
        PROVE  DialogueInv'
    <2>1. handlers[h].data.channel \in Channels \cup {NoChannel}
      BY Slots DEF Handler, Data
    <2>2. captions' \in [Results -> Channels \cup {NoChannel}]
      BY <1>3, <2>1 DEF DialogueInv, TypeOK
    <2>3. PICK n \in Nat : n = issued'
      BY <1>1, <1>3
    <2> DEFINE d == [NoData EXCEPT !.result = r, !.key = n]
    <2>4. d \in Data
      BY DEF NoData, NoKey, Data
    <2>5. Run(h, [Idle EXCEPT !.pc = "read", !.patch = d, !.target = "waiting_for_schedule"])
      BY <1>3, <2>3 DEF Idle
    <2> HIDE DEF d
    <2>6. Sound([Idle EXCEPT !.pc = "read", !.patch = d, !.target = "waiting_for_schedule"])
      BY <2>4, Records, PatchSound DEF Idle, PC, State
    <2> QED
      BY <1>1, <2>2, <2>3, <2>5, <2>6, RunKeeps
  <1> QED
    BY <1>2, <1>3 DEF Generate

\* So does the creation of a post.
LEMMA CreateStep ==
  ASSUME DialogueInv, NEW h \in Handlers, Create(h)
  PROVE  DialogueInv'
  <1> DEFINE d == handlers[h].data
  <1>1. handlers[h].pc = "create" /\ d.channel \in Channels /\ d.result \in Results
        /\ d.key \in Nat
    BY Slots DEF Create, At, Sound, Handler, Data
  <1>2. \E x : Sound(x) /\ Run(h, x)
    BY EndSound DEF Create, End, Clear
  <1>3. PICK x : Sound(x) /\ Run(h, x)
    BY <1>2
  <1>4. /\ handlers' \in [Handlers -> Handler]
        /\ \A k \in Handlers : handlers'[k] = IF k = h THEN x ELSE handlers[k]
        /\ \A k \in Handlers : Sound(handlers'[k])
    BY <1>3, RunSets
  <1>5. posts' \subseteq Post
    <2>1. [channel |-> d.channel, result |-> d.result, key |-> d.key] \in Post
      BY <1>1 DEF Post
    <2> QED
      BY <2>1 DEF Create, DialogueInv, TypeOK
  <1>6. TypeOK'
    BY <1>4, <1>5 DEF Create, DialogueInv, TypeOK
  <1>7. ASSUME state = "none", data /= NoData
        PROVE  \E k \in Handlers : Settles(handlers'[k])
    <2>1. PICK k \in Handlers : Settles(handlers[k])
      BY <1>7 DEF DialogueInv
    <2>2. k /= h
      BY <1>1, <2>1 DEF Settles
    <2> QED
      BY <1>4, <2>1, <2>2
  <1>8. (state = "none" /\ data /= NoData => \E k \in Handlers : Settles(handlers[k]))'
    BY <1>7 DEF Create, NoData, Settles
  <1> QED
    BY <1>4, <1>6, <1>8 DEF DialogueInv, Sound, Handler, PC, Data, State

\* The invariant holds initially,
LEMMA DialogueInit == Init => DialogueInv
  <1> SUFFICES ASSUME Init PROVE DialogueInv
    OBVIOUS
  <1>1. TypeOK
    BY Records DEF Init, TypeOK, State
  <1>2. \A h \in Handlers : Sound(handlers[h])
    BY Records DEF Init
  <1> QED
    BY <1>1, <1>2 DEF DialogueInv, Init

\* and every step keeps it.
LEMMA DialogueStep == DialogueInv /\ [Next]_vars => DialogueInv'
  <1> SUFFICES ASSUME DialogueInv, [Next]_vars PROVE DialogueInv'
    OBVIOUS
  <1>1. CASE UNCHANGED vars
    BY <1>1 DEF vars, DialogueInv, TypeOK, Settles, Sound, Handler, PC, Data, State, NoData
  <1>2. ASSUME NEW h \in Handlers, Step(h) PROVE DialogueInv'
    BY <1>2, MessageStep, GenerateButtonStep, ChannelsButtonStep, ReadStep, WriteStep,
       SetStateStep, ClearStateStep, ClearDataStep, AskStep, GenerateStep, CreateStep DEF Step
  <1> QED
    BY <1>1, <1>2 DEF Next

\* The invariant of the dialogue holds: generate.py and channels.py set no state but a
\* dialogue's, and write the data before it.
THEOREM DialogueCorrect == Spec => []DialogueInv
  BY DialogueInit, DialogueStep, PTL DEF Spec

-----------------------------------------------------------------------------
(* Keys *)

\* A result and a key that stand together somewhere: in the data, in what a handler has read
\* or is to write, in a post; or neither.
Paired(r, k) ==
    \/ r = NoResult /\ k = NoKey
    \/ r = data.result /\ k = data.key
    \/ \E h \in Handlers : \/ r = handlers[h].data.result /\ k = handlers[h].data.key
                           \/ r = handlers[h].patch.result /\ k = handlers[h].patch.key
    \/ \E x \in posts : r = x.result /\ k = x.key

\* A result has one key and a key one result, wherever they were copied to; and both were
\* drawn by a generation.
KeysMatch ==
    /\ \A r, q, k, l : Paired(r, k) /\ Paired(q, l) => (r = q <=> k = l)
    /\ \A r, k : Paired(r, k) => k \in 0 .. issued /\ (r \in Results => captions[r] /= NoChannel)

\* A channel has one post of a key.
PostKeys == \A x, y \in posts : x.channel = y.channel /\ x.key = y.key => x = y

KeysInv == DialogueInv /\ KeysMatch /\ PostKeys

\* A step that only copies pairs keeps them matched.
LEMMA CopiesKeep ==
  ASSUME KeysInv, UNCHANGED <<captions, issued>>,
         \A r, k : Paired(r, k)' => Paired(r, k)
  PROVE  KeysMatch'
  <1>1. ASSUME NEW r, NEW q, NEW k, NEW l, Paired(r, k)', Paired(q, l)'
        PROVE  r = q <=> k = l
    BY <1>1 DEF KeysInv, KeysMatch
  <1>2. ASSUME NEW r, NEW k, Paired(r, k)'
        PROVE  k \in 0 .. issued' /\ (r \in Results => captions'[r] /= NoChannel)
    BY <1>2 DEF KeysInv, KeysMatch
  <1> QED
    BY <1>1, <1>2 DEF KeysMatch

\* What a handler that copies pairs leaves in the dialogue, when it touches neither the data
\* nor the posts,
LEMMA HandlerCopies ==
  ASSUME KeysInv, NEW h \in Handlers, NEW x, Run(h, x),
         UNCHANGED <<data, posts, captions, issued>>,
         Paired(x.data.result, x.data.key), Paired(x.patch.result, x.patch.key)
  PROVE  KeysMatch' /\ PostKeys'
  <1>1. \A k \in Handlers : handlers'[k] = IF k = h THEN x ELSE handlers[k]
    BY DEF Run, KeysInv, DialogueInv, TypeOK
  <1>2. ASSUME NEW r, NEW k, Paired(r, k)' PROVE Paired(r, k)
    BY <1>1, <1>2 DEF Paired
  <1>3. KeysMatch'
    BY <1>2, CopiesKeep
  <1> QED
    BY <1>3 DEF KeysInv, PostKeys

\* and in particular one that ends, or starts state.clear.
LEMMA IdleCopies ==
    /\ Paired(Idle.data.result, Idle.data.key)
    /\ Paired(Idle.patch.result, Idle.patch.key)
  BY DEF Paired, Idle, NoData

\* What a handler has read and what it is to change are pairs.
LEMMA SlotCopies ==
  ASSUME NEW h \in Handlers
  PROVE  /\ Paired(handlers[h].data.result, handlers[h].data.key)
         /\ Paired(handlers[h].patch.result, handlers[h].patch.key)
         /\ Paired(data.result, data.key)
  BY DEF Paired

\* The handlers that touch neither the data nor the posts, and draw no key.
LEMMA CopySteps ==
  ASSUME KeysInv, NEW h \in Handlers,
         \/ Message(h) \/ GenerateButton(h) \/ ChannelsButton(h) \/ Read(h) \/ SetState(h)
         \/ ClearState(h) \/ LoadChannels(h) \/ CheckChannel(h) \/ Regenerate(h) \/ Send(h)
  PROVE  KeysMatch' /\ PostKeys'
  <1> DEFINE Copies(x) == /\ Run(h, x)
                          /\ Paired(x.data.result, x.data.key)
                          /\ Paired(x.patch.result, x.patch.key)
  <1>1. UNCHANGED <<data, posts, captions, issued>>
    BY DEF Message, GenerateButton, ChannelsButton, Read, SetState, ClearState, LoadChannels,
           CheckChannel, Regenerate, Send
  <1>2. (\E x : Copies(x)) => KeysMatch' /\ PostKeys'
    BY <1>1, HandlerCopies
  <1>3. handlers[h] \in [pc : PC, data : Data, patch : Data, target : State] /\ data \in Data
    BY Slots DEF KeysInv, DialogueInv, TypeOK, Handler
  <1> HIDE DEF Copies
  <1>4. Paired(NoResult, NoKey)
    BY DEF Paired
  <1>5. ASSUME NEW x, Run(h, x), x.data = NoData,
               x.patch.result = NoResult, x.patch.key = NoKey
        PROVE  KeysMatch' /\ PostKeys'
    BY <1>2, <1>4, <1>5 DEF Copies, NoData
  <1>6. ASSUME NEW pc, Run(h, [Idle EXCEPT !.pc = pc]) PROVE KeysMatch' /\ PostKeys'
    BY <1>5, <1>6 DEF Idle, NoData
  <1>7. ASSUME NEW pc, NEW s, Run(h, [Idle EXCEPT !.pc = pc, !.target = s])
        PROVE  KeysMatch' /\ PostKeys'
    BY <1>5, <1>7 DEF Idle, NoData
  <1>8. ASSUME End(h) \/ Clear(h) PROVE KeysMatch' /\ PostKeys'
    BY <1>5, <1>6, <1>8 DEF End, Clear, Idle, NoData
  <1>9. ASSUME NEW x, Run(h, x), x.data = handlers[h].data, x.patch = handlers[h].patch
        PROVE  KeysMatch' /\ PostKeys'
    BY <1>2, <1>9, SlotCopies DEF Copies
  <1>10. CASE Message(h)
    <2>1. PICK text \in {"words", "/cancel", "/generate"} : Run(h, TextHandler(text))
      BY <1>10 DEF Message
    <2>2. /\ TextHandler(text).data = NoData
          /\ TextHandler(text).patch.result = NoResult /\ TextHandler(text).patch.key = NoKey
      BY DEF TextHandler, Idle, NoData, Detail
    <2> QED
      BY <1>5, <2>1, <2>2
  <1>11. CASE GenerateButton(h)
    <2>1. ASSUME NEW c \in Channels,
                 Run(h, [Idle EXCEPT !.pc = "check_channel",
                                     !.patch = [NoData EXCEPT !.channel = c]])
          PROVE  KeysMatch' /\ PostKeys'
      BY <1>5, <2>1 DEF Idle, NoData
    <2> QED
      BY <1>6, <1>7, <1>11, <2>1 DEF GenerateButton
  <1>12. CASE ChannelsButton(h)
    BY <1>7, <1>8, <1>12 DEF ChannelsButton
  <1>13. CASE Read(h)
    <2> DEFINE x == [handlers[h] EXCEPT !.pc = "write", !.data = data]
    <2>1. Run(h, x)
      BY <1>13 DEF Read
    <2>2. x.data = data /\ x.patch = handlers[h].patch
      BY <1>3
    <2> HIDE DEF x
    <2> QED
      BY <1>2, <2>1, <2>2, SlotCopies DEF Copies
  <1>14. CASE SetState(h)
    BY <1>8, <1>14 DEF SetState
  <1>15. CASE ClearState(h) \/ CheckChannel(h) \/ Regenerate(h)
    <2>1. ASSUME NEW pc, Run(h, [handlers[h] EXCEPT !.pc = pc]) PROVE KeysMatch' /\ PostKeys'
      <3> DEFINE x == [handlers[h] EXCEPT !.pc = pc]
      <3>1. Run(h, x) /\ x.data = handlers[h].data /\ x.patch = handlers[h].patch
        BY <1>3, <2>1
      <3> HIDE DEF x
      <3> QED
        BY <1>9, <3>1
    <2>2. ASSUME Run(h, [handlers[h] EXCEPT !.pc = "read", !.target = "waiting_for_prompt"])
          PROVE  KeysMatch' /\ PostKeys'
      <3> DEFINE x == [handlers[h] EXCEPT !.pc = "read", !.target = "waiting_for_prompt"]
      <3>1. Run(h, x) /\ x.data = handlers[h].data /\ x.patch = handlers[h].patch
        BY <1>3, <2>2
      <3> HIDE DEF x
      <3> QED
        BY <1>9, <3>1
    <2> QED
      BY <1>8, <1>15, <2>1, <2>2 DEF ClearState, CheckChannel, Regenerate, Goto
  <1>16. CASE LoadChannels(h)
    BY <1>7, <1>8, <1>16 DEF LoadChannels
  <1>17. CASE Send(h)
    <2> DEFINE d == [NoData EXCEPT !.channel = data.channel]
               x == [handlers[h] EXCEPT !.pc = "generate", !.data = d]
    <2>1. ~(End(h) \/ Clear(h)) => Run(h, x)
      BY <1>17 DEF Send
    <2>2. x.data = d /\ x.patch = handlers[h].patch
      BY <1>3
    <2>3. d.result = NoResult /\ d.key = NoKey
      BY DEF NoData
    <2> HIDE DEF x, d
    <2> QED
      BY <1>2, <1>4, <1>8, <2>1, <2>2, <2>3, SlotCopies DEF Copies
  <1> QED
    BY <1>10, <1>11, <1>12, <1>13, <1>14, <1>15, <1>16, <1>17

\* What update_data writes was read with its key, or is to be changed with its key: a patch
\* that keeps the result keeps the key.
LEMMA WriteCopies ==
  ASSUME KeysInv, NEW h \in Handlers, Write(h)
  PROVE  KeysMatch' /\ PostKeys'
  <1> DEFINE x == [Idle EXCEPT !.pc = "set_state", !.target = handlers[h].target]
  <1>1. Paired(data'.result, data'.key)
    <2>1. data'.result = IF handlers[h].patch.result = NoResult THEN handlers[h].data.result
                         ELSE handlers[h].patch.result
      BY DEF Write, Updated
    <2>2. data'.key = IF handlers[h].patch.key = NoKey THEN handlers[h].data.key
                      ELSE handlers[h].patch.key
      BY DEF Write, Updated
    <2>3. Paired(NoResult, NoKey)
      BY DEF Paired
    <2>4. handlers[h].patch.result = NoResult <=> handlers[h].patch.key = NoKey
      BY <2>3, SlotCopies DEF KeysInv, KeysMatch
    <2> QED
      BY <2>1, <2>2, <2>4, SlotCopies
  <1>2. /\ x.data = NoData /\ x.patch = NoData
        /\ Run(h, x)
    BY DEF Write, Idle
  <1> HIDE DEF x
  <1>3. \A k \in Handlers : handlers'[k] = IF k = h THEN x ELSE handlers[k]
    BY <1>2 DEF Run, KeysInv, DialogueInv, TypeOK
  <1>4. UNCHANGED <<posts, captions, issued>>
    BY DEF Write
  <1>5. ASSUME NEW r, NEW k, Paired(r, k)' PROVE Paired(r, k)
    BY <1>1, <1>2, <1>3, <1>4, <1>5 DEF Paired, NoData
  <1>6. KeysMatch'
    BY <1>4, <1>5, CopiesKeep
  <1> QED
    BY <1>4, <1>6 DEF KeysInv, PostKeys

\* Clearing the data copies nothing.
LEMMA ClearDataCopies ==
  ASSUME KeysInv, NEW h \in Handlers, ClearData(h)
  PROVE  KeysMatch' /\ PostKeys'
  <1>1. \A k \in Handlers : handlers'[k] = IF k = h THEN Idle ELSE handlers[k]
    BY DEF ClearData, End, Run, KeysInv, DialogueInv, TypeOK
  <1>2. data' = NoData /\ UNCHANGED <<posts, captions, issued>>
    BY DEF ClearData
  <1>3. ASSUME NEW r, NEW k, Paired(r, k)' PROVE Paired(r, k)
    BY <1>1, <1>2, <1>3 DEF Paired, Idle, NoData
  <1>4. KeysMatch'
    BY <1>2, <1>3, CopiesKeep
  <1> QED
    BY <1>2, <1>4 DEF KeysInv, PostKeys

\* A generation draws a key that stands nowhere, for a result that stands nowhere.
LEMMA GenerateCopies ==
  ASSUME KeysInv, NEW h \in Handlers, Generate(h)
  PROVE  KeysMatch' /\ PostKeys'
  <1>1. UNCHANGED <<data, posts>> /\ issued \in Nat
    BY DEF Generate, KeysInv, DialogueInv, TypeOK
  <1>2. CASE End(h) /\ UNCHANGED <<captions, issued>>
    BY <1>1, <1>2, IdleCopies, HandlerCopies DEF End
  <1>3. ASSUME NEW q \in Results, captions[q] = NoChannel,
               captions' = [captions EXCEPT ![q] = handlers[h].data.channel],
               issued' = issued + 1,
               Run(h, [Idle EXCEPT !.pc = "read", !.target = "waiting_for_schedule",
                                   !.patch = [NoData EXCEPT !.result = q, !.key = issued']])
        PROVE  KeysMatch' /\ PostKeys'
    <2>1. PICK n \in Nat : n = issued'
      BY <1>1, <1>3
    <2> DEFINE x == [Idle EXCEPT !.pc = "read", !.target = "waiting_for_schedule",
                                 !.patch = [NoData EXCEPT !.result = q, !.key = n]]
    <2>2. /\ x.data.result = NoResult /\ x.data.key = NoKey
          /\ x.patch.result = q /\ x.patch.key = n
      BY DEF Idle, NoData
    <2>3. Run(h, x)
      BY <1>3, <2>1
    <2> HIDE DEF x
    <2>4. \A k \in Handlers : handlers'[k] = IF k = h THEN x ELSE handlers[k]
      BY <2>3 DEF Run, KeysInv, DialogueInv, TypeOK
    <2>5. ASSUME NEW r, NEW k, Paired(r, k)' PROVE Paired(r, k) \/ (r = q /\ k = n)
      BY <1>1, <2>2, <2>4, <2>5 DEF Paired
    <2>6. ASSUME NEW r, NEW k, Paired(r, k) PROVE r /= q /\ k /= n
      <3>1. k \in 0 .. issued /\ r /= q
        BY <1>3, <2>6 DEF KeysInv, KeysMatch
      <3> QED
        BY <1>1, <1>3, <2>1, <3>1
    <2>7. handlers[h].data.channel \in Channels
      BY Slots DEF Generate, At, Sound, KeysInv
    <2>8. \A r \in Results : captions[r] /= NoChannel => captions'[r] /= NoChannel
      BY <1>3, <2>7, NamesAssumption DEF KeysInv, DialogueInv, TypeOK
    <2>9. captions'[q] /= NoChannel
      BY <1>3, <2>7, NamesAssumption DEF KeysInv, DialogueInv, TypeOK
    <2>10. ASSUME NEW r, NEW p, NEW k, NEW l, Paired(r, k)', Paired(p, l)'
           PROVE  r = p <=> k = l
      <3>1. Paired(r, k) /\ Paired(p, l) => (r = p <=> k = l)
        BY DEF KeysInv, KeysMatch
      <3> QED
        BY <2>5, <2>6, <2>10, <3>1
    <2>11. ASSUME NEW r, NEW k, Paired(r, k)'
           PROVE  k \in 0 .. issued' /\ (r \in Results => captions'[r] /= NoChannel)
      <3>1. CASE Paired(r, k)
        <4>1. k \in 0 .. issued /\ (r \in Results => captions[r] /= NoChannel)
          BY <3>1 DEF KeysInv, KeysMatch
        <4> QED
          BY <1>1, <1>3, <2>8, <4>1
      <3>2. CASE r = q /\ k = n
        BY <2>1, <2>9, <3>2
      <3> QED
        BY <2>5, <2>11, <3>1, <3>2
    <2> QED
      BY <1>1, <2>10, <2>11 DEF KeysMatch, KeysInv, PostKeys
  <1> QED
    BY <1>2, <1>3 DEF Generate

\* What a save sends is a pair: a result has a key already.
LEMMA SaveCopies ==
  ASSUME KeysInv, NEW h \in Handlers, Save(h)
  PROVE  KeysMatch' /\ PostKeys'
  <1>1. CASE (Clear(h) \/ End(h)) /\ UNCHANGED issued
    <2>1. UNCHANGED <<data, posts, captions, issued>>
      BY <1>1 DEF Save
    <2>2. ASSUME NEW x \in {Idle, [Idle EXCEPT !.pc = "clear_state"]}
          PROVE  Paired(x.data.result, x.data.key) /\ Paired(x.patch.result, x.patch.key)
      BY IdleCopies DEF Idle
    <2> QED
      BY <1>1, <2>1, <2>2, HandlerCopies DEF Clear, End
  <1>2. CASE ~((Clear(h) \/ End(h)) /\ UNCHANGED issued)
    <2>1. data.result /= NoResult
      BY <1>2 DEF Save
    <2>2. Paired(NoResult, NoKey)
      BY DEF Paired
    <2>3. data.key /= NoKey
      BY <2>1, <2>2, SlotCopies DEF KeysInv, KeysMatch
    <2> DEFINE d == Saved(data.key)
               x == [handlers[h] EXCEPT !.pc = "create", !.data = d]
    <2>4. Run(h, x) /\ UNCHANGED <<data, posts, captions, issued>>
      BY <1>2, <2>3 DEF Save
    <2>5. handlers[h] \in [pc : PC, data : Data, patch : Data, target : State] /\ data \in Data
      BY Slots DEF KeysInv, DialogueInv, TypeOK, Handler
    <2>6. d.result = data.result /\ d.key = data.key
      BY <2>5 DEF Saved, Data
    <2>7. x.data = d /\ x.patch = handlers[h].patch
      BY <2>5
    <2> HIDE DEF x, d
    <2> QED
      BY <2>4, <2>6, <2>7, SlotCopies, HandlerCopies
  <1> QED
    BY <1>1, <1>2

\* The server keeps one post of a key, and that of the result it was drawn for.
LEMMA CreateCopies ==
  ASSUME KeysInv, NEW h \in Handlers, Create(h)
  PROVE  KeysMatch' /\ PostKeys'
  <1> DEFINE d == handlers[h].data
             p == [channel |-> d.channel, result |-> d.result, key |-> d.key]
  <1>1. \/ posts' = posts
        \/ ~KeyKnown(d.channel, d.key) /\ posts' = posts \cup {p}
    BY DEF Create
  <1>2. PostKeys'
    BY <1>1 DEF KeysInv, PostKeys, KeyKnown
  <1>3. \A k \in Handlers : handlers'[k] = handlers[k]
                            \/ (handlers'[k].data = NoData /\ handlers'[k].patch = NoData)
    BY DEF Create, End, Clear, Run, Idle, KeysInv, DialogueInv, TypeOK
  <1>4. UNCHANGED <<data, captions, issued>>
    BY DEF Create
  <1>5. ASSUME NEW r, NEW k, Paired(r, k)' PROVE Paired(r, k)
    <2>1. \A y \in posts' : y \in posts \/ (y.result = d.result /\ y.key = d.key)
      BY <1>1
    <2>2. Paired(d.result, d.key)
      BY SlotCopies
    <2> HIDE DEF d
    <2> QED
      BY <1>3, <1>4, <1>5, <2>1, <2>2 DEF Paired, NoData
  <1>6. KeysMatch'
    BY <1>4, <1>5, CopiesKeep
  <1> QED
    BY <1>2, <1>6

\* The keys are matched initially,
LEMMA KeysInit == Init => KeysInv
  <1> SUFFICES ASSUME Init PROVE KeysInv
    OBVIOUS
  <1>1. ASSUME NEW r, NEW k, Paired(r, k) PROVE r = NoResult /\ k = NoKey
    BY <1>1 DEF Paired, Init, Idle, NoData
  <1>2. KeysMatch
    BY <1>1, NamesAssumption DEF KeysMatch, Init, NoKey
  <1> QED
    BY <1>2, DialogueInit DEF KeysInv, PostKeys, Init

\* and every step keeps them so.
LEMMA KeysStep == KeysInv /\ [Next]_vars => KeysInv'
  <1> SUFFICES ASSUME KeysInv, [Next]_vars PROVE KeysInv'
    OBVIOUS
  <1>1. DialogueInv'
    BY DialogueStep DEF KeysInv
  <1>2. CASE UNCHANGED vars
    <2>1. ASSUME NEW r, NEW k, Paired(r, k)' PROVE Paired(r, k)
      BY <1>2, <2>1 DEF vars, Paired
    <2>2. KeysMatch'
      BY <1>2, <2>1, CopiesKeep DEF vars
    <2> QED
      BY <1>1, <1>2, <2>2 DEF vars, KeysInv, PostKeys
  <1>3. ASSUME NEW h \in Handlers, Step(h) PROVE KeysMatch' /\ PostKeys'
    BY <1>3, CopySteps, WriteCopies, ClearDataCopies, GenerateCopies, SaveCopies, CreateCopies
       DEF Step
  <1> QED
    BY <1>1, <1>2, <1>3 DEF KeysInv, Next

\* The bot never loses sight of which key belongs to which result, whatever update_data
\* overwrites: they are written together (generate.py:109-114).
THEOREM KeysCorrect == Spec => []KeysInv
  BY KeysInit, KeysStep, PTL DEF Spec

-----------------------------------------------------------------------------
(* Theorems *)

\* Every reachable state of the dialogue has its types.
THEOREM TypeCorrect == Spec => []TypeOK
  <1>1. DialogueInv => TypeOK
    BY DEF DialogueInv
  <1> QED
    BY <1>1, DialogueCorrect, PTL

\* However many handlers save a result, whatever an overlapping update_data writes back and
\* whatever answers are lost, a channel gets one post of the result.
THEOREM SavedOncePerResult == Spec => []OnePostPerResult
  <1>1. ASSUME KeysInv PROVE OnePostPerResult
    <2>1. ASSUME NEW x \in posts, NEW y \in posts,
                 x.channel = y.channel, x.result = y.result
          PROVE  x = y
      <3>1. Paired(x.result, x.key) /\ Paired(y.result, y.key)
        BY DEF Paired
      <3>2. x.key = y.key
        BY <1>1, <2>1, <3>1 DEF KeysInv, KeysMatch
      <3> QED
        BY <1>1, <2>1, <3>2 DEF KeysInv, PostKeys
    <2> QED
      BY <2>1 DEF OnePostPerResult
  <1> QED
    BY <1>1, KeysCorrect, PTL

\* A user who is told that his post is saved has a post of the result he saved: the server
\* answers for no other result's post.
THEOREM SavedMeansStored == Spec => SavedIsStored
  <1> DEFINE Stored == \A h \in Handlers :
                         At(h, "create") /\ handlers'[h].pc = "clear_state" =>
                           \E x \in posts' : /\ x.channel = handlers[h].data.channel
                                             /\ x.result = handlers[h].data.result
  <1>1. KeysInv /\ [Next]_vars => [Stored]_vars
    <2> SUFFICES ASSUME KeysInv, Next, NEW h \in Handlers,
                        At(h, "create"), handlers'[h].pc = "clear_state"
                 PROVE  \E x \in posts' : /\ x.channel = handlers[h].data.channel
                                          /\ x.result = handlers[h].data.result
      OBVIOUS
    <2>1. PICK g \in Handlers : Step(g)
      BY DEF Next
    <2>2. handlers \in [Handlers -> Handler] /\ handlers' \in [Handlers -> Handler]
      BY DialogueStep DEF KeysInv, DialogueInv, TypeOK
    <2>3. g = h
      <3>1. \E x : Run(g, x)
        BY <2>1 DEF Step, Message, GenerateButton, ChannelsButton, Read, Write, SetState,
                    ClearState, ClearData, LoadChannels, CheckChannel, Regenerate, Send,
                    Generate, Save, Create, Goto, End, Clear
      <3>2. g /= h => handlers'[h] = handlers[h]
        BY <2>2, <3>1 DEF Run
      <3> QED
        BY <3>2 DEF At
    <2>4. Create(h)
      BY <2>1, <2>3 DEF Step, At, Message, GenerateButton, ChannelsButton, Read, Write,
                        SetState, ClearState, ClearData, LoadChannels, CheckChannel,
                        Regenerate, Send, Generate, Save
    <2> DEFINE d == handlers[h].data
               p == [channel |-> d.channel, result |-> d.result, key |-> d.key]
    <2>5. posts' = IF KeyKnown(d.channel, d.key) THEN posts ELSE posts \cup {p}
      <3>1. ~End(h)
        BY <2>2 DEF End, Run, Idle
      <3> QED
        BY <2>4, <3>1 DEF Create
    <2>6. CASE KeyKnown(d.channel, d.key)
      <3>1. PICK x \in posts : x.channel = d.channel /\ x.key = d.key
        BY <2>6 DEF KeyKnown
      <3>2. Paired(x.result, x.key)
        BY DEF Paired
      <3>3. x.result = d.result
        BY <3>1, <3>2, SlotCopies DEF KeysInv, KeysMatch
      <3> QED
        BY <2>5, <2>6, <3>1, <3>3
    <2>7. CASE ~KeyKnown(d.channel, d.key)
      <3>1. p \in posts' /\ p.channel = d.channel /\ p.result = d.result
        BY <2>5, <2>7
      <3> QED
        BY <3>1
    <2> QED
      BY <2>6, <2>7
  <1> QED
    BY <1>1, KeysCorrect, PTL DEF Spec, SavedIsStored

\* A dialogue that is over has left nothing behind, however many handlers overlapped.
THEOREM NothingLeft == Spec => []OverMeansForgotten
  <1>1. DialogueInv => OverMeansForgotten
    BY DEF DialogueInv, OverMeansForgotten, Quiet, At, Settles
  <1> QED
    BY <1>1, DialogueCorrect, PTL

=============================================================================
