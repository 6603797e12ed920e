# CatRuler_Reborn: specification and verification

CatRuler_Reborn generates posts with language and image models and publishes them to VK
communities and Telegram channels. Users talk to a Telegram bot; the bot calls a FastAPI server;
the server keeps users, channels, posts, quota reservations and usage logs in PostgreSQL; Celery
workers publish the posts that are due. This directory holds TLA+ models of the server's, the workers'
and the bot's own logic, the TLC configurations that check them, and TLAPS proofs.

- [The system](#the-system): components, state, interactions, what is hard
- [The modules](#the-modules): what models what, and how
- [The runs](#the-runs): questions, bounds, fairness, disagreements found
- [The proofs](#the-proofs): theorems, assumptions, inductive invariants
- [What is not modelled](#what-is-not-modelled) and the [plan](#plan)

To repeat a check, here: `tlc -config Publication_pipeline.cfg MCPublication`, `tlapm AtMostOnceProofs.tla`.
Line numbers are those of the files under `src/`; paths are relative to `src/app/` unless they
start with `src/`.

## The system

| Component | State it keeps | Operations | Modelled in |
|---|---|---|---|
| Publication pipeline: `services/publish_service.py`, `repositories/post_repo.py`, `tasks/`, `celery_app.py` | `post_queue`: status, attempt counter, owner, lease; messages in the broker | claim, publish, finalize, recover, fail, mark, retry, dispatch | `Publication` |
| Post API: `services/post_service.py` | `post_queue` | create (limit, idempotency key), edit, delete, retry, trigger | `Publication`, `AccountLimits`, `PostEdits` |
| Channels: `services/channel_service.py`, `repositories/channel_repo.py` | `channels`: external id, `is_active`, token | connect, reconnect, switch off, switch on | `AccountLimits`, `Publication` |
| Generation quota: `services/generate_service.py`, `repositories/quota_reservation_repo.py` | `quota_reservations`, `usage_logs` | reserve, expire, consume, release | `QuotaLedger` |
| Provider adapters: `core/services/posters/poster.py` | none | publish to VK or Telegram, classify the answer | `Publication` |
| Generation providers: `core/services/generation/` | none | try a chain of providers | an action of `QuotaLedger` |
| Storage and assets | objects in S3, `assets` | upload, download | succeed or fail in `Publication`, `QuotaLedger` |
| Users and authentication: `services/user_service.py`, `services/auth_service.py` | `users`, JWT | first request, password, login | `BotSession` (not the profile's fields) |
| Bot client: `bot/api_client.py`, the handlers without a dialogue | tokens in Redis, their owners in memory | obtain, use, refresh and drop a token | `BotSession` |
| Bot dialogues: `bot/handlers/generate.py`, `channels.py` | FSM state and data in Redis | choose a channel, generate, generate again, save, connect a channel | `BotDialogue` |

**How they interact.** The API and the workers meet in PostgreSQL only, at READ COMMITTED: every
statement sees what is committed when it starts, and what a handler read before an `await` may be
outdated when it acts on it. The API enqueues a Celery message on `POST /posts/{id}/publish`; the
beat enqueues one per due pending post each minute, whether or not an earlier one still waits.
A worker acknowledges a message when it takes it. The provider (VK, Telegram) applies a request
whether or not its client still waits for the answer, and so does the API a request of the bot. The
bot runs the handlers of one user's updates at the same time; they meet in Redis, key by key.

**What is hard.**
- Two messages for one post; a claim against a delete, a retry or the disabling of the channel.
- A worker that dies, is killed by a time limit, or loses the database between the provider's
  answer and the `UPDATE` that records it: the post may be on the wall and nobody knows.
- The lease that tells a dead worker from a slow one, and the fence (owner and attempt) that keeps
  a late worker from overwriting a newer attempt.
- Handlers of one task that act on the row as another task left it (`mark_unknown` asks for no
  owner).
- Requests of one user that count against the same limit at the same time, reservations that
  expire under a running generation, and the day that changes between count and record.
- Edits checked against values that another edit is about to change, and read by a worker that has
  not claimed the post yet; SQLAlchemy objects that a second `SELECT` does not refresh.
- Handlers of one user that overlap in Redis, where an update of the FSM data is a read and a write
  and a reset two writes, and buttons of earlier messages that arrive in any state.
- A password per user that each refresh of the token replaces, under another refresh.
- Row locks taken in different orders (user, then reservations; reservation, then user by the
  foreign key).

The list with lines and the properties that cover each is `hazards` in `PROJECT.json`.

**What makes each component correct.** A post is published at most once, however often it is
attempted; `failed`, the status a user may retry, means that nothing was published and `sent` that
it was; only failed posts are retried (where the code falls short of these, the runs below say by
how much); a due post is eventually served and an attempt eventually
resolved; nothing is published on a disabled channel. A day's generations stay within the limit,
the usage log charges exactly the generations that were consumed, and every request is answered.
A user has no more active channels and no more posts a day than the plan allows, connects a
community once, and gets one post for a button pressed twice. An accepted edit is lost only to
another edit of the same field, and what is published is one version of the post. A dialogue saves a
result once and never reports another one saved, and what is over leaves nothing behind. A user is told that the session is over only if it
was, and succeeds by repeating the action.

## The modules

| Module | What it is |
|---|---|
| `Publication` | The pipeline in full, with the requests that act on the same rows |
| `PostLifecycle` | What the pipeline promises of a post: the abstract specification it implements |
| `QuotaLedger` | The daily generation quota of one user |
| `AccountLimits` | Channels and posts of one user under the lock of the user's row |
| `PostEdits` | The content of one post: edits, and the worker that publishes it |
| `BotDialogue` | The bot's dialogue with one user in one chat |
| `BotSession` | The bot's session with the API for one user |
| `MCPublication`, `MCQuotaLedger`, `MCAccountLimits`, `MCPostEdits`, `MCBotDialogue`, `MCBotSession` | Instances for TLC |
| `PublicationProofs` | Types of `Publication`; the lease outlives the worker; `sent` means published |
| `AtMostOnceProofs` | At most one publication, definite failures, what it takes to revive a post |
| `LifecycleProofs` | `Publication` implements `PostLifecycle`, step by step |
| `QuotaLedgerProofs` | Types of `QuotaLedger`; the ledger, the charge, the daily limit |
| `AccountProofs` | Types of `AccountLimits`; one connection per community, one post per key; the channel limit and the daily limit |
| `PostEditsProofs` | Types, and all that is checked of edits |
| `BotDialogueProofs` | Types; a result saved once, and stored if the user is told so; a dialogue forgotten |
| `BotSessionProofs` | Types; a refusal has its reason |

The operators named "Mutant" in their comment are plausible mistakes in the definition that
follows them. No specification uses them; `mutants` in `PROJECT.json` pairs each with the property
that must fail when it takes the definition's place.

### Publication

| State | Code |
|---|---|
| `rows[p].status`, `.attempt`, `.owner` | `post_queue.status`, `publish_attempt_id`, `publish_owner`. A fresh id per attempt is a number, counted up; ids with no row are `absent` (never created) or `deleted` |
| `rows[p].age` | time since the `now` the claim was made with; the lease (`now + 5 min`) has expired for a task when the row is more than `Lease` older than the task |
| `rows[p].due` | `scheduled_at <= now` |
| `active`, `disabling` | `channels.is_active`, and channel rows a request holds `FOR UPDATE` |
| `tasks[t]` | a message, or its execution: where it stands, the attempt it claimed, its age, its retries and the result it carries |
| `requests[r]` | the post a request has checked and not yet written |
| `inflight`, `delivered` | attempts sent to the provider and not yet decided, and those it applied (external) |
| `mishaps` | no state of the code: a history that only the properties read, see below |

Each statement of `publish_post` (`publish_service.py:62-166`) is an action: `Read` (with the early
returns), `Recover`, `FailPending`, `Claim`, `Reload`, `Prepare`, `Publish`, `Answer`, `Finalize`.
The Celery wrapper (`publish_post.py`) adds `SoftTimeLimit`, `MarkStatus`, the retries in
`Exception`, and `HardKill`. Requests that check and then write in separate statements are two
actions: `RetryCheck`/`RetryWrite`, `DeleteCheck`/`DeleteWrite`, `CreateCheck`/`CreateInsert`,
`DisableCheck`/`DisableCommit`. Where the code's `UPDATE` repeats the check in its predicate, so
does the action (`Claim`, `Recover`, `FailPending`, `Finalize`); where it does not (`RetryWrite`,
`DeleteWrite`, `MarkStatus`), neither does the action.

Three outcomes of the environment are left open. Celery, its retries used up, either re-raises the
exception or raises `MaxRetriesExceededError`, so `Exception` allows both (the second runs the
marking handler). An HTTP error status may or may not mean that the provider applied the request:
`AmbiguousErrors` says whether both happen. A worker may die at any step, and any database statement
may fail, `MaxFaults` times in a behaviour.

*Excused posts.* Two things go wrong that nothing in the code stops: two retries of a post overlap
(`"overlap"`: one is checked while another is between its check and its write), and an error status
answers a request that the provider accepts (`"false_error"`). Either alone leads to a second copy. `mishaps`
records which post met which, no guard reads it, and `Excused(p)` is the only exception that `AtMostOnce`,
`FailedIsDefinite` and `PipelineInv` make. They say that no third way exists, and that a post is safe from
what happens to the others.

### PostLifecycle

The life of a post as long as neither of the two happens. `status` is what the API shows, `copies` the number of copies
on the wall. The refinement mapping
takes `status` from the rows and counts `delivered`. `Publication`'s claims, leases, fences, tasks
and requests all map to stuttering. The abstract `Resolve` lets a post become `sent` only with one
copy and `failed` only with none, and `Publish` never adds a second one.

### QuotaLedger

One user, because users share no rows. `reserve_generation` is `LockUser`, `ReleaseExpired`,
`CountUsed`, `SumReserved`, `Insert` (with its commit); the request then generates (`Build`,
`Generate`, `Store`) and finalizes (`Consume`, `LogUsage`, `Commit`, or `Release`). The two
statements that add up used and reserved units are separate steps, as are their snapshots.
Row locks are derived from where a request stands: the user row `FOR UPDATE` (`HoldsUser`), the
`FOR KEY SHARE` that the foreign key of a usage log takes (`SharesUser`), the reservation rows
(`HoldsRow`). The transaction that records the usage begins with `Consume`, or, without an image between, already
in `Build`; its start dates the logs (`Begun`). An expiring and a finalizing request can wait for each other; PostgreSQL breaks the
tie (`DeadlockVictim`). An error during the commit may come after the commit (`ConsumeError`).
Time is a clock, `DayLength` ticks a day.

### AccountLimits

One user again. A channel is named by the request that connected it. Connecting takes the user row
`FOR UPDATE` (`LockUser`), counts the active channels, asks the provider, looks for the external id,
and inserts the channel or switches the one it found on. Switching (`LockChannel`, `Switch`) locks the
channel row only. Creating a post reads the channel and the idempotency key before it takes the
user row, counts today's posts and inserts; the `INSERT` waits for the channel row and meets the
unique constraint on channel and key. Three constants say what the properties depend on:
`PatchValues` (may a PATCH switch a channel on), `QuietMidnight` (may a request that creates a post
span midnight) and the two limits.

Deleting a post is one step here, for any post there is: the count of today's posts does not look
at the status. What deletion does to a running publication is `Publication`'s subject.

### PostEdits

One post. `content` holds the columns that an edit may change, with the image's key and asset, which
are written together, as one. A value is named by the request that wrote it, so that the model
tells versions apart without texts. `EditCheck` is the `SELECT` of `update_post` with all of its checks,
`EditWrite` its flush, and a request holds in `edits[e].seen` the object it has loaded, because
sessions are made with `expire_on_commit=False` and the flush updates the columns that differ from
it. A worker is `Read`, `Claim`, `Prepare`, `Publish`: it publishes what it loaded before the claim
(`publish_service.py:72-73`, `post_repo.py:217-245`). `after`, in an edit and in a worker, is the set of
edits accepted by then: what the properties measure a request against.

`Sets` and `Clears` give each edit its fields. An `asset_id` of null is dropped from the payload
(`Changes`), which is why no edit removes an image.

### BotDialogue

| State | Code |
|---|---|
| `state`, `data` | the FSM state and data of one chat in Redis. `data.channel` stands for `channel_id` with its name, `data.result` for the result with its prompt, `data.key` for `idempotency_key`, `data.details` for anything of the channel being connected |
| `handlers[h]` | a handler of an update: where it stands, what `get_data` returned, what `update_data` is to change, the state it is to set |
| `captions[r]` | the channel a result was generated for, which its message names |
| `posts` | `post_queue`, as the dialogue can see it: each post's channel, result and idempotency key |
| `issued` | the keys that `uuid4` has drawn; a key is its number, so that two are never equal |

A text is routed by the state of the moment (`TextHandler`, in the order of `bot/router.py`); a button is
pressed in any state (`GenerateButton`, `ChannelsButton`). `update_data` is `Read` and `Write`, `clear`
is `ClearState` and `ClearData`; `_start_generation` is `LoadChannels`, `choose_channel_handler`
`CheckChannel`, and `_send_generation_result` `Send` and `Generate`; `_save_generated_post` is `Save` and
`Create`, whose answer may be lost. The key is drawn with the result (`Generate`) and sent with it (`Save`); that the two
stay together while handlers overwrite each other's data is what the properties are about. The answer to
a button comes before some of the resets and may fail, which skips them (`Regenerate`, `Send`, `Save`).
What the texts say, and which keyboard a message has, is left out.

### BotSession

| State | Code |
|---|---|
| `registered`, `password` | the row of `users` and whose password's hash it holds |
| `valid` | the access tokens that the API accepts |
| `cache`, `owners` | the token in Redis, and the tokens in `_token_owner_cache` |
| `clearing` | background tasks of `clear_cached_token` |
| `handlers[h]` | a handler, the operation of its `Program` under way, the token it was given and the one a refresh has brought |
| `disturbed` | handlers whose token expired, or whose password another request replaced before its use: what a 401 may be blamed on |

`Program` gives, for each command, the requests its handler makes one after the other.
`get_or_refresh_token` is `GetCached` and, without a token, the refresh: `FindUser`, `InsertUser`,
`SetPassword` (`generate_api_password`), `Login`, `Store`. `_authorized_request` is `Call`, and after a
401 `Delete`, the refresh and `CallAgain`. Who is refused starts the task that drops the cache
(`ClearForget`, `ClearDelete`). A name of a token is used again once nothing holds it.
`Lost`, `LostClear`, `Expire` and `Evict` are the faults; a request, a `SET` or a `DEL` whose answer is lost may have
been applied.

## The runs

| Run | Question | Distinct states | Result |
|---|---|---|---|
| `pipeline` | what can make a second copy, a published failure or a revived post (overlapping retries, false error answers) and that nothing else can; truth of `sent`; lease against worker; refinement of `PostLifecycle` | 1,259,628 | holds |
| `served` | a due post is served; an orphan whose owner keeps triggering it is resolved | 92,448 | holds |
| `stuck` | an attempt resolves by itself | | violated |
| `retry_race` | only failed posts become pending again, with two retry requests | | violated |
| `disable_race` | no publication on a disabled channel | | violated |
| `quota_oneday` | limit, ledger and charge, within one day; every request is answered | 835,750 | holds |
| `account_plan` | channel and post limits, one connection, one post per key | 899,347 | holds |
| `account_patch` | the channel limit, when a PATCH may switch a channel on | | violated |
| `edits_overlap` | accepted edits merge, only overlapping ones can empty a post, one version is published | 80,298 | holds |
| `dialogue_overlap` | one post per result and channel, the post that is reported saved is the one that was to be, a dialogue that is over is forgotten | 3,437,615 | holds |
| `dialogue_channel` | a post goes to the channel that its caption names | | violated |
| `session_repeat` | a 401 has a reason, and repeating the action helps | 285,716 | holds |

### Bounds

*Publication.* Posts share nothing but their channel, so one post on one channel shows every
interaction around a row; the theorems cover any number. Two task slots give every race of two
executions, and a slot is reused, so a third or fourth execution follows a first (`Crash`, then a new
message, then a late provider). Two retry requests are the fewest that overlap, two attempts (`MaxAttempts`)
the fewest in which a late `finalize` meets a newer one. `pipeline` has a crash or database error at any point
besides the kills by time limit, which are not bounded, and no task retries: a retried message is one that the beat
or an owner may enqueue as well. `served`, and the runs that look for a violation, have one retry of the task, the
fewest in which one is used and used up. `Lease = HardLimit + 1` keeps the code's order 150 s < 5 min at the fewest
ticks. In `pipeline` the step to a second mishap, or to a third attempt, which overlapping retries allow, is the last of a
behaviour, and still checked (`FewTroubles`). Each of `"overlap"` and `"false_error"` alone reaches two copies within these
bounds, so that both excuses are needed, and a post that has met either is excused from all but
`SentWasDelivered`, `RevivedOnlyByOverlap` and the lease.
`AgeCap` is not a bound on behaviour: past it every comparison has the same result.
`Symmetry` permutes task slots, posts and retry requests, in runs that check safety only.

*QuotaLedger.* Three requests, of one, one and two units, under a limit of three: any two fit, the
three do not. `TTL = 1` in a run of two ticks lets a reservation expire under a running
generation, and one fault lets any one step of it fail; any two of the three can wait for each
other. The day is longer than the run.

*AccountLimits.* Four connecting requests for three communities, two of them for the same one, under a limit of
two, so that the count, and not only the look-up, has to keep the third one out; four
creating requests, two of them the same button pressed twice, under a limit of two;
one switch, which lets a channel be disconnected while another request reconnects it. Two days.
The symmetry exchanges the two presses, the two posts without a key, and the two communities with one request each. The limits of
the code (1, 3 or 999 channels; 3, 5, 50 or 999 posts) differ only in how many requests reach them;
the theorems hold for every limit.

*PostEdits.* Three edits, each pair of which shares a field or can take away the last text or the
last image together, from any content a post can be created with; two workers, of which one finds
the post claimed by the other. The theorems cover any edits of any fields.

*BotDialogue.* Two handlers at once, in slots that are reused, two channels and two results: the
fewest with a choice that changes and a result that an earlier button still names. Handlers, channels
and results are symmetric. There is no bound on the number of updates; the results are bounded by
their names, and the step to a second post is the last that is checked (`OnePost`): what a post changes for a later save is its
key, and one post has each result and channel in turn.

*BotSession.* A user who sets a model (five operations, two tokens) and repeats it, while the list of
models and a new password are asked for: two refreshes can replace each other's passwords, and a
password to be shown can replace either. Two faults let a token expire under a handler and an answer be
lost. `MaxClears = 1` starts no new handler while a clearing task waits, which bounds how many can pile
up; handlers already running meet it at any step. Eight names of tokens are more than can be held.

`CHECK_DEADLOCK` is on in every run. `QuotaLedger`, `AccountLimits`, `PostEdits` and `BotSession` rest
(`Rest`) once every request is answered, and only then.

### Fairness

`Publication!Fairness` assumes of the code: a worker that has a task keeps stepping (weak fairness
of each task's steps); the beat keeps running (weak fairness of `Dispatch` for each post); time
passes (weak fairness of `Tick`); and the statements `Read`, `Claim` and `Recover` are not overtaken
by the time limit every single time (strong fairness: a task that could always be killed just
before its first statement would otherwise never reach it). It assumes nothing of the provider,
of requests, or of faults, which are bounded. It is what Celery's beat and workers give when they
run at all. `TriggeredAttemptResolves` states its extra premise, an owner who keeps asking for
the publication, in the formula.

`QuotaLedger!FairSpec` assumes that a request goes on by itself whenever no lock holds it back (weak
fairness of each request's steps), and nothing of the clock or of faults.

`BotSession!FairSpec` assumes that handlers and background tasks of the event loop go on by themselves
(weak fairness of each), and that the patient user repeats an action that failed, as the bot's message
asks. It assumes nothing of faults, which are bounded, nor of the user's other actions.

### Where the code and its documents disagree

1. **An orphaned attempt stays in progress** (`stuck`). `src/README.md:114` says that after a crash
   or an expired lease a post becomes `unknown`. Only `publish_post` looks at a lease
   (`publish_service.py:78`), and the beat enqueues pending posts only (`post_repo.py:82`): nothing
   ever looks at the row again unless its owner triggers the post by hand.
2. **Overlapping retries revive a post** (`retry_race`). "Retry allowed only for failed posts"
   (`post_service.py:164`) is checked in one statement, and the `UPDATE` (`post_repo.py:149`) has
   no status predicate: the second of two retries puts the post back to pending after a worker
   has claimed, or sent, it.
3. **A publication starts on a channel being disabled** (`disable_race`). The claim reads
   `is_active` without a lock on the channel row (`post_repo.py:230`), between the check for an
   active publication and the commit of the disabling request (`channel_service.py:128`).
4. **A PATCH exceeds the channel limit** (`account_patch`). Switching a disconnected channel on again
   (`channel_service.py:130`) checks no limit; `src/README.md:106` says that the server does.
5. **A post goes to another channel than its message says** (`dialogue_channel`). A channel chosen from an
   earlier keyboard replaces `channel_id` and keeps the last result (`bot/handlers/generate.py:160`), and
   the button «Сейчас» of that result looks at no state (`:223`). The result names its channel, by
   `src/README.md:110`, and the choice is kept when it is generated again (`bot/handlers/generate.py:65`).

### Known limits, excused or taken as premises

- **An error status is taken for a definite failure.** `poster.py:74` classifies every HTTP error status as `failed`,
  a 502 or 504 that answers an applied request included; the user may retry the post, which publishes it twice.
  The properties of the pipeline excuse that post (`"false_error"`), and no other.
- **Overlapping retries** (number 2 above) can publish a post twice; the properties excuse that post (`"overlap"`),
  and no other.
- **Midnight.** A generation's units are reserved for the day on which the request began and recorded on
  the day on which it ended (`quota_reservation_repo.py:124`), so that generations that span midnight can
  exceed the next day's limit; a post is counted on the day of the clock after the lock
  (`post_repo.py:36`) and dated by the transaction's start. `WithinLimit` and `PostsWithinLimit` are
  checked and proved for requests within a day.

## The proofs

All proofs are for every value of the constants: any number of posts, channels, tasks and requests,
any time limits with `SoftLimit <= HardLimit < Lease`, any bound on retries, attempts and faults, any
plan limits. The assumptions on the constants are the named `ASSUME`s of the modules, which TLC
evaluates in every run; further premises of a theorem are in its statement.

| Theorem | States | Premises |
|---|---|---|
| `PublicationProofs!TypeCorrect` | `[]TypeOK` of `Publication` | |
| `AtMostOnceProofs!PipelineCorrect` | `[]PipelineInv` | (excused posts in the formula) |
| `AtMostOnceProofs!PublishedAtMostOnce` | `[]AtMostOnce` | (excused posts in the formula) |
| `AtMostOnceProofs!FailureIsDefinite` | `[]FailedIsDefinite` | (excused posts in the formula) |
| `AtMostOnceProofs!OnlyOverlapRevives` | `RevivedOnlyByOverlap` | |
| `LifecycleProofs!LifecycleRefined` | `RefinesLifecycle` | (until the first mishap, in the formula) |
| `LifecycleProofs!LifecycleImplemented` | `Lifecycle!Spec` | no retries of a post overlap and no error status answers an accepted request (`[](mishaps = {})`) |
| `PublicationProofs!LeaseIsLongEnough` | `[]LeaseOutlivesOwner` | |
| `PublicationProofs!SentIsTrue` | `[]SentWasDelivered` | |
| `QuotaLedgerProofs!TypeCorrect` | `[]TypeOK` of `QuotaLedger` | |
| `QuotaLedgerProofs!LedgerIsTrue` | `[]LedgerAgrees` | |
| `QuotaLedgerProofs!SuccessCharged` | `[]SuccessIsCharged` | |
| `QuotaLedgerProofs!DailyLimit` | `[]WithinLimit` | no request spans midnight (`[]NoMidnight`) |
| `QuotaLedgerProofs!OneDayLimit` | `[]WithinLimit` | the clock stays within one day |
| `AccountProofs!TypeCorrect` | `[]TypeOK` of `AccountLimits` | |
| `AccountProofs!ChannelConnectedOnce` | `[]ConnectedOnce` | |
| `AccountProofs!OnePostForOneKey` | `[]OnePostPerKey` | |
| `AccountProofs!ChannelLimitKept` | `[]ChannelsWithinLimit` | no PATCH switches a channel on |
| `AccountProofs!DailyLimitKept` | `[]PostsWithinLimit` | no creating request spans midnight |
| `PostEditsProofs!TypeCorrect` | `[]TypeOK` of `PostEdits` | |
| `PostEditsProofs!EditsSurvive` | `[]EditsMerge` | |
| `PostEditsProofs!OnlyOverlapsEmpty` | `[]OnlyOverlapEmpties` | |
| `PostEditsProofs!OneVersion` | `[]PublishedIsOneVersion` | |
| `BotDialogueProofs!TypeCorrect` | `[]TypeOK` of `BotDialogue` | |
| `BotDialogueProofs!KeysCorrect` | `[]KeysInv`: results and keys stay paired | |
| `BotDialogueProofs!SavedOncePerResult` | `[]OnePostPerResult` | |
| `BotDialogueProofs!SavedMeansStored` | `SavedIsStored` | |
| `BotDialogueProofs!NothingLeft` | `[]OverMeansForgotten` | |
| `BotSessionProofs!TypeCorrect` | `[]TypeOK` of `BotSession` | |
| `BotSessionProofs!RefusalHasReason` | `[]RefusedForAReason` | |

The premises are not conveniences: run `account_patch` shows the property violated without its own; for the
others, and for what the formulas excuse, see the known limits above.

**At most once.** `AtMostOnce` alone is not inductive: it says nothing of what tasks and requests
still hold. `PipelineInv` adds, for every post that is not excused, that an attempt the provider has seen is the
last of its row, and the row is neither pending nor failed (`SentIsLast`); that a task which holds an attempt holds
the last one, and holds it alone (`HolderIsLast`, `OneHolder`), so that no second publication can follow; that an
attempt not sent yet, or definitely failed, is not with the provider (`UnsentIsUnsent`), so that `failed` may be
recorded; and that what a request has checked still holds when it writes, or the row is gone, or another retry
of the post overlaps (`ChecksHold`). With it `Claim` raises the attempt from a state in which nothing was sent,
and every other step leaves the attempt alone. An excuse, once recorded, stays, so that each lemma about a step
looks only at posts that are not excused after it. `OnlyOverlapRevives` needs one part of the invariant:
the only step that makes a row pending again is `RetryWrite`, and by `ChecksHold` it meets a failed
row, a deleted one (which it leaves) or an overlap. TLC checks `PipelineInv` in run `pipeline`; the
proof has one lemma per kind of step.

**The lease.** A task is never older than its hard limit; the row it owns is never older than the
task, because both age with the same ticks from the same `now`; so while the owner lives no reader
is more than `HardLimit < Lease` behind. `PublicationProofs` states this, with what makes a recorded
`sent` true (the result a task carries to `Finalize` is that of its own attempt), as one invariant.

**The refinement.** `LifeInv` is the conjunction of what the two proofs above have established: `PipelineInv`,
`AttemptInv` and `AtMostOnce`. The refinement needs no other invariant, and is one lemma per action that
changes a status or applies an attempt (`ClaimMaps`, `GivenUpMaps`, `FailPendingMaps`, `FinalizeMaps`,
`RequestMaps`, `ApplyMaps`), and a stutter for every other. `Finalize` needs all of it: a row that becomes
`sent` has one copy because the attempt it names was applied (`AttemptInv`) and no other can have been
(`AtMostOnce`); one that becomes `failed` has none because that attempt was not, and no earlier one either
(`PipelineInv`). `Apply` finds no copy, or the copy it makes already made. That no mishap has
happened yet makes `PipelineInv` and `AtMostOnce` exact; the proof uses it for nothing else.

**The ledger.** `LedgerAgrees` and `SuccessIsCharged` are not inductive: a request that commits must find its
reservation as it left it. `LedgerInv` adds that a reservation exists from its insertion and stays `reserved`
while its request records the usage (`RowsStand`), and that what a request in its reserving transaction
has released, uncommitted, is still `reserved` and is not being recorded by its owner (`ReleasesStand`): the row
lock of the one keeps the other out, and the deadlock they can get into ends with one of them rolled back.

**The daily limit.** `DayInv` is the argument for `WithinLimit`, and for an invariant stronger than it:
what is reserved *or* consumed on a day fits (`LiveFits`). Between the statement that counts used units and the
one that adds up reserved ones, other requests consume, which moves units from reserved to used, and release, which
removes them: a sum of two snapshots could miss a unit that moves in between. `CountStands` says that this does not
happen: the usage log stands still from the count to the sum because the log's foreign key needs the
user row shared and the counting request holds it exclusively (`Alone`); and once the sum has been checked
nobody else inserts. Reservations that have expired are those the request has released itself (`Swept`). `OneDay`
is what midnight would break.

**The user row.** `AccountInv` says that who holds the row holds it alone (`Alone`), that a channel
exists only once its request has succeeded and requests name channels that exist (`Known`), and that a
request about to insert has found no channel of the same external id (`Fresh`). `Fresh` survives
others' steps because only the holder of the row inserts. For the limits, a request that has passed
its check still has room (`ChannelRoom`, `PostRoom`): nobody else adds before it does, and the others
only remove. `SameDay` is what midnight would break: the day counted is the day recorded. The
counting itself rests on the library's facts on finite sets.

**Edits.** `EditsInv` says what an edit may still rely on when it writes (`Known`): its merged content
was acceptable; each field it saw is unchanged or was given its value by an accepted edit; and if no edit
was accepted since its check, it saw the content as it is. The last gives `OnlyOverlapEmpties`: an
edit that writes after nobody in between writes what was checked, and one that writes after somebody has
overlapped with it, since neither knew of the other. A flush that skips a column whose new value equals
the one seen loses nothing, by the second: the column still has that value, or another accepted
edit's. A worker's copy inherits both from the content it read.

**The dialogue.** `OverMeansForgotten` is about quiet moments; `DialogueInv` says what holds while
handlers run: data without a state means that some handler is about to set a state, or to clear the
data (`Settles`), and that no handler will set the state to none but by `clear` (`Sound`). This is the
order of the writes: data before the state when a dialogue goes on, state before the data when it ends.
Overlapping handlers may undo each other's keys, and still every one of them ends in one of the two ways.

Saving is about keys, and no guard of the bot keeps two results apart: `KeysInv` says that wherever a result
is remembered (the data, what a handler has read, is about to write or to send) it stands beside the key it was
generated with, and that the posts of the server carry the same pairs. Every `update_data` writes both or
neither, so that an overlapping one that brings old values back brings back a pair. Two posts of
one result and channel then have one key, which the server takes once; and a key the server knows is that of a post of
the same result, so that "saved" is never said of another.

**The session.** `RefusedForAReason` looks at the end of a handler; `SessionInv` says what a handler holds
while it runs. `Placed` keeps a handler's step in line with its program: who makes a request has a token, who
comes from a refresh has a fresh one. `Sound` says that unless something has disturbed the handler, its tokens are
accepted, and the password it is about to log in with is the one stored. Every step is either one of a
handler that spares the others (`Spares`), or one of the background that leaves the handlers where they
are. What tasks and handlers drop from the cache or from the owners appears nowhere in `Sound`: it only sends a
handler to the refresh, or is found out by a handler that is disturbed already. A login needs a free name for its
token; the slots and the cache hold fewer than there are (`FreeToken`).

**Only model-checked.** Liveness (`PendingIsServed`, `TriggeredAttemptResolves`, `EveryRequestEnds`,
`RepeatSucceeds`) is beyond the prover under fairness. Every safety property of a passing run, the
refinement included, is proved.

## What is not modelled

- **The date of a post that is edited while its message is queued**: the claim looks at the status, not at
  `scheduled_at` (`post_repo.py:225`), so that a post put off may still be published at once. No document
  says otherwise.
- **A command taken as a name**: while the bot waits for a channel's name, `/cancel` is the name
  (`bot/handlers/channels.py:139`), though the prompt offers it (`:127`). `BotDialogue!TextHandler` routes it
  so; no property asks for more.
- **The password that a user was shown** stops working at the bot's next refresh
  (`user_service.py:73`): there is one password per user, and `BotSession` has the replacement.
- **The separate requests of a VK photo upload**: `Publish` is one request to the provider.
- **Two spellings of one VK community** (numeric id and screen name), which normalize to different
  external ids: `ConnectedOnce` speaks of external ids.
- **Storage, provider chains and protocols, prompts, formatting, the profile's fields and statistics,
  settings, migrations, containers**: data and I/O that no property here tells apart.
- **A bot that dies between two Redis writes** of one handler, or a Redis that fails there: `OverMeansForgotten` is
  about handlers that overlap, each of which ends.
- **Restarts of the bot**: Redis keeps states and tokens; a handler that dies is one that is `Lost`, and the
  owner in memory is noted again with each token from Redis (`GetCached`).
- Broker loss: a message that is lost before a worker takes it is a task that is killed in its first
  step.

## Plan

Done, in this order: `Publication` and `PostLifecycle`; `QuotaLedger`; `AccountLimits`; types and safety
proved for the first and the third; `PostEdits` and `BotDialogue`, with their proofs; `BotSession`; the
proofs of `QuotaLedger`, of the refinement of `PostLifecycle` and of `BotSession`; what holds of the pipeline when
retry requests overlap and error answers are false.

Proofs to come: what holds of a channel that is being disabled (`disable_race` shows that the plain statement
is false).

To be modelled, if the code grows around it: the VK photo upload as its separate requests, and
rescheduling.
