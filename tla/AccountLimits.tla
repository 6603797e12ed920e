---------------------------- MODULE AccountLimits ----------------------------
(***************************************************************************)
(* The limits of one user's plan, and what the lock of the user's row      *)
(* serialises: requests that connect channels, that switch them on and off *)
(* and that create and delete posts.                                       *)
(*                                                                         *)
(* Grain.  One statement of PostgreSQL (READ COMMITTED) is one step, or    *)
(* the last statement and its commit.  Connecting and creating hold the    *)
(* user row FOR UPDATE from the check of the limit to their end; switching *)
(* a channel holds the channel's row and not the user's.                   *)
(***************************************************************************)
EXTENDS Integers, FiniteSets

CONSTANTS
    Connects,       \* POST /channels/vk and /channels/telegram requests
    Switches,       \* PATCH and DELETE /channels/{id} requests
    Creates,        \* POST /posts requests
    External,       \* the external id a Connect normalizes to
    PatchValues,    \* the values of is_active that Switches ask for
    ChannelOf,      \* channel_id of a Create, named by the Connect that made it
    Key,            \* idempotency_key of a Create
    NoKey,          \* no key was given
    NoChannel,      \* a Switch that has not chosen its channel
    ChannelLimit,   \* get_channel_limit
    PostLimit,      \* get_daily_post_limit
    MaxDay,         \* bound: the last day
    QuietMidnight   \* no request that creates a post spans midnight

Requests == Connects \cup Switches \cup Creates

ASSUME RequestsAssumption ==
    /\ IsFiniteSet(Requests)
    /\ Connects \cap Switches = {} /\ Connects \cap Creates = {} /\ Switches \cap Creates = {}
    /\ ChannelOf \in [Creates -> Connects]
    /\ DOMAIN External = Connects /\ DOMAIN Key = Creates
    /\ NoChannel \notin Connects

ASSUME LimitsAssumption ==
    /\ ChannelLimit \in Nat /\ PostLimit \in Nat /\ MaxDay \in Nat
    /\ PatchValues \subseteq BOOLEAN /\ QuietMidnight \in BOOLEAN

VARIABLES
    day,        \* the UTC day
    channels,   \* channels, each named by the request that connected it
    posts,      \* post_queue, likewise
    requests    \* where each request stands and what it has read

vars == <<day, channels, posts, requests>>

-----------------------------------------------------------------------------
(* Types *)

Channel == {"none", "active", "inactive"}

\* created_at is the start of the inserting transaction.
Post == [row : {"none", "there", "deleted"}, day : 0..MaxDay]

PC == {"begin", "find_key", "lock_user", "count", "verify", "look_up", "insert",
       "reactivate", "switch", "succeeded", "failed"}

Request == [pc : PC, channel : Connects \cup {NoChannel}, started : 0..MaxDay]

Goto(r, pc) == requests' = [requests EXCEPT ![r].pc = pc]

At(r, pc) == requests[r].pc = pc

-----------------------------------------------------------------------------
(* Locks *)

\* Mutant: the user is read without FOR UPDATE.
HoldsUserNever(r) == FALSE

\* get_by_id_for_update of the user, until the transaction ends.
HoldsUser(r) == requests[r].pc \in {"count", "verify", "look_up", "insert", "reactivate"}

ChannelFree(c) == \A s \in Switches : At(s, "switch") => requests[s].channel /= c

LockUser(r) ==
    /\ At(r, "lock_user")
    /\ \A q \in Requests : ~HoldsUser(q)
    /\ Goto(r, "count")
    /\ UNCHANGED <<day, channels, posts>>

-----------------------------------------------------------------------------
(* Connecting a channel *)

Active == {c \in Connects : channels[c] = "active"}

\* Mutant: the channels are not counted.
CountChannelsNever(r) ==
    /\ At(r, "count")
    /\ Goto(r, "verify")
    /\ UNCHANGED <<day, channels, posts>>

\* _check_plan_limit.
CountChannels(r) ==
    /\ At(r, "count")
    /\ Goto(r, IF Cardinality(Active) >= ChannelLimit THEN "failed" ELSE "verify")
    /\ UNCHANGED <<day, channels, posts>>

\* The provider is asked while the user row is locked.
Verify(r) ==
    /\ At(r, "verify")
    /\ Goto(r, "look_up") \/ Goto(r, "failed")
    /\ UNCHANGED <<day, channels, posts>>

\* Mutant: a disconnected channel is not found again.
SameExternalActive(r) == {c \in Active : External[c] = External[r]}

\* get_external.
SameExternal(r) == {c \in Connects : channels[c] /= "none" /\ External[c] = External[r]}

LookUp(r) ==
    LET existing == SameExternal(r) IN
    /\ At(r, "look_up")
    /\ \/ existing = {} /\ Goto(r, "insert")
       \/ \E c \in existing : channels[c] = "active" /\ Goto(r, "failed")
       \/ \E c \in existing :
            /\ channels[c] = "inactive"
            /\ requests' = [requests EXCEPT ![r] =
                              [@ EXCEPT !.pc = "reactivate", !.channel = c]]
    /\ UNCHANGED <<day, channels, posts>>

InsertChannel(r) ==
    /\ At(r, "insert")
    /\ channels' = [channels EXCEPT ![r] = "active"]
    /\ Goto(r, "succeeded")
    /\ UNCHANGED <<day, posts>>

\* The channel found inactive is switched on, once its row is free.
Reactivate(r) ==
    LET c == requests[r].channel IN
    /\ At(r, "reactivate")
    /\ ChannelFree(c)
    /\ channels' = [channels EXCEPT ![c] = "active"]
    /\ Goto(r, "succeeded")
    /\ UNCHANGED <<day, posts>>

-----------------------------------------------------------------------------
(* Switching a channel *)

\* The channel row FOR UPDATE; then a publication in progress may refuse the request.
LockChannel(s, c) ==
    /\ At(s, "begin")
    /\ channels[c] /= "none"
    /\ ChannelFree(c)
    /\ \/ requests' = [requests EXCEPT ![s] = [@ EXCEPT !.pc = "switch", !.channel = c]]
       \/ FALSE \in PatchValues /\ channels[c] = "active" /\ Goto(s, "failed")
    /\ UNCHANGED <<day, channels, posts>>

\* update_channel and delete_channel write is_active and look at no limit.
Switch(s) ==
    /\ At(s, "switch")
    /\ \E on \in PatchValues :
         channels' = [channels EXCEPT ![requests[s].channel] =
                        IF on THEN "active" ELSE "inactive"]
    /\ Goto(s, "succeeded")
    /\ UNCHANGED <<day, posts>>

-----------------------------------------------------------------------------
(* Posts *)

There == {p \in Creates : posts[p].row = "there"}

PostsOn(d) == {p \in There : posts[p].day = d}

\* The transaction starts, and the channel is read as active.
BeginCreate(r) ==
    /\ At(r, "begin")
    /\ requests' = [requests EXCEPT ![r] =
         [@ EXCEPT !.pc = IF channels[ChannelOf[r]] = "active" THEN "find_key" ELSE "failed",
                   !.started = day]]
    /\ UNCHANGED <<day, channels, posts>>

SameKey(r) == {p \in There : /\ Key[r] /= NoKey
                             /\ Key[p] = Key[r]
                             /\ ChannelOf[p] = ChannelOf[r]}

\* get_by_idempotency_key, before the lock: an existing post is the answer.
FindKey(r) ==
    /\ At(r, "find_key")
    /\ Goto(r, IF SameKey(r) = {} THEN "lock_user" ELSE "succeeded")
    /\ UNCHANGED <<day, channels, posts>>

\* _check_daily_post_limit: the posts created today that are still there.
CountPosts(r) ==
    /\ At(r, "count")
    /\ Goto(r, IF Cardinality(PostsOn(day)) >= PostLimit THEN "failed" ELSE "insert")
    /\ UNCHANGED <<day, channels, posts>>

\* Mutant: post_queue without its unique constraint.
InsertPostUnconstrained(r) ==
    /\ At(r, "insert")
    /\ ChannelFree(ChannelOf[r])
    /\ posts' = [posts EXCEPT ![r] = [row |-> "there", day |-> requests[r].started]]
    /\ Goto(r, "succeeded")
    /\ UNCHANGED <<day, channels>>

\* Mutant: created_at is a local time ahead of UTC.
InsertPostLocalTime(r) ==
    /\ At(r, "insert")
    /\ ChannelFree(ChannelOf[r])
    /\ posts' = [posts EXCEPT ![r] = [row |-> "there", day |-> requests[r].started + 1]]
    /\ Goto(r, "succeeded")
    /\ UNCHANGED <<day, channels>>

\* The INSERT waits for the channel row (its foreign key) and obeys the unique key.
InsertPost(r) ==
    /\ At(r, "insert")
    /\ ChannelFree(ChannelOf[r])
    /\ IF SameKey(r) = {}
       THEN /\ posts' = [posts EXCEPT ![r] = [row |-> "there", day |-> requests[r].started]]
            /\ Goto(r, "succeeded")
       ELSE UNCHANGED posts /\ Goto(r, "failed")
    /\ UNCHANGED <<day, channels>>

\* delete_post.
DeletePost(p) ==
    /\ p \in There
    /\ posts' = [posts EXCEPT ![p].row = "deleted"]
    /\ UNCHANGED <<day, channels, requests>>

-----------------------------------------------------------------------------

Ended(r) == requests[r].pc \in {"succeeded", "failed"}

\* A request dies, or the database fails: its transaction is rolled back.
Abort(r) ==
    /\ ~Ended(r)
    /\ Goto(r, "failed")
    /\ UNCHANGED <<day, channels, posts>>

Midnight ==
    /\ day < MaxDay
    /\ QuietMidnight => \A r \in Creates : At(r, "begin") \/ Ended(r)
    /\ day' = day + 1
    /\ UNCHANGED <<channels, posts, requests>>

Init ==
    /\ day = 0
    /\ channels = [c \in Connects |-> "none"]
    /\ posts = [p \in Creates |-> [row |-> "none", day |-> 0]]
    /\ requests = [r \in Requests |->
                     [pc |-> IF r \in Connects THEN "lock_user" ELSE "begin",
                      channel |-> NoChannel, started |-> 0]]

\* Every request has been answered: the system may rest.
Rest == (\A r \in Requests : Ended(r)) /\ UNCHANGED vars

Next ==
    \/ \E r \in Connects :
         \/ LockUser(r) \/ CountChannels(r) \/ Verify(r) \/ LookUp(r)
         \/ InsertChannel(r) \/ Reactivate(r)
    \/ \E s \in Switches : Switch(s) \/ \E c \in Connects : LockChannel(s, c)
    \/ \E r \in Creates :
         \/ BeginCreate(r) \/ FindKey(r) \/ LockUser(r) \/ CountPosts(r) \/ InsertPost(r)
         \/ DeletePost(r)
    \/ \E r \in Requests : Abort(r)
    \/ Midnight
    \/ Rest

Spec == Init /\ [][Next]_vars

-----------------------------------------------------------------------------
(* Properties *)

\* The state has its types.
TypeOK ==
    /\ day \in 0..MaxDay
    /\ channels \in [Connects -> Channel]
    /\ posts \in [Creates -> Post]
    /\ requests \in [Requests -> Request]

\* No more active channels than the plan allows, however many requests race to connect
\* one (README.md: one for Free, three for extended Free, "the server checks limits").
ChannelsWithinLimit == Cardinality(Active) <= ChannelLimit

\* An external channel is connected once: racing requests do not both insert it, and a
\* disconnected one is switched on again instead of inserted anew.
ConnectedOnce ==
    \A c, d \in Connects :
      channels[c] /= "none" /\ channels[d] /= "none" /\ External[c] = External[d] => c = d

\* No day has more posts than the plan allows, whatever races, is deleted or fails.
PostsWithinLimit == \A d \in 0..MaxDay : Cardinality(PostsOn(d)) <= PostLimit

\* Pressing the button twice does not make two posts (README.md), although both requests
\* may look for the key before either inserts it.
OnePostPerKey == \A p, q \in There : p \in SameKey(q) => p = q

=============================================================================
