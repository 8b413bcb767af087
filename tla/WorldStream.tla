---------------------------- MODULE WorldStream ----------------------------
(***************************************************************************)
(* One world's events on their way from the listener to one tab: the       *)
(* router's channel (thunderforge-pg-sockets router.rs), the               *)
(* worldEventsCreated streams the tab's consumers hold on it               *)
(* (graphql/subscriptions.rs, session_lifetime.rs), the catch-up query a   *)
(* reconnection asks (queries/world_events_since.rs) and the tab's cursor  *)
(* (engine/world/sync/subscriptionClient.ts).                              *)
(*                                                                         *)
(* An event is its id. The reads of a resolver are steps of their own,     *)
(* since another actor's write may fall between them; only the rows of a   *)
(* catch-up and its latest_id, which are filtered alike, are read at once. *)
(* What the relay guarantees is EventDelivery's subject; ids turn up in    *)
(* any order, each is published once and after every lower visible one,    *)
(* and a listener that starts skips all up to the highest visible, or      *)
(* starts over.                                                            *)
(*                                                                         *)
(* A roll's created_at is the clock of the server that recorded it, and    *)
(* rolls_cleared_at the database's at the start of the clearing            *)
(* transaction. Nothing is assumed of how these agree with one another or  *)
(* with the order of commits: stamp and ClearRolls take any times.         *)
(*                                                                         *)
(* A definition whose name ends in _<Defect> is the one below it as a      *)
(* plausible defect would leave it; no specification uses it.              *)
(***************************************************************************)
EXTENDS Integers, FiniteSets, Sequences

CONSTANTS
    Ids,            \* the ids of the world's events
    Rolls,          \* the ones that are roll events
    Consumers,      \* the subscriptions this tab holds on the world
    Capacity,       \* WORLD_CHANNEL_CAPACITY
    CatchUpLimit,   \* CATCH_UP_LIMIT
    Times,          \* the times the clocks show
    MaxDrops        \* bound: how often the socket is lost

ASSUME WorldStreamAssumption ==
    /\ Ids \subseteq Nat \ {0} /\ IsFiniteSet(Ids)
    /\ Rolls \subseteq Ids /\ Times \subseteq Nat \ {0}
    /\ Capacity \in Nat \ {0} /\ CatchUpLimit \in Nat \ {0}
    /\ MaxDrops \in Nat

VARIABLES
    secret,         \* the rolls whose visibility is gm_only
    stamp,          \* [Rolls -> Times]: created_at
    stored,         \* the events visible in world_events
    passed,         \* the ids the listener published, or skipped at its start
    clearedAt,      \* worlds.rolls_cleared_at, 0 for never
    paused,         \* the world has an unlifted row in world_play_pauses
    revoked,        \* the tab's session is revoked or expired
    gm,             \* the tab's user runs the world
    channel,        \* WorldRouter.routes has an entry for the world
    receivers,      \* the consumers with a receiver on that channel
    socket,         \* the tab's socket is connected
    drops,          \* how often it was lost; past the first, wasLiveRef is set
    at,             \* [Consumers -> Stage]
    rx,             \* [Consumers -> Seq(Ids)]: the receiver's unread events
    held,           \* [Consumers -> Ids \cup {0}]: the roll being asked about
    high,           \* [Consumers -> Nat]: consumerHighWater
    got,            \* [Consumers -> SUBSET Ids]: pushed on the consumer's queue
    shed,           \* [Consumers -> SUBSET Ids]: turned away from a replay
    lastSeen,       \* lastSeenEventId for the world
    call,           \* [1 .. MaxDrops -> Call]: the catch-up after each drop
    demotion,       \* history: what the tab had when its user last lost the role
    clearing        \* history: what had passed the question at the last clear

feedVars   == <<secret, stamp, stored, passed>>
roomVars   == <<clearedAt, paused, revoked, gm>>
routeVars  == <<channel, receivers>>
streamVars == <<at, rx, held>>
tabVars    == <<high, got, shed, lastSeen>>
ghostVars  == <<demotion, clearing>>
vars == <<feedVars, roomVars, routeVars, socket, drops, streamVars, tabVars,
          call, ghostVars>>

Reconnects == 1 .. MaxDrops
Stage == {"idle", "closed", "admitted", "open", "ended"}
Phase == {"none", "asked", "admitted", "judged", "dated", "answered",
          "caught-up", "resync-required", "unavailable"}
\* A catch-up the server is working out, one that has read the role, and one
\* that has read the last clear too.
AtServer == {"admitted", "judged", "dated"}
PastRole == {"judged", "dated", "answered"}
PastClear == {"dated", "answered"}
Call == [phase : Phase, after : Ids \cup {0}, withheld : BOOLEAN,
         clearedAt : Times \cup {0}, rows : SUBSET Ids, owed : SUBSET Ids,
         truncated : BOOLEAN, latest : Ids \cup {0}, to : SUBSET Consumers]
NoCall == [phase |-> "none", after |-> 0, withheld |-> FALSE, clearedAt |-> 0,
           rows |-> {}, owed |-> {}, truncated |-> FALSE, latest |-> 0, to |-> {}]
Unavailable == [NoCall EXCEPT !.phase = "unavailable"]
Underway(phases) == {k \in Reconnects : call[k].phase \in phases}

Demotion == [got : [Consumers -> SUBSET Rolls], stored : SUBSET Rolls,
             seen : Ids \cup {0}, underway : SUBSET Reconnects]
NoDemotion == [got |-> [s \in Consumers |-> {}], stored |-> {}, seen |-> 0,
               underway |-> {}]
Clearing == [passed : [Consumers -> SUBSET Rolls], underway : SUBSET Reconnects]
NoClearing == [passed |-> [s \in Consumers |-> {}], underway |-> {}]

WorldTypes ==
    /\ stored \subseteq Ids /\ passed \subseteq Ids
    /\ secret \subseteq Rolls /\ stamp \in [Rolls -> Times]
    /\ clearedAt \in Times \cup {0}
    /\ paused \in BOOLEAN /\ revoked \in BOOLEAN /\ gm \in BOOLEAN
    /\ channel \in BOOLEAN /\ socket \in BOOLEAN
    /\ drops \in 0 .. MaxDrops

StreamTypes ==
    /\ at \in [Consumers -> Stage]
    /\ \A s \in Consumers : at[s] \in {"admitted", "open"} => socket
    /\ receivers = {s \in Consumers : at[s] = "open"}
    /\ receivers # {} => channel
    /\ rx \in [Consumers -> Seq(stored)]
    /\ \A s \in Consumers : Len(rx[s]) <= Capacity
    /\ held \in [Consumers -> (secret \cap stored) \cup {0}]

TabTypes ==
    /\ high \in [Consumers -> Ids \cup {0}]
    /\ got \in [Consumers -> SUBSET stored]
    /\ shed \in [Consumers -> SUBSET stored]
    /\ lastSeen \in Ids \cup {0}
    /\ demotion \in Demotion
    /\ clearing \in Clearing

CallTypes ==
    /\ call \in [Reconnects -> Call]
    /\ \A k \in Reconnects :
          /\ call[k].rows \subseteq call[k].owed /\ call[k].owed \subseteq stored
          /\ Cardinality(call[k].rows) <= CatchUpLimit

\* Everything has its type; what a consumer holds, asks about or was answered
\* is stored, no receiver holds more than the channel does, an answer is
\* within the limit, and the router's channel is there for as long as it has
\* receivers, which are the open streams.
TypeOK == WorldTypes /\ StreamTypes /\ TabTypes /\ CallTypes

Init ==
    /\ secret \in SUBSET Rolls
    /\ stamp \in [Rolls -> Times]
    /\ stored = {} /\ passed = {} /\ clearedAt = 0
    /\ paused = FALSE /\ revoked = FALSE /\ gm \in BOOLEAN
    /\ channel = FALSE /\ receivers = {}
    /\ socket = FALSE /\ drops = 0
    /\ at = [s \in Consumers |-> "idle"]
    /\ rx = [s \in Consumers |-> <<>>]
    /\ held = [s \in Consumers |-> 0]
    /\ high = [s \in Consumers |-> 0]
    /\ got = [s \in Consumers |-> {}]
    /\ shed = [s \in Consumers |-> {}]
    /\ lastSeen = 0
    /\ call = [k \in Reconnects |-> NoCall]
    /\ demotion = NoDemotion
    /\ clearing = NoClearing

-----------------------------------------------------------------------------
(* The router *)

\* broadcast::Sender::send on a receiver that has read up to its own place:
\* one more than Capacity overwrites the oldest, which is the Lagged error
\* world_events_created answers with None.
Push(q, e) == IF Len(q) < Capacity THEN Append(q, e) ELSE Append(Tail(q), e)

\* The transaction that recorded e commits.
Store(e) ==
    /\ e \notin stored
    /\ stored' = stored \cup {e}
    /\ UNCHANGED <<secret, stamp, passed, roomVars, routeVars, socket, drops, streamVars,
                   tabVars, call, ghostVars>>

\* WorldRouter::publish: nothing without an entry, and never makes one.
Publish(e) ==
    /\ e \in stored \ passed
    /\ \A d \in stored \ passed : e <= d
    /\ passed' = passed \cup {e}
    /\ rx' = [s \in Consumers |->
          IF channel /\ s \in receivers THEN Push(rx[s], e) ELSE rx[s]]
    /\ UNCHANGED <<secret, stamp, stored, roomVars, routeVars, socket, drops, at, held, tabVars,
                   call, ghostVars>>

\* WorldRouter::reap, on spawn_channel_reaper's interval.
Reap ==
    /\ channel
    /\ receivers = {}
    /\ channel' = FALSE
    /\ UNCHANGED <<feedVars, roomVars, receivers, socket, drops, streamVars,
                   tabVars, call, ghostVars>>

-----------------------------------------------------------------------------
(* A consumer's stream: world_events_created *)

\* subscribeToWorldEvents: the consumer is registered, for replays too, and
\* asks graphql-ws for its stream.
Register(s) ==
    /\ at[s] = "idle"
    /\ at' = [at EXCEPT ![s] = "closed"]
    /\ UNCHANGED <<feedVars, roomVars, routeVars, socket, drops, rx, held, tabVars,
                   call, ghostVars>>

\* Asked after membership and before the stream takes anything: a paused
\* world refuses, and so does a database that cannot say (readable). The
\* refusal is one error and the end of the subscription.
Gate(s) ==
    /\ socket /\ at[s] = "closed"
    /\ \E readable \in BOOLEAN :
          at' = [at EXCEPT ![s] = IF readable /\ ~paused THEN "admitted" ELSE "ended"]
    /\ UNCHANGED <<feedVars, roomVars, routeVars, socket, drops, rx, held, tabVars,
                   call, ghostVars>>

\* WorldRouter::subscribe: the entry is made and subscribed to under its lock.
Subscribe(s) ==
    /\ at[s] = "admitted"
    /\ at' = [at EXCEPT ![s] = "open"]
    /\ channel' = TRUE
    /\ receivers' = receivers \cup {s}
    /\ UNCHANGED <<feedVars, roomVars, socket, drops, rx, held, tabVars, call, ghostVars>>

\* subscriptionClient.ts's deliver for one live event, with noteSeen.
Deliver(s, e) ==
    IF e <= high[s]
    THEN UNCHANGED tabVars
    ELSE /\ high' = [high EXCEPT ![s] = e]
         /\ got' = [got EXCEPT ![s] = @ \cup {e}]
         /\ lastSeen' = IF e > lastSeen THEN e ELSE lastSeen
         /\ UNCHANGED shed

\* rolls::visibility::cleared, for a roll event.
IsCleared_Strictly(e, time) == e \in Rolls /\ stamp[e] < time
IsCleared(e, time) == e \in Rolls /\ stamp[e] <= time

\* The next event of the receiver. A roll is first asked about the Game
\* Master's last clear, and passes when that cannot be read; a gm_only roll
\* is then held for the second question.
Take(s) ==
    /\ at[s] = "open" /\ held[s] = 0 /\ rx[s] # <<>>
    /\ rx' = [rx EXCEPT ![s] = Tail(@)]
    /\ LET e == Head(rx[s])
           gone == IsCleared(e, clearedAt)
       IN \E readable \in (IF gone THEN BOOLEAN ELSE {TRUE}) :
             /\ clearing' = [clearing EXCEPT !.passed[s] =
                   IF gone /\ ~readable THEN @ \cup {e} ELSE @]
             /\ held' = [held EXCEPT ![s] =
                   IF e \in secret /\ ~(gone /\ readable) THEN e ELSE 0]
             /\ IF e \in secret \/ (gone /\ readable)
                THEN UNCHANGED tabVars ELSE Deliver(s, e)
    /\ UNCHANGED <<feedVars, roomVars, routeVars, socket, drops, at, call, demotion>>

\* The role as it was when the stream was opened.
AnswerHeld_NotAsked(s) ==
    /\ held[s] # 0
    /\ held' = [held EXCEPT ![s] = 0]
    /\ Deliver(s, held[s])
    /\ UNCHANGED <<feedVars, roomVars, routeVars, socket, drops, at, rx, call, ghostVars>>

\* is_dm_of_world, asked as the secret arrives; unreadable withholds it.
AnswerHeld(s) ==
    /\ held[s] # 0
    /\ held' = [held EXCEPT ![s] = 0]
    /\ \E readable \in BOOLEAN :
          IF gm /\ readable THEN Deliver(s, held[s]) ELSE UNCHANGED tabVars
    /\ UNCHANGED <<feedVars, roomVars, routeVars, socket, drops, at, rx, call, ghostVars>>

\* The streams of ss are dropped with their receivers, and left as x.
EndStreams(ss, x) ==
    /\ at' = [s \in Consumers |-> IF s \in ss THEN x ELSE at[s]]
    /\ receivers' = receivers \ ss
    /\ rx' = [s \in Consumers |-> IF s \in ss THEN <<>> ELSE rx[s]]
    /\ held' = [s \in Consumers |-> IF s \in ss THEN 0 ELSE held[s]]

Tick_SessionOnly(s) ==
    /\ at[s] = "open"
    /\ revoked
    /\ EndStreams({s}, "ended")
    /\ UNCHANGED <<feedVars, roomVars, channel, socket, drops, tabVars, call, ghostVars>>

\* until_stream_must_end: a tick that could read the standing ends the stream
\* of a session that is gone or of a paused world. One that could not read
\* it, or found nothing wrong, changes nothing.
Tick(s) ==
    /\ at[s] = "open"
    /\ revoked \/ paused
    /\ EndStreams({s}, "ended")
    /\ UNCHANGED <<feedVars, roomVars, channel, socket, drops, tabVars, call, ghostVars>>

-----------------------------------------------------------------------------
(* The tab: its socket and its catch-up *)

\* A revoked session is refused by the auth middleware. On a reconnection
\* useConnectivity asks for the catch-up from the cursor as it is now, while
\* graphql-ws opens the consumers' streams again.
Connect ==
    /\ ~socket /\ ~revoked
    /\ socket' = TRUE
    /\ call' = [k \in Reconnects |->
          IF k = drops THEN [NoCall EXCEPT !.phase = "asked", !.after = lastSeen]
                       ELSE call[k]]
    /\ UNCHANGED <<feedVars, roomVars, routeVars, drops, streamVars, tabVars, ghostVars>>

Drop_KeepsReceivers ==
    /\ socket /\ drops < MaxDrops
    /\ socket' = FALSE
    /\ drops' = drops + 1
    /\ UNCHANGED <<feedVars, roomVars, routeVars, streamVars, tabVars, call, ghostVars>>

\* The socket is lost, and with it the streams that were open or opening.
\* The consumers stay registered.
Drop ==
    /\ socket /\ drops < MaxDrops
    /\ socket' = FALSE
    /\ drops' = drops + 1
    /\ EndStreams({s \in Consumers : at[s] \in {"admitted", "open"}}, "closed")
    /\ UNCHANGED <<feedVars, roomVars, channel, tabVars, call, ghostVars>>

\* The server's process dies: the router, its streams and the answers being
\* worked out go with it, and the new listener starts from the highest
\* visible id or, when that could not be read, from 0 (EventDelivery's
\* HighWater).
Restart ==
    /\ socket => drops < MaxDrops
    /\ socket' = FALSE
    /\ drops' = IF socket THEN drops + 1 ELSE drops
    /\ EndStreams({s \in Consumers : at[s] \in {"admitted", "open"}}, "closed")
    /\ channel' = FALSE
    /\ passed' \in {{}, passed \cup {e \in Ids : \E d \in stored : e <= d}}
    /\ call' = [k \in Reconnects |->
          IF call[k].phase \in AtServer THEN Unavailable ELSE call[k]]
    /\ UNCHANGED <<secret, stamp, stored, roomVars, tabVars, ghostVars>>

\* world_events_since's gate: membership, and a pause refuses.
CatchGate(k) ==
    /\ call[k].phase = "asked"
    /\ call' = [call EXCEPT ![k] =
          IF paused \/ revoked THEN Unavailable ELSE [@ EXCEPT !.phase = "admitted"]]
    /\ UNCHANGED <<feedVars, roomVars, routeVars, socket, drops, streamVars, tabVars, ghostVars>>

\* catch_up's first read, the role: one that cannot be read is a stranger's.
CatchRole(k) ==
    /\ call[k].phase = "admitted"
    /\ \E readable \in BOOLEAN :
          call' = [call EXCEPT ![k].phase = "judged", ![k].withheld = ~(gm /\ readable)]
    /\ UNCHANGED <<feedVars, roomVars, routeVars, socket, drops, streamVars, tabVars, ghostVars>>

\* Its second read, the last clear.
CatchClear(k) ==
    /\ call[k].phase = "judged"
    /\ call' = [call EXCEPT ![k].phase = "dated", ![k].clearedAt = clearedAt]
    /\ UNCHANGED <<feedVars, roomVars, routeVars, socket, drops, streamVars, tabVars, ghostVars>>

\* The events a catch-up that read these may show.
Shown(c) == {e \in stored : ~IsCleared(e, c.clearedAt) /\ ~(c.withheld /\ e \in secret)}

\* The limit lowest ids of S.
Lowest(S, limit) == {e \in S : Cardinality({d \in S : d < e}) < limit}
Highest(S) == CHOOSE e \in S \cup {0} : \A d \in S : d <= e

CatchRead_NoLookAhead(k) ==
    /\ call[k].phase = "dated"
    /\ LET visible == Shown(call[k])
           owed == {e \in visible : e > call[k].after}
       IN call' = [call EXCEPT ![k] =
             [NoCall EXCEPT !.phase = "answered", !.owed = owed,
                       !.rows = Lowest(owed, CatchUpLimit),
                       !.truncated = FALSE, !.latest = Highest(visible)]]
    /\ UNCHANGED <<feedVars, roomVars, routeVars, socket, drops, streamVars, tabVars, ghostVars>>

\* catch_up's rows: one more than the limit is read, to know of the rest.
CatchRead(k) ==
    /\ call[k].phase = "dated"
    /\ LET visible == Shown(call[k])
           owed == {e \in visible : e > call[k].after}
           read == Lowest(owed, CatchUpLimit + 1)
       IN call' = [call EXCEPT ![k] =
             [NoCall EXCEPT !.phase = "answered", !.owed = owed,
                       !.rows = Lowest(read, CatchUpLimit),
                       !.truncated = Cardinality(read) > CatchUpLimit,
                       !.latest = Highest(visible)]]
    /\ UNCHANGED <<feedVars, roomVars, routeVars, socket, drops, streamVars, tabVars, ghostVars>>

\* The query or its answer is lost, or the database was not to be had.
CatchFails(k) ==
    /\ call[k].phase \in {"asked", "answered"} \cup AtServer
    /\ call' = [call EXCEPT ![k] = Unavailable]
    /\ UNCHANGED <<feedVars, roomVars, routeVars, socket, drops, streamVars, tabVars, ghostVars>>

\* Too far behind: nothing is delivered, and the cursor is set where the
\* caller's refetch will leave the tab.
CatchTooLong(k) ==
    /\ call[k].phase = "answered" /\ call[k].truncated
    /\ lastSeen' = call[k].latest
    /\ call' = [call EXCEPT ![k] = [@ EXCEPT !.phase = "resync-required"]]
    /\ UNCHANGED <<feedVars, roomVars, routeVars, socket, drops, streamVars,
                   high, got, shed, ghostVars>>

\* The backlog, oldest first, through every registered consumer's deliver; one
\* whose stream has ended is still registered. noteSeen runs for what one
\* took and, where nobody is registered, for everything.
CatchApply(k) ==
    /\ call[k].phase = "answered" /\ ~call[k].truncated
    /\ LET rows == call[k].rows
           registered == {s \in Consumers : at[s] # "idle"}
           new(s) == {e \in rows : s \in registered /\ e > high[s]}
           old(s) == {e \in rows : s \in registered /\ e <= high[s]}
           seen == IF registered = {} THEN rows ELSE UNION {new(s) : s \in Consumers}
       IN /\ high' = [s \in Consumers |-> Highest(new(s) \cup {high[s]})]
          /\ got' = [s \in Consumers |-> got[s] \cup new(s)]
          /\ shed' = [s \in Consumers |-> shed[s] \cup old(s)]
          /\ lastSeen' = Highest({lastSeen} \cup seen)
          /\ call' = [call EXCEPT ![k].phase = "caught-up", ![k].to = registered]
    /\ UNCHANGED <<feedVars, roomVars, routeVars, socket, drops, streamVars, ghostVars>>

-----------------------------------------------------------------------------
(* The others: the operator, the user's other tabs, the Game Masters *)

SetPause(p) ==
    /\ paused # p
    /\ paused' = p
    /\ UNCHANGED <<feedVars, clearedAt, revoked, gm, routeVars, socket, drops,
                   streamVars, tabVars, call, ghostVars>>

Revoke ==
    /\ ~revoked
    /\ revoked' = TRUE
    /\ UNCHANGED <<feedVars, clearedAt, paused, gm, routeVars, socket, drops,
                   streamVars, tabVars, call, ghostVars>>

\* update_member_role: the tab's user stops running the world, or runs it
\* again. demotion is what the tab has at that moment, and the catch-ups that
\* have asked for the role already.
Demote ==
    /\ gm
    /\ gm' = FALSE
    /\ demotion' = [got |-> [s \in Consumers |-> got[s] \cap secret],
                    stored |-> stored \cap secret,
                    seen |-> IF lastSeen \in secret THEN lastSeen ELSE 0,
                    underway |-> Underway(PastRole)]
    /\ UNCHANGED <<feedVars, clearedAt, paused, revoked, routeVars, socket, drops,
                   streamVars, tabVars, call, clearing>>

Promote ==
    /\ ~gm
    /\ gm' = TRUE
    /\ demotion' = NoDemotion
    /\ UNCHANGED <<feedVars, clearedAt, paused, revoked, routeVars, socket, drops,
                   streamVars, tabVars, call, clearing>>

\* clear_world_rolls commits (a pause refuses it at its gate; one may follow
\* the gate). The time is the database's at the start of the transaction, so
\* of two clears the one that commits last may be the earlier. Its event is
\* one of Store's. clearing is what has passed the question.
ClearRolls(time) ==
    /\ clearedAt' = time
    /\ clearing' = [passed |-> [s \in Consumers |-> {e \in Rolls \cap (got[s] \cup {held[s]}) : stamp[e] <= time}],
                    underway |-> Underway(PastClear)]
    /\ UNCHANGED <<feedVars, paused, revoked, gm, routeVars, socket, drops,
                   streamVars, tabVars, call, demotion>>

-----------------------------------------------------------------------------
Next ==
    \/ \E e \in Ids : Store(e) \/ Publish(e)
    \/ Reap
    \/ \E s \in Consumers :
          Register(s) \/ Gate(s) \/ Subscribe(s) \/ Take(s) \/ AnswerHeld(s) \/ Tick(s)
    \/ Connect \/ Drop \/ Restart
    \/ \E k \in Reconnects :
          \/ CatchGate(k) \/ CatchRole(k) \/ CatchClear(k) \/ CatchRead(k)
          \/ CatchFails(k) \/ CatchTooLong(k) \/ CatchApply(k)
    \/ \E p \in BOOLEAN : SetPause(p)
    \/ Revoke \/ Demote \/ Promote
    \/ \E time \in Times : ClearRolls(time)

Spec == Init /\ [][Next]_vars

\* The liveness ticker goes on ticking and its query is answered in the end.
\* Nothing is assumed of the socket, the database's other readers or the tab.
FairSpec == Spec /\ \A s \in Consumers : WF_vars(Tick(s))

-----------------------------------------------------------------------------
(* Properties *)

\* What these catch-ups brought.
Replayed(ks) == UNION {call[k].rows : k \in {j \in ks : call[j].phase = "caught-up"}}

\* From the moment the tab's user stops running the world, no consumer gets a
\* gm_only roll it did not have, whether it was recorded later, waited in the
\* channel or was just being asked about, and none shows up as the cursor,
\* "not even as an id" (subscriptions.rs, which asks as the event arrives, and
\* catch_up). The exception is the answer of a catch-up that had asked for the
\* role before: what that leads to is NoSecretReachesAPlayer.
SecretsStayHidden ==
    ~gm => /\ \A s \in Consumers :
                 got[s] \cap secret \subseteq demotion.got[s] \cup Replayed(demotion.underway)
           /\ lastSeen \in secret =>
                 \/ lastSeen \in {demotion.seen} \cup Replayed(demotion.underway)
                 \/ \E k \in demotion.underway :
                       call[k].phase = "resync-required" /\ lastSeen = call[k].latest

\* No consumer gets a roll recorded at or before the Game Master's last clear
\* unless it had it, the roll had passed the question (or the database could
\* not answer it) or a catch-up that had read the clear before brings it;
\* also not a roll that is stored after the clear, with an earlier time
\* (roll_event_cleared, catch_up).
ClearedRollsStayHidden ==
    \A s \in Consumers : \A e \in got[s] \cap Rolls :
        stamp[e] <= clearedAt => e \in clearing.passed[s] \cup Replayed(clearing.underway)

\* What subscriptions.rs says: "a GM only roll does not reach a player, not even
\* as an id". The code does not keep this: a catch-up reads the role and the
\* rows in separate statements, so a roll recorded after a demotion is in the
\* answer to someone who was a Game Master when the role was read.
NoSecretReachesAPlayer ==
    ~gm => \A s \in Consumers : got[s] \cap secret \subseteq demotion.stored

\* A catch-up that reports "caught-up" left no registered consumer without an event the
\* server could have shown it past the cursor it asked from: each was pushed
\* on its queue, or turned away by the consumer's own id check
\* (catchUpWorldEvents, catch_up and its limit).
CaughtUpIsComplete ==
    \A k \in Reconnects : call[k].phase = "caught-up" =>
        \A s \in call[k].to : call[k].owed \subseteq got[s] \cup shed[s]

\* A stream in a paused world, one that passed the gate before the pause and
\* subscribed after it included, ends unless the pause is lifted first; a
\* stream of a revoked session always does (until_stream_must_end).
StreamsEnd ==
    \A s \in Consumers :
        (at[s] = "open" /\ (paused \/ revoked)) ~> (at[s] # "open" \/ ~(paused \/ revoked))

\* What a consumer's id check turns away from a replay is something it has
\* already handled: "each consumer's own id check drops anything it already
\* handled" (subscriptionClient.ts). The code does not keep this: a live event
\* that arrives while the query is in flight raises the mark past the backlog.
DropsOnlyWhatItHandled ==
    \A s \in Consumers : shed[s] \subseteq got[s]

-----------------------------------------------------------------------------
(* What the proofs carry along: an invariant that is inductive. *)

\* A catch-up that asked for the role after the demotion withholds secrets, and
\* its answer has none, not even as the newest id.
AnswersHideSecrets ==
    ~gm => \A k \in Reconnects \ demotion.underway :
        /\ call[k].phase \in {"judged", "dated"} => call[k].withheld
        /\ call[k].phase = "answered" => (call[k].rows \cup {call[k].latest}) \cap secret = {}

\* A catch-up that read the last clear after it was made hides what it covers,
\* and so did the question of a roll that is held.
AnswersHideCleared ==
    /\ \A k \in Reconnects \ clearing.underway :
          /\ call[k].phase = "dated" => call[k].clearedAt = clearedAt
          /\ call[k].phase = "answered" =>
                \A e \in call[k].rows : ~IsCleared(e, clearedAt)
    /\ \A s \in Consumers : IsCleared(held[s], clearedAt) => held[s] \in clearing.passed[s]

\* A catch-up is asked when its drop is over, and not before.
AskedInTurn ==
    \A k \in Reconnects : k > drops \/ (k = drops /\ ~socket) => call[k].phase = "none"

\* An answer that is not cut short is all that was owed.
AnswersInFull ==
    \A k \in Reconnects :
        call[k].phase = "answered" /\ ~call[k].truncated => call[k].owed \subseteq call[k].rows

StreamInv ==
    /\ TypeOK /\ AskedInTurn
    /\ AnswersHideSecrets /\ SecretsStayHidden
    /\ AnswersHideCleared /\ ClearedRollsStayHidden
    /\ AnswersInFull /\ CaughtUpIsComplete

=============================================================================
