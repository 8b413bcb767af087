# ThunderForge VTT: a TLA+ model of live play

ThunderForge is a virtual tabletop: a Rust server (GraphQL over HTTP and
WebSocket, PostgreSQL), a browser client, and crates the two share. These
modules model the parts whose correctness depends on the order of events: how
world events reach connected clients and how a client catches up on those it
missed, how work done offline is replayed, which window of an account is "at the
table", who may exchange content peer to peer, how the server knows that a world
is being played, and how an operator pauses a world. Each is concurrent and
mostly tested one interleaving at a time.

`PROJECT.json` maps every definition to the lines it stands for and lists the
runs, the mutants, the findings, the hazards and the theorems.

Run a check with `tlc -workers 2 -config X.cfg MCModule`, a proof with
`tlapm XProofs.tla`.

## The system

| Component | State | Operations | Modelled in |
|---|---|---|---|
| Recording world events (`world_events.rs`) | rows of `world_events`, its id sequence | `record_world_event` inside or after a mutation's transaction | `EventDelivery` |
| Delivery loop and relay (`thunderforge-pg`, `thunderforge-pg-sockets`, `network/listener.rs`) | cursor, ids remembered as sent, the poll in flight | start from the high-water mark, poll, absorb, publish, time out | `EventDelivery`, `EventFeed` |
| Play-field claims (`play_field.rs`, `mutations_play_field.rs`) | one claim per account with a token; one broadcast channel per account | claim, release by guard, watch; the `playField` stream | `PlayField` |
| Peer signaling (`peer_signaling/`) | registry of sessions per world, inboxes with tokens | admission gate, register, unregister by guard, relay | `PeerAdmission` (relay not modelled) |
| Live-play marks (`play_pause/live_play.rs`, `mutations_heartbeat.rs`) | one row per world, one throttle map per process | `mark_live` on a heartbeat, `in_live_play` | `LivePlay` |
| Pausing play (`play_pause/mod.rs`, `requests.rs`, its migration) | pauses, requests, triggers, unique indexes | `pause_world`, `lift_pause`, `raise`, `decide` | `PlayPause` |
| World event router, subscription streams (`thunderforge-pg-sockets` router, `subscriptions.rs`, `session_lifetime.rs`) | one broadcast channel per world; a receiver and a liveness tick per stream | subscribe, publish, lag, reap; the questions about a roll; end with session or pause | `WorldStream` |
| Catching up (`world_events_since.rs`, `subscriptionClient.ts`, `useConnectivity.ts`) | the tab's cursor, each consumer's high-water mark, the query in flight | ask, answer within a limit, replay, give up | `WorldStream` |
| Offline work (`thunderforge-cache-browser` outbox, `offlineQueue.ts`, `heartbeat.ts`, `mutations_reconcile.rs`) | queued changes in IndexedDB, the drain in flight, the server's marks per token | queue, drain, settle a batch, forget what was answered | `Reconcile` |
| Presence (`thunderforge-presence`) | last beat per member | beat, leave, sweep | planned |
| Client cache and peer transfer (`thunderforge-cache-*`, `thunderforge-opfs`) | cached content, transfers | sync, evict, verify | planned |
| Combat (`thunderforge-combat`) | turn order | pure functions on it | planned |
| Sessions, authorization, moderation, mail and feedback, lore sync, packs and imports, dice, engine and canvas, telemetry, web application | see `PROJECT.json` | | not modelled |

How they interact: a mutation commits and records a world event; the delivery
loop of every server process polls the table and hands new events to the router,
which fans them out to the streams of that world. A browser window opens
`playField`, which claims its account's table, and `peerSignals`, which is
admitted only while that claim stands; nothing orders the two. It also sends a
heartbeat every five seconds, which leaves the durable live-play mark. A
takedown of content asks for a pause of every world in live play that it
reached; operators decide the request or pause directly; a pause refuses new
streams and beats and ends the open streams. A tab that reconnects opens its
streams again and, at the same time, asks for the events past its cursor. A page
whose beat fails is offline: it queues what its user does, and the first beat
that arrives drains the queue to the server, which settles each change against
what others did meanwhile.

Where it is hard:

- ids of `world_events` are taken at INSERT and visible at COMMIT, so they
  appear out of order, and the reader is a cursor over ids;
- a poll's snapshot, its return and its timeout are at different times;
- the play-field registry changes under one lock and is announced under another;
- an admission decision is used after it was made;
- the live-play throttle is per process, its row is shared, and two clocks are read;
- a pause, a lift, a raise and a decision are multi-statement READ COMMITTED
  transactions on the same rows, and any statement can fail;
- what may be shown is asked for each roll as it arrives, and in several reads by
  a catch-up, while roles change and rolls are cleared; a stream learns of a pause
  or a revoked session only at its next tick;
- a restarted loop has to find out where the table ends, from a query that can fail;
- a replay and live delivery reach the same consumer at once;
- a reply can be lost after its work was done, and the same work is then sent
  again, to a server that may have been restarted.

What makes each component correct: an event is published once unless the loop has
to start over, and none is passed over; the newest claim holds, a claim ends with its client, and windows
learn what became of it; no admission is missed, no session outlives its stream;
a beaten world stays marked, a quiet one does not; an approved request has its
pause, a trigger is never lost or put on a pause that was over before; a hidden
roll stays hidden, a stream ends when it must, no catch-up is cut short unnoticed;
queued work is not lost, not made twice and does not undo a
Game Master's.

## Conventions

- One module per component; `MC*.tla` only names model values; a `.cfg` only
  gives constants their values.
- A step is what the code does without another actor being able to intervene:
  one SQL statement, one critical section, or the code between two awaits.
- `Name_Defect`, just before `Name`, is `Name` with a plausible bug. No
  specification uses one. For every property there is one that breaks it.
- Runs with `CHECK_DEADLOCK FALSE` are of systems that really come to rest:
  every stream is closed, every call has ended or all work was answered.
  `EventDelivery` never rests (polling goes on) and neither does `WorldStream`
  (the world may be paused again), so their runs check for deadlock.
- Bounds are named constants. Time is discrete; the delays of the environment
  are bounds in `Tick`.

## EventDelivery

`StampEvent`, `InsertEvent`, `CommitEvent`, `RollBack` are the life of one
recorded event: `created_at` is the server's clock before the INSERT, the id is
taken at the INSERT, the row appears at COMMIT. `HighWater` is
`wait_for_high_water`, which takes any answer of `CurrentMaxEventId`: the highest
visible id, or 0, since the code makes 0 of a `max(id)` query that failed as it
does of an empty table. `PollStart`, `PollRead`, `PollReturn` are one turn of
`run_delivery`: the cursor is captured, the query takes its snapshot, and the
rows are absorbed with the clock of *that* moment. `PollFail` is a failed query,
a missing connection or a panic; `PollElapsed` is `poll_timeout`, after which
nothing looks at what the abandoned poll returns. `Restart` loses the relay.
`Absorb` is `Relay::absorb`: publish what is not remembered, move the cursor to
the last row before the first young one, forget ids up to the cursor.

A loop that starts from 0 publishes everything again. The history variable `base`
is how often each event had been published when that last happened; the properties
count from there (`Heard`), so they say that nothing *else* repeats an event.

`EventFeed` is the promise without ids, cursors or clocks: only stored events
are heard, none twice by one loop, and only a start of the loop turns events into
history (`Start`) or owes them again (`StartOver`). `ImplementsFeed` is the
refinement, with `StatusOf` as its mapping.

- `event_delivery` (2 transactions, grace 3, batch 1, each delay up to 1, one
  restart): `AtMostOnce`, `DedupAgreesWithCursor`, `NothingPassedOver`,
  `CursorMonotone`, the refinement `ImplementsFeed`, and the liveness properties
  `FeedEventuallyHeard` and `MemoryIsReleased`. The grace is exactly the sum of
  the delays, so one unit less loses an event; two transactions are the least
  that can commit against their ids' order, and with a batch of one a young row
  can fill it. More transactions are the theorems' business. Fairness: time passes,
  transactions end (PostgreSQL ends those of dead connections), the loop has no
  exit so it starts its next poll, and polls may fail any number of times but not
  for ever (strong fairness of the two steps of a successful poll). Nothing is
  assumed of restarts, whose number is a bound.
- `start_from_zero` is a **finding** (one transaction, one restart): `NeverReplayed`
  fails. `current_max_event_id` ends in `.ok().flatten().or(Some(0))`, so a query
  that fails once it has a connection is an answer, and `wait_for_high_water` asks
  again only where there is none. The loop starts from 0 and publishes what was
  published before the restart. `delivery.rs` says that it never guesses, because
  starting from 0 replays the whole table to every client.
- `slow_poll` is a **finding**. With a poll that takes longer than the grace and
  transactions that hold their id for less than it, an event is lost. The rows
  are of the snapshot, the clock is of the return (`poll_timeout` is 15 s, the
  grace 2 s). `cursor.rs` says that a transaction that commits within the grace
  cannot be missed.

What the model also shows: an id that is open when the loop starts, and lower
than the highest visible one, is committed later and polled by no one. It is a
legal step of `EventFeed` (`Start`), because it is what the code does.

Proved (`EventDeliveryProofs`), for any set of transactions, any grace, batch,
delays and bounds: `TypeCorrect`, `PublishedAtMostOnce`, `DedupIsExact`,
`CursorNeverMovesBack`, `DeliveryImplementsFeed`, and, under
`DelaysFitGrace`, `NoEventIsLost`.
The inductive invariant is `RelayInv`. `AtMostOnce` needs to know that the rows
of the poll in flight are above the cursor and that the remembered ids are
exactly the ones above it that were published since the last start from 0: after
any other start nothing above the cursor was published, after that one the count
starts over. `NothingPassedOver` needs
`PollMissesOnlyOpen`: between the cursor and a row that a poll returned, all that
is missing was open at its snapshot, because the batch is a prefix
(`PolledRowsArePrefix`). A settled row is older than the grace at the return, so
an id below it was taken more than `HoldLag` before the snapshot
(`SettledMeansEnded`) and cannot have been open. That is where
`StampLag + HoldLag + PollLag <= Grace` is used. The code does not enforce this;
`slow_poll` is what happens without it.

## PlayField

For one account (accounts share only locks). A stream opens in three steps:
`OpenStream` subscribes to the account's channel, `Swap` replaces the claim under
the `accounts` lock, `AnnounceClaim` sends it under the `listeners` lock and
yields the stream's own claim. `Forward` yields the next change, skipping a
`Lagged` error. `DropStream` is the guard: it removes the claim if the token is
still its own; `AnnounceRelease` sends that. An inbox is the part of the
broadcast ring that a receiver has not read, at most `Cap`.

The claims are checked together with the peers that wait for them, in
`peer_admission` below.

What the model also shows: two claims that overlap can be announced in the opposite
order, since swap and announcement are under different locks, and the last news
both windows have then names the displaced one. They agree (`WindowsAgree`), but
not with the registry, although `play_field.rs` says of `watch` that it "Fires
whenever it moves, so a demoted client learns it has become a companion".
`DemotedClientLearns` is that sentence, and not an invariant. Its
counterexample is `OpenStream` and `Swap` of two windows, then `AnnounceClaim` of the
second before that of the first; `LearnsWithoutOverlap` below proves it where claims
do not overlap.

Proved (`PlayFieldProofs`) for any streams, windows and capacity:
`ClaimNeverOutlivesClient`, `NewestClaimStands`. The registration is `NoStream`
or the newest claim, and only that claim's own stream can remove it.
`ClaimsStandBesidePeers` (in `PeerAdmissionProofs`) carries both over to the
composition that the run checks.

## PeerAdmission

Extends `PlayField` with `peerSignals` subscriptions, which receive on the same
channel. `StartWatch`, `ReadClaim`, `HearChange`, `HearLagged`, `Deadline` are
`holds_play_field`; `Register` and `EndPeer` are the registry with its tokens.
`Deadline` may come at any time, as `select!` may prefer it.

- `peer_admission` (streams a1 and a2 of one window and b1 of another, in two
  worlds, two peers under one session id, `Cap` 1 so that the channel overflows).
  Of the claims: `ClaimHasAClient`, `NewestClaimHolds`, `WindowsAgree`, and
  `DisplacedHearsOfIt`: in a behaviour where no two claims or releases overlap, a
  displaced window stops believing in the end. Three streams are the least for
  which a displaced stream of a window is dropped after a newer stream of the same
  window has claimed. Of the peers: `NoClaimMissed`, `NoGhostSession`,
  `ReconnectStaysReachable`. Fairness: there is no await between a swap and its
  announcement, and an open stream's socket is polled; nothing is assumed of the
  peers.

What the model also shows: the claim that admitted a peer can be gone or elsewhere
by the time the peer is registered. Every signal checks the membership again, so
this is listed as a hazard and no property forbids it.

Proved (`PeerAdmissionProofs`), for any streams, peers, sessions and capacity:
`NoSessionOutlivesItsStream` and `LateGuardRemovesNothing` from `RegistryInv`;
`PeerTypeCorrect` and `ClaimIsNotMissed` from `GateInv`. `NoClaimMissed` alone is
not inductive, since reading one news item says nothing of the next.
`WaitingHears` is: if the registered claim is the one a peer waits for, then it
has yet to be announced, or is among the peer's unread news, or the peer lagged
and will read the registry. A peer that discards an item discards a claim that is
not at its table, so never that one.

`WindowsAreToldTheSame` is `WindowsAgree` for any streams and capacity, also while
claims are moving. It is proved of the last word: what a stream has yet to read
last or, if it has read all, what it yielded last. An announcement is the last
word to everyone who listens, even to a receiver whose oldest item it overwrites
(`AnnouncedLast`, which needs a capacity of at least one), streams listen from
before their claim (`Listens`), and reading an item leaves the last word as it is.

`LearnsWithoutOverlap` says when "a demoted client learns it has become a
companion" is true: in a behaviour without overlapping claims or releases
(`PeerSpec /\ []~Overlap`). A claim or release that is to be announced is then the
registry's last change, and with none pending the registry is everyone's last word
(`RegistryIsAnnounced`). `DisplacedHearsOfIt` adds, by TLC, that news are read in
the end.

## LivePlay

For one world. `Beat` and `BeatSkipped` read the process's clock and throttle,
`Upsert` is the conditional upsert with the database's clock, `RememberMark`
notes the time read at the start. Handlers of one process and of several run at
once; `UpsertFails` and `RestartProcess` are bounded by `MaxFails`; `Stop` ends
the beats. While the world is played a beat arrives every `BeatEvery`, at an
arbitrary process.

- `live_play` (three handlers in two processes, throttle 4, window 6, beat 1,
  one failure, clock to 16): `MarkGapBounded`, `QuietWorldIsNotLive`,
  `OneWritePerThrottle`. The horizon holds more than two throttles and a window.

What the model also shows: an upsert that changes nothing (another process wrote
first, or the row is not yet *more* than a throttle old by the database's clock) is
followed by `remember_mark` all the same, so the next attempt is a throttle later.
The bound of `MarkGapBounded` is therefore two throttles and a beat, not one. At the code's
ratio the mark of a world that every client beats reaches up to 60 seconds and is
outside the window of 45, although `live_play.rs` says that "30 seconds of throttle
inside a 45-second window leaves one missed mark's worth of slack". It needs no
exact coincidence: a second process, or a write slightly later than the clock that
was read, is enough.

Proved (`LivePlayProofs`), for any processes, handlers and timing constants:
`LiveTypeCorrect`, `MarkIsRenewed`, `QuietWorldsAreNotLive` and
`WritesAreThrottled`. The inductive invariant `LiveInv` says that whoever is
throttled owes it to a mark at most one throttle older (`ThrottleHasAMark`), and
that when a mark is overdue some handler is between its beat and its upsert
(`RenewalUnderway`), where each failure buys one beat and one write of delay.

## PlayPause

For one world. A call is a transaction, a step is a statement. `Sees` is READ
COMMITTED; `PauseIndexBusy`, `RequestIndexBusy`, `TriggerBusy` are the waits of
an INSERT under a unique index for an open transaction. A row is named by the
call that inserted it. `PauseInsert`, `PauseFind`, `PauseAttach` are `pause_in`,
used by `pause_world` and by an approval; `RaiseCheck`, `RaiseInsert`,
`RaiseFind`, `RaiseAttach` are `raise`; `Decide` and `Gather` precede `pause_in`
in an approval; `Lift` is a single conditional update. `Fail` is a failed
statement anywhere: all of the call is rolled back.

- `play_pause` (one pause, two lifts, a raise and its retry, an approval, a
  decline): `ApprovedIsPaused`, `NeverAnOldPause`, `RaisedIsRecorded`,
  `GatheredTriggersMove`, `DecisionIsFinal` and `EveryCallEnds`. Two lifts are
  needed to send `pause_in` around its loop twice. Fairness: a transaction runs
  its next statement when the database lets it.
- `play_pause_late` is a **finding**: a raise reads the pending request, an
  operator declines it, and the trigger is inserted on the declined request,
  while the caller is told that it is on a pending one.

Proved (`PlayPauseProofs`), for any calls of the five kinds and any moderation
actions: `PauseTypeCorrect`, `ApprovalsArePauses`, `TriggersAreOfTheirTime`,
`RaisesAreRecorded`, `GatheredTriggersAreMoved` and `DecisionsAreFinal`. The only
assumption on the calls is that a call is of one kind. The inductive invariant is
`PlayPauseInvariant`. None of the properties is inductive alone, because each is
about rows that a call wrote some statements ago and that a failure takes back.
`RowsHaveWriters` and `OwnStatements` say which open or ended call each row
belongs to and at which statement it is, so a rollback removes a call's rows and
no other's; `ApprovalHasRequest` and `ApprovalReachesPause` follow an approval
from its decision to its pause; `AttachesToTheCurrent` says that the pause a call
has found was not over when the call began, also after another turn of
`pause_in`'s loop; `RaiseRecords`, `SeenStays` and `GatheredStays` say that what
a call relies on was committed and therefore stays, or is its own. Every step
either ends its call or writes rows under the call's own name (`Touches`), which
is what the parts are proved against.

## WorldStream

For one world and one tab. An event is its id; the ids become visible in any
order and are published as `EventDelivery` says: `Store`, `Publish`. A consumer
registers (`Register`) and its stream goes from `Gate` (the pause is read) to
`Subscribe` (the router makes the world's channel if there is none) to `Take`, which
reads the next event and, for a roll, asks when the Game Master last cleared them. A
`gm_only` roll is then held until `AnswerHeld` has asked for the user's role. `Push`
is the broadcast ring: an event more than `Capacity` overwrites the oldest, and
nobody is told. `Tick` is `until_stream_must_end`; `Reap` is the router's reaper;
`Restart` loses the router, every stream and the answers being worked out, and the
new listener skips what is visible or, as `EventDelivery` has it, starts over.

The tab's side is `Connect`, `Drop`, `Deliver` and the catch-up, whose call goes
from asked to answered in four reads of the server: `CatchGate` (membership and
pause), `CatchRole`, `CatchClear` and `CatchRead` (the rows, one more than the limit,
and the newest id). They are statements of their own without a transaction, so
anything may come between two of them. `CatchFails`, `CatchTooLong` and `CatchApply`
are what the tab does with the answer. The cursor `lastSeen` is shared by the tab's
consumers, each of which has its own high-water mark; where none is registered yet
the replay only moves the cursor.

`SetPause`, `Revoke`, `Demote`, `Promote` and `ClearRolls` are the others, at any
time. A roll carries `stamp`, its `created_at` by the clock of the server that made
it; a clear sets `clearedAt` to the database's time at the start of its transaction.
`IsCleared` compares the two as `rolls::visibility::cleared` does. Nothing is assumed
of how those clocks agree with each other or with the order of commits.

Two variables belong to the properties. `demotion` is what the tab had when its user
last stopped running the world, and which catch-ups had read the role by then.
`clearing` is which rolls had passed the question about the clear when the last one
was made, or passed it since because the database could not answer, and which
catch-ups had read the clear by then.

- `world_stream` (one plain event and one roll, one consumer, a channel and a limit
  of one, two times, one lost connection): `SecretsStayHidden`,
  `ClearedRollsStayHidden`, `CaughtUpIsComplete`, `StreamsEnd`. The first two say
  that nothing hidden is delivered but by a catch-up that was under way in exactly
  the sense above; a live stream has no such exception for secrets. Two events are
  the least that overflow a channel and a limit of one; two times are enough for a
  roll before, at and after a clear, since only comparisons matter; one drop gives
  one catch-up, and the catch-ups of two drops only meet in the cursor. A second
  consumer would share the channel and the cursor; any number of them is the
  theorems' business. Fairness: the liveness ticker goes on
  and its query is answered in the end. Nothing else is assumed.
- `roll_leak` is a **finding** (the same, one time): `NoSecretReachesAPlayer` fails.
  A Game Master's catch-up has read the role, the user is demoted, a `gm_only` roll
  is recorded, and the rows that are read then contain it. `subscriptions.rs` says
  that such a roll does not reach a player, not even as an id. The window is the time
  between two statements of one request.
- `catch_up` is a **finding** (one consumer, two events, no roll). The streams are
  open while the query is in flight. A live event that arrives first raises the
  consumer's mark past the backlog, and the replay's older events are dropped by
  the check that is said to drop only what was handled. `CaughtUpIsComplete` does not
  see this: it is about the limit, and counts what a consumer turned away.

What the model also shows: a stream that lagged loses events and no cursor remembers
it. A comment in `router.rs` (its test of a slow subscriber) says that the caller
surfaces this as a resync signal; `subscriptions.rs` drops the error and says that
there is no such signal on this wire yet. `router.rs` also says of `reap` that a
subscriber may lose its channel and see a closed receiver; in the code the entry is
made, subscribed to and counted under one lock of the map, so no receiver of an open
stream is ever without its channel (part of `TypeOK`). One consumer's progress moves
the cursor that the catch-up of another starts from; the cursor can go back when an
answer is too long; an event that commits after a higher one was delivered is
dropped by the consumer, and so is what a listener that starts over publishes again;
a consumer whose stream has ended stays registered and still takes the replay. Of two
clears that overlap the one that commits last may carry the earlier time, and the
rolls between the two are visible again.

Proved (`WorldStreamProofs`), for any events, rolls, times, consumers, capacity,
limit and number of drops: `StreamTypeCorrect`, `SecretsAreHidden`,
`ClearedRollsAreHidden`, `CaughtUpMeansAll`. The inductive invariant is `StreamInv`.
`SecretsStayHidden` needs `AnswersHideSecrets`: a catch-up that asked for the role
after the demotion withholds secrets, and its answer has none, not even as the newest
id. `ClearedRollsStayHidden` needs the same of the last clear, and that a roll which
is being asked about has passed the question (`AnswersHideCleared`). `AskedInTurn`
says that a catch-up is asked when its own drop is over, so that one that a demotion
or a clear found under way is never asked anew. `CaughtUpIsComplete` needs
`AnswersInFull`, which rests on `NotTruncatedIsAll`: if the `n + 1` lowest of a
finite set number at most `n`, they are the whole set. Its proof takes the least
element left out and counts what is below it; that a set of numbers has one is
in `NumberLemmas`, which `ReconcileProofs` uses too. What each kind of step does to
a consumer, to a call and to the world is stated once (`TabMoves`, `CallMoves`,
`RoomMoves`), and each part is proved against that.

## Reconcile

For one world. A change is one queued move or attack. The page: `QueueEdit` and
`EditStored` are an edit made offline and its IndexedDB transaction; `GoOffline`,
`GoOnline` and `OtherTrigger` start drains; `ReadQueue`, `TakeReply` and
`ForgetAnswered` are the awaits of one pass of `reconcileWorld`, `LoseRequest`,
`ReadFails` and `Reload` what can happen to it. The server: `AdmitRequest` is
membership and the pause, and draws the batch's reconnection number; `CheckChange`
reads the next change's token and asks whether it is there, whose it is and whose
turn it is, `WeighMark` then reads its mark under the marks' lock and decides against
it (`resolve`); `UpdateToken` and `RememberMark` are the write and the mark after it; `ApplyAttack`
is an attack. Requests run at once. `Restart` loses the marks and `ChangeWorld`
deletes a token, moves its ownership, pauses the world or removes a member.

- `reconcile` (a Game Master and a player, two changes of one token, whose they
  are and which are attacks chosen from `MCCasts`, two passes, one fault):
  `NothingLost`, `AppliedIsTrue`, `GameMasterStands`, `ResentMoveIsNotRepeated`,
  `OfflineWorkIsAnswered`. Two changes of one token are the least that conflict;
  one fault of any kind, at any step, is what separates a request from its resend.
  `GameMasterStands` and `ResentMoveIsNotRepeated` hold within one process of the
  server and for tokens no two requests are at work on at once: the mark is read
  before the write and set after it, so two requests can both pass the check, and
  a restart forgets all marks. Fairness: promises resolve, requests are worked
  off and a beat arrives again.
- `reconcile_order` is a **finding** (one player, no fault): the second of two
  queued moves of one token is answered `Superseded`, because both carry the
  batch's number and the mark of the first wins against an equal one. The comment
  says that a client's own sequential edits do not work against each other.

What the model also shows: an edit stored after the last drain of a page that
stays online waits for the next reconnection; a batch refused for a membership
that could not be read is forgotten like one that was settled.

Proved (`ReconcileProofs`), for any clients, Game Masters, tokens, changes, passes
and number of failures: `ReconcileTypeCorrect`, `NoQueuedEditIsLost`,
`AppliedWasDone`, `GameMasterMovesStand`, `NoMoveIsMadeTwice`; and `ReplayOrder`
of the sort of the outbox. The assumptions are those of the model: finitely many
clients and changes, and local ids that differ. The inductive invariant is
`ReconcileInvariant`.

- The type invariant needs `SlotsSuffice`: each request a page has given up cost a
  failure, so `MaxFaults + 1` places for its requests are enough for any bound;
  `DrainsInOrder` keeps the pass below its limit.
- `NothingLost` needs `AnswersAreHeard`: what a page may forget, it has heard of.
- `AppliedIsTrue` needs the same of replies that are still at the server
  (`OutcomesAreTrue`).
- The two about moves follow a request through its statements. `OverlapsAreNoted`
  makes a request the only one at work on a token that is not in `overlap`, so
  what its check found of the mark stays so until it leaves its own
  (`CheckStays`). A move that was made has a mark of its role or a higher one, or
  is about to get it (`MovesAreMarked`), so a player cannot pass the check against
  a Game Master's. A request that carries a move already made has a mark against
  that move (`RepeatsAreHeld`): when it is admitted its number is higher than any
  mark's, and the mark it leaves itself has its own number, which an equal number
  does not beat. That last clause is also what `reconcile_order` is about.

Every step is first shown to be one of eight things done to one request (`Works`),
a restart, or nothing to the server, and each part is proved against those.

## What is only model-checked

Liveness (`FeedEventuallyHeard`, `MemoryIsReleased`, `DisplacedHearsOfIt`,
`EveryCallEnds`, `StreamsEnd`, `OfflineWorkIsAnswered`) is out of TLAPS's reach in
this setting. Every other property of a passing run, each invariant and each
action property, is also a theorem.

## What is not modelled

Payloads of events, wording, metrics and logging; the connection pool and blocking
threads; membership and role checks that only refuse before a handler does
anything, and losing one's membership with a stream open; relaying a peer signal;
the in-memory presence and its stream, which is built like the one of events; mail
and feedback workers, which claim rows for an external service; the content cache,
its eviction and peer transfer; deletion of a world during a pause. In `Reconcile`
the disclosed discrepancies, peer-adjudicated attribution, the movement a move
spends and whose turn it is.

The map covers a small share of the repository's lines. Most of them are user
interface, rendering and geometry on floating-point values, parsers and importers,
the generated database schema and its row types, single-query resolvers, and
content data: no state that outlives a request, nothing concurrent, and nothing a
model checker would add to the unit tests.

## Plan

1. `Presence` and the rest of the heartbeat; relaying a peer signal in
   `PeerAdmission`.
2. The client's cache: sync against a moving server, eviction, peer transfer.
3. `Combat`: turn order as operators, against a reference definition.
4. Proofs: the conditions under which the comments behind the other findings are
   true, as `LearnsWithoutOverlap` and `DelaysFitGrace` are for two of them, and
   the invariants of the modules above.
