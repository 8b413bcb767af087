--------------------------- MODULE EventDelivery ---------------------------
(***************************************************************************)
(* Live delivery of world events: transactions that record an event        *)
(* (world_events.rs), the delivery loop that polls the table               *)
(* (thunderforge-pg/src/delivery.rs with the queries of                    *)
(* network/listener.rs) and the relay that decides what to publish and     *)
(* how far the cursor may move (thunderforge-pg-sockets relay.rs and       *)
(* cursor.rs).                                                             *)
(*                                                                         *)
(* An event's row carries a creation time read from the server's clock     *)
(* before the INSERT, and a BIGSERIAL id taken at the INSERT; it becomes   *)
(* visible at COMMIT. These are three steps, so ids may become visible out *)
(* of order. A poll is also several steps: the loop remembers the cursor   *)
(* and starts it, the database takes its snapshot, the rows come back and  *)
(* are absorbed with the clock as it is THEN.                              *)
(*                                                                         *)
(* Event payloads are left out: an event is the transaction that records   *)
(* it. Time is a discrete clock; Tick keeps the delays of the environment  *)
(* within the bounds StampLag, HoldLag and PollLag.                        *)
(*                                                                         *)
(* A definition whose name ends in _<Defect> is the one below it as a      *)
(* plausible defect would leave it; no specification uses it. The          *)
(* properties are tried against them.                                      *)
(***************************************************************************)
EXTENDS Integers, FiniteSets

CONSTANTS
    Tx,             \* the transactions that each record one world event
    Grace,          \* COMMIT_GRACE
    Batch,          \* POLL_BATCH_SIZE
    PollTimeout,    \* DeliveryConfig::poll_timeout
    StampLag,       \* at most this long from reading created_at to taking the id
    HoldLag,        \* at most this long from taking the id to the commit
    PollLag,        \* at most this long from a poll's snapshot to its absorb
    LastWrite,      \* bound: no event is recorded later than this
    Horizon,        \* bound: the clock stops here
    MaxRestarts     \* bound: how often the server process is restarted

ASSUME TxAssumption == IsFiniteSet(Tx)

ASSUME ConstantsAssumption ==
    /\ Grace \in Nat /\ Batch \in Nat \ {0} /\ PollTimeout \in Nat
    /\ StampLag \in Nat /\ HoldLag \in Nat /\ PollLag \in Nat
    /\ LastWrite \in Nat /\ Horizon \in Nat /\ MaxRestarts \in Nat

VARIABLES
    now,            \* the server's clock
    seq,            \* the last value the BIGSERIAL sequence gave out
    phase,          \* [Tx -> Phase]
    stamp,          \* [Tx -> Nat]: created_at
    id,             \* [Tx -> Nat]: the row's id, 0 before the INSERT
    took,           \* [Tx -> Nat]: when the id was taken
    loop,           \* what the delivery loop is doing
    started,        \* when the poll in flight was started
    readAt,         \* when the poll in flight took its snapshot
    rows,           \* the rows the poll in flight returns
    startAfter,     \* the high-water mark this loop started from
    cursor,         \* Relay::cursor
    delivered,      \* Relay::delivered
    sent,           \* [Tx -> Nat]: how often the event was published
    base,           \* [Tx -> Nat]: history: sent when the loop last started from 0
    restarts        \* how often the server was restarted

txVars    == <<seq, phase, stamp, id, took>>
pollVars  == <<started, readAt, rows>>
relayVars == <<startAfter, cursor, delivered, sent, base>>
vars      == <<now, txVars, loop, pollVars, relayVars, restarts>>

Phase == {"idle", "stamped", "inserted", "committed", "rolledback"}
Loop  == {"boot", "sleeping", "polling", "returning"}

TypeOK ==
    /\ now \in Nat
    /\ seq \in Nat
    /\ phase \in [Tx -> Phase]
    /\ stamp \in [Tx -> Nat]
    /\ id \in [Tx -> Nat]
    /\ took \in [Tx -> Nat]
    /\ loop \in Loop
    /\ started \in Nat
    /\ readAt \in Nat
    /\ rows \in SUBSET Tx
    /\ startAfter \in Nat
    /\ cursor \in Nat
    /\ delivered \in SUBSET Nat
    /\ sent \in [Tx -> Nat]
    /\ base \in [Tx -> Nat]
    /\ restarts \in Nat

Init ==
    /\ now = 0
    /\ seq = 0
    /\ phase = [t \in Tx |-> "idle"]
    /\ stamp = [t \in Tx |-> 0]
    /\ id = [t \in Tx |-> 0]
    /\ took = [t \in Tx |-> 0]
    /\ loop = "boot"
    /\ started = 0
    /\ readAt = 0
    /\ rows = {}
    /\ startAfter = 0
    /\ cursor = 0
    /\ delivered = {}
    /\ sent = [t \in Tx |-> 0]
    /\ base = [t \in Tx |-> 0]
    /\ restarts = 0

-----------------------------------------------------------------------------
(* Recording an event: record_world_event_inner *)

\* created_at is the clock of the server process, read before the INSERT.
StampEvent(t) ==
    /\ phase[t] = "idle"
    /\ now <= LastWrite
    /\ phase' = [phase EXCEPT ![t] = "stamped"]
    /\ stamp' = [stamp EXCEPT ![t] = now]
    /\ UNCHANGED <<now, seq, id, took, loop, pollVars, relayVars, restarts>>

\* The INSERT takes the next value of the sequence.
InsertEvent(t) ==
    /\ phase[t] = "stamped"
    /\ phase' = [phase EXCEPT ![t] = "inserted"]
    /\ seq' = seq + 1
    /\ id' = [id EXCEPT ![t] = seq']
    /\ took' = [took EXCEPT ![t] = now]
    /\ UNCHANGED <<now, stamp, loop, pollVars, relayVars, restarts>>

CommitEvent(t) ==
    /\ phase[t] = "inserted"
    /\ phase' = [phase EXCEPT ![t] = "committed"]
    /\ UNCHANGED <<now, seq, stamp, id, took, loop, pollVars, relayVars, restarts>>

\* The INSERT fails, or its transaction does afterwards: an id that was taken
\* stays a gap.
RollBack(t) ==
    /\ phase[t] \in {"stamped", "inserted"}
    /\ phase' = [phase EXCEPT ![t] = "rolledback"]
    /\ UNCHANGED <<now, seq, stamp, id, took, loop, pollVars, relayVars, restarts>>

-----------------------------------------------------------------------------
(* The queries *)

Visible == {t \in Tx : phase[t] = "committed"}

\* Where a set of numbers ends; 0 for the empty set.
HighestOf(S) == CHOOSE m \in S \cup {0} : \A n \in S : n <= m

MaxEventId == HighestOf({id[t] : t \in Visible})

\* current_max_event_id, once it has a connection: the highest id, and 0 for an
\* empty table or for a query that failed (`.ok().flatten().or(Some(0))`).
CurrentMaxEventId == {MaxEventId, 0}

\* poll_new_events_with_conn: the first Batch visible rows past the cursor.
After(c) == {t \in Visible : id[t] > c}
PolledRows(c) ==
    {t \in After(c) : Cardinality({u \in After(c) : id[u] < id[t]}) < Batch}

-----------------------------------------------------------------------------
(* The relay *)

\* settled_cursor walks the batch in ascending order and stops at the first
\* row that is too young, so a row is settled when no row up to it is young.
IsYoung_OffByOne(t) == stamp[t] > now - Grace
IsYoung(t) == stamp[t] >= now - Grace
SettledRows(batch) ==
    {t \in batch : \A u \in batch : id[u] <= id[t] => ~IsYoung(u)}
SettledCursor_NoFloor(batch) == HighestOf({id[t] : t \in SettledRows(batch)})
SettledCursor(batch) ==
    HighestOf({cursor} \cup {id[t] : t \in SettledRows(batch)})

\* Relay::absorb, followed by EventSink::publish of every row it returns:
\* there is no await in between.
Fresh_NoDedup(batch) == batch
Fresh(batch) == {t \in batch : id[t] \notin delivered}
Absorb_PruneOffByOne(batch) ==
    /\ cursor' = SettledCursor(batch)
    /\ delivered' = {i \in delivered \cup {id[t] : t \in batch} : i >= cursor'}
    /\ sent' = [t \in Tx |-> sent[t] + (IF t \in Fresh(batch) THEN 1 ELSE 0)]
    /\ UNCHANGED <<startAfter, base>>
Absorb_NoPrune(batch) ==
    /\ cursor' = SettledCursor(batch)
    /\ delivered' = delivered \cup {id[t] : t \in batch}
    /\ sent' = [t \in Tx |-> sent[t] + (IF t \in Fresh(batch) THEN 1 ELSE 0)]
    /\ UNCHANGED <<startAfter, base>>
Absorb(batch) ==
    /\ cursor' = SettledCursor(batch)
    /\ delivered' = {i \in delivered \cup {id[t] : t \in batch} : i > cursor'}
    /\ sent' = [t \in Tx |-> sent[t] + (IF t \in Fresh(batch) THEN 1 ELSE 0)]
    /\ UNCHANGED <<startAfter, base>>

-----------------------------------------------------------------------------
(* The delivery loop: run_delivery *)

HighWater_OneBefore ==
    /\ loop = "boot"
    /\ loop' = "sleeping"
    /\ startAfter' \in CurrentMaxEventId
    /\ cursor' = IF startAfter' = 0 THEN 0 ELSE startAfter' - 1
    /\ delivered' = {}
    /\ base' = IF startAfter' = 0 THEN sent ELSE base
    /\ UNCHANGED <<now, txVars, pollVars, sent, restarts>>
HighWater_FromMax ==
    /\ loop = "boot"
    /\ loop' = "sleeping"
    /\ startAfter' = MaxEventId
    /\ cursor' = Cardinality(Tx) + 1
    /\ delivered' = {}
    /\ UNCHANGED <<now, txVars, pollVars, sent, base, restarts>>

\* wait_for_high_water has an answer. A probe that panicked or had no
\* connection is tried again for ever; one whose query failed is an answer.
HighWater ==
    /\ loop = "boot"
    /\ loop' = "sleeping"
    /\ startAfter' \in CurrentMaxEventId
    /\ cursor' = startAfter'
    /\ delivered' = {}
    /\ base' = IF startAfter' = 0 THEN sent ELSE base
    /\ UNCHANGED <<now, txVars, pollVars, sent, restarts>>

PollStart ==
    /\ loop = "sleeping"
    /\ loop' = "polling"
    /\ started' = now
    /\ UNCHANGED <<now, txVars, readAt, rows, relayVars, restarts>>

\* The query's snapshot: what it returns is fixed from here on.
PollRead ==
    /\ loop = "polling"
    /\ loop' = "returning"
    /\ readAt' = now
    /\ rows' = PolledRows(cursor)
    /\ UNCHANGED <<now, txVars, started, relayVars, restarts>>

\* No poll is in flight any more.
NoPoll == started' = 0 /\ readAt' = 0 /\ rows' = {}

PollReturn ==
    /\ loop = "returning"
    /\ loop' = "sleeping"
    /\ Absorb(rows)
    /\ NoPoll
    /\ UNCHANGED <<now, txVars, restarts>>

PollFail_EndsLoop ==
    /\ loop \in {"polling", "returning"}
    /\ loop' = "ended"
    /\ NoPoll
    /\ UNCHANGED <<now, txVars, relayVars, restarts>>

\* No connection, a failed query, or a panic on the polling thread: counted,
\* and the loop goes on.
PollFail ==
    /\ loop \in {"polling", "returning"}
    /\ loop' = "sleeping"
    /\ NoPoll
    /\ UNCHANGED <<now, txVars, relayVars, restarts>>

\* The loop stops waiting; what the abandoned poll returns is never looked at.
PollElapsed ==
    /\ loop \in {"polling", "returning"}
    /\ now >= started + PollTimeout
    /\ loop' = "sleeping"
    /\ NoPoll
    /\ UNCHANGED <<now, txVars, relayVars, restarts>>

\* The server process ends and starts again: the relay was its memory.
Restart ==
    /\ loop # "boot"
    /\ restarts < MaxRestarts
    /\ restarts' = restarts + 1
    /\ loop' = "boot"
    /\ NoPoll
    /\ UNCHANGED <<now, txVars, relayVars>>

-----------------------------------------------------------------------------
\* Time passes, but not past what the environment's delays allow.
Tick ==
    /\ now < Horizon
    /\ \A t \in Tx : phase[t] = "stamped" => now < stamp[t] + StampLag
    /\ \A t \in Tx : phase[t] = "inserted" => now < took[t] + HoldLag
    /\ loop = "returning" => now < readAt + PollLag
    /\ now' = now + 1
    /\ UNCHANGED <<txVars, loop, pollVars, relayVars, restarts>>

Record(t) == StampEvent(t) \/ InsertEvent(t) \/ CommitEvent(t) \/ RollBack(t)

Next ==
    \/ \E t \in Tx : Record(t)
    \/ HighWater
    \/ PollStart
    \/ PollRead
    \/ PollReturn
    \/ PollFail
    \/ PollElapsed
    \/ Restart
    \/ Tick

Spec == Init /\ [][Next]_vars

\* Clocks advance, transactions end, and the loop never leaves off polling. A
\* poll may fail any number of times, but the database does not fail for ever:
\* of infinitely many polls that could go on, one does.
Fairness ==
    /\ WF_vars(Tick)
    /\ WF_vars(HighWater)
    /\ WF_vars(PollStart)
    /\ SF_vars(PollRead)
    /\ SF_vars(PollReturn)
    /\ \A t \in Tx : WF_vars(InsertEvent(t)) /\ WF_vars(CommitEvent(t) \/ RollBack(t))

FairSpec == Spec /\ Fairness

-----------------------------------------------------------------------------
(* Properties *)

\* The id was taken and its event is not given up.
Owed(t) == phase[t] \in {"inserted", "committed"} /\ id[t] > startAfter

\* The event was published since the loop last started from 0.
Heard(t) == sent[t] > base[t]

\* A loop publishes an event at most once, although the lagging cursor makes
\* every poll read again what it already broadcast, and so do all the loops up
\* to the next one that starts from 0, whatever fails or restarts (relay.rs:
\* "every event delivered twice").
AtMostOnce == \A t \in Tx : sent[t] <= base[t] + 1

\* What delivery.rs says of the start-up: it "Never guesses. Starting from 0
\* replays the whole table to every client". The code does not keep this: a
\* max(id) query that fails is taken for 0.
NeverReplayed == \A t \in Tx : sent[t] <= 1

\* The memory of what was sent is pruned exactly at the cursor: it holds the
\* ids above it that were published since the last start from 0 and no others
\* (relay.rs: "the pruning is only correct if it agrees exactly with where the
\* cursor is").
DedupAgreesWithCursor ==
    loop # "boot" =>
        delivered = {id[t] : t \in {u \in Tx : Heard(u) /\ id[u] > cursor}}

\* The cursor never passes an event that was not published, nor an id whose
\* transaction can still commit: neither could ever be polled again
\* (cursor.rs: "lost permanently, with no log, no metric and no Lagged").
NothingPassedOver ==
    loop # "boot" => \A t \in Tx : Owed(t) /\ id[t] <= cursor => Heard(t)

\* What cursor.rs says of COMMIT_GRACE: a transaction that commits within it is
\* not missed. For HoldLag <= Grace every transaction does.
CommitWithinGraceIsNotMissed ==
    loop # "boot" => \A t \in Tx :
        phase[t] = "committed" /\ startAfter < id[t] /\ id[t] <= cursor => Heard(t)

\* Between restarts the cursor only moves forward.
CursorMonotone ==
    [][loop # "boot" /\ loop' # "boot" => cursor' >= cursor]_vars

\* Every id the relay remembers is forgotten in the end, also when polls fail
\* and more rows are young than fit a batch (relay.rs: "Without that pruning
\* this is a leak that only shows up on a server that has been up for weeks").
MemoryIsReleased ==
    \A t \in Tx : (id[t] > 0 /\ id[t] \in delivered) ~> (id[t] \notin delivered)

-----------------------------------------------------------------------------
(* The inductive invariant behind AtMostOnce, DedupAgreesWithCursor and    *)
(* NothingPassedOver, in named parts.                                      *)

\* Ids are given out once, in the order they are taken.
IdsInOrder ==
    /\ \A t \in Tx : id[t] <= seq
    /\ \A t \in Tx : phase[t] \in {"idle", "stamped"} => id[t] = 0
    /\ \A t \in Tx : phase[t] \in {"inserted", "committed"} => id[t] > 0
    /\ \A t, u \in Tx : id[t] > 0 /\ id[t] = id[u] => t = u
    /\ \A t, u \in Tx : id[t] > 0 /\ id[t] < id[u] => took[t] <= took[u]

\* The environment's delays stay within their bounds.
DelaysBounded ==
    /\ \A t \in Tx : phase[t] = "stamped" => now <= stamp[t] + StampLag
    /\ \A t \in Tx : id[t] > 0 => took[t] <= now /\ took[t] <= stamp[t] + StampLag
    /\ \A t \in Tx : phase[t] = "inserted" => now <= took[t] + HoldLag
    /\ loop = "returning" => now <= readAt + PollLag

CursorInRange == startAfter <= cursor /\ cursor <= seq

\* What a poll in flight may have missed: only transactions that were open at
\* its snapshot, or rows past its batch.
PollMissesOnlyOpen ==
    /\ loop # "returning" => rows = {}
    /\ \A r \in rows : phase[r] = "committed" /\ id[r] > cursor
    /\ \A r \in rows, q \in Tx :
          /\ phase[q] \in {"inserted", "committed"}
          /\ cursor < id[q] /\ id[q] < id[r]
          /\ q \notin rows
          => readAt <= took[q] + HoldLag

OnlyStoredIsSent ==
    \A t \in Tx : base[t] <= sent[t] /\ (sent[t] > 0 => phase[t] = "committed")

RelayInv ==
    /\ TypeOK
    /\ IdsInOrder
    /\ DelaysBounded
    /\ CursorInRange
    /\ PollMissesOnlyOpen
    /\ OnlyStoredIsSent
    /\ AtMostOnce
    /\ DedupAgreesWithCursor

\* The grace covers the environment's delays. The code has no such check: it
\* is the condition under which the cursor rule is right.
DelaysFitGrace == StampLag + HoldLag + PollLag <= Grace

-----------------------------------------------------------------------------
(* Refinement *)

\* How an event stands, in the terms of the abstract specification.
StatusOf(t) ==
    CASE phase[t] \in {"idle", "stamped"} -> "unwritten"
      [] phase[t] = "rolledback" -> "discarded"
      [] phase[t] \in {"inserted", "committed"} ->
            IF Heard(t) THEN "heard"
            ELSE IF id[t] <= startAfter THEN "skipped"
            ELSE IF phase[t] = "inserted" THEN "open" ELSE "stored"
FeedStatus == [t \in Tx |-> StatusOf(t)]

Feed == INSTANCE EventFeed
            WITH status <- FeedStatus, times <- sent, up <- (loop # "boot")

\* The polling loop with its cursor implements the feed: only what is stored is
\* published, nothing but a start-up makes an event history, and nothing but a
\* start-up from 0 publishes one again, however polls, commits and failures
\* interleave.
ImplementsFeed == Feed!Spec

\* ... and it is published in the end.
FeedEventuallyHeard == Feed!EventuallyHeard
=============================================================================
