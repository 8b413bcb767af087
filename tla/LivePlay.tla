----------------------------- MODULE LivePlay -----------------------------
(***************************************************************************)
(* Whether a world is in live play: the durable mark that heartbeats leave *)
(* in `world_live_play` and the window it is read with                     *)
(* (play_pause/live_play.rs), for one world.                               *)
(*                                                                         *)
(* Every member's client beats; a beat is handled by one of the server     *)
(* processes. The handler reads the process's clock, asks the process's    *)
(* own throttle, runs a conditional upsert whose clock is the database's,  *)
(* and notes the time it read at the start. Handlers of one process and of *)
(* several run at once. Only differences of clock values are ever          *)
(* compared, so one clock stands for both.                                 *)
(*                                                                         *)
(* Pruning the throttle forgets only entries that no longer throttle. A    *)
(* pause, a lost membership and the end of the session are all Stop: beats *)
(* no longer come.                                                         *)
(*                                                                         *)
(* A definition whose name ends in _<Defect> is the one below it as a      *)
(* plausible defect would leave it; no specification uses it.              *)
(***************************************************************************)
EXTENDS Integers

CONSTANTS
    Handlers,       \* heartbeat requests that can be in progress at once
    Processes,      \* server processes
    ProcessOf,      \* [Handlers -> Processes]
    MarkEvery,      \* MARK_EVERY
    LiveWithin,     \* LIVE_WITHIN_SECONDS
    BeatEvery,      \* the clients' interval: while played, a beat this often
    WriteLag,       \* at most this long from reading the clock to the upsert
    MaxFails,       \* bound: upserts that fail, and processes that restart
    Horizon         \* bound: the clock stops here

ASSUME LivePlayAssumption ==
    /\ ProcessOf \in [Handlers -> Processes]
    /\ MarkEvery \in Nat \ {0} /\ LiveWithin \in Nat \ {0} /\ BeatEvery \in Nat \ {0}
    /\ WriteLag \in Nat /\ MaxFails \in Nat /\ Horizon \in Nat

Never == -1
Time  == Nat \cup {Never}

VARIABLES
    now,
    played,         \* members' clients are beating
    lastBeat,       \* when a beat last reached a process
    at,             \* [Handlers -> Time]: the clock its beat read, Never when idle
    wrote,          \* [Handlers -> BOOLEAN]: the upsert is done, the note is not
    marked,         \* MARKED: [Processes -> Time]
    stored,         \* world_live_play.last_beat_at, Never when there is no row
    fails           \* upserts that failed and processes that restarted

vars == <<now, played, lastBeat, at, wrote, marked, stored, fails>>

TypeOK ==
    /\ now \in Nat
    /\ played \in BOOLEAN
    /\ lastBeat \in Nat
    /\ at \in [Handlers -> Time]
    /\ wrote \in [Handlers -> BOOLEAN]
    /\ marked \in [Processes -> Time]
    /\ stored \in Time
    /\ fails \in 0 .. MaxFails

Init ==
    /\ now = 0
    /\ played = TRUE
    /\ lastBeat = 0
    /\ at = [h \in Handlers |-> Never]
    /\ wrote = [h \in Handlers |-> FALSE]
    /\ marked = [p \in Processes |-> Never]
    /\ stored = Never
    /\ fails = 0

-----------------------------------------------------------------------------
(* mark_live *)

RecentlyMarked(p) == marked[p] # Never /\ now - marked[p] < MarkEvery

\* A beat is handled, and throttled by this process.
BeatSkipped(h) ==
    /\ played
    /\ at[h] = Never
    /\ RecentlyMarked(ProcessOf[h])
    /\ lastBeat' = now
    /\ UNCHANGED <<now, played, at, wrote, marked, stored, fails>>

Beat_NotesFirst(h) ==
    /\ played
    /\ at[h] = Never
    /\ ~RecentlyMarked(ProcessOf[h])
    /\ lastBeat' = now
    /\ at' = [at EXCEPT ![h] = now]
    /\ marked' = [marked EXCEPT ![ProcessOf[h]] = now]
    /\ UNCHANGED <<now, played, wrote, stored, fails>>

\* A beat is handled, and goes on to the upsert.
Beat(h) ==
    /\ played
    /\ at[h] = Never
    /\ ~RecentlyMarked(ProcessOf[h])
    /\ lastBeat' = now
    /\ at' = [at EXCEPT ![h] = now]
    /\ UNCHANGED <<now, played, wrote, marked, stored, fails>>

Upsert_Unconditional(h) ==
    /\ at[h] # Never /\ ~wrote[h]
    /\ stored' = now
    /\ wrote' = [wrote EXCEPT ![h] = TRUE]
    /\ UNCHANGED <<now, played, lastBeat, at, marked, fails>>
Upsert_StoresCutoff(h) ==
    /\ at[h] # Never /\ ~wrote[h]
    /\ stored' = IF stored = Never \/ stored < now - MarkEvery THEN now - MarkEvery ELSE stored
    /\ wrote' = [wrote EXCEPT ![h] = TRUE]
    /\ UNCHANGED <<now, played, lastBeat, at, marked, fails>>

\* The conditional upsert. A mark that another handler wrote MarkEvery ago or
\* later is left as it is.
Upsert(h) ==
    /\ at[h] # Never /\ ~wrote[h]
    /\ stored' = IF stored = Never \/ stored < now - MarkEvery THEN now ELSE stored
    /\ wrote' = [wrote EXCEPT ![h] = TRUE]
    /\ UNCHANGED <<now, played, lastBeat, at, marked, fails>>

\* The upsert fails: no note is taken and the beat succeeds all the same.
UpsertFails(h) ==
    /\ at[h] # Never /\ ~wrote[h]
    /\ fails < MaxFails
    /\ fails' = fails + 1
    /\ at' = [at EXCEPT ![h] = Never]
    /\ UNCHANGED <<now, played, lastBeat, wrote, marked, stored>>

\* remember_mark, whether or not the upsert changed the row.
RememberMark(h) ==
    /\ wrote[h]
    /\ marked' = [marked EXCEPT ![ProcessOf[h]] = at[h]]
    /\ at' = [at EXCEPT ![h] = Never]
    /\ wrote' = [wrote EXCEPT ![h] = FALSE]
    /\ UNCHANGED <<now, played, lastBeat, stored, fails>>

\* live_among
InLivePlay_NoWindow == stored # Never
InLivePlay == stored # Never /\ stored > now - LiveWithin

-----------------------------------------------------------------------------
Stop ==
    /\ played
    /\ played' = FALSE
    /\ UNCHANGED <<now, lastBeat, at, wrote, marked, stored, fails>>

\* A process restarts: its throttle is empty again, the beats it was handling
\* are gone.
RestartProcess(p) ==
    /\ fails < MaxFails
    /\ fails' = fails + 1
    /\ marked' = [marked EXCEPT ![p] = Never]
    /\ at' = [h \in Handlers |-> IF ProcessOf[h] = p THEN Never ELSE at[h]]
    /\ wrote' = [h \in Handlers |-> ProcessOf[h] # p /\ wrote[h]]
    /\ UNCHANGED <<now, played, lastBeat, stored>>

Tick ==
    /\ now < Horizon
    /\ played => now < lastBeat + BeatEvery
    /\ \A h \in Handlers : at[h] # Never => now < at[h] + WriteLag
    /\ now' = now + 1
    /\ UNCHANGED <<played, lastBeat, at, wrote, marked, stored, fails>>

HandlerStep(h) ==
    BeatSkipped(h) \/ Beat(h) \/ Upsert(h) \/ UpsertFails(h) \/ RememberMark(h)

Next ==
    \/ \E h \in Handlers : HandlerStep(h)
    \/ \E p \in Processes : RestartProcess(p)
    \/ Stop
    \/ Tick

Spec == Init /\ [][Next]_vars

-----------------------------------------------------------------------------
(* Properties *)

\* While a world is beaten its mark is renewed, at the latest two throttles and
\* one beat after the last one: an upsert that changed nothing still throttles
\* its process. A failed write or a restart delays that by one beat, not by
\* another throttle ("tried again on the next beat rather than 30 seconds
\* later"). However many processes there are, and whichever the beats reach.
MarkGapBounded ==
    played /\ stored # Never =>
        now - stored <= 2 * MarkEvery + (1 + MaxFails) * (BeatEvery + WriteLag)

\* A world that nobody beats any more is not in live play for longer than the
\* window: no late handler, note or restart keeps it alive.
QuietWorldIsNotLive == InLivePlay => now - lastBeat < LiveWithin + WriteLag

\* However many clients and processes a world has, its row is written at most
\* once in MarkEvery (live_play.rs: "one row update every 30 seconds").
OneWritePerThrottle ==
    [][stored # Never /\ stored' # stored => stored' - stored > MarkEvery]_vars

\* The parts of the inductive invariant. The clocks: beats are no older than the
\* delays allow, and the mark comes from one of them.
ClocksAgree ==
    /\ lastBeat <= now
    /\ played => now <= lastBeat + BeatEvery
    /\ \A h \in Handlers : at[h] # Never => at[h] <= lastBeat /\ now <= at[h] + WriteLag
    /\ stored # Never => stored <= now /\ stored <= lastBeat + WriteLag

\* Whoever is throttled, or will be, owes it to a mark at most MarkEvery older.
ThrottleHasAMark ==
    /\ \A p \in Processes : marked[p] # Never =>
           stored # Never /\ marked[p] <= stored + MarkEvery
    /\ \A h \in Handlers : wrote[h] =>
           at[h] # Never /\ stored # Never /\ at[h] <= stored + MarkEvery

\* Past two throttles and what failures cost, a beat is on its way to renew the
\* mark.
Cost(n) == n * (BeatEvery + WriteLag)
Overdue(t) == t >= stored + 2 * MarkEvery + Cost(fails)
RenewalUnderway ==
    played /\ stored # Never /\ Overdue(lastBeat) =>
        \E h \in Handlers : at[h] # Never /\ ~wrote[h] /\ ~Overdue(at[h] - BeatEvery)

LiveInv == TypeOK /\ ClocksAgree /\ ThrottleHasAMark /\ RenewalUnderway
=============================================================================
