----------------------------- MODULE Reconcile -----------------------------
(***************************************************************************)
(* Work done offline and its replay, for one world: the outbox of each     *)
(* browser (cache-browser/src/outbox.rs), the page that drains it          *)
(* (engine/world/sync/offlineQueue.ts) and the server that settles what    *)
(* it is sent (graphql/mutations_reconcile.rs), all of them at once.       *)
(*                                                                         *)
(* A change is a queued move of one token, or a queued attack by it. What  *)
(* it moves the token to, the disclosed discrepancies and the movement a   *)
(* move spends are left out: none of them decides an outcome. Whose turn   *)
(* it is belongs to combat: a turn refusal may happen to any player.       *)
(* Each await of the page and each database statement or lock of the       *)
(* server is a step of its own; requests run at once on the server's       *)
(* threads.                                                                *)
(*                                                                         *)
(* A definition whose name ends in _<Defect> is the one below it as a      *)
(* plausible defect would leave it; no specification uses it.              *)
(***************************************************************************)
EXTENDS Integers, FiniteSets, Sequences, SequencesExt

CONSTANTS
    Clients,        \* pages, each of its own user and browser
    GameMasters,    \* the ones whose user runs the world
    Tokens,
    Changes,
    Casts,          \* whose tokens and changes they may be, and which are attacks
    TokenOf,        \* [Changes -> Tokens]
    KeyOf,          \* [Changes -> Nat]: local ids in IndexedDB's key order
    MaxPasses,      \* MAX_DRAIN_PASSES
    MaxFaults,      \* bound on failures, crashes and changes of the world
    None

Role == {"GameMaster", "Player"}
Mark == [role : Role, seq : Nat]

ASSUME ReconcileAssumption ==
    /\ IsFiniteSet(Clients) /\ IsFiniteSet(Changes)
    /\ None \notin Nat \cup Mark
    /\ GameMasters \subseteq Clients
    /\ TokenOf \in [Changes -> Tokens]
    /\ \A x \in Casts : x.owner \in [Tokens -> Clients] /\ x.author \in [Changes -> Clients] /\ x.attacks \subseteq Changes
    /\ KeyOf \in [Changes -> Nat]
    /\ \A c, d \in Changes : KeyOf[c] = KeyOf[d] => c = d
    /\ MaxPasses \in Nat \ {0} /\ MaxFaults \in Nat

\* A page waits for one request; the others at the server are ones it gave up.
Calls == Clients \X (1 .. MaxFaults + 1)

VARIABLES
    author,     \* [Changes -> Clients]: whose change it is
    attacks,    \* the changes that are attack intents
    offline,    \* [Clients -> BOOLEAN]: heartbeat.ts's `offline`
    edit,       \* [Changes -> EditState]
    outbox,     \* [Changes -> Nat \cup {None}]: enqueued_seq of a stored row
    drawn,      \* [Changes -> Nat]: the sequence number an append goes on with
    drain,      \* [Clients -> record]: reconcileWorld's call in flight
    heard,      \* [Changes -> SUBSET Outcome]: what the page was answered
    call,       \* [Calls -> record]: the request at the server
    next_seq,   \* ReconcileMarks.next_seq
    marks,      \* [Tokens -> Mark \cup {None}]: ReconcileMarks.marks
    log,        \* changes carried out, in order
    since,      \* how many of them an earlier process of the server did
    overlap,    \* tokens that two requests at work on them at once name
    owner,      \* [Tokens -> Clients]: owner_user_id
    gone,       \* tokens that were deleted
    paused,     \* play in the world is paused
    removed,    \* clients whose user is no longer a member
    faults

pageVars == <<offline, edit, outbox, drawn, drain, heard>>
serverVars == <<call, next_seq, marks, log, since, overlap>>
worldVars == <<owner, gone, paused, removed, author, attacks>>
vars == <<pageVars, serverVars, worldVars, faults>>

EditState == {"none", "writing", "queued", "failed"}
Outcome == {"applied", "PermissionDenied", "Superseded", "GoneAway", "Invalid",
            "PlayPaused", "NotYourTurn"}
CallState == {"none", "admit", "check", "weigh", "write", "mark", "reply", "error"}
Call == [at : CallState, todo : Seq(Changes), seq : Nat, out : SUBSET (Changes \X Outcome)]
Drain == [at : {"idle", "read", "sent", "forget"}, pass : 0 .. MaxPasses,
          sent : SUBSET Changes, call : 0 .. MaxFaults + 1,
          answer : SUBSET (Changes \X Outcome)]

NoCall == [at |-> "none", todo |-> <<>>, seq |-> 0, out |-> {}]
NoDrain == [at |-> "idle", pass |-> 0, sent |-> {}, call |-> 0, answer |-> {}]

TypeOK ==
    /\ author \in [Changes -> Clients] /\ attacks \subseteq Changes
    /\ offline \in [Clients -> BOOLEAN]
    /\ edit \in [Changes -> EditState]
    /\ outbox \in [Changes -> Nat \cup {None}]
    /\ drawn \in [Changes -> Nat]
    /\ drain \in [Clients -> Drain]
    /\ heard \in [Changes -> SUBSET Outcome]
    /\ call \in [Calls -> Call]
    /\ next_seq \in Nat
    /\ marks \in [Tokens -> Mark \cup {None}]
    /\ log \in Seq(Changes) /\ since \in 0 .. Len(log)
    /\ owner \in [Tokens -> Clients]
    /\ overlap \subseteq Tokens /\ gone \subseteq Tokens
    /\ paused \in BOOLEAN /\ removed \subseteq Clients
    /\ faults \in 0 .. MaxFaults

Init ==
    /\ \E x \in Casts : author = x.author /\ attacks = x.attacks /\ owner = x.owner
    /\ offline = [p \in Clients |-> TRUE]
    /\ edit = [c \in Changes |-> "none"]
    /\ outbox = [c \in Changes |-> None]
    /\ drawn = [c \in Changes |-> 0]
    /\ drain = [p \in Clients |-> NoDrain]
    /\ heard = [c \in Changes |-> {}]
    /\ call = [k \in Calls |-> NoCall]
    /\ next_seq = 0
    /\ marks = [t \in Tokens |-> None]
    /\ log = <<>> /\ since = 0
    /\ overlap = {} /\ gone = {} /\ paused = FALSE /\ removed = {}
    /\ faults = 0

Fault == faults < MaxFaults /\ faults' = faults + 1
NoFault == UNCHANGED faults

-----------------------------------------------------------------------------
(* The outbox *)

Mine(p) == {c \in Changes : author[c] = p}
Stored(c) == outbox[c] # None

next_seq_of_HighWater(p) ==
    LET held == {outbox[c] : c \in {d \in Mine(p) : Stored(d)}}
    IN  IF held = {} THEN 0 ELSE Max(held) - 1
\* One past the highest sequence number the browser holds.
next_seq_of(p) ==
    LET held == {outbox[c] : c \in {d \in Mine(p) : Stored(d)}}
    IN  IF held = {} THEN 0 ELSE Max(held) + 1

\* Rows come in key order and the sort is stable: equal numbers keep it.
replay_before(c, d) ==
    outbox[c] < outbox[d] \/ (outbox[c] = outbox[d] /\ KeyOf[c] < KeyOf[d])
replay_order(S) ==
    CHOOSE s \in SetToSeqs(S) : \A i, j \in DOMAIN s : i < j => replay_before(s[i], s[j])

\* queueEdit of an edit made while the heartbeat says offline. append reads
\* the rows for its number, then awaits the write.
QueueEdit(c) ==
    /\ offline[author[c]] /\ edit[c] = "none"
    /\ edit' = [edit EXCEPT ![c] = "writing"]
    /\ drawn' = [drawn EXCEPT ![c] = next_seq_of(author[c])]
    /\ NoFault /\ UNCHANGED <<offline, outbox, drain, heard, serverVars, worldVars>>

\* The write is over: the edit is reported queued, or it failed and was not made.
EditStored(c) ==
    /\ edit[c] = "writing"
    /\ \/ /\ edit' = [edit EXCEPT ![c] = "queued"]
          /\ outbox' = [outbox EXCEPT ![c] = drawn[c]]
          /\ NoFault
       \/ /\ edit' = [edit EXCEPT ![c] = "failed"]
          /\ UNCHANGED outbox
          /\ Fault
    /\ UNCHANGED <<offline, drawn, drain, heard, serverVars, worldVars>>

-----------------------------------------------------------------------------
(* The page: the heartbeat and the drain *)

StartDrain(p) ==
    drain' = IF drain[p].at = "idle" THEN [drain EXCEPT ![p] = [NoDrain EXCEPT !.at = "read"]] ELSE drain

\* Three beats in a row failed.
GoOffline(p) ==
    /\ ~offline[p] /\ offline' = [offline EXCEPT ![p] = TRUE]
    /\ Fault /\ UNCHANGED <<edit, outbox, drawn, drain, heard, serverVars, worldVars>>

GoOnline_Silent(p) ==
    /\ offline[p] /\ offline' = [offline EXCEPT ![p] = FALSE]
    /\ NoFault
    /\ UNCHANGED <<drain, edit, outbox, drawn, heard, serverVars, worldVars>>

\* A beat arrived. The listener reconciles, or joins the drain in flight.
GoOnline(p) ==
    /\ offline[p] /\ offline' = [offline EXCEPT ![p] = FALSE]
    /\ StartDrain(p)
    /\ NoFault /\ UNCHANGED <<edit, outbox, drawn, heard, serverVars, worldVars>>

\* The socket went live again, or the page leaves for the pause notice. A drain
\* that finds nothing does nothing.
OtherTrigger(p) ==
    /\ drain[p].at = "idle" /\ \E c \in Mine(p) : Stored(c)
    /\ StartDrain(p)
    /\ NoFault /\ UNCHANGED <<offline, edit, outbox, drawn, heard, serverVars, worldVars>>

\* The promise settles and `finally` forgets it. The report, and the revert of
\* what was refused, are the page's.
EndDrain(p) == drain' = [drain EXCEPT ![p] = NoDrain]

WaitsFor(p) == <<p, drain[p].call>>
FreeSlot(p) == Min({n \in 1 .. MaxFaults + 1 : call[<<p, n>>].at = "none"})

\* One pass: the rows this run has not sent yet go to the server.
ReadQueue(p) ==
    LET fresh == {c \in Mine(p) : Stored(c)} \ drain[p].sent IN
    /\ drain[p].at = "read"
    /\ \/ /\ fresh = {} \/ drain[p].pass = MaxPasses
          /\ EndDrain(p) /\ UNCHANGED call
       \/ /\ fresh # {} /\ drain[p].pass < MaxPasses
          /\ drain' = [drain EXCEPT ![p].at = "sent", ![p].sent = @ \cup fresh, ![p].call = FreeSlot(p)]
          /\ call' = [call EXCEPT ![<<p, FreeSlot(p)>>] =
                        [NoCall EXCEPT !.at = "admit", !.todo = replay_order(fresh)]]
    /\ NoFault
    /\ UNCHANGED <<offline, edit, outbox, drawn, heard, next_seq, marks, log, since, overlap, worldVars>>

\* readQueuedChanges answers a store it cannot read with no rows.
ReadFails(p) ==
    /\ drain[p].at = "read" /\ EndDrain(p)
    /\ Fault /\ UNCHANGED <<offline, edit, outbox, drawn, heard, serverVars, worldVars>>

\* The reply is read.
TakeReply(p) ==
    LET k == WaitsFor(p) IN
    /\ drain[p].at = "sent" /\ call[k].at \in {"reply", "error"}
    /\ call' = [call EXCEPT ![k] = NoCall]
    /\ \/ /\ call[k].at = "reply"
          /\ drain' = [drain EXCEPT ![p].at = "forget", ![p].answer = call[k].out]
          /\ heard' = [c \in Changes |-> heard[c] \cup {o \in Outcome : <<c, o>> \in call[k].out}]
       \/ /\ call[k].at = "error" /\ EndDrain(p) /\ UNCHANGED heard
    /\ NoFault /\ UNCHANGED <<offline, edit, outbox, drawn, next_seq, marks, log, since, overlap, worldVars>>

\* The request does not arrive, or its reply does not. Nothing is dropped.
LoseRequest(p) ==
    LET k == WaitsFor(p) IN
    /\ drain[p].at = "sent" /\ EndDrain(p)
    /\ \/ call[k].at = "admit" /\ call' = [call EXCEPT ![k] = NoCall]
       \/ UNCHANGED call
    /\ Fault /\ UNCHANGED <<offline, edit, outbox, drawn, heard, next_seq, marks, log, since, overlap, worldVars>>

Answered(p) == {c \in Changes : \E o \in Outcome : <<c, o>> \in drain[p].answer}

ForgetAnswered_WholeBatch(p) ==
    /\ drain[p].at = "forget"
    /\ outbox' = [c \in Changes |-> IF author[c] = p THEN None ELSE outbox[c]]
    /\ NoFault
    /\ drain' = [drain EXCEPT ![p].at = "read", ![p].pass = @ + 1, ![p].call = 0, ![p].answer = {}]
    /\ UNCHANGED <<offline, edit, drawn, heard, serverVars, worldVars>>

\* forget_resolved deletes the rows the server spoke of, and a delete that
\* fails leaves its row.
ForgetAnswered(p) ==
    /\ drain[p].at = "forget"
    /\ \E kept \in SUBSET Answered(p) :
          /\ outbox' = [c \in Changes |-> IF c \in Answered(p) \ kept THEN None ELSE outbox[c]]
          /\ IF kept = {} THEN NoFault ELSE Fault
    /\ drain' = [drain EXCEPT ![p].at = "read", ![p].pass = @ + 1, ![p].call = 0, ![p].answer = {}]
    /\ UNCHANGED <<offline, edit, drawn, heard, serverVars, worldVars>>

\* The page is closed or reloaded: its memory is gone and the outbox stays. An
\* edit that was not stored was never reported accepted.
Reload(p) ==
    /\ drain' = [drain EXCEPT ![p] = NoDrain]
    /\ offline' = [offline EXCEPT ![p] = FALSE]
    /\ edit' = [c \in Changes |-> IF author[c] = p /\ edit[c] = "writing" THEN "failed" ELSE edit[c]]
    /\ Fault /\ UNCHANGED <<outbox, drawn, heard, serverVars, worldVars>>

-----------------------------------------------------------------------------
(* The server: reconcile_queued_changes, a statement at a time *)

RoleOf(p) == IF p \in GameMasters THEN "GameMaster" ELSE "Player"

\* conflict::resolve: the mark that is held stands.
resolve_NoRoles(held, incoming) == held.seq <= incoming.seq /\ held.role = incoming.role
resolve(held, incoming) ==
    \/ held.role = "GameMaster" /\ incoming.role = "Player"
    \/ held.role = incoming.role /\ held.seq <= incoming.seq

AllAnswered(k, o) ==
    call' = [call EXCEPT ![k].at = "reply", ![k].todo = <<>>,
                         ![k].out = {<<c, o>> : c \in ToSet(call[k].todo)}]

TokensOf(k) == {TokenOf[c] : c \in ToSet(call[k].todo)}
AtWork(k) == call[k].at \in {"check", "weigh", "write", "mark"}

\* Membership, then the pause gate, then the reconnection's place in the order.
\* A membership that cannot be read is answered as none; a pause that cannot
\* be read is an error, and the changes stay queued.
AdmitRequest(k) ==
    /\ call[k].at = "admit"
    /\ \/ /\ k[1] \in removed /\ AllAnswered(k, "PermissionDenied")
          /\ NoFault /\ UNCHANGED <<next_seq, overlap>>
       \/ /\ k[1] \notin removed /\ paused /\ AllAnswered(k, "PlayPaused")
          /\ NoFault /\ UNCHANGED <<next_seq, overlap>>
       \/ /\ AllAnswered(k, "PermissionDenied")
          /\ Fault /\ UNCHANGED <<next_seq, overlap>>
       \/ /\ k[1] \notin removed
          /\ call' = [call EXCEPT ![k].at = "error", ![k].todo = <<>>]
          /\ Fault /\ UNCHANGED <<next_seq, overlap>>
       \/ /\ k[1] \notin removed /\ ~paused
          /\ call' = [call EXCEPT ![k].at = "check", ![k].seq = next_seq]
          /\ next_seq' = next_seq + 1
          /\ overlap' = overlap \cup
                (TokensOf(k) \cap UNION {TokensOf(j) : j \in {i \in Calls : AtWork(i)}})
          /\ NoFault
    /\ UNCHANGED <<pageVars, marks, log, since, worldVars>>

\* The change at the head is answered and the next one is taken up.
Settle(k, o) ==
    LET rest == Tail(call[k].todo) IN
    call' = [call EXCEPT ![k].at = IF rest = <<>> THEN "reply" ELSE "check",
                         ![k].todo = rest,
                         ![k].out = @ \cup {<<Head(call[k].todo), o>>}]

MayEdit(p, t) == p \in GameMasters \/ owner[t] = p

\* apply_one: the row, whose it is, and the turn. A Game Master is never held
\* by the turn, and a turn that cannot be read refuses the change. One step,
\* although the turn is a query of its own: combat is not modelled, so there is
\* nothing another actor could change before it.
CheckChange(k) ==
    LET c == Head(call[k].todo)
        t == TokenOf[c] IN
    /\ call[k].at = "check" /\ c \notin attacks
    /\ \/ t \in gone /\ Settle(k, "GoneAway") /\ NoFault
       \/ t \notin gone /\ ~MayEdit(k[1], t) /\ Settle(k, "PermissionDenied") /\ NoFault
       \/ t \notin gone /\ MayEdit(k[1], t) /\ k[1] \notin GameMasters
          /\ Settle(k, "NotYourTurn") /\ Fault
       \/ Settle(k, "Invalid") /\ Fault
       \/ t \notin gone /\ MayEdit(k[1], t)
          /\ call' = [call EXCEPT ![k].at = "weigh"] /\ NoFault
    /\ UNCHANGED <<pageVars, next_seq, marks, log, since, overlap, worldVars>>

\* existing_mark, and conflict::resolve against it.
WeighMark(k) ==
    LET held == marks[TokenOf[Head(call[k].todo)]]
        incoming == [role |-> RoleOf(k[1]), seq |-> call[k].seq]
        stands == held # None /\ resolve(held, incoming) IN
    /\ call[k].at = "weigh"
    /\ \/ stands /\ Settle(k, "Superseded")
       \/ ~stands /\ call' = [call EXCEPT ![k].at = "write"]
    /\ NoFault /\ UNCHANGED <<pageVars, next_seq, marks, log, since, overlap, worldVars>>

UpdateToken_IgnoresError(k) ==
    LET c == Head(call[k].todo) IN
    /\ call[k].at = "write"
    /\ call' = [call EXCEPT ![k].at = "mark"]
    /\ \/ log' = (IF TokenOf[c] \in gone THEN log ELSE Append(log, c)) /\ NoFault
       \/ UNCHANGED log /\ Fault
    /\ UNCHANGED <<pageVars, next_seq, marks, since, overlap, worldVars>>

\* The UPDATE. One that meets no row is no error.
UpdateToken(k) ==
    LET c == Head(call[k].todo) IN
    /\ call[k].at = "write"
    /\ \/ /\ call' = [call EXCEPT ![k].at = "mark"]
          /\ log' = IF TokenOf[c] \in gone THEN log ELSE Append(log, c)
          /\ NoFault
       \/ Settle(k, "Invalid") /\ UNCHANGED log /\ Fault
    /\ UNCHANGED <<pageVars, next_seq, marks, since, overlap, worldVars>>

RememberMark_Forgets(k) ==
    /\ call[k].at = "mark"
    /\ Settle(k, "applied")
    /\ NoFault /\ UNCHANGED <<marks, pageVars, next_seq, log, since, overlap, worldVars>>

\* remember_mark, the world event, and the outcome.
RememberMark(k) ==
    /\ call[k].at = "mark"
    /\ marks' = [marks EXCEPT ![TokenOf[Head(call[k].todo)]] =
                    [role |-> RoleOf(k[1]), seq |-> call[k].seq]]
    /\ Settle(k, "applied")
    /\ NoFault /\ UNCHANGED <<pageVars, next_seq, log, since, overlap, worldVars>>

\* apply_attack_intent: no mark is asked or left.
ApplyAttack(k) ==
    LET c == Head(call[k].todo)
        t == TokenOf[c] IN
    /\ call[k].at = "check" /\ c \in attacks
    /\ \/ t \in gone /\ Settle(k, "GoneAway") /\ UNCHANGED log /\ NoFault
       \/ t \notin gone /\ ~MayEdit(k[1], t) /\ Settle(k, "PermissionDenied")
          /\ UNCHANGED log /\ NoFault
       \/ /\ t \notin gone /\ MayEdit(k[1], t) /\ ~paused
          /\ Settle(k, "applied") /\ log' = Append(log, c) /\ NoFault
       \/ /\ t \notin gone /\ paused /\ Settle(k, "PlayPaused") /\ UNCHANGED log /\ NoFault
       \/ \E o \in {"NotYourTurn", "Invalid"} : Settle(k, o) /\ UNCHANGED log /\ Fault
    /\ UNCHANGED <<pageVars, next_seq, marks, since, overlap, worldVars>>

\* A reply nobody waits for any more.
DropReply(k) ==
    /\ call[k].at \in {"reply", "error"}
    /\ ~(drain[k[1]].at = "sent" /\ WaitsFor(k[1]) = k)
    /\ call' = [call EXCEPT ![k] = NoCall]
    /\ NoFault /\ UNCHANGED <<pageVars, next_seq, marks, log, since, overlap, worldVars>>

\* The process ends with the marks in it; what the database has stays.
Restart ==
    /\ call' = [k \in Calls |-> IF call[k].at = "none" THEN call[k]
                                ELSE [NoCall EXCEPT !.at = "error"]]
    /\ next_seq' = 0
    /\ marks' = [t \in Tokens |-> None]
    /\ since' = Len(log) /\ overlap' = {}
    /\ Fault /\ UNCHANGED <<log, pageVars, worldVars>>

\* What else happens in the world while the work waits.
ChangeWorld ==
    /\ \/ \E t \in Tokens \ gone : gone' = gone \cup {t} /\ UNCHANGED <<owner, paused, removed>>
       \/ \E t \in Tokens, p \in Clients :
             p # owner[t] /\ owner' = [owner EXCEPT ![t] = p] /\ UNCHANGED <<gone, paused, removed>>
       \/ paused' = ~paused /\ UNCHANGED <<owner, gone, removed>>
       \/ \E p \in Clients \ removed : removed' = removed \cup {p} /\ UNCHANGED <<owner, gone, paused>>
    /\ Fault /\ UNCHANGED <<author, attacks, pageVars, serverVars>>

-----------------------------------------------------------------------------
PageStep(p) == ReadQueue(p) \/ TakeReply(p) \/ ForgetAnswered(p)
ServerStep(k) ==
    \/ AdmitRequest(k) \/ CheckChange(k) \/ WeighMark(k) \/ UpdateToken(k) \/ RememberMark(k)
    \/ ApplyAttack(k) \/ DropReply(k)

Next ==
    \/ \E c \in Changes : QueueEdit(c) \/ EditStored(c)
    \/ \E p \in Clients : \/ GoOffline(p) \/ GoOnline(p) \/ OtherTrigger(p)
                          \/ PageStep(p) \/ ReadFails(p) \/ LoseRequest(p) \/ Reload(p)
    \/ \E k \in Calls : ServerStep(k)
    \/ Restart \/ ChangeWorld

Spec == Init /\ [][Next]_vars

\* Promises are resolved, requests are worked off, and a beat arrives again.
\* It is enough that some page and some request goes on: there are only so
\* many.
Fairness ==
    /\ WF_vars(\E p \in Clients : PageStep(p))
    /\ WF_vars(\E p \in Clients : GoOnline(p))
    /\ WF_vars(\E k \in Calls : ServerStep(k))

FairSpec == Spec /\ Fairness

-----------------------------------------------------------------------------
(* Properties *)

\* FR-037 and FR-041: an edit that was reported queued is in the outbox until
\* the server has spoken of it, whatever is lost, crashes or fails to be
\* deleted on the way.
NothingLost == \A c \in Changes : edit[c] = "queued" => Stored(c) \/ heard[c] # {}

\* An outcome `applied` is of a change that was carried out, unless its token
\* was deleted.
AppliedIsTrue ==
    \A c \in Changes : "applied" \in heard[c] => c \in ToSet(log) \/ TokenOf[c] \in gone

\* Moves of one token by one process of the server, an earlier and a later.
SettledPair(i, j) ==
    /\ since < i /\ i < j /\ TokenOf[log[i]] = TokenOf[log[j]]
    /\ TokenOf[log[i]] \notin overlap /\ {log[i], log[j]} \cap attacks = {}

\* FR-040: no player's replay lands on a Game Master's, whoever reconnected
\* first, as long as no two requests were at work on that token at once and the
\* server was not restarted.
GameMasterStands ==
    \A i, j \in DOMAIN log :
        SettledPair(i, j) /\ author[log[i]] \in GameMasters => author[log[j]] \in GameMasters

\* A move that is sent again after a lost reply, a failed delete or a reload is
\* not made again, on the same two conditions.
ResentMoveIsNotRepeated == \A i, j \in DOMAIN log : SettledPair(i, j) => log[i] # log[j]

\* What waits in the outbox of a page that is offline is answered once nothing
\* fails any more: the beat that arrives starts a drain that asks about it.
OfflineWorkIsAnswered ==
    \A c \in Changes :
        (/\ faults = MaxFaults /\ Stored(c)
         /\ offline[author[c]] /\ drain[author[c]].at = "idle") ~> heard[c] # {}

\* A client's own sequential edits do not work against each other: a change is
\* superseded by somebody else's.
OwnWorkStands ==
    \A c \in Changes :
        "Superseded" \in heard[c] =>
            \E d \in ToSet(log) : TokenOf[d] = TokenOf[c] /\ author[d] # author[c]
=============================================================================
