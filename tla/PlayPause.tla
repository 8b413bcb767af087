----------------------------- MODULE PlayPause -----------------------------
(***************************************************************************)
(* Pausing a world's play: operators that pause and lift                   *)
(* (play_pause/mod.rs), takedowns that raise a request and operators that  *)
(* decide it (play_pause/requests.rs), all of them at once, for one world. *)
(*                                                                         *)
(* A call is one database transaction and each statement of it one step,   *)
(* as READ COMMITTED runs them: a statement sees what is committed when it *)
(* runs and what its own transaction wrote; an INSERT that meets a row of  *)
(* an open transaction under a unique index, and an UPDATE that meets one  *)
(* such a transaction updated, wait for it to end. A call may fail at any  *)
(* statement, which rolls all of it back.                                  *)
(*                                                                         *)
(* A row is named by the call that inserted it. Grounds, names and notes   *)
(* are left out (a call with blank grounds does nothing); a trigger is the *)
(* moderation action it names, or NoAction for an operator's.              *)
(*                                                                         *)
(* A definition whose name ends in _<Defect> is the one below it as a      *)
(* plausible defect would leave it; no specification uses it.              *)
(***************************************************************************)
EXTENDS Integers, FiniteSets

CONSTANTS
    Pausers,        \* calls of pause_world
    Lifters,        \* calls of lift_pause
    Raisers,        \* calls of raise
    Approvers,      \* calls of decide with Decision::Approve
    Decliners,      \* calls of decide with Decision::Decline
    Actions,        \* moderation actions
    ActionOf,       \* [Raisers -> Actions]: a retried raise names the same one
    NoAction,       \* the moderation_action_id of an operator's trigger
    None            \* no row

Deciders == Approvers \cup Decliners
Calls    == Pausers \cup Lifters \cup Raisers \cup Deciders

ASSUME PlayPauseAssumption ==
    /\ IsFiniteSet(Calls) /\ None \notin Calls
    /\ ActionOf \in [Raisers -> Actions] /\ NoAction \notin Actions
    /\ Pausers \cap (Lifters \cup Raisers \cup Deciders) = {}
    /\ Lifters \cap (Raisers \cup Deciders) = {}
    /\ Raisers \cap Deciders = {}
    /\ Approvers \cap Decliners = {}

VARIABLES
    at,         \* [Calls -> Step]: the statement the call runs next
    pass,       \* [Calls -> 0 .. 1]: loops of `for _ in 0..2` that are over
    row,        \* [Calls -> Calls \cup {None}]: the pause or request it goes on with
    todo,       \* [Calls -> SUBSET ...]: the triggers it has yet to attach
    pauses,     \* calls that inserted a pause
    lifted,     \* the pauses that are lifted
    requests,   \* calls that inserted a request
    decider,    \* [Calls -> Calls \cup {None}]: who updated the request, if anyone
    triggers,   \* trigger rows
    events,     \* calls that recorded event 28
    before      \* [Calls -> record]: what was lifted and recorded when it began

vars == <<at, pass, row, todo, pauses, lifted, requests, decider, triggers, events, before>>
tables == <<pauses, lifted, requests, decider, triggers, events>>

Step == {"new", "check", "insert", "find", "gather", "attach", "commit", "done", "failed"}
Owner == {"request", "pause"} \X Calls
Trigger == [on : Owner, action : Actions \cup {NoAction}, by : Calls]

TypeOK ==
    /\ at \in [Calls -> Step]
    /\ pass \in [Calls -> 0 .. 1]
    /\ row \in [Calls -> Calls \cup {None}]
    /\ todo \in [Calls -> SUBSET (Actions \cup {NoAction})]
    /\ pauses \in SUBSET Calls
    /\ lifted \in SUBSET pauses
    /\ requests \in SUBSET Calls
    /\ decider \in [Calls -> Deciders \cup {None}]
    /\ triggers \in SUBSET Trigger
    /\ events \in SUBSET Calls
    /\ before \in [Calls -> [lifted : SUBSET Calls, triggers : SUBSET Trigger]]

Init ==
    /\ at = [c \in Calls |-> "new"]
    /\ pass = [c \in Calls |-> 0]
    /\ row = [c \in Calls |-> None]
    /\ todo = [c \in Calls |-> {}]
    /\ pauses = {} /\ lifted = {} /\ requests = {}
    /\ decider = [r \in Calls |-> None]
    /\ triggers = {} /\ events = {}
    /\ before = [c \in Calls |-> [lifted |-> {}, triggers |-> {}]]

-----------------------------------------------------------------------------
(* What a statement sees, and what it waits for *)

Open(c) == at[c] \notin {"new", "done", "failed"}
Sees_OtherConnection(c, writer) == ~Open(writer)
Sees(c, writer) == writer = c \/ ~Open(writer)

\* world_play_pauses_one_active. A lift is one statement and is never open.
ActivePause(c) == {p \in pauses \ lifted : Sees(c, p)}
PauseIndexBusy(c) == \E p \in pauses : ~Sees(c, p)

\* A request is what its decider made it once that transaction has ended.
StateOf(c, r) ==
    IF decider[r] = None \/ ~Sees(c, decider[r]) THEN "Pending"
    ELSE IF decider[r] \in Approvers THEN "Approved" ELSE "Declined"
VisibleRequests(c) == {r \in requests : Sees(c, r)}
PendingRequest(c) == {r \in VisibleRequests(c) : StateOf(c, r) = "Pending"}

\* world_play_pause_requests_one_pending: the row of an open raise, or one that
\* an open decision is about to take out of the index.
RequestIndexBusy(c) ==
    \E r \in requests : ~Sees(c, r) \/ (decider[r] # None /\ ~Sees(c, decider[r]))

\* world_play_pause_triggers_once_per_request and _once_per_pause. NULLs never
\* conflict.
SameTrigger_AnyOwner(t, owner, a) == a # NoAction /\ t.action = a
SameTrigger(t, owner, a) == a # NoAction /\ t.on = owner /\ t.action = a
TriggerBusy(c, owner, a) == \E t \in triggers : SameTrigger(t, owner, a) /\ ~Sees(c, t.by)
WithTrigger(c, owner, a) ==
    IF \E t \in triggers : SameTrigger(t, owner, a) THEN triggers
    ELSE triggers \cup {[on |-> owner, action |-> a, by |-> c]}

ActionsOn(owner, c) == {t.action : t \in {u \in triggers : u.on = owner /\ Sees(c, u.by)}}

-----------------------------------------------------------------------------
Goto(c, step) == at' = [at EXCEPT ![c] = step]
Remember(c) ==
    before' = [before EXCEPT ![c] =
        [lifted |-> lifted, triggers |-> {t \in triggers : ~Open(t.by)}]]

RollBack_KeepsDecision(c) ==
    /\ Goto(c, "failed")
    /\ pauses' = pauses \ {c}
    /\ requests' = requests \ {c}
    /\ triggers' = {t \in triggers : t.by # c}
    /\ events' = events \ {c}
    /\ row' = [row EXCEPT ![c] = None]
    /\ todo' = [todo EXCEPT ![c] = {}]
    /\ UNCHANGED <<pass, lifted, decider, before>>

\* What the call wrote is gone.
RollBack(c) ==
    /\ Goto(c, "failed")
    /\ pauses' = pauses \ {c}
    /\ requests' = requests \ {c}
    /\ decider' = [r \in Calls |-> IF decider[r] = c THEN None ELSE decider[r]]
    /\ triggers' = {t \in triggers : t.by # c}
    /\ events' = events \ {c}
    /\ row' = [row EXCEPT ![c] = None]
    /\ todo' = [todo EXCEPT ![c] = {}]
    /\ UNCHANGED <<pass, lifted, before>>

\* A statement or the connection fails.
Fail(c) == Open(c) /\ RollBack(c)

Begin(c, step) ==
    /\ at[c] = "new"
    /\ Goto(c, step)
    /\ Remember(c)
    /\ UNCHANGED <<pass, row, todo, tables>>

Commit(c) ==
    /\ at[c] = "commit"
    /\ Goto(c, "done")
    /\ UNCHANGED <<pass, row, todo, before, tables>>

\* The loop's second turn, or its error after that.
TryAgain(c, step) ==
    IF pass[c] = 0
    THEN /\ Goto(c, step)
         /\ pass' = [pass EXCEPT ![c] = 1]
         /\ UNCHANGED <<row, todo, before, tables>>
    ELSE RollBack(c)

-----------------------------------------------------------------------------
(* pause_in: the body of pause_world, and of an approval *)

BeginPause(c) == c \in Pausers /\ Begin(c, "insert")

\* INSERT .. ON CONFLICT DO NOTHING, and what follows at once if it stood. A
\* direct pause gets its trigger; an approved one has its request's.
PauseInsert(c) ==
    /\ c \in Pausers \cup Approvers
    /\ at[c] = "insert"
    /\ ~PauseIndexBusy(c)
    /\ IF ActivePause(c) = {}
       THEN /\ Goto(c, "commit")
            /\ pauses' = pauses \cup {c}
            /\ events' = events \cup {c}
            /\ triggers' = IF c \in Pausers
                           THEN WithTrigger(c, <<"pause", c>>, NoAction) ELSE triggers
            /\ todo' = [todo EXCEPT ![c] = {}]
       ELSE Goto(c, "find") /\ UNCHANGED <<pauses, events, triggers, todo>>
    /\ UNCHANGED <<pass, row, lifted, requests, decider, before>>

\* The pause the insert lost to, unless it was lifted in the moment between.
\* The call's grounds go onto it as an operator's trigger, and then what an
\* approved request gathered.
PauseFind(c) ==
    /\ c \in Pausers \cup Approvers
    /\ at[c] = "find"
    /\ \/ \E p \in ActivePause(c) :
              /\ Goto(c, "attach")
              /\ row' = [row EXCEPT ![c] = p]
              /\ todo' = [todo EXCEPT ![c] = @ \cup {NoAction}]
              /\ UNCHANGED <<pass, before, tables>>
       \/ ActivePause(c) = {} /\ TryAgain(c, "insert")

\* attach_trigger and insert_trigger, one trigger at a time.
AttachTo(c, owner) ==
    /\ at[c] = "attach"
    /\ \E a \in todo[c] :
           /\ ~TriggerBusy(c, owner, a)
           /\ triggers' = WithTrigger(c, owner, a)
           /\ todo' = [todo EXCEPT ![c] = @ \ {a}]
           /\ Goto(c, IF todo'[c] = {} THEN "commit" ELSE "attach")
    /\ UNCHANGED <<pass, row, pauses, lifted, requests, decider, events, before>>

PauseAttach(c) == c \in Pausers \cup Approvers /\ AttachTo(c, <<"pause", row[c]>>)

-----------------------------------------------------------------------------
(* lift_pause: one conditional update, its own transaction *)

Lift_BeforeCommit(c) ==
    /\ c \in Lifters
    /\ at[c] = "new"
    /\ \E p \in pauses :
           /\ row' = [row EXCEPT ![c] = p]
           /\ lifted' = lifted \cup {p}
           /\ Goto(c, IF p \in lifted THEN "failed" ELSE "done")
    /\ UNCHANGED <<pass, todo, pauses, requests, decider, triggers, events, before>>

\* Zero rows back is a pause somebody else lifted: AlreadyLifted.
Lift(c) ==
    /\ c \in Lifters
    /\ at[c] = "new"
    /\ \E p \in {q \in pauses : Sees(c, q)} :
           /\ row' = [row EXCEPT ![c] = p]
           /\ lifted' = lifted \cup {p}
           /\ Goto(c, IF p \in lifted THEN "failed" ELSE "done")
    /\ UNCHANGED <<pass, todo, pauses, requests, decider, triggers, events, before>>

-----------------------------------------------------------------------------
(* raise *)

\* The takedown hooks raise for a world in live play only; for another there is
\* no call.
BeginRaise(c) == c \in Raisers /\ Begin(c, "check")

RaiseCheck_AnyPause(c) ==
    /\ c \in Raisers
    /\ at[c] = "check"
    /\ LET found == {p \in pauses : Sees(c, p)} IN
       \/ \E p \in found :
              /\ Goto(c, "attach")
              /\ row' = [row EXCEPT ![c] = p]
              /\ todo' = [todo EXCEPT ![c] = {ActionOf[c]}]
       \/ found = {} /\ Goto(c, "insert") /\ UNCHANGED <<row, todo>>
    /\ UNCHANGED <<pass, before, tables>>

\* active_pause_id: a paused world takes the trigger onto its pause.
RaiseCheck(c) ==
    /\ c \in Raisers
    /\ at[c] = "check"
    /\ \/ \E p \in ActivePause(c) :
              /\ Goto(c, "attach")
              /\ row' = [row EXCEPT ![c] = p]
              /\ todo' = [todo EXCEPT ![c] = {ActionOf[c]}]
       \/ ActivePause(c) = {} /\ Goto(c, "insert") /\ UNCHANGED <<row, todo>>
    /\ UNCHANGED <<pass, before, tables>>

\* INSERT .. ON CONFLICT DO NOTHING
RaiseInsert(c) ==
    /\ c \in Raisers
    /\ at[c] = "insert"
    /\ ~RequestIndexBusy(c)
    /\ requests' = IF PendingRequest(c) = {} THEN requests \cup {c} ELSE requests
    /\ Goto(c, "find")
    /\ UNCHANGED <<pass, row, todo, pauses, lifted, decider, triggers, events, before>>

RaiseFind(c) ==
    /\ c \in Raisers
    /\ at[c] = "find"
    /\ \/ \E r \in PendingRequest(c) :
              /\ Goto(c, "attach")
              /\ row' = [row EXCEPT ![c] = r]
              /\ todo' = [todo EXCEPT ![c] = {ActionOf[c]}]
              /\ UNCHANGED <<pass, before, tables>>
       \/ PendingRequest(c) = {} /\ TryAgain(c, "check")

RaiseAttach(c) ==
    /\ c \in Raisers
    /\ AttachTo(c, IF row[c] \in requests THEN <<"request", row[c]>> ELSE <<"pause", row[c]>>)

-----------------------------------------------------------------------------
(* decide *)

\* The row was updated here: a decline is over, an approval goes on.
Won(c, r) ==
    /\ decider' = [decider EXCEPT ![r] = c]
    /\ Goto(c, IF c \in Approvers THEN "gather" ELSE "commit")

Decide_AnyState(c) ==
    /\ c \in Deciders
    /\ at[c] = "new"
    /\ \E r \in VisibleRequests(c) :
           /\ decider[r] # None => Sees(c, decider[r])
           /\ row' = [row EXCEPT ![c] = r]
           /\ Won(c, r)
    /\ Remember(c)
    /\ UNCHANGED <<pass, todo, pauses, lifted, requests, triggers, events>>

\* UPDATE .. WHERE state = 'Pending', which waits for another decision of the
\* row and looks again. A call that comes second changes nothing and reads back
\* what was decided.
Decide(c) ==
    /\ c \in Deciders
    /\ at[c] = "new"
    /\ \E r \in VisibleRequests(c) :
           /\ decider[r] # None => Sees(c, decider[r])
           /\ row' = [row EXCEPT ![c] = r]
           /\ \/ decider[r] = None /\ Won(c, r)
              \/ decider[r] # None /\ Goto(c, "done") /\ UNCHANGED decider
    /\ Remember(c)
    /\ UNCHANGED <<pass, todo, pauses, lifted, requests, triggers, events>>

Gather_Forgets(c) ==
    /\ at[c] = "gather"
    /\ Goto(c, "insert")
    /\ UNCHANGED <<pass, row, todo, before, tables>>

\* triggers_of_request, before pause_in.
Gather(c) ==
    /\ at[c] = "gather"
    /\ todo' = [todo EXCEPT ![c] = ActionsOn(<<"request", row[c]>>, c)]
    /\ Goto(c, "insert")
    /\ UNCHANGED <<pass, row, before, tables>>

-----------------------------------------------------------------------------
\* The statements of a call that has begun.
Statement(c) ==
    \/ PauseInsert(c) \/ PauseFind(c) \/ PauseAttach(c)
    \/ RaiseCheck(c) \/ RaiseInsert(c) \/ RaiseFind(c) \/ RaiseAttach(c)
    \/ Gather(c)
    \/ Commit(c)

Next ==
    \E c \in Calls :
        \/ BeginPause(c) \/ BeginRaise(c) \/ Decide(c) \/ Lift(c)
        \/ Statement(c)
        \/ Fail(c)

Spec == Init /\ [][Next]_vars

\* A call runs its statements one after the other; only the database can hold
\* it up.
FairSpec == Spec /\ \A c \in Calls : WF_vars(Statement(c))

-----------------------------------------------------------------------------
(* Properties *)

Decided(r) == decider[r] # None /\ ~Open(decider[r])
Recorded(owner) == {t \in triggers : t.on = owner /\ ~Open(t.by)}

\* "a request is never approved without a pause, nor a pause made for a request
\* left pending" (requests.rs), and a pause always has its event: whichever
\* statement fails.
ApprovedIsPaused ==
    /\ \A r \in requests : Decided(r) /\ decider[r] \in Approvers =>
           LET c == decider[r] IN
           c \in pauses \/ \E t \in triggers : t.by = c /\ t.on[1] = "pause"
    /\ \A c \in pauses \cap Approvers : \E r \in requests : decider[r] = c
    /\ events = pauses

\* A call that finds the world paused never records its trigger on a pause that
\* was lifted before the call began: the world really was paused meanwhile.
NeverAnOldPause ==
    \A t \in triggers : t.on[1] = "pause" => t.on[2] \notin before[t.by].lifted

\* A raise that succeeded has its moderation action on the request or the pause
\* it names, also when it is retried and both run at once or the other fails.
RaisedIsRecorded ==
    \A c \in Raisers : at[c] = "done" =>
        \E t \in triggers : t.action = ActionOf[c] /\ t.on[2] = row[c] /\ ~Open(t.by)

\* A request approved onto a world already paused leaves none of its triggers
\* behind (FR-036): what it had gathered when it was decided is on that pause.
GatheredTriggersMove ==
    \A r \in requests : LET c == decider[r] IN
        Decided(r) /\ c \in Approvers \ pauses =>
            \A t \in before[c].triggers : t.on = <<"request", r>> =>
                \E u \in triggers : u.on = <<"pause", row[c]>> /\ u.action = t.action

\* Two operators deciding one request at once: one decision stands, for good.
DecisionIsFinal ==
    [][\A r \in requests : Decided(r) => decider'[r] = decider[r]]_vars

\* No set of calls ends up waiting for each other in the database: a call begins
\* once, and there comes a time from which none is open.
EveryCallEnds == <>[](\A c \in Calls : ~Open(c))

\* A request "gathers what led to it - every trigger raised for its world while
\* it waits" (requests.rs): once it is decided nothing is added that the
\* operator who decided it could not have seen.
GathersOnlyWhileItWaits ==
    [][\A r \in requests : Decided(r) =>
          Recorded(<<"request", r>>)' \subseteq Recorded(<<"request", r>>)]_vars
=============================================================================
