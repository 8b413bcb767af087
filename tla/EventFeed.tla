----------------------------- MODULE EventFeed -----------------------------
(***************************************************************************)
(* What live delivery of world events promises the rest of the server,     *)
(* with nothing about ids, cursors, polls or clocks: an event is written   *)
(* in a transaction, becomes stored when that commits, and is then handed  *)
(* to the fan-out by the delivery loop, if it is up: once and no more.     *)
(* A loop that (re)starts skips what was written before it started, or     *)
(* starts over and hands everything out again. Nothing else is ever        *)
(* skipped, and nothing else repeats an event.                             *)
(*                                                                         *)
(* EventDelivery.tla is the detailed specification that implements this.   *)
(***************************************************************************)
EXTENDS Naturals

CONSTANT Tx     \* the transactions that each record one world event

VARIABLES
    status,     \* [Tx -> Status]: where each event stands
    times,      \* [Tx -> Nat]: how often it was handed to the fan-out
    up          \* is the delivery loop past its start-up

vars == <<status, times, up>>

Status == {"unwritten", "open", "stored", "heard", "skipped", "discarded"}

TypeOK ==
    /\ status \in [Tx -> Status]
    /\ times \in [Tx -> Nat]
    /\ up \in BOOLEAN

Init ==
    /\ status = [t \in Tx |-> "unwritten"]
    /\ times = [t \in Tx |-> 0]
    /\ up = FALSE

\* The event's row is inserted by a transaction that is still open.
Write(t) ==
    /\ status[t] = "unwritten"
    /\ status' = [status EXCEPT ![t] = "open"]
    /\ UNCHANGED <<times, up>>

Store(t) ==
    /\ status[t] = "open"
    /\ status' = [status EXCEPT ![t] = "stored"]
    /\ UNCHANGED <<times, up>>

\* The transaction rolls back, whether or not the loop still waits for it.
Discard(t) ==
    /\ status[t] \in {"unwritten", "open", "skipped"}
    /\ status' = [status EXCEPT ![t] = "discarded"]
    /\ UNCHANGED <<times, up>>

\* The loop starts: all that is stored is history, and so may be what was
\* written and not yet committed.
Start ==
    /\ ~up
    /\ up' = TRUE
    /\ \E S \in SUBSET {t \in Tx : status[t] = "open"} :
          status' = [t \in Tx |-> IF status[t] = "stored" \/ t \in S
                                  THEN "skipped" ELSE status[t]]
    /\ UNCHANGED times

\* The loop starts and does not know where the table ends: all that was heard
\* or skipped is owed again. S: of that, what has yet to commit.
StartOver ==
    /\ ~up
    /\ up' = TRUE
    /\ \E S \in SUBSET {t \in Tx : status[t] = "skipped"} :
          status' = [t \in Tx |->
                        IF t \in S THEN "open"
                        ELSE IF status[t] \in {"heard", "skipped"} THEN "stored"
                        ELSE status[t]]
    /\ UNCHANGED times

Stop ==
    /\ up
    /\ up' = FALSE
    /\ UNCHANGED <<status, times>>

\* One pass of the loop hands over some stored events, each of them once.
Hear ==
    /\ up
    /\ \E S \in SUBSET {t \in Tx : status[t] = "stored"} :
          /\ status' = [t \in Tx |-> IF t \in S THEN "heard" ELSE status[t]]
          /\ times' = [t \in Tx |-> IF t \in S THEN times[t] + 1 ELSE times[t]]
    /\ UNCHANGED up

Next ==
    \/ \E t \in Tx : Write(t) \/ Store(t) \/ Discard(t)
    \/ Start
    \/ StartOver
    \/ Stop
    \/ Hear

Spec == Init /\ [][Next]_vars

\* A stored event is handed over in the end, unless a restart made it history.
EventuallyHeard ==
    \A t \in Tx : (status[t] = "stored") ~> (status[t] \in {"heard", "skipped"})
=============================================================================
