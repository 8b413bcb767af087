----------------------------- MODULE PlayField -----------------------------
(***************************************************************************)
(* Which window of an account is at the table: the in-process registry of  *)
(* play_field.rs and the `playField` stream that holds a claim             *)
(* (graphql/mutations_play_field.rs), for one account. Accounts share      *)
(* nothing but the two maps' locks.                                        *)
(*                                                                         *)
(* A stream is one `playField` subscription of one window; a window that   *)
(* takes the table back opens a new one. Opening a stream subscribes it to *)
(* the account's news, swaps the claim under the `accounts` lock and then  *)
(* announces it under the `listeners` lock: three steps that other streams *)
(* run between. Dropping a stream drops its guard, which removes the claim *)
(* under one lock and announces that under the other.                      *)
(*                                                                         *)
(* Receivers of the broadcast channel are modelled by one inbox each: a    *)
(* channel is only ever pruned when it has none. What happens before the   *)
(* stream is authorised (membership, the pause gate) changes nothing here; *)
(* why a stream ends (unsubscribe, lost socket, revoked session, pause) is *)
(* left open.                                                              *)
(*                                                                         *)
(* A definition whose name ends in _<Defect> is the one below it as a      *)
(* plausible defect would leave it; no specification uses it.              *)
(***************************************************************************)
EXTENDS Integers, Sequences, FiniteSets

CONSTANTS
    Streams,        \* playField subscriptions, each opened at most once
    Receivers,      \* everyone who ever watches the account's claim
    Windows,        \* the account's windows (client ids)
    Worlds,
    WindowOf,       \* [Streams -> Windows]
    WorldOf,        \* [Streams -> Worlds]
    NoStream,       \* Option::None
    Cap             \* CLAIM_CHANNEL_CAPACITY

ASSUME PlayFieldAssumption ==
    /\ IsFiniteSet(Receivers) /\ Streams \subseteq Receivers
    /\ WindowOf \in [Streams -> Windows] /\ WorldOf \in [Streams -> Worlds]
    /\ Cap \in Nat \ {0} /\ NoStream \notin Receivers

News == Streams \cup {NoStream}      \* Option<Claim>: whose claim, or none

VARIABLES
    held,       \* accounts: the stream whose claim is registered, or NoStream
    newest,     \* the stream that took the table last, or NoStream
    phase,      \* [Streams -> Phase]
    watching,   \* the receivers subscribed to the account's channel
    inbox,      \* [Receivers -> Seq(News)]: sent and not yet received
    lagged,     \* [Receivers -> BOOLEAN]: news were overwritten before a receive
    view        \* [Streams -> News]: the last item the stream yielded

vars == <<held, newest, phase, watching, inbox, lagged, view>>

\* swapped: holds the claim, has not announced it; released: has removed the
\* claim, has not announced that.
Phase == {"new", "watching", "swapped", "open", "released", "done"}

TypeOK ==
    /\ held \in News
    /\ newest \in News
    /\ phase \in [Streams -> Phase]
    /\ watching \in SUBSET Receivers
    /\ inbox \in [Receivers -> Seq(News)]
    /\ \A r \in Receivers : Len(inbox[r]) <= Cap
    /\ lagged \in [Receivers -> BOOLEAN]
    /\ view \in [Streams -> News]

Init ==
    /\ held = NoStream
    /\ newest = NoStream
    /\ phase = [s \in Streams |-> "new"]
    /\ watching = {}
    /\ inbox = [r \in Receivers |-> << >>]
    /\ lagged = [r \in Receivers |-> FALSE]
    /\ view = [s \in Streams |-> NoStream]

-----------------------------------------------------------------------------
(* The broadcast channel of one account *)

Watch(r) ==
    /\ watching' = watching \cup {r}
    /\ UNCHANGED <<inbox, lagged>>

\* The receiver is dropped: nothing of its backlog is ever read.
Unwatch(r) ==
    /\ watching' = watching \ {r}
    /\ inbox' = [inbox EXCEPT ![r] = << >>]
    /\ lagged' = [lagged EXCEPT ![r] = FALSE]

Announce_NoCap(news) ==
    /\ inbox' = [r \in Receivers |->
                    IF r \in watching THEN Append(inbox[r], news) ELSE inbox[r]]
    /\ UNCHANGED <<watching, lagged>>

\* announce: sent to every receiver; one that is Cap behind loses its oldest.
Announce(news) ==
    /\ inbox' = [r \in Receivers |->
                    IF r \notin watching THEN inbox[r]
                    ELSE IF Len(inbox[r]) < Cap THEN Append(inbox[r], news)
                    ELSE Append(Tail(inbox[r]), news)]
    /\ lagged' = [r \in Receivers |->
                    lagged[r] \/ (r \in watching /\ Len(inbox[r]) = Cap)]
    /\ UNCHANGED watching

-----------------------------------------------------------------------------
(* play_field_stream *)

OpenStream_NoWatch(s) ==
    /\ phase[s] = "new"
    /\ phase' = [phase EXCEPT ![s] = "watching"]
    /\ UNCHANGED <<watching, inbox, lagged, held, newest, view>>

\* "Watch before claiming, so the client cannot miss a takeover."
OpenStream(s) ==
    /\ phase[s] = "new"
    /\ phase' = [phase EXCEPT ![s] = "watching"]
    /\ Watch(s)
    /\ UNCHANGED <<held, newest, view>>

\* claim: the guarded swap. Whoever held it is displaced.
Swap(s) ==
    /\ phase[s] = "watching"
    /\ phase' = [phase EXCEPT ![s] = "swapped"]
    /\ held' = s
    /\ newest' = s
    /\ UNCHANGED <<watching, inbox, lagged, view>>

AnnounceClaim_Silent(s) ==
    /\ phase[s] = "swapped"
    /\ phase' = [phase EXCEPT ![s] = "open"]
    /\ view' = [view EXCEPT ![s] = s]
    /\ UNCHANGED <<held, newest, watching, inbox, lagged>>

\* claim: the announcement, after which the stream yields its own claim.
AnnounceClaim(s) ==
    /\ phase[s] = "swapped"
    /\ phase' = [phase EXCEPT ![s] = "open"]
    /\ Announce(s)
    /\ view' = [view EXCEPT ![s] = s]
    /\ UNCHANGED <<held, newest>>

\* The stream forwards the next item of its receiver. A Lagged error is
\* skipped: the item after it is forwarded like any other.
Forward(s) ==
    /\ phase[s] = "open"
    /\ inbox[s] # << >>
    /\ view' = [view EXCEPT ![s] = Head(inbox[s])]
    /\ inbox' = [inbox EXCEPT ![s] = Tail(@)]
    /\ lagged' = [lagged EXCEPT ![s] = FALSE]
    /\ UNCHANGED <<held, newest, phase, watching>>

DropStream_NoToken(s) ==
    /\ phase[s] = "open"
    /\ phase' = [phase EXCEPT ![s] = "released"]
    /\ held' = NoStream
    /\ Unwatch(s)
    /\ UNCHANGED <<newest, view>>
DropStream_KeepsClaim(s) ==
    /\ phase[s] = "open"
    /\ phase' = [phase EXCEPT ![s] = "done"]
    /\ Unwatch(s)
    /\ UNCHANGED <<held, newest, view>>

\* The stream is dropped. Its guard removes the claim only if the registration
\* is still its own, and announces only what it removed.
DropStream(s) ==
    /\ phase[s] = "open"
    /\ phase' = [phase EXCEPT ![s] = IF held = s THEN "released" ELSE "done"]
    /\ held' = IF held = s THEN NoStream ELSE held
    /\ Unwatch(s)
    /\ UNCHANGED <<newest, view>>

AnnounceRelease(s) ==
    /\ phase[s] = "released"
    /\ phase' = [phase EXCEPT ![s] = "done"]
    /\ Announce(NoStream)
    /\ UNCHANGED <<held, newest, view>>

StreamStep(s) ==
    \/ OpenStream(s)
    \/ Swap(s)
    \/ AnnounceClaim(s)
    \/ Forward(s)
    \/ DropStream(s)
    \/ AnnounceRelease(s)

Next == \E s \in Streams : StreamStep(s)

Spec == Init /\ [][Next]_vars

\* The steps inside `claim` and `release` follow each other without an await,
\* and a stream's receiver is polled as long as the stream is.
ClaimStep(s) == Swap(s) \/ AnnounceClaim(s) \/ Forward(s) \/ AnnounceRelease(s)

\* Two claims or releases of the account at once.
Overlap ==
    \E s, u \in Streams : s # u /\ {phase[s], phase[u]} \subseteq {"swapped", "released"}

-----------------------------------------------------------------------------
(* Properties *)

Live(s) == phase[s] \in {"swapped", "open"}
Told(s) == phase[s] = "open" /\ inbox[s] = << >>
Believes(s) == view[s] # NoStream /\ WindowOf[view[s]] = WindowOf[s]   \* is_mine
Settled == \A s \in Streams : phase[s] \notin {"watching", "swapped", "released"}

\* The claim never outlives the client holding it: whoever is registered is a
\* stream that is still there.
ClaimHasAClient == held # NoStream => Live(held)

\* The newest claim wins, and keeps the table until its own stream ends: the
\* late guard of a displaced stream, also an older stream of the same window,
\* releases nothing.
NewestClaimHolds == newest # NoStream /\ Live(newest) => held = newest

\* All windows that have read their news were told the same last thing, also
\* while claims are on the move, are announced out of order or overwrite news:
\* at most one window believes it is at the table by another's word.
WindowsAgree == \A s, u \in Streams : Told(s) /\ Told(u) => view[s] = view[u]

\* "so a demoted client learns it has become a companion" (play_field.rs): when
\* no claim is moving, a window that has read its news believes it is at the
\* table only if its account's claim is its own. It is so where claims and
\* releases do not overlap; two that do may be announced in the other order.
DemotedClientLearns ==
    Settled => \A s \in Streams : Told(s) /\ Believes(s) =>
        held # NoStream /\ WindowOf[held] = WindowOf[s]

\* Where no two claims or releases ever overlap, every displaced window learns it
\* in the end, although it may have lagged behind its channel: there comes a time
\* from which only the window at the table believes that it is there.
DisplacedHearsOfIt ==
    []~Overlap => <>[](\A s \in Streams : phase[s] = "open" /\ Believes(s) =>
                           held # NoStream /\ WindowOf[held] = WindowOf[s])
=============================================================================
