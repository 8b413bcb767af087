--------------------------- MODULE PeerAdmission ---------------------------
(***************************************************************************)
(* Who becomes reachable for peer transfer: the `peerSignals` stream of    *)
(* peer_signaling/surface.rs, its gate on the play-field claim             *)
(* (admission.rs) and the registry of live sessions (registry.rs),         *)
(* composed with the claims of PlayField.                                  *)
(*                                                                         *)
(* A peer is one `peerSignals` subscription. `playField` and `peerSignals` *)
(* are opened by the same window and nothing orders them, so the gate      *)
(* subscribes to the account's claim changes, reads the claim, and if it   *)
(* is not there waits for it up to CLAIM_GRACE. Registering under a        *)
(* session id replaces an older registration of that id; the older guard   *)
(* may be dropped later.                                                   *)
(*                                                                         *)
(* Membership and the pause gate come before all this and only refuse.     *)
(* The relayed signals themselves are not modelled.                        *)
(***************************************************************************)
EXTENDS PlayField

CONSTANTS
    Peers,          \* peerSignals subscriptions, each opened at most once
    Sessions,       \* (world, session id): the registry's keys
    SessionOf,      \* [Peers -> Sessions]
    PeerWorld       \* [Peers -> Worlds]

ASSUME PeerAssumption ==
    /\ Peers \subseteq Receivers /\ Peers \cap Streams = {}
    /\ SessionOf \in [Peers -> Sessions] /\ PeerWorld \in [Peers -> Worlds]

VARIABLES
    gate,           \* [Peers -> Gate]
    registry,       \* [Sessions -> Peers \cup {NoStream}]
    lastRegistered  \* [Sessions -> Peers \cup {NoStream}]: who registered last

peerVars == <<gate, registry, lastRegistered>>
allVars == <<vars, peerVars>>

Gate == {"new", "watching", "waiting", "admitted", "registered", "refused", "gone"}

PeerTypeOK ==
    /\ TypeOK
    /\ gate \in [Peers -> Gate]
    /\ registry \in [Sessions -> Peers \cup {NoStream}]
    /\ lastRegistered \in [Sessions -> Peers \cup {NoStream}]

PeerInit ==
    /\ Init
    /\ gate = [p \in Peers |-> "new"]
    /\ registry = [k \in Sessions |-> NoStream]
    /\ lastRegistered = [k \in Sessions |-> NoStream]

playVars == <<held, newest, phase, view>>

-----------------------------------------------------------------------------
(* holds_play_field *)

AtThisTable(claim, p) == claim # NoStream /\ WorldOf[claim] = PeerWorld[p]

\* "Watch first, then read."
StartWatch(p) ==
    /\ gate[p] = "new"
    /\ gate' = [gate EXCEPT ![p] = "watching"]
    /\ Watch(p)
    /\ UNCHANGED <<playVars, registry, lastRegistered>>

ReadClaim_Unread(p) ==
    /\ gate[p] = "watching"
    /\ gate' = [gate EXCEPT ![p] = "waiting"]
    /\ UNCHANGED <<vars, registry, lastRegistered>>

\* The claim is read after subscribing. A peer that is admitted drops its
\* receiver with the function that held it.
ReadClaim(p) ==
    /\ gate[p] = "watching"
    /\ IF AtThisTable(held, p)
       THEN gate' = [gate EXCEPT ![p] = "admitted"] /\ Unwatch(p)
       ELSE gate' = [gate EXCEPT ![p] = "waiting"] /\ UNCHANGED <<watching, inbox, lagged>>
    /\ UNCHANGED <<playVars, registry, lastRegistered>>

\* News were overwritten: "the registry is the truth; re-read it".
HearLagged(p) ==
    /\ gate[p] = "waiting"
    /\ lagged[p]
    /\ IF AtThisTable(held, p)
       THEN gate' = [gate EXCEPT ![p] = "admitted"] /\ Unwatch(p)
       ELSE /\ lagged' = [lagged EXCEPT ![p] = FALSE]
            /\ UNCHANGED <<gate, watching, inbox>>
    /\ UNCHANGED <<playVars, registry, lastRegistered>>

HearChange(p) ==
    /\ gate[p] = "waiting"
    /\ ~lagged[p]
    /\ inbox[p] # << >>
    /\ IF AtThisTable(Head(inbox[p]), p)
       THEN gate' = [gate EXCEPT ![p] = "admitted"] /\ Unwatch(p)
       ELSE /\ inbox' = [inbox EXCEPT ![p] = Tail(@)]
            /\ UNCHANGED <<gate, watching, lagged>>
    /\ UNCHANGED <<playVars, registry, lastRegistered>>

\* CLAIM_GRACE is over; `select!` may prefer that to news that are there.
Deadline(p) ==
    /\ gate[p] = "waiting"
    /\ gate' = [gate EXCEPT ![p] = "refused"]
    /\ Unwatch(p)
    /\ UNCHANGED <<playVars, registry, lastRegistered>>

-----------------------------------------------------------------------------
(* PeerRegistry *)

Register(p) ==
    /\ gate[p] = "admitted"
    /\ gate' = [gate EXCEPT ![p] = "registered"]
    /\ registry' = [registry EXCEPT ![SessionOf[p]] = p]
    /\ lastRegistered' = [lastRegistered EXCEPT ![SessionOf[p]] = p]
    /\ UNCHANGED vars

EndPeer_NoToken(p) ==
    /\ gate[p] = "registered"
    /\ gate' = [gate EXCEPT ![p] = "gone"]
    /\ registry' = [registry EXCEPT ![SessionOf[p]] = NoStream]
    /\ UNCHANGED <<vars, lastRegistered>>
EndPeer_Leaks(p) ==
    /\ gate[p] = "registered"
    /\ gate' = [gate EXCEPT ![p] = "gone"]
    /\ UNCHANGED <<vars, registry, lastRegistered>>

\* The stream is dropped, also because its inbox was replaced; unregister
\* removes the entry only if it is still this registration.
EndPeer(p) ==
    /\ gate[p] = "registered"
    /\ gate' = [gate EXCEPT ![p] = "gone"]
    /\ registry' = [registry EXCEPT ![SessionOf[p]] = IF @ = p THEN NoStream ELSE @]
    /\ UNCHANGED <<vars, lastRegistered>>

PeerStep(p) ==
    \/ StartWatch(p)
    \/ ReadClaim(p)
    \/ HearLagged(p)
    \/ HearChange(p)
    \/ Deadline(p)
    \/ Register(p)
    \/ EndPeer(p)

PeerNext ==
    \/ \E s \in Streams : StreamStep(s) /\ UNCHANGED peerVars
    \/ \E p \in Peers : PeerStep(p)

PeerSpec == PeerInit /\ [][PeerNext]_allVars

\* Fairness is PlayField's: nothing is assumed of the peers.
PeerFairSpec ==
    /\ PeerSpec
    /\ \A s \in Streams :
           WF_allVars(ClaimStep(s) /\ UNCHANGED peerVars)

-----------------------------------------------------------------------------
(* Properties *)

\* "A claim taken between the read and the subscribe cannot be missed"
\* (admission.rs): a peer that waits with nothing left to read, and no claim
\* on its way to be announced, waits for a claim that is not there. Overwritten
\* news and announcements that arrive out of order do not break this.
NoClaimMissed ==
    \A p \in Peers :
        /\ gate[p] = "waiting" /\ ~lagged[p] /\ inbox[p] = << >>
        /\ \A s \in Streams : phase[s] # "swapped"
        => ~AtThisTable(held, p)

\* An entry of the registry never outlives the connection that made it
\* (registry.rs: FR-050 "enforced by construction").
NoGhostSession ==
    \A k \in Sessions : registry[k] # NoStream => gate[registry[k]] = "registered"

\* A client that reconnects under the same session id stays reachable when the
\* old stream's guard is dropped after it.
ReconnectStaysReachable ==
    \A k \in Sessions : LET p == lastRegistered[k] IN
        p # NoStream /\ gate[p] = "registered" => registry[k] = p
=============================================================================
