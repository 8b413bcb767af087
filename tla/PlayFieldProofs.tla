-------------------------- MODULE PlayFieldProofs --------------------------
(***************************************************************************)
(* Proofs about PlayField, for any number of streams and windows, however  *)
(* claims, releases and late guards interleave.                            *)
(***************************************************************************)
EXTENDS PlayField, TLAPS

\* What the argument needs of the types: the registry and the streams' phases.
ClaimTypes == held \in News /\ newest \in News /\ phase \in [Streams -> Phase]
ClaimInv == ClaimTypes /\ ClaimHasAClient /\ NewestClaimHolds

\* Nobody holds the table when the server has just started.
LEMMA InitClaimInv == Init => ClaimInv
BY PlayFieldAssumption
   DEF Init, ClaimInv, ClaimTypes, ClaimHasAClient, NewestClaimHolds, Live, News, Phase

\* No step of any stream leaves a claim without its client, or takes it from
\* the stream that claimed last.
LEMMA NextClaimInv == ClaimInv /\ [Next]_vars => ClaimInv'
<1>1. SUFFICES ASSUME ClaimInv, [Next]_vars PROVE ClaimInv'
  OBVIOUS
<1> USE PlayFieldAssumption, <1>1
    DEF ClaimInv, ClaimTypes, ClaimHasAClient, NewestClaimHolds, Live, News, Phase
<1>2. ASSUME NEW s \in Streams, StreamStep(s) PROVE ClaimInv'
  <2>1. CASE OpenStream(s) BY <2>1 DEF OpenStream
  <2>2. CASE Swap(s) BY <2>2 DEF Swap
  <2>3. CASE AnnounceClaim(s) BY <2>3 DEF AnnounceClaim
  <2>4. CASE Forward(s) BY <2>4 DEF Forward
  <2>5. CASE DropStream(s)
    <3>1. CASE held = s BY <2>5, <3>1 DEF DropStream
    <3>2. CASE held # s BY <2>5, <3>2 DEF DropStream
    <3>3. QED BY <3>1, <3>2
  <2>6. CASE AnnounceRelease(s) BY <2>6 DEF AnnounceRelease
  <2>7. QED BY <1>2, <2>1, <2>2, <2>3, <2>4, <2>5, <2>6 DEF StreamStep
<1>3. CASE UNCHANGED vars BY <1>3 DEF vars
<1>4. QED BY <1>1, <1>2, <1>3 DEF Next

\* A registered claim always belongs to a stream that is still there: it never
\* outlives the client holding it.
THEOREM ClaimNeverOutlivesClient == Spec => []ClaimHasAClient
<1>1. Spec => []ClaimInv
  BY InitClaimInv, NextClaimInv, PTL DEF Spec
<1>2. ClaimInv => ClaimHasAClient
  BY DEF ClaimInv
<1>3. QED BY <1>1, <1>2, PTL

\* The newest claim wins and stays, whatever guards of displaced streams are
\* dropped after it.
THEOREM NewestClaimStands == Spec => []NewestClaimHolds
<1>1. Spec => []ClaimInv
  BY InitClaimInv, NextClaimInv, PTL DEF Spec
<1>2. ClaimInv => NewestClaimHolds
  BY DEF ClaimInv
<1>3. QED BY <1>1, <1>2, PTL
=============================================================================
