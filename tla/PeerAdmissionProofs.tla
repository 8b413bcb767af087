------------------------ MODULE PeerAdmissionProofs ------------------------
(***************************************************************************)
(* Proofs about the registry of peer sessions, for any number of peers     *)
(* that come, go and reconnect under any number of session ids.            *)
(***************************************************************************)
EXTENDS PeerAdmission, PlayFieldProofs

\* An entry, and the last registration, belong to the key they are under.
UnderTheirKey ==
    \A k \in Sessions : \A p \in Peers :
        registry[k] = p \/ lastRegistered[k] = p => SessionOf[p] = k

RegistryTypes ==
    /\ gate \in [Peers -> Gate]
    /\ registry \in [Sessions -> Peers \cup {NoStream}]
    /\ lastRegistered \in [Sessions -> Peers \cup {NoStream}]

RegistryInv == RegistryTypes /\ UnderTheirKey /\ NoGhostSession /\ ReconnectStaysReachable

\* The registry is empty when the server has just started.
LEMMA InitRegistryInv == PeerInit => RegistryInv
<1> USE PlayFieldAssumption, PeerAssumption
<1>1. NoStream \notin Peers OBVIOUS
<1>2. QED BY <1>1 DEF PeerInit, RegistryInv, RegistryTypes, UnderTheirKey, NoGhostSession,
          ReconnectStaysReachable, Gate

\* Registering, ending and everything the gate does keep the registry exact.
LEMMA NextRegistryInv == RegistryInv /\ [PeerNext]_allVars => RegistryInv'
<1>1. SUFFICES ASSUME RegistryInv, [PeerNext]_allVars PROVE RegistryInv'
  OBVIOUS
<1>a. NoStream \notin Peers /\ SessionOf \in [Peers -> Sessions]
  BY PlayFieldAssumption, PeerAssumption
<1> USE <1>1, <1>a DEF RegistryInv, RegistryTypes, UnderTheirKey, NoGhostSession,
        ReconnectStaysReachable
<1>2. ASSUME NEW p \in Peers, PeerStep(p) PROVE RegistryInv'
  <2>1. CASE Register(p)
    <3>1. /\ gate' = [gate EXCEPT ![p] = "registered"]
          /\ registry' = [registry EXCEPT ![SessionOf[p]] = p]
          /\ lastRegistered' = [lastRegistered EXCEPT ![SessionOf[p]] = p]
      BY <2>1 DEF Register
    <3>2. RegistryTypes' BY <3>1 DEF Gate
    <3>3. UnderTheirKey' BY <3>1
    <3>4. NoGhostSession' BY <3>1
    <3>5. ReconnectStaysReachable' BY <3>1
    <3>6. QED BY <3>2, <3>3, <3>4, <3>5
  <2>2. CASE EndPeer(p)
    <3>1. /\ gate' = [gate EXCEPT ![p] = "gone"]
          /\ registry' = [registry EXCEPT ![SessionOf[p]] =
                              IF registry[SessionOf[p]] = p THEN NoStream
                              ELSE registry[SessionOf[p]]]
          /\ lastRegistered' = lastRegistered
      BY <2>2 DEF EndPeer
    <3>2. RegistryTypes' BY <3>1 DEF Gate
    <3>3. \A k \in Sessions : registry'[k] = registry[k] \/ registry'[k] = NoStream
      BY <3>1
    <3>4. \A k \in Sessions : registry'[k] # p
      BY <3>1
    <3>5. \A k \in Sessions : registry[k] # p => registry'[k] = registry[k]
      BY <3>1
    <3>6. UnderTheirKey' BY <3>1, <3>3
    <3>7. NoGhostSession' BY <3>1, <3>2, <3>3, <3>4
    <3>8. ReconnectStaysReachable' BY <3>1, <3>5
    <3>9. QED BY <3>2, <3>6, <3>7, <3>8
  <2>3. CASE StartWatch(p) \/ ReadClaim(p) \/ HearLagged(p) \/ HearChange(p) \/ Deadline(p)
    <3>1. /\ gate[p] \in {"new", "watching", "waiting"}
          /\ UNCHANGED <<registry, lastRegistered>>
          /\ \E g \in Gate \ {"registered"} : gate' = [gate EXCEPT ![p] = g]
      <4>1. gate = [gate EXCEPT ![p] = gate[p]] OBVIOUS
      <4>2. QED BY <2>3, <4>1 DEF StartWatch, ReadClaim, HearLagged, HearChange, Deadline, Gate
    <3>2. PICK g \in Gate \ {"registered"} : gate' = [gate EXCEPT ![p] = g]
      BY <3>1
    <3>3. \A q \in Peers : (gate'[q] = "registered") <=> (gate[q] = "registered")
      BY <3>1, <3>2
    <3>4. RegistryTypes' BY <3>1, <3>2
    <3>5. NoGhostSession' /\ ReconnectStaysReachable' /\ UnderTheirKey'
      BY <3>1, <3>3
    <3>6. QED BY <3>4, <3>5
  <2>4. QED BY <1>2, <2>1, <2>2, <2>3 DEF PeerStep
<1>3. CASE UNCHANGED peerVars BY <1>3 DEF peerVars
<1>4. QED BY <1>2, <1>3 DEF PeerNext, allVars

\* An entry of the registry never outlives the stream that made it.
THEOREM NoSessionOutlivesItsStream == PeerSpec => []NoGhostSession
<1>1. PeerSpec => []RegistryInv
  BY InitRegistryInv, NextRegistryInv, PTL DEF PeerSpec
<1>2. RegistryInv => NoGhostSession
  BY DEF RegistryInv
<1>3. QED BY <1>1, <1>2, PTL

\* A client that reconnects under its session id stays reachable, however late
\* the guard of its old stream is dropped.
THEOREM LateGuardRemovesNothing == PeerSpec => []ReconnectStaysReachable
<1>1. PeerSpec => []RegistryInv
  BY InitRegistryInv, NextRegistryInv, PTL DEF PeerSpec
<1>2. RegistryInv => ReconnectStaysReachable
  BY DEF RegistryInv
<1>3. QED BY <1>1, <1>2, PTL

-----------------------------------------------------------------------------
(* The gate: a claim is not missed *)

\* c is among the unread news q.
Unread(q, c) == \E i \in 1 .. Len(q) : q[i] = c

\* Whoever waits is subscribed, and if the registered claim is one it waits for,
\* then that claim is still to be announced, is among the unread news, or news
\* were overwritten and the registry will be read again.
WaitingHears ==
    \A p \in Peers :
        gate[p] = "waiting" /\ AtThisTable(held, p) =>
            \/ phase[held] = "swapped"
            \/ lagged[p]
            \/ Unread(inbox[p], held)

Subscribed == \A p \in Peers : gate[p] \in {"watching", "waiting"} => p \in watching

GateInv == PeerTypeOK /\ ClaimHasAClient /\ Subscribed /\ WaitingHears

Pushed(q, news) == IF Len(q) < Cap THEN Append(q, news) ELSE Append(Tail(q), news)

\* What one announcement does to one receiver's unread news.
LEMMA PushedFacts ==
    ASSUME NEW q \in Seq(News), Len(q) <= Cap, NEW news \in News
    PROVE  /\ Pushed(q, news) \in Seq(News) /\ Len(Pushed(q, news)) <= Cap
           /\ Unread(Pushed(q, news), news)
           /\ \A c \in News : Unread(q, c) => Unread(Pushed(q, news), c) \/ Len(q) = Cap
<1> DEFINE t == Pushed(q, news)
<1>1. CASE Len(q) < Cap
  <2>1. t = Append(q, news)
    BY <1>1 DEF Pushed
  <2>2. /\ t \in Seq(News) /\ Len(t) = Len(q) + 1 /\ t[Len(t)] = news
        /\ \A i \in 1 .. Len(q) : t[i] = q[i]
    BY <2>1
  <2>3. Len(t) <= Cap /\ Len(t) \in 1 .. Len(t) /\ \A i \in 1 .. Len(q) : i \in 1 .. Len(t)
    BY <1>1, <2>2, PlayFieldAssumption
  <2>4. QED BY <2>2, <2>3 DEF Unread
<1>2. CASE Len(q) = Cap
  <2>1. t = Append(Tail(q), news) /\ q # << >>
    BY <1>2, PlayFieldAssumption DEF Pushed
  <2>2. t \in Seq(News) /\ Len(t) = Len(q) /\ t[Len(t)] = news
    BY <2>1
  <2>3. Len(t) <= Cap /\ Len(t) \in 1 .. Len(t)
    BY <1>2, <2>2, PlayFieldAssumption
  <2>4. QED BY <1>2, <2>2, <2>3 DEF Unread
<1>3. QED BY <1>1, <1>2, PlayFieldAssumption

\* An announcement reaches who is subscribed, and what it overwrites is known
\* to be lost.
LEMMA AnnounceFacts ==
    ASSUME TypeOK, NEW news \in News, Announce(news)
    PROVE  /\ watching' = watching /\ inbox' \in [Receivers -> Seq(News)]
           /\ \A x \in Receivers : Len(inbox'[x]) <= Cap
           /\ lagged' \in [Receivers -> BOOLEAN]
           /\ \A x \in Receivers : lagged[x] => lagged'[x]
           /\ \A x \in watching : Unread(inbox'[x], news)
           /\ \A x \in watching : \A c \in News :
                 Unread(inbox[x], c) => lagged'[x] \/ Unread(inbox'[x], c)
<1>1. /\ watching \in SUBSET Receivers
      /\ \A x \in Receivers : inbox[x] \in Seq(News) /\ Len(inbox[x]) <= Cap
      /\ lagged \in [Receivers -> BOOLEAN]
  BY DEF TypeOK
<1>2. inbox' = [x \in Receivers |->
                   IF x \notin watching THEN inbox[x] ELSE Pushed(inbox[x], news)]
  BY DEF Announce, Pushed
<1>3. /\ watching' = watching
      /\ lagged' = [x \in Receivers |-> lagged[x] \/ (x \in watching /\ Len(inbox[x]) = Cap)]
  BY DEF Announce
<1>4. lagged' \in [Receivers -> BOOLEAN] /\ \A x \in Receivers : lagged[x] => lagged'[x]
  BY <1>1, <1>3
<1>5. ASSUME NEW x \in Receivers
      PROVE  inbox'[x] \in Seq(News) /\ Len(inbox'[x]) <= Cap
  <2>1. Pushed(inbox[x], news) \in Seq(News) /\ Len(Pushed(inbox[x], news)) <= Cap
    BY <1>1, PushedFacts
  <2>2. QED BY <1>1, <1>2, <2>1
<1>6. ASSUME NEW x \in watching
      PROVE  /\ Unread(inbox'[x], news)
             /\ \A c \in News : Unread(inbox[x], c) => lagged'[x] \/ Unread(inbox'[x], c)
  <2>1. inbox'[x] = Pushed(inbox[x], news) /\ (Len(inbox[x]) = Cap => lagged'[x])
    BY <1>1, <1>2, <1>3
  <2>2. /\ Unread(Pushed(inbox[x], news), news)
        /\ \A c \in News : Unread(inbox[x], c) =>
              Unread(Pushed(inbox[x], news), c) \/ Len(inbox[x]) = Cap
    BY <1>1, PushedFacts
  <2>3. QED BY <2>1, <2>2
<1>7. inbox' \in [Receivers -> Seq(News)]
  <2>1. inbox' = [x \in Receivers |-> inbox'[x]]
    BY <1>2
  <2>2. QED BY <1>5, <2>1
<1>8. QED BY <1>3, <1>4, <1>5, <1>6, <1>7

\* Dropping a receiver keeps the channel's types and nobody else's news change.
LEMMA UnwatchFacts ==
    ASSUME TypeOK, NEW r \in Receivers, Unwatch(r)
    PROVE  /\ watching' \in SUBSET Receivers /\ inbox' \in [Receivers -> Seq(News)]
           /\ \A x \in Receivers : Len(inbox'[x]) <= Cap
           /\ lagged' \in [Receivers -> BOOLEAN]
           /\ \A x \in Receivers \ {r} : /\ inbox'[x] = inbox[x] /\ lagged'[x] = lagged[x]
                                         /\ x \in watching => x \in watching'
<1>1. /\ watching' = watching \ {r}
      /\ inbox' = [inbox EXCEPT ![r] = << >>]
      /\ lagged' = [lagged EXCEPT ![r] = FALSE]
  BY DEF Unwatch
<1>2. << >> \in Seq(News) /\ Len(<< >>) <= Cap
  BY PlayFieldAssumption
<1>3. QED BY <1>1, <1>2 DEF TypeOK

\* Nobody waits when the server has just started.
LEMMA InitGateInv == PeerInit => GateInv
<1>1. SUFFICES ASSUME PeerInit PROVE GateInv
  OBVIOUS
<1> USE <1>1, PlayFieldAssumption, PeerAssumption DEF PeerInit, Init
<1>2. << >> \in Seq(News) /\ Len(<< >>) <= Cap
  OBVIOUS
<1>3. PeerTypeOK
  BY <1>2 DEF PeerTypeOK, TypeOK, Phase, News, Gate
<1>4. ClaimHasAClient /\ Subscribed /\ WaitingHears
  BY DEF ClaimHasAClient, Subscribed, WaitingHears
<1>5. QED BY <1>3, <1>4 DEF GateInv

\* A step of a playField stream keeps the peers informed.
LEMMA StreamGateInv ==
    ASSUME GateInv, NEW s \in Streams, StreamStep(s), UNCHANGED peerVars
    PROVE  GateInv'
<1>1. PeerTypeOK /\ TypeOK /\ ClaimHasAClient /\ Subscribed /\ WaitingHears
  BY DEF GateInv, PeerTypeOK
<1>2. /\ s \in Receivers /\ s # NoStream /\ s \in News /\ NoStream \in News
      /\ Peers \subseteq Receivers /\ \A p \in Peers : p # s /\ p # NoStream
  BY PlayFieldAssumption, PeerAssumption DEF News
<1>3. gate' = gate /\ registry' = registry /\ lastRegistered' = lastRegistered
  BY DEF peerVars
<1>4. CASE OpenStream(s)
  BY <1>1, <1>2, <1>3, <1>4 DEF OpenStream, Watch, GateInv, PeerTypeOK, TypeOK, Phase,
     ClaimHasAClient, Live, Subscribed, WaitingHears, AtThisTable, News
<1>5. CASE Swap(s)
  BY <1>1, <1>2, <1>3, <1>5 DEF Swap, GateInv, PeerTypeOK, TypeOK, Phase,
     ClaimHasAClient, Live, Subscribed, WaitingHears, AtThisTable, News
<1>6. CASE AnnounceClaim(s)
  <2>1. /\ Announce(s) /\ phase[s] = "swapped" /\ phase' = [phase EXCEPT ![s] = "open"]
        /\ view' = [view EXCEPT ![s] = s] /\ UNCHANGED <<held, newest>>
    BY <1>6 DEF AnnounceClaim
  <2>2. PeerTypeOK'
    BY <1>1, <1>2, <1>3, <2>1, AnnounceFacts DEF PeerTypeOK, TypeOK, Phase
  <2>3. ClaimHasAClient' /\ Subscribed'
    BY <1>1, <1>2, <1>3, <2>1, AnnounceFacts DEF TypeOK, ClaimHasAClient, Live, Subscribed, News
  <2>4. WaitingHears'
    <3>1. SUFFICES ASSUME NEW p \in Peers, gate[p] = "waiting", AtThisTable(held, p)
                   PROVE  phase'[held] = "swapped" \/ lagged'[p] \/ Unread(inbox'[p], held)
      BY <1>3, <2>1 DEF WaitingHears, AtThisTable
    <3>2. p \in watching /\ p \in Receivers /\ held \in News
      BY <1>1, <1>2, <3>1 DEF Subscribed, TypeOK
    <3>3. CASE held = s
      BY <1>1, <1>2, <2>1, <3>2, <3>3, AnnounceFacts
    <3>4. CASE held # s
      <4>1. phase[held] = "swapped" \/ lagged[p] \/ Unread(inbox[p], held)
        BY <1>1, <3>1 DEF WaitingHears
      <4>2. phase'[held] = phase[held]
        BY <1>1, <2>1, <3>1, <3>4 DEF TypeOK, AtThisTable, News
      <4>3. QED BY <1>1, <1>2, <2>1, <3>2, <4>1, <4>2, AnnounceFacts
    <3>5. QED BY <3>3, <3>4
  <2>5. QED BY <2>2, <2>3, <2>4 DEF GateInv
<1>7. CASE Forward(s)
  <2>1. /\ view' = [view EXCEPT ![s] = Head(inbox[s])]
        /\ inbox' = [inbox EXCEPT ![s] = Tail(inbox[s])]
        /\ lagged' = [lagged EXCEPT ![s] = FALSE]
        /\ UNCHANGED <<held, newest, phase, watching>>
    BY <1>7 DEF Forward
  <2>2. Head(inbox[s]) \in News /\ Tail(inbox[s]) \in Seq(News) /\ Len(Tail(inbox[s])) <= Cap
    BY <1>1, <1>2, <1>7, PlayFieldAssumption DEF Forward, TypeOK
  <2>3. PeerTypeOK'
    BY <1>1, <1>2, <1>3, <2>1, <2>2 DEF PeerTypeOK, TypeOK
  <2>4. \A p \in Peers : inbox'[p] = inbox[p] /\ lagged'[p] = lagged[p]
    BY <1>1, <1>2, <2>1 DEF TypeOK
  <2>5. QED BY <1>1, <1>3, <2>1, <2>3, <2>4
        DEF GateInv, ClaimHasAClient, Live, Subscribed, WaitingHears, AtThisTable
<1>8. CASE DropStream(s)
  <2>1. /\ Unwatch(s) /\ phase[s] = "open" /\ UNCHANGED <<newest, view>>
        /\ phase' = [phase EXCEPT ![s] = IF held = s THEN "released" ELSE "done"]
        /\ held' = IF held = s THEN NoStream ELSE held
    BY <1>8 DEF DropStream
  <2>2. PeerTypeOK'
    BY <1>1, <1>2, <1>3, <2>1, UnwatchFacts DEF PeerTypeOK, TypeOK, Phase
  <2>3. \A p \in Peers : /\ inbox'[p] = inbox[p] /\ lagged'[p] = lagged[p]
                         /\ p \in watching => p \in watching'
    BY <1>1, <1>2, <2>1, UnwatchFacts
  <2>4. held' # NoStream => held' = held /\ phase'[held] = phase[held]
    BY <1>1, <2>1 DEF TypeOK, News
  <2>5. QED BY <1>1, <1>3, <2>2, <2>3, <2>4
        DEF GateInv, ClaimHasAClient, Live, Subscribed, WaitingHears, AtThisTable
<1>9. CASE AnnounceRelease(s)
  <2>1. /\ Announce(NoStream) /\ phase[s] = "released" /\ UNCHANGED <<held, newest, view>>
        /\ phase' = [phase EXCEPT ![s] = "done"]
    BY <1>9 DEF AnnounceRelease
  <2>2. PeerTypeOK'
    BY <1>1, <1>2, <1>3, <2>1, AnnounceFacts DEF PeerTypeOK, TypeOK, Phase
  <2>3. held # NoStream => phase'[held] = phase[held]
    BY <1>1, <2>1 DEF TypeOK, News, ClaimHasAClient, Live
  <2>4. ClaimHasAClient' /\ Subscribed'
    BY <1>1, <1>2, <1>3, <2>1, <2>3, AnnounceFacts DEF ClaimHasAClient, Live, Subscribed
  <2>5. WaitingHears'
    <3>1. SUFFICES ASSUME NEW p \in Peers, gate[p] = "waiting", AtThisTable(held, p)
                   PROVE  phase'[held] = "swapped" \/ lagged'[p] \/ Unread(inbox'[p], held)
      BY <1>3, <2>1 DEF WaitingHears, AtThisTable
    <3>2. p \in watching /\ p \in Receivers /\ held \in News
      BY <1>1, <1>2, <3>1 DEF Subscribed, TypeOK
    <3>3. phase[held] = "swapped" \/ lagged[p] \/ Unread(inbox[p], held)
      BY <1>1, <3>1 DEF WaitingHears
    <3>4. QED BY <1>1, <1>2, <2>1, <2>3, <3>1, <3>2, <3>3, AnnounceFacts DEF AtThisTable
  <2>6. QED BY <2>2, <2>4, <2>5 DEF GateInv
<1>10. QED BY <1>4, <1>5, <1>6, <1>7, <1>8, <1>9 DEF StreamStep

\* A peer that is admitted or refused drops its receiver; the others hear on.
LEMMA LeaveGateInv ==
    ASSUME GateInv, NEW p \in Peers, Unwatch(p), NEW g \in {"admitted", "refused"},
           gate' = [gate EXCEPT ![p] = g], UNCHANGED <<playVars, registry, lastRegistered>>
    PROVE  GateInv'
<1>1. PeerTypeOK /\ TypeOK /\ ClaimHasAClient /\ Subscribed /\ WaitingHears
  BY DEF GateInv, PeerTypeOK
<1>2. p \in Receivers /\ Peers \subseteq Receivers
  BY PeerAssumption
<1>3. UNCHANGED <<held, newest, phase, view>>
  BY DEF playVars
<1>4. PeerTypeOK'
  BY <1>1, <1>2, <1>3, UnwatchFacts DEF PeerTypeOK, TypeOK, Gate
<1>5. \A q \in Peers \ {p} : /\ inbox'[q] = inbox[q] /\ lagged'[q] = lagged[q]
                             /\ q \in watching => q \in watching' /\ gate'[q] = gate[q]
  BY <1>1, <1>2, UnwatchFacts DEF PeerTypeOK
<1>6. gate'[p] = g
  BY <1>1 DEF PeerTypeOK
<1>7. ClaimHasAClient' /\ Subscribed' /\ WaitingHears'
  BY <1>1, <1>3, <1>5, <1>6 DEF ClaimHasAClient, Live, Subscribed, WaitingHears, AtThisTable
<1>8. QED BY <1>4, <1>7 DEF GateInv

\* Every step of a peer keeps it informed.
LEMMA PeerGateInv ==
    ASSUME GateInv, NEW p \in Peers, PeerStep(p)
    PROVE  GateInv'
<1>1. PeerTypeOK /\ TypeOK /\ ClaimHasAClient /\ Subscribed /\ WaitingHears
  BY DEF GateInv, PeerTypeOK
<1>2. p \in Receivers /\ Peers \subseteq Receivers
  BY PeerAssumption
<1>3. CASE StartWatch(p)
  <2>1. /\ gate' = [gate EXCEPT ![p] = "watching"] /\ watching' = watching \cup {p}
        /\ UNCHANGED <<inbox, lagged, held, newest, phase, view, registry, lastRegistered>>
    BY <1>3 DEF StartWatch, Watch, playVars
  <2>2. PeerTypeOK'
    BY <1>1, <1>2, <2>1 DEF PeerTypeOK, TypeOK, Gate
  <2>3. ClaimHasAClient' /\ Subscribed' /\ WaitingHears'
    BY <1>1, <2>1 DEF PeerTypeOK, ClaimHasAClient, Live, Subscribed, WaitingHears, AtThisTable
  <2>4. QED BY <2>2, <2>3 DEF GateInv
<1>4. CASE ReadClaim(p)
  <2>1. CASE AtThisTable(held, p)
    BY <1>4, <2>1, LeaveGateInv DEF ReadClaim
  <2>2. CASE ~AtThisTable(held, p)
    <3>1. /\ gate' = [gate EXCEPT ![p] = "waiting"] /\ gate[p] = "watching"
          /\ UNCHANGED <<inbox, lagged, watching, held, newest, phase, view, registry,
                         lastRegistered>>
      BY <1>4, <2>2 DEF ReadClaim, playVars
    <3>2. PeerTypeOK'
      BY <1>1, <3>1 DEF PeerTypeOK, TypeOK, Gate
    <3>3. ClaimHasAClient' /\ Subscribed' /\ WaitingHears'
      BY <1>1, <2>2, <3>1
         DEF PeerTypeOK, ClaimHasAClient, Live, Subscribed, WaitingHears, AtThisTable
    <3>4. QED BY <3>2, <3>3 DEF GateInv
  <2>3. QED BY <2>1, <2>2
<1>5. CASE HearLagged(p)
  <2>1. CASE AtThisTable(held, p)
    BY <1>5, <2>1, LeaveGateInv DEF HearLagged
  <2>2. CASE ~AtThisTable(held, p)
    <3>1. /\ lagged' = [lagged EXCEPT ![p] = FALSE]
          /\ UNCHANGED <<gate, inbox, watching, held, newest, phase, view, registry,
                         lastRegistered>>
      BY <1>5, <2>2 DEF HearLagged, playVars
    <3>2. PeerTypeOK'
      BY <1>1, <1>2, <3>1 DEF PeerTypeOK, TypeOK
    <3>3. ClaimHasAClient' /\ Subscribed' /\ WaitingHears'
      BY <1>1, <1>2, <2>2, <3>1
         DEF TypeOK, ClaimHasAClient, Live, Subscribed, WaitingHears, AtThisTable
    <3>4. QED BY <3>2, <3>3 DEF GateInv
  <2>3. QED BY <2>1, <2>2
<1>6. CASE HearChange(p)
  <2>1. CASE AtThisTable(Head(inbox[p]), p)
    BY <1>6, <2>1, LeaveGateInv DEF HearChange
  <2>2. CASE ~AtThisTable(Head(inbox[p]), p)
    <3>1. /\ inbox' = [inbox EXCEPT ![p] = Tail(inbox[p])] /\ inbox[p] # << >>
          /\ UNCHANGED <<gate, lagged, watching, held, newest, phase, view, registry,
                         lastRegistered>>
      BY <1>6, <2>2 DEF HearChange, playVars
    <3>2. inbox[p] \in Seq(News) /\ Len(inbox[p]) <= Cap
      BY <1>1, <1>2 DEF TypeOK
    <3>3. /\ Tail(inbox[p]) \in Seq(News) /\ Len(Tail(inbox[p])) <= Cap
          /\ \A c \in News : c # Head(inbox[p]) /\ Unread(inbox[p], c) => Unread(Tail(inbox[p]), c)
      <4>1. Tail(inbox[p]) \in Seq(News) /\ Len(Tail(inbox[p])) = Len(inbox[p]) - 1
        BY <3>1, <3>2
      <4>2. \A i \in 2 .. Len(inbox[p]) :
              i - 1 \in 1 .. Len(Tail(inbox[p])) /\ Tail(inbox[p])[i - 1] = inbox[p][i]
        BY <3>1, <3>2, <4>1
      <4>3. Head(inbox[p]) = inbox[p][1]
        BY <3>1, <3>2
      <4>4. \A i \in 1 .. Len(inbox[p]) : i = 1 \/ i \in 2 .. Len(inbox[p])
        BY <3>2
      <4>5. Len(inbox[p]) \in Nat /\ Cap \in Nat
        BY <3>2, PlayFieldAssumption
      <4>6. Len(Tail(inbox[p])) <= Cap
        BY <3>2, <4>1, <4>5
      <4>7. QED BY <4>1, <4>2, <4>3, <4>4, <4>6 DEF Unread
    <3>4. PeerTypeOK'
      BY <1>1, <1>2, <3>1, <3>3 DEF PeerTypeOK, TypeOK
    <3>5. WaitingHears'
      <4>1. SUFFICES ASSUME NEW q \in Peers, gate[q] = "waiting", AtThisTable(held, q)
                     PROVE  phase[held] = "swapped" \/ lagged[q] \/ Unread(inbox'[q], held)
        BY <3>1 DEF WaitingHears, AtThisTable
      <4>2. phase[held] = "swapped" \/ lagged[q] \/ Unread(inbox[q], held)
        BY <1>1, <4>1 DEF WaitingHears
      <4>3. CASE q = p
        <5>1. held # Head(inbox[p]) /\ held \in News
          BY <1>1, <2>2, <4>1, <4>3 DEF TypeOK
        <5>2. inbox'[p] = Tail(inbox[p])
          BY <1>1, <1>2, <3>1 DEF TypeOK
        <5>3. QED BY <3>3, <4>2, <4>3, <5>1, <5>2
      <4>4. CASE q # p
        BY <1>1, <1>2, <3>1, <4>2, <4>4 DEF TypeOK
      <4>5. QED BY <4>3, <4>4
    <3>6. ClaimHasAClient' /\ Subscribed'
      BY <1>1, <3>1 DEF ClaimHasAClient, Live, Subscribed
    <3>7. QED BY <3>4, <3>5, <3>6 DEF GateInv
  <2>3. QED BY <2>1, <2>2
<1>7. CASE Deadline(p)
  BY <1>7, LeaveGateInv DEF Deadline
<1>8. CASE Register(p) \/ EndPeer(p)
  <2>1. /\ UNCHANGED vars
        /\ \E g \in {"registered", "gone"} : gate' = [gate EXCEPT ![p] = g]
        /\ registry' \in [Sessions -> Peers \cup {NoStream}]
        /\ lastRegistered' \in [Sessions -> Peers \cup {NoStream}]
    BY <1>1, <1>8, PeerAssumption DEF Register, EndPeer, PeerTypeOK
  <2>2. UNCHANGED <<held, newest, phase, watching, inbox, lagged, view>>
    BY <2>1 DEF vars
  <2>3. PeerTypeOK'
    BY <1>1, <2>1, <2>2 DEF PeerTypeOK, TypeOK, Gate
  <2>4. ClaimHasAClient' /\ Subscribed' /\ WaitingHears'
    BY <1>1, <2>1, <2>2
       DEF PeerTypeOK, ClaimHasAClient, Live, Subscribed, WaitingHears, AtThisTable
  <2>5. QED BY <2>3, <2>4 DEF GateInv
<1>9. QED BY <1>3, <1>4, <1>5, <1>6, <1>7, <1>8 DEF PeerStep

\* The invariant of the gate holds always.
LEMMA GateInvariant == PeerSpec => []GateInv
<1>1. GateInv /\ [PeerNext]_allVars => GateInv'
  <2>1. CASE GateInv /\ PeerNext
    BY <2>1, StreamGateInv, PeerGateInv DEF PeerNext
  <2>2. CASE GateInv /\ UNCHANGED allVars
    BY <2>2 DEF allVars, vars, peerVars, GateInv, PeerTypeOK, TypeOK, ClaimHasAClient, Live,
        Subscribed, WaitingHears, AtThisTable
  <2>3. QED BY <2>1, <2>2
<1>2. QED BY <1>1, InitGateInv, PTL DEF PeerSpec

\* Claims, streams, peers and registry keep their types, and no receiver is more
\* than the channel's capacity behind.
THEOREM PeerTypeCorrect == PeerSpec => []PeerTypeOK
<1>1. GateInv => PeerTypeOK
  BY DEF GateInv
<1>2. QED BY <1>1, GateInvariant, PTL

\* A claim taken while a peer subscribes, reads or waits is not missed, however
\* claims are announced and whatever the channel overwrites (holds_play_field).
THEOREM ClaimIsNotMissed == PeerSpec => []NoClaimMissed
<1>1. GateInv => NoClaimMissed
  <2>1. SUFFICES ASSUME GateInv, NEW p \in Peers, gate[p] = "waiting", ~lagged[p],
                        inbox[p] = << >>, \A s \in Streams : phase[s] # "swapped",
                        AtThisTable(held, p)
                 PROVE  FALSE
    BY DEF NoClaimMissed
  <2>2. held \in Streams
    BY <2>1 DEF GateInv, PeerTypeOK, TypeOK, News, AtThisTable
  <2>3. Unread(inbox[p], held)
    BY <2>1, <2>2 DEF GateInv, WaitingHears
  <2>4. QED BY <2>1, <2>3 DEF Unread
<1>2. QED BY <1>1, GateInvariant, PTL

-----------------------------------------------------------------------------
(* The windows: whoever has read its news was told the same last thing *)

\* What an open stream was told last, read or not.
LastWord(s) == IF inbox[s] = << >> THEN view[s] ELSE inbox[s][Len(inbox[s])]

\* A stream that is open listens from before its claim until it is dropped.
Listens == \A s \in Streams : phase[s] \in {"watching", "swapped", "open"} => s \in watching
OneLastWord ==
    \A s, u \in Streams : phase[s] = "open" /\ phase[u] = "open" => LastWord(s) = LastWord(u)

AgreeInv == GateInv /\ Listens /\ OneLastWord

\* An announcement is the last word to all who listen, also to one that was Cap
\* behind.
LEMMA AnnouncedLast ==
    ASSUME TypeOK, NEW news \in News, Announce(news), NEW x \in watching
    PROVE  inbox'[x] # << >> /\ inbox'[x][Len(inbox'[x])] = news
<1>1. x \in Receivers /\ inbox[x] \in Seq(News) /\ Len(inbox[x]) <= Cap
  BY DEF TypeOK
<1>2. inbox'[x] = Pushed(inbox[x], news)
  BY <1>1 DEF Announce, Pushed
<1>3. CASE Len(inbox[x]) < Cap
  <2>1. inbox'[x] = Append(inbox[x], news)
    BY <1>2, <1>3 DEF Pushed
  <2>2. QED BY <1>1, <2>1
<1>4. CASE Len(inbox[x]) = Cap
  <2>1. inbox[x] # << >>
    BY <1>1, <1>4, PlayFieldAssumption
  <2>2. Tail(inbox[x]) \in Seq(News) /\ inbox'[x] = Append(Tail(inbox[x]), news)
    BY <1>1, <1>2, <1>4, <2>1, PlayFieldAssumption DEF Pushed
  <2>3. QED BY <2>2
<1>5. QED BY <1>1, <1>3, <1>4, PlayFieldAssumption

\* After an announcement those who were open and listened have one last word.
LEMMA AnnounceAgrees ==
    ASSUME TypeOK, Listens, NEW news \in News, Announce(news),
           \A s \in Streams : phase'[s] = "open" => s \in watching
    PROVE  OneLastWord'
<1>1. ASSUME NEW s \in Streams, phase'[s] = "open" PROVE LastWord(s)' = news
  BY <1>1, AnnouncedLast DEF LastWord
<1>2. QED BY <1>1 DEF OneLastWord

\* Reading an item leaves everybody's last word as it is.
LEMMA ForwardKeepsWord ==
    ASSUME TypeOK, NEW s \in Streams, Forward(s)
    PROVE  \A u \in Streams : LastWord(u)' = LastWord(u)
<1>1. /\ view' = [view EXCEPT ![s] = Head(inbox[s])]
      /\ inbox' = [inbox EXCEPT ![s] = Tail(inbox[s])]
      /\ inbox[s] # << >>
  BY DEF Forward
<1>2. LastWord(s)' = LastWord(s)
  <2> DEFINE q == inbox[s]
  <2>1. q \in Seq(News) /\ q # << >> /\ inbox'[s] = Tail(q) /\ view'[s] = Head(q)
    BY <1>1, PlayFieldAssumption DEF TypeOK
  <2> HIDE DEF q
  <2>2. CASE Len(q) = 1
    <3>1. Tail(q) = << >> /\ Head(q) = q[Len(q)]
      BY <2>1, <2>2
    <3>2. QED BY <2>1, <3>1 DEF LastWord, q
  <2>3. CASE Len(q) > 1
    <3>1. Tail(q) \in Seq(News) /\ Len(Tail(q)) = Len(q) - 1 /\ Len(q) \in Nat
      BY <2>1
    <3>2. \A i \in 1 .. Len(q) - 1 : Tail(q)[i] = q[i + 1]
      BY <2>1
    <3> DEFINE n == Len(q)
               m == Len(Tail(q))
    <3>3. m = n - 1 /\ n \in Nat /\ n > 1
      BY <2>3, <3>1
    <3> HIDE DEF n, m
    <3>4. m \in 1 .. n - 1 /\ m + 1 = n /\ m # 0
      BY <3>3
    <3>5. Len(<< >>) = 0
      OBVIOUS
    <3>6. Tail(q) # << >>
      BY <3>4, <3>5 DEF m
    <3>7. Tail(q)[m] = q[m + 1]
      BY <3>2, <3>4 DEF n
    <3>8. Tail(q)[Len(Tail(q))] = q[Len(q)]
      BY <3>4, <3>7 DEF n, m
    <3>9. QED BY <2>1, <3>6, <3>8 DEF LastWord, q
  <2>4. Len(q) = 1 \/ Len(q) > 1
    <3> DEFINE n == Len(q)
    <3>1. n \in Nat /\ n # 0
      BY <2>1
    <3> HIDE DEF n
    <3>2. n = 1 \/ n > 1
      BY <3>1
    <3>3. QED BY <3>2 DEF n
  <2>5. QED BY <2>2, <2>3, <2>4
<1>3. \A u \in Streams \ {s} : LastWord(u)' = LastWord(u)
  BY <1>1, PlayFieldAssumption DEF LastWord, TypeOK
<1>4. QED BY <1>2, <1>3

\* Every step of a stream keeps them in agreement.
LEMMA StreamAgrees ==
    ASSUME AgreeInv, NEW s \in Streams, StreamStep(s)
    PROVE  Listens' /\ OneLastWord'
<1>1. TypeOK /\ Listens /\ OneLastWord /\ s \in Receivers /\ s \in News /\ NoStream \in News
  BY PlayFieldAssumption DEF AgreeInv, GateInv, PeerTypeOK, News
<1>2. phase \in [Streams -> Phase] /\ watching \in SUBSET Receivers
  BY <1>1 DEF TypeOK
<1>3. CASE OpenStream(s)
  BY <1>1, <1>2, <1>3 DEF OpenStream, Watch, Listens, OneLastWord, LastWord
<1>4. CASE Swap(s)
  BY <1>1, <1>2, <1>4 DEF Swap, Listens, OneLastWord, LastWord
<1>5. CASE AnnounceClaim(s)
  <2>1. /\ Announce(s) /\ phase[s] = "swapped" /\ phase' = [phase EXCEPT ![s] = "open"]
        /\ watching' = watching
    BY <1>5 DEF AnnounceClaim, Announce
  <2>2. Listens'
    BY <1>1, <1>2, <2>1 DEF Listens
  <2>3. \A u \in Streams : phase'[u] = "open" => u \in watching
    BY <1>1, <1>2, <2>1 DEF Listens
  <2>4. QED BY <1>1, <2>1, <2>2, <2>3, AnnounceAgrees
<1>6. CASE Forward(s)
  BY <1>1, <1>6, ForwardKeepsWord DEF Forward, Listens, OneLastWord
<1>7. CASE DropStream(s)
  <2>1. /\ Unwatch(s) /\ view' = view
        /\ phase' = [phase EXCEPT ![s] = IF held = s THEN "released" ELSE "done"]
    BY <1>7 DEF DropStream
  <2>2. \A u \in Streams \ {s} : /\ inbox'[u] = inbox[u] /\ phase'[u] = phase[u]
                                 /\ u \in watching => u \in watching'
    BY <1>1, <1>2, <2>1, UnwatchFacts, PlayFieldAssumption
  <2>3. phase'[s] \in {"released", "done"}
    BY <1>2, <2>1
  <2>4. QED BY <1>1, <2>1, <2>2, <2>3 DEF Listens, OneLastWord, LastWord
<1>8. CASE AnnounceRelease(s)
  <2>1. /\ Announce(NoStream) /\ phase' = [phase EXCEPT ![s] = "done"] /\ watching' = watching
    BY <1>8 DEF AnnounceRelease, Announce
  <2>2. Listens'
    BY <1>1, <1>2, <2>1 DEF Listens
  <2>3. \A u \in Streams : phase'[u] = "open" => u \in watching
    BY <1>1, <1>2, <2>1 DEF Listens
  <2>4. QED BY <1>1, <2>1, <2>2, <2>3, AnnounceAgrees
<1>9. QED BY <1>3, <1>4, <1>5, <1>6, <1>7, <1>8 DEF StreamStep

\* A peer's step touches nobody's receiver but its own.
LEMMA PeerLeavesStreams ==
    ASSUME TypeOK, NEW p \in Peers, PeerStep(p)
    PROVE  /\ phase' = phase /\ view' = view
           /\ \A s \in Streams : inbox'[s] = inbox[s] /\ (s \in watching => s \in watching')
<1>1. Streams \subseteq Receivers /\ p \in Receivers /\ \A s \in Streams : s # p
  BY PlayFieldAssumption, PeerAssumption
<1>2. ASSUME Unwatch(p)
      PROVE  \A s \in Streams : inbox'[s] = inbox[s] /\ (s \in watching => s \in watching')
  BY <1>1, <1>2, UnwatchFacts
<1>3. phase' = phase /\ view' = view
  BY DEF PeerStep, StartWatch, ReadClaim, HearLagged, HearChange, Deadline, Register, EndPeer, playVars, vars
<1>4. CASE Unwatch(p)
  BY <1>2, <1>3, <1>4
<1>5. CASE UNCHANGED <<watching, inbox>>
  BY <1>3, <1>5
<1>6. CASE StartWatch(p)
  BY <1>3, <1>6 DEF StartWatch, Watch
<1>7. CASE HearChange(p)
  <2>1. CASE watching' = watching /\ inbox' = [inbox EXCEPT ![p] = Tail(inbox[p])]
    BY <1>1, <1>3, <2>1 DEF TypeOK
  <2>2. QED BY <1>4, <1>7, <2>1 DEF HearChange
<1>8. CASE ReadClaim(p) \/ HearLagged(p) \/ Deadline(p) \/ Register(p) \/ EndPeer(p)
  <2>1. Unwatch(p) \/ UNCHANGED <<watching, inbox>>
    BY <1>8 DEF ReadClaim, HearLagged, Deadline, Register, EndPeer, vars
  <2>2. QED BY <1>4, <1>5, <2>1
<1>9. QED BY <1>6, <1>7, <1>8 DEF PeerStep

\* The account's windows are in agreement always.
LEMMA AgreeInvariant == PeerSpec => []AgreeInv
<1>1. PeerInit => AgreeInv
  BY InitGateInv DEF AgreeInv, PeerInit, Init, Listens, OneLastWord
<1>2. AgreeInv /\ [PeerNext]_allVars => AgreeInv'
  <2>1. SUFFICES ASSUME AgreeInv, [PeerNext]_allVars PROVE AgreeInv'
    OBVIOUS
  <2>2. GateInv /\ TypeOK /\ Listens /\ OneLastWord
    BY <2>1 DEF AgreeInv, GateInv, PeerTypeOK
  <2>3. ASSUME NEW s \in Streams, StreamStep(s), UNCHANGED peerVars PROVE AgreeInv'
    BY <2>1, <2>2, <2>3, StreamGateInv, StreamAgrees DEF AgreeInv
  <2>4. ASSUME NEW p \in Peers, PeerStep(p) PROVE AgreeInv'
    <3>1. GateInv'
      BY <2>2, <2>4, PeerGateInv
    <3>2. Listens' /\ OneLastWord'
      BY <2>2, <2>4, PeerLeavesStreams DEF Listens, OneLastWord, LastWord
    <3>3. QED BY <3>1, <3>2 DEF AgreeInv
  <2>5. CASE UNCHANGED allVars
    BY <2>2, <2>5 DEF allVars, vars, peerVars, AgreeInv, GateInv, PeerTypeOK, TypeOK,
        ClaimHasAClient, Live, Subscribed, WaitingHears, AtThisTable, Listens, OneLastWord, LastWord
  <2>6. QED BY <2>1, <2>3, <2>4, <2>5 DEF PeerNext
<1>3. QED BY <1>1, <1>2, PTL DEF PeerSpec

\* announce and play_field_stream: windows that have read their news were told
\* the same last thing, however claims overlap and whatever their channel
\* overwrote.
THEOREM WindowsAreToldTheSame == PeerSpec => []WindowsAgree
<1>1. AgreeInv => WindowsAgree
  BY DEF AgreeInv, OneLastWord, LastWord, WindowsAgree, Told
<1>2. QED BY <1>1, AgreeInvariant, PTL

\* No step of a peer moves a claim or a stream: what PlayFieldProofs shows of the
\* claims alone holds beside the peers.
THEOREM ClaimsStandBesidePeers == PeerSpec => [](ClaimHasAClient /\ NewestClaimHolds)
<1>1. PeerInit => ClaimInv
  BY InitClaimInv DEF PeerInit
<1>2. ClaimInv /\ [PeerNext]_allVars => ClaimInv'
  <2>1. SUFFICES ASSUME ClaimInv, [PeerNext]_allVars PROVE ClaimInv'
    OBVIOUS
  <2>2. ASSUME NEW s \in Streams, StreamStep(s) PROVE ClaimInv'
    BY <2>1, <2>2, NextClaimInv DEF Next
  <2>3. ASSUME NEW p \in Peers, PeerStep(p) PROVE UNCHANGED <<held, newest, phase>>
    BY <2>3 DEF PeerStep, StartWatch, ReadClaim, HearLagged, HearChange, Deadline, Register, EndPeer,
                playVars, vars
  <2>4. CASE UNCHANGED <<held, newest, phase>>
    BY <2>1, <2>4 DEF ClaimInv, ClaimTypes, ClaimHasAClient, NewestClaimHolds, Live
  <2>5. QED BY <2>1, <2>2, <2>3, <2>4 DEF PeerNext, allVars, vars
<1>3. ClaimInv => ClaimHasAClient /\ NewestClaimHolds
  BY DEF ClaimInv
<1>4. QED BY <1>1, <1>2, <1>3, PTL DEF PeerSpec

-----------------------------------------------------------------------------
(* Claims and releases that do not overlap *)

Pending(s) == phase[s] \in {"swapped", "released"}

\* While one claim or release is to be announced, the registry is as it will be
\* announced; while none is, it is what every open stream was told last.
RegistryIsAnnounced ==
    /\ \A s \in Streams : phase[s] = "swapped" => held = s
    /\ \A s \in Streams : phase[s] = "released" => held = NoStream
    /\ (\A s \in Streams : ~Pending(s)) => \A s \in Streams : phase[s] = "open" => LastWord(s) = held

\* Overlap is two pending streams.
LEMMA OverlapIsTwo == ~Overlap => \A s, u \in Streams : Pending(s) /\ Pending(u) => s = u
BY DEF Overlap, Pending

\* After an announcement of the registry that leaves nothing pending it is what
\* all were told.
LEMMA AnnounceSettles ==
    ASSUME TypeOK, NEW news \in News, Announce(news), held' = news,
           \A s \in Streams : phase'[s] = "open" => s \in watching,
           \A s \in Streams : phase'[s] \notin {"swapped", "released"}
    PROVE  RegistryIsAnnounced'
<1>1. ASSUME NEW s \in Streams, phase'[s] = "open" PROVE LastWord(s)' = news
  BY <1>1, AnnouncedLast DEF LastWord
<1>2. QED BY <1>1 DEF RegistryIsAnnounced, Pending

\* What a stream was told last is changed by announcements alone.
LEMMA WordStays ==
    ASSUME TypeOK, NEW s \in Streams, OpenStream(s) \/ Swap(s) \/ Forward(s) \/ DropStream(s)
    PROVE  \A u \in Streams : phase'[u] = "open" => LastWord(u)' = LastWord(u)
<1>1. s \in Receivers /\ Streams \subseteq Receivers /\ phase \in [Streams -> Phase]
  BY PlayFieldAssumption DEF TypeOK
<1>2. CASE OpenStream(s)
  BY <1>2 DEF OpenStream, Watch, LastWord
<1>3. CASE Swap(s)
  BY <1>3 DEF Swap, LastWord
<1>4. CASE Forward(s)
  BY <1>4, ForwardKeepsWord
<1>5. CASE DropStream(s)
  <2>1. Unwatch(s) /\ view' = view /\ phase'[s] # "open"
    BY <1>1, <1>5 DEF DropStream
  <2>2. \A u \in Streams \ {s} : inbox'[u] = inbox[u]
    BY <1>1, <2>1, UnwatchFacts
  <2>3. QED BY <2>1, <2>2 DEF LastWord
<1>6. QED BY <1>2, <1>3, <1>4, <1>5

\* A step of a stream that begins and ends without an overlap.
LEMMA StreamAnnounces ==
    ASSUME AgreeInv, RegistryIsAnnounced, NEW s \in Streams, StreamStep(s), ~Overlap, ~Overlap'
    PROVE  RegistryIsAnnounced'
<1>1. TypeOK /\ Listens /\ phase \in [Streams -> Phase] /\ s \in News /\ NoStream \in News /\ s # NoStream
  BY PlayFieldAssumption DEF AgreeInv, GateInv, PeerTypeOK, TypeOK, News
<1>2. /\ \A u, v \in Streams : Pending(u) /\ Pending(v) => u = v
      /\ \A u, v \in Streams : Pending(u)' /\ Pending(v)' => u = v
  BY OverlapIsTwo DEF Overlap, Pending
<1>3. CASE (OpenStream(s) \/ Forward(s)) /\ held' = held
  <2>1. \A u \in Streams : /\ Pending(u)' <=> Pending(u)
                           /\ phase'[u] = "open" <=> phase[u] = "open"
                           /\ phase'[u] = "swapped" <=> phase[u] = "swapped"
                           /\ phase'[u] = "released" <=> phase[u] = "released"
    BY <1>1, <1>3 DEF OpenStream, Forward, Pending
  <2>2. \A u \in Streams : phase'[u] = "open" => LastWord(u)' = LastWord(u)
    BY <1>1, <1>3, WordStays
  <2>3. QED BY <1>3, <2>1, <2>2 DEF RegistryIsAnnounced
<1>4. CASE Swap(s)
  <2>1. held' = s /\ phase'[s] = "swapped" /\ Pending(s)'
    BY <1>1, <1>4 DEF Swap, Pending
  <2>2. \A u \in Streams : phase'[u] \in {"swapped", "released"} => u = s
    BY <1>2, <2>1 DEF Pending
  <2>3. QED BY <2>1, <2>2 DEF RegistryIsAnnounced
<1>5. CASE AnnounceClaim(s)
  <2>1. /\ Announce(s) /\ phase[s] = "swapped" /\ phase' = [phase EXCEPT ![s] = "open"] /\ held' = held
    BY <1>5 DEF AnnounceClaim
  <2>2. held' = s
    BY <2>1 DEF RegistryIsAnnounced
  <2>3. \A u \in Streams : phase'[u] \notin {"swapped", "released"}
    BY <1>1, <1>2, <2>1 DEF Pending
  <2>4. \A u \in Streams : phase'[u] = "open" => u \in watching
    BY <1>1, <2>1 DEF Listens
  <2>5. QED BY <1>1, <2>1, <2>2, <2>3, <2>4, AnnounceSettles
<1>6. CASE AnnounceRelease(s)
  <2>1. /\ Announce(NoStream) /\ phase[s] = "released" /\ phase' = [phase EXCEPT ![s] = "done"]
        /\ held' = held
    BY <1>6 DEF AnnounceRelease
  <2>2. held' = NoStream
    BY <2>1 DEF RegistryIsAnnounced
  <2>3. \A u \in Streams : phase'[u] \notin {"swapped", "released"}
    BY <1>1, <1>2, <2>1 DEF Pending
  <2>4. \A u \in Streams : phase'[u] = "open" => u \in watching
    BY <1>1, <2>1 DEF Listens
  <2>5. QED BY <1>1, <2>1, <2>2, <2>3, <2>4, AnnounceSettles
<1>7. CASE DropStream(s)
  <2>1. /\ phase[s] = "open" /\ phase' = [phase EXCEPT ![s] = IF held = s THEN "released" ELSE "done"]
        /\ held' = IF held = s THEN NoStream ELSE held
    BY <1>7 DEF DropStream
  <2>2. CASE held = s
    <3>1. held' = NoStream /\ phase'[s] = "released" /\ Pending(s)'
      BY <1>1, <2>1, <2>2 DEF Pending
    <3>2. \A u \in Streams : phase'[u] \in {"swapped", "released"} => u = s
      BY <1>2, <3>1 DEF Pending
    <3>3. QED BY <3>1, <3>2 DEF RegistryIsAnnounced
  <2>3. CASE held # s
    <3>1. /\ held' = held /\ phase'[s] = "done"
          /\ \A u \in Streams \ {s} : phase'[u] = phase[u]
      BY <1>1, <2>1, <2>3
    <3>2. \A u \in Streams : Pending(u)' <=> Pending(u)
      BY <2>1, <3>1 DEF Pending
    <3>3. \A u \in Streams : phase'[u] = "open" => LastWord(u)' = LastWord(u)
      BY <1>1, <1>7, WordStays
    <3>4. QED BY <3>1, <3>2, <3>3 DEF RegistryIsAnnounced
  <2>4. QED BY <2>2, <2>3
<1>8. (OpenStream(s) \/ Forward(s)) => held' = held
  BY DEF OpenStream, Forward
<1>9. QED BY <1>3, <1>4, <1>5, <1>6, <1>7, <1>8 DEF StreamStep

\* "so a demoted client learns it has become a companion" is true of an account
\* whose claims and releases never overlap: with nothing pending, a window that
\* has read its news believes it is at the table only if the claim is its own.
\* Without that condition it is not: two swaps can be announced in the other order.
THEOREM LearnsWithoutOverlap == PeerSpec /\ []~Overlap => []DemotedClientLearns
<1>1. PeerInit => RegistryIsAnnounced
  BY DEF PeerInit, Init, RegistryIsAnnounced
<1>2. AgreeInv /\ RegistryIsAnnounced /\ ~Overlap /\ ~Overlap' /\ [PeerNext]_allVars => RegistryIsAnnounced'
  <2>1. SUFFICES ASSUME AgreeInv, RegistryIsAnnounced, ~Overlap, ~Overlap', [PeerNext]_allVars
                 PROVE  RegistryIsAnnounced'
    OBVIOUS
  <2>2. ASSUME NEW p \in Peers, PeerStep(p) PROVE RegistryIsAnnounced'
    <3>1. held' = held
      BY <2>2 DEF PeerStep, StartWatch, ReadClaim, HearLagged, HearChange, Deadline, Register, EndPeer,
                  playVars, vars
    <3>2. phase' = phase /\ view' = view /\ \A s \in Streams : inbox'[s] = inbox[s]
      BY <2>1, <2>2, PeerLeavesStreams DEF AgreeInv, GateInv, PeerTypeOK
    <3>3. QED BY <2>1, <3>1, <3>2 DEF RegistryIsAnnounced, Pending, LastWord
  <2>3. CASE UNCHANGED allVars
    BY <2>1, <2>3 DEF allVars, vars, RegistryIsAnnounced, Pending, LastWord
  <2>4. QED BY <2>1, <2>2, <2>3, StreamAnnounces DEF PeerNext
<1>3. RegistryIsAnnounced => DemotedClientLearns
  BY DEF RegistryIsAnnounced, DemotedClientLearns, Settled, Told, Believes, LastWord, Pending
<1>4. QED BY <1>1, <1>2, <1>3, AgreeInvariant, PTL DEF PeerSpec
=============================================================================
