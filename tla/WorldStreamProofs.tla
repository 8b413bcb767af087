-------------------------- MODULE WorldStreamProofs --------------------------
(***************************************************************************)
(* Proofs about WorldStream, for every set of events, rolls and consumers, *)
(* every channel capacity and catch-up limit, and any number of drops.     *)
(***************************************************************************)
EXTENDS WorldStream, NumberLemmas

-----------------------------------------------------------------------------
(* Reading one row more than the limit *)

\* A cursor is one of the ids it is taken from, or where nothing has been seen.
LEMMA HighestType ==
    ASSUME NEW S, S \subseteq Ids \cup {0}
    PROVE  Highest(S) \in S \cup {0} /\ Highest(S) \in Ids \cup {0}
<1>1. S \cup {0} \subseteq Nat /\ IsFiniteSet(S \cup {0})
  <2>1. IsFiniteSet(Ids \cup {0})
    BY WorldStreamAssumption, FS_AddElement
  <2>2. S \cup {0} \in SUBSET (Ids \cup {0})
    OBVIOUS
  <2>3. IsFiniteSet(S \cup {0})
    BY <2>1, <2>2, FS_Subset
  <2>4. QED BY <2>2, <2>3, WorldStreamAssumption
<1>2. \E e \in S \cup {0} : \A d \in S : d <= e
  BY <1>1, GreatestExists
<1>3. Highest(S) \in S \cup {0}
  BY <1>2 DEF Highest
<1>4. QED BY <1>3

\* No more than n are the n lowest.
LEMMA LowestBound ==
    ASSUME NEW S, S \subseteq Ids, NEW n \in Nat
    PROVE  /\ Lowest(S, n) \subseteq S
           /\ Cardinality(Lowest(S, n)) <= n
<1> DEFINE R == Lowest(S, n)
<1>1. R \subseteq S /\ IsFiniteSet(S) /\ IsFiniteSet(R) /\ S \subseteq Nat
  BY FS_Subset, WorldStreamAssumption DEF Lowest
<1>2. CASE R = {}
  BY <1>1, <1>2, FS_EmptySet
<1>3. CASE R # {}
  <2>1. PICK m \in R : \A d \in R : d <= m
    BY <1>1, <1>3, GreatestExists
  <2> DEFINE below == {d \in S : d < m}
  <2>2. Cardinality(below) < n
    BY <2>1 DEF Lowest
  <2>3. IsFiniteSet(below) /\ Cardinality(below) \in Nat
    BY <1>1, FS_Subset, FS_CardinalityType
  <2>4. R \ {m} \subseteq below
    <3>1. SUFFICES ASSUME NEW d \in R, d # m PROVE d < m
      BY <1>1
    <3>2. d <= m /\ d \in Nat /\ m \in Nat
      BY <2>1, <1>1
    <3>3. QED BY <3>1, <3>2
  <2>5. Cardinality(R \ {m}) <= Cardinality(below)
    BY <2>3, <2>4, FS_Subset
  <2>6. Cardinality(R \ {m}) = Cardinality(R) - 1 /\ Cardinality(R) \in Nat
    BY <1>1, FS_RemoveElement, FS_CardinalityType
  <2>7. QED BY <1>1, <2>2, <2>3, <2>5, <2>6
<1>4. QED BY <1>2, <1>3

\* Of the rows read with one to spare, no more than the limit means that they
\* are all there are, and that none is dropped again: catch_up's truncated.
LEMMA NotTruncatedIsAll ==
    ASSUME NEW S, S \subseteq Ids, NEW n \in Nat,
           ~(Cardinality(Lowest(S, n + 1)) > n)
    PROVE  Lowest(Lowest(S, n + 1), n) = S
<1> DEFINE R == Lowest(S, n + 1)
<1>1. R \subseteq S /\ IsFiniteSet(S) /\ IsFiniteSet(R) /\ S \subseteq Nat
  BY FS_Subset, WorldStreamAssumption DEF Lowest
<1>2. Cardinality(R) \in Nat /\ Cardinality(R) <= n
  BY <1>1, FS_CardinalityType
<1>3. R = S
  <2>1. SUFFICES ASSUME S \ R # {} PROVE FALSE
    BY <1>1
  <2>2. PICK m \in S \ R : \A d \in S \ R : m <= d
    BY <2>1, <1>1, LeastExists
  <2> DEFINE below == {d \in S : d < m}
  <2>3. below \subseteq R
    <3>1. SUFFICES ASSUME NEW d \in S, d < m, d \notin R PROVE FALSE
      OBVIOUS
    <3>2. m <= d
      BY <3>1, <2>2
    <3>3. QED BY <3>1, <3>2, <1>1
  <2>4. Cardinality(below) \in Nat /\ Cardinality(below) <= Cardinality(R)
    BY <2>3, <1>1, FS_Subset, FS_CardinalityType
  <2>5. Cardinality(below) < n + 1
    BY <2>4, <1>2
  <2>6. m \in R
    BY <2>2, <2>5 DEF Lowest
  <2>7. QED BY <2>2, <2>6
<1>4. \A e \in R : Cardinality({d \in R : d < e}) < n
  <2>1. SUFFICES ASSUME NEW e \in R PROVE Cardinality({d \in R : d < e}) < n
    OBVIOUS
  <2> DEFINE below == {d \in R : d < e}
  <2>2. below \subseteq R \ {e}
    <3>1. SUFFICES ASSUME NEW d \in R, d < e PROVE d # e
      OBVIOUS
    <3>2. d \in Nat /\ e \in Nat
      BY <1>1
    <3>3. QED BY <3>1, <3>2
  <2>3. IsFiniteSet(R \ {e}) /\ Cardinality(R \ {e}) = Cardinality(R) - 1
    BY <1>1, FS_RemoveElement
  <2>4. Cardinality(below) \in Nat /\ Cardinality(below) <= Cardinality(R \ {e})
    BY <2>2, <2>3, FS_Subset, FS_CardinalityType
  <2>5. QED BY <2>3, <2>4, <1>2
<1>5. Lowest(R, n) = R
  BY <1>4 DEF Lowest
<1>6. QED BY <1>3, <1>5

-----------------------------------------------------------------------------
(* The types *)

\* They hold when the server and the tab have just started.
LEMMA InitType == Init => TypeOK
<1>1. SUFFICES ASSUME Init PROVE TypeOK
  OBVIOUS
<1>2. NoCall \in Call
  BY DEF NoCall, Call, Phase
<1>3. NoCall.rows = {} /\ NoCall.owed = {} /\ Cardinality({}) = 0
  BY FS_EmptySet DEF NoCall
<1>4. CallTypes
  <2>1. CatchUpLimit \in Nat /\ call = [k \in Reconnects |-> NoCall]
    BY <1>1, WorldStreamAssumption DEF Init
  <2>2. \A k \in Reconnects : call[k] = NoCall
    BY <2>1
  <2>3. Cardinality(NoCall.rows) <= CatchUpLimit
    BY <2>1, <1>3
  <2>4. QED BY <2>1, <2>2, <2>3, <1>2, <1>3 DEF CallTypes
<1>5. /\ rx \in [Consumers -> Seq(stored)]
      /\ \A s \in Consumers : Len(rx[s]) <= Capacity
  BY <1>1, WorldStreamAssumption DEF Init
<1>6. /\ at \in [Consumers -> Stage] /\ receivers = {s \in Consumers : at[s] = "open"}
      /\ \A s \in Consumers : at[s] \in {"admitted", "open"} => socket
      /\ receivers # {} => channel
      /\ held \in [Consumers -> (secret \cap stored) \cup {0}]
  BY <1>1 DEF Init, Stage
<1>7. /\ high \in [Consumers -> Ids \cup {0}] /\ lastSeen \in Ids \cup {0}
      /\ got \in [Consumers -> SUBSET stored] /\ shed \in [Consumers -> SUBSET stored]
  BY <1>1 DEF Init
<1>8. demotion \in Demotion /\ clearing \in Clearing
  BY <1>1 DEF Init, NoDemotion, Demotion, NoClearing, Clearing
<1>9. WorldTypes
  <2>1. drops \in 0 .. MaxDrops
    BY <1>1, WorldStreamAssumption DEF Init
  <2>2. QED BY <1>1, <2>1 DEF Init, WorldTypes
<1>10. QED BY <1>4, <1>5, <1>6, <1>7, <1>8, <1>9 DEF TypeOK, StreamTypes, TabTypes

\* Push keeps to the stored events, and to the channel's capacity.
LEMMA PushType ==
    ASSUME NEW S, NEW q \in Seq(S), NEW e \in S, Len(q) <= Capacity
    PROVE  Push(q, e) \in Seq(S) /\ Len(Push(q, e)) <= Capacity
BY WorldStreamAssumption DEF Push

\* What one live event does to the tab.
LEMMA DeliverType ==
    ASSUME TypeOK, NEW s \in Consumers, NEW e \in stored, Deliver(s, e)
    PROVE  /\ high' \in [Consumers -> Ids \cup {0}]
           /\ got' \in [Consumers -> SUBSET stored]
           /\ shed' = shed
           /\ lastSeen' \in {lastSeen, e} /\ lastSeen' \in Ids \cup {0}
           /\ \A t \in Consumers :
                 got[t] \subseteq got'[t] /\ got'[t] \subseteq got[t] \cup {e}
           /\ \A t \in Consumers : t # s => got'[t] = got[t]
<1>1. CASE e <= high[s]
  BY <1>1 DEF TypeOK, TabTypes, Deliver, tabVars
<1>2. CASE ~(e <= high[s])
  <2>1. e \in Ids /\ high \in [Consumers -> Ids \cup {0}] /\ got \in [Consumers -> SUBSET stored]
    BY DEF TypeOK, WorldTypes, TabTypes
  <2>2. /\ high' = [high EXCEPT ![s] = e]
        /\ got' = [got EXCEPT ![s] = @ \cup {e}]
        /\ lastSeen' = IF e > lastSeen THEN e ELSE lastSeen
        /\ shed' = shed
    BY <1>2 DEF Deliver
  <2>3. lastSeen' \in {lastSeen, e} /\ lastSeen' \in Ids \cup {0}
    BY <2>1, <2>2 DEF TypeOK, TabTypes
  <2>4. /\ high' \in [Consumers -> Ids \cup {0}]
        /\ got' \in [Consumers -> SUBSET stored]
    BY <2>1, <2>2
  <2>5. QED BY <2>1, <2>2, <2>3, <2>4
<1>3. QED BY <1>1, <1>2

\* Every action keeps the types of the world, the router and the socket.
LEMMA WorldTypesStep == TypeOK /\ Next => WorldTypes'
<1>1. SUFFICES ASSUME TypeOK, Next PROVE WorldTypes'
  OBVIOUS
<1> USE WorldStreamAssumption DEF TypeOK, WorldTypes, feedVars, roomVars, routeVars
<1>2. ASSUME NEW e \in Ids, Store(e) \/ Publish(e) PROVE WorldTypes'
  BY <1>1, <1>2 DEF Store, Publish
<1>3. CASE Reap BY <1>1, <1>3 DEF Reap
<1>4. ASSUME NEW s \in Consumers,
             Register(s) \/ Gate(s) \/ Subscribe(s) \/ Take(s) \/ AnswerHeld(s) \/ Tick(s)
      PROVE  WorldTypes'
  BY <1>1, <1>4 DEF Register, Gate, Subscribe, Take, AnswerHeld, Tick
<1>5. CASE Connect BY <1>1, <1>5 DEF Connect
<1>6. CASE Drop
  <2>1. drops' \in 0 .. MaxDrops
    BY <1>1, <1>6 DEF Drop
  <2>2. QED BY <1>1, <1>6, <2>1 DEF Drop
<1>7. CASE Restart
  <2>1. drops' \in 0 .. MaxDrops
    BY <1>1, <1>7 DEF Restart
  <2>2. passed' \subseteq Ids
    BY <1>1, <1>7 DEF Restart
  <2>3. QED BY <1>1, <1>7, <2>1, <2>2 DEF Restart
<1>8. ASSUME NEW k \in Reconnects,
             \/ CatchGate(k) \/ CatchRole(k) \/ CatchClear(k) \/ CatchRead(k)
             \/ CatchFails(k) \/ CatchTooLong(k) \/ CatchApply(k)
      PROVE  WorldTypes'
  BY <1>1, <1>8 DEF CatchGate, CatchRole, CatchClear, CatchRead, CatchFails, CatchTooLong,
                    CatchApply
<1>9. ASSUME NEW p \in BOOLEAN, SetPause(p) PROVE WorldTypes'
  BY <1>1, <1>9 DEF SetPause
<1>10. CASE Revoke BY <1>1, <1>10 DEF Revoke
<1>11. CASE Demote \/ Promote BY <1>1, <1>11 DEF Demote, Promote
<1>12. ASSUME NEW time \in Times, ClearRolls(time) PROVE WorldTypes'
  BY <1>1, <1>12 DEF ClearRolls
<1>13. QED
  BY <1>1, <1>2, <1>3, <1>4, <1>5, <1>6, <1>7, <1>8, <1>9, <1>10, <1>11, <1>12 DEF Next

\* A receiver's unread events stay stored, however many more are.
LEMMA SeqGrows == ASSUME NEW S, NEW T, S \subseteq T PROVE Seq(S) \subseteq Seq(T)
OBVIOUS

\* Every action keeps the types of the streams.
LEMMA StreamTypesStep == TypeOK /\ Next => StreamTypes'
<1>1. SUFFICES ASSUME TypeOK, Next PROVE StreamTypes'
  OBVIOUS
<1> USE DEF TypeOK, WorldTypes, StreamTypes, feedVars, routeVars, streamVars
<1>2. ASSUME NEW e \in Ids, Store(e) PROVE StreamTypes'
  BY <1>1, <1>2, SeqGrows DEF Store
<1>3. ASSUME NEW e \in Ids, Publish(e) PROVE StreamTypes'
  <2>1. rx' \in [Consumers -> Seq(stored)] /\ \A s \in Consumers : Len(rx'[s]) <= Capacity
    BY <1>1, <1>3, PushType DEF Publish
  <2>2. QED BY <1>1, <1>3, <2>1 DEF Publish
<1>4. CASE Reap BY <1>1, <1>4 DEF Reap
<1>5. ASSUME NEW s \in Consumers, Register(s) \/ Gate(s) PROVE StreamTypes'
  BY <1>1, <1>5 DEF Register, Gate, Stage
<1>6. ASSUME NEW s \in Consumers, Subscribe(s) PROVE StreamTypes'
  BY <1>1, <1>6 DEF Subscribe, Stage
<1>7. ASSUME NEW s \in Consumers, Take(s) PROVE StreamTypes'
  <2>1. /\ Head(rx[s]) \in stored /\ Tail(rx[s]) \in Seq(stored)
        /\ Len(Tail(rx[s])) <= Capacity
    BY <1>1, <1>7, WorldStreamAssumption DEF Take
  <2>2. rx' \in [Consumers -> Seq(stored)] /\ \A t \in Consumers : Len(rx'[t]) <= Capacity
    BY <1>1, <1>7, <2>1 DEF Take
  <2>3. held' \in [Consumers -> (secret \cap stored) \cup {0}]
    BY <1>1, <1>7, <2>1 DEF Take
  <2>4. QED BY <1>1, <1>7, <2>2, <2>3 DEF Take
<1>8. ASSUME NEW s \in Consumers, AnswerHeld(s) PROVE StreamTypes'
  BY <1>1, <1>8 DEF AnswerHeld
<1>9. ASSUME NEW s \in Consumers, Tick(s) PROVE StreamTypes'
  BY <1>1, <1>9, WorldStreamAssumption DEF Tick, EndStreams, Stage
<1>10. CASE Connect BY <1>1, <1>10 DEF Connect
<1>11. CASE Drop BY <1>1, <1>11, WorldStreamAssumption DEF Drop, EndStreams, Stage
<1>12. CASE Restart BY <1>1, <1>12, WorldStreamAssumption DEF Restart, EndStreams, Stage
<1>13. ASSUME NEW k \in Reconnects,
              \/ CatchGate(k) \/ CatchRole(k) \/ CatchClear(k) \/ CatchRead(k)
              \/ CatchFails(k) \/ CatchTooLong(k) \/ CatchApply(k)
       PROVE  StreamTypes'
  BY <1>1, <1>13 DEF CatchGate, CatchRole, CatchClear, CatchRead, CatchFails, CatchTooLong,
                     CatchApply
<1>14. ASSUME NEW p \in BOOLEAN, SetPause(p) PROVE StreamTypes'
  BY <1>1, <1>14 DEF SetPause
<1>15. CASE Revoke \/ Demote \/ Promote \/ \E time \in Times : ClearRolls(time)
  BY <1>1, <1>15 DEF Revoke, Demote, Promote, ClearRolls
<1>16. QED
  BY <1>1, <1>2, <1>3, <1>4, <1>5, <1>6, <1>7, <1>8, <1>9, <1>10, <1>11, <1>12, <1>13,
     <1>14, <1>15 DEF Next

-----------------------------------------------------------------------------
(* What a step can do to the tab, to a catch-up and to what is remembered *)

\* The backlog of catch-up k comes to the consumers: each gets what is above
\* its mark, and the cursor follows.
LEMMA ApplyType ==
    ASSUME TypeOK, NEW k \in Reconnects, CatchApply(k)
    PROVE  /\ high' \in [Consumers -> Ids \cup {0}]
           /\ got' \in [Consumers -> SUBSET stored]
           /\ shed' \in [Consumers -> SUBSET stored]
           /\ lastSeen' \in Ids \cup {0}
           /\ lastSeen' \in {lastSeen} \cup call[k].rows \cup {0}
           /\ \A s \in Consumers : /\ got[s] \subseteq got'[s] /\ shed[s] \subseteq shed'[s]
                                   /\ got'[s] \subseteq got[s] \cup call[k].rows
           /\ \A s \in Consumers : at[s] # "idle" => call[k].rows \subseteq got'[s] \cup shed'[s]
<1> DEFINE rows == call[k].rows
           registered == {s \in Consumers : at[s] # "idle"}
           new(s) == {e \in rows : s \in registered /\ e > high[s]}
           old(s) == {e \in rows : s \in registered /\ e <= high[s]}
           seen == IF registered = {} THEN rows ELSE UNION {new(s) : s \in Consumers}
<1>1. /\ high' = [s \in Consumers |-> Highest(new(s) \cup {high[s]})]
      /\ got' = [s \in Consumers |-> got[s] \cup new(s)]
      /\ shed' = [s \in Consumers |-> shed[s] \cup old(s)]
      /\ lastSeen' = Highest({lastSeen} \cup seen)
  BY DEF CatchApply
<1>2. /\ rows \subseteq stored /\ stored \subseteq Ids
      /\ high \in [Consumers -> Ids \cup {0}] /\ lastSeen \in Ids \cup {0}
      /\ got \in [Consumers -> SUBSET stored] /\ shed \in [Consumers -> SUBSET stored]
  BY DEF TypeOK, WorldTypes, TabTypes, CallTypes
<1>3. seen \subseteq rows /\ \A s \in Consumers : new(s) \subseteq rows /\ old(s) \subseteq rows
  OBVIOUS
<1>4. \A s \in Consumers : s \in registered => rows \subseteq new(s) \cup old(s)
  <2>1. SUFFICES ASSUME NEW s \in Consumers, s \in registered, NEW e \in rows
                 PROVE  e > high[s] \/ e <= high[s]
    OBVIOUS
  <2>2. e \in Ids
    BY <1>2
  <2>3. high[s] \in Ids \cup {0}
    BY <1>2
  <2>4. \A d \in Ids \cup {0} : d \in Nat
    BY WorldStreamAssumption
  <2>5. e \in Nat /\ high[s] \in Nat
    BY <2>2, <2>3, <2>4, Zenon
  <2>6. QED BY <2>5
<1>5. \A s \in Consumers : s \in registered <=> at[s] # "idle"
  OBVIOUS
<1> HIDE DEF rows, registered, new, old, seen
<1>6. \A s \in Consumers : Highest(new(s) \cup {high[s]}) \in Ids \cup {0}
  <2>1. \A s \in Consumers : new(s) \cup {high[s]} \subseteq Ids \cup {0}
    BY <1>2, <1>3
  <2>2. QED BY <2>1, HighestType
<1>7. /\ Highest({lastSeen} \cup seen) \in Ids \cup {0}
      /\ Highest({lastSeen} \cup seen) \in {lastSeen} \cup rows \cup {0}
  <2>1. {lastSeen} \cup seen \subseteq Ids \cup {0}
    BY <1>2, <1>3
  <2>2. QED BY <2>1, <1>3, HighestType
<1>8. \A s \in Consumers : /\ got[s] \subseteq got'[s] /\ shed[s] \subseteq shed'[s]
                           /\ got'[s] \subseteq got[s] \cup rows
  BY <1>1, <1>3
<1>9. \A s \in Consumers : at[s] # "idle" => rows \subseteq got'[s] \cup shed'[s]
  BY <1>1, <1>4, <1>5
<1>10. got' \in [Consumers -> SUBSET stored] /\ shed' \in [Consumers -> SUBSET stored]
  BY <1>1, <1>2, <1>3
<1>11. QED BY <1>1, <1>6, <1>7, <1>8, <1>9, <1>10 DEF rows

\* The tab moves only with a live event that passed the questions, or with a
\* catch-up's answer.
LEMMA TabMoves ==
    ASSUME TypeOK, Next
    PROVE  \/ UNCHANGED tabVars
           \/ \E s \in Consumers :
                 /\ Take(s) /\ Deliver(s, Head(rx[s])) /\ Head(rx[s]) \in stored \ secret
           \/ \E s \in Consumers :
                 /\ AnswerHeld(s) /\ Deliver(s, held[s]) /\ held[s] \in stored /\ gm
           \/ \E k \in Reconnects : CatchTooLong(k) \/ CatchApply(k)
<1> DEFINE P == \/ UNCHANGED tabVars
                \/ \E s \in Consumers :
                      /\ Take(s) /\ Deliver(s, Head(rx[s])) /\ Head(rx[s]) \in stored \ secret
                \/ \E s \in Consumers :
                      /\ AnswerHeld(s) /\ Deliver(s, held[s]) /\ held[s] \in stored /\ gm
                \/ \E k \in Reconnects : CatchTooLong(k) \/ CatchApply(k)
<1>1. CASE \E e \in Ids : Store(e) \/ Publish(e)
  BY <1>1 DEF Store, Publish
<1>2. CASE Reap \/ Connect \/ Drop \/ Restart
  BY <1>2 DEF Reap, Connect, Drop, Restart
<1>3. CASE \E s \in Consumers : Register(s) \/ Gate(s) \/ Subscribe(s) \/ Tick(s)
  BY <1>3 DEF Register, Gate, Subscribe, Tick
<1>4. ASSUME NEW s \in Consumers, Take(s) PROVE P
  <2>1. Head(rx[s]) \in stored
    BY <1>4 DEF Take, TypeOK, StreamTypes
  <2>2. UNCHANGED tabVars \/ (Deliver(s, Head(rx[s])) /\ Head(rx[s]) \notin secret)
    BY <1>4 DEF Take
  <2>3. QED BY <1>4, <2>1, <2>2
<1>5. ASSUME NEW s \in Consumers, AnswerHeld(s) PROVE P
  <2>1. held[s] \in stored
    BY <1>5 DEF AnswerHeld, TypeOK, StreamTypes
  <2>2. UNCHANGED tabVars \/ (Deliver(s, held[s]) /\ gm)
    BY <1>5 DEF AnswerHeld
  <2>3. QED BY <1>5, <2>1, <2>2
<1>6. CASE \E k \in Reconnects : CatchGate(k) \/ CatchRole(k) \/ CatchClear(k) \/ CatchRead(k)
                                 \/ CatchFails(k)
  BY <1>6 DEF CatchGate, CatchRole, CatchClear, CatchRead, CatchFails
<1>7. CASE \/ \E p \in BOOLEAN : SetPause(p)
           \/ Revoke \/ Demote \/ Promote \/ \E time \in Times : ClearRolls(time)
  BY <1>7 DEF SetPause, Revoke, Demote, Promote, ClearRolls
<1>8. QED BY <1>1, <1>2, <1>3, <1>4, <1>5, <1>6, <1>7 DEF Next

\* The role, the last clear and what is remembered of them change in no other
\* steps than these.
LEMMA RoomMoves ==
    ASSUME Next
    PROVE  /\ UNCHANGED <<secret, stamp>>
           /\ stored \subseteq stored'
           /\ \/ UNCHANGED <<gm, clearedAt, ghostVars>>
              \/ Demote \/ Promote
              \/ \E time \in Times : ClearRolls(time)
              \/ \E s \in Consumers : Take(s)
<1> USE DEF feedVars, roomVars
<1>1. CASE \E e \in Ids : Store(e) \/ Publish(e)
  BY <1>1 DEF Store, Publish
<1>2. CASE Reap \/ Connect \/ Drop \/ Restart
  BY <1>2 DEF Reap, Connect, Drop, Restart
<1>3. CASE \E s \in Consumers :
              Register(s) \/ Gate(s) \/ Subscribe(s) \/ Tick(s) \/ AnswerHeld(s)
  BY <1>3 DEF Register, Gate, Subscribe, Tick, AnswerHeld
<1>4. CASE \E s \in Consumers : Take(s)
  BY <1>4 DEF Take
<1>5. CASE \E k \in Reconnects : CatchGate(k) \/ CatchRole(k) \/ CatchClear(k) \/ CatchRead(k)
                                 \/ CatchFails(k) \/ CatchTooLong(k) \/ CatchApply(k)
  BY <1>5 DEF CatchGate, CatchRole, CatchClear, CatchRead, CatchFails, CatchTooLong, CatchApply
<1>6. CASE Revoke \/ \E p \in BOOLEAN : SetPause(p)
  BY <1>6 DEF SetPause, Revoke
<1>7. CASE Demote \/ Promote \/ \E time \in Times : ClearRolls(time)
  BY <1>7 DEF Demote, Promote, ClearRolls
<1>8. QED BY <1>1, <1>2, <1>3, <1>4, <1>5, <1>6, <1>7 DEF Next

\* Every action keeps the types of the tab, and what a consumer was pushed or
\* turned away stays so.
LEMMA TabTypesStep ==
    TypeOK /\ Next => /\ TabTypes'
                      /\ \A s \in Consumers : got[s] \subseteq got'[s] /\ shed[s] \subseteq shed'[s]
<1> DEFINE Tab == /\ high' \in [Consumers -> Ids \cup {0}]
                  /\ got' \in [Consumers -> SUBSET stored]
                  /\ shed' \in [Consumers -> SUBSET stored]
                  /\ lastSeen' \in Ids \cup {0}
           Grows == \A s \in Consumers : got[s] \subseteq got'[s] /\ shed[s] \subseteq shed'[s]
<1>1. SUFFICES ASSUME TypeOK, Next PROVE TabTypes' /\ Grows
  OBVIOUS
<1>2. /\ high \in [Consumers -> Ids \cup {0}] /\ lastSeen \in Ids \cup {0}
      /\ got \in [Consumers -> SUBSET stored] /\ shed \in [Consumers -> SUBSET stored]
      /\ demotion \in Demotion /\ clearing \in Clearing
  BY <1>1 DEF TypeOK, TabTypes
<1>3. Tab /\ Grows
  <2>1. CASE UNCHANGED tabVars
    BY <1>2, <2>1 DEF tabVars
  <2>2. ASSUME NEW s \in Consumers, NEW e \in stored, Deliver(s, e) PROVE Tab /\ Grows
    BY <1>1, <1>2, <2>2, DeliverType
  <2>3. ASSUME NEW k \in Reconnects, CatchTooLong(k) PROVE Tab /\ Grows
    <3>1. call[k].latest \in Ids \cup {0}
      BY <1>1 DEF TypeOK, CallTypes, Call
    <3>2. QED BY <1>2, <2>3, <3>1 DEF CatchTooLong
  <2>4. ASSUME NEW k \in Reconnects, CatchApply(k) PROVE Tab /\ Grows
    BY <1>1, <2>4, ApplyType
  <2> HIDE DEF Tab, Grows
  <2>5. QED BY <1>1, <2>1, <2>2, <2>3, <2>4, TabMoves
<1>4. demotion' \in Demotion /\ clearing' \in Clearing
  <2>1. CASE UNCHANGED ghostVars
    BY <1>2, <2>1 DEF ghostVars
  <2>2. CASE Demote
    <3>1. /\ [s \in Consumers |-> got[s] \cap secret] \in [Consumers -> SUBSET Rolls]
          /\ stored \cap secret \in SUBSET Rolls
          /\ (IF lastSeen \in secret THEN lastSeen ELSE 0) \in Ids \cup {0}
          /\ Underway(PastRole) \in SUBSET Reconnects
      BY <1>1, <1>2 DEF TypeOK, WorldTypes, Underway
    <3>2. clearing' = clearing /\
          demotion' = [got |-> [s \in Consumers |-> got[s] \cap secret],
                       stored |-> stored \cap secret,
                       seen |-> IF lastSeen \in secret THEN lastSeen ELSE 0,
                       underway |-> Underway(PastRole)]
      BY <2>2 DEF Demote
    <3>3. QED BY <1>2, <3>1, <3>2 DEF Demotion
  <2>3. CASE Promote
    BY <1>2, <2>3 DEF Promote, Demotion, NoDemotion
  <2>4. ASSUME NEW time \in Times, ClearRolls(time)
        PROVE  demotion' \in Demotion /\ clearing' \in Clearing
    <3> DEFINE had == [s \in Consumers |->
                         {e \in Rolls \cap (got[s] \cup {held[s]}) : stamp[e] <= time}]
    <3>1. had \in [Consumers -> SUBSET Rolls] /\ Underway(PastClear) \in SUBSET Reconnects
      BY DEF Underway
    <3>2. demotion' = demotion /\ clearing' = [passed |-> had, underway |-> Underway(PastClear)]
      BY <2>4 DEF ClearRolls
    <3> HIDE DEF had
    <3>3. QED BY <1>2, <3>1, <3>2 DEF Clearing
  <2>5. ASSUME NEW s \in Consumers, Take(s)
        PROVE  demotion' \in Demotion /\ clearing' \in Clearing
    <3>1. /\ demotion' = demotion
          /\ \/ clearing' = [clearing EXCEPT !.passed[s] = @]
             \/ /\ Head(rx[s]) \in Rolls
                /\ clearing' = [clearing EXCEPT !.passed[s] = @ \cup {Head(rx[s])}]
      BY <2>5 DEF Take, IsCleared
    <3>2. QED BY <1>2, <3>1 DEF Clearing
  <2>6. QED BY <1>1, <2>1, <2>2, <2>3, <2>4, <2>5, RoomMoves
<1>5. got' \in [Consumers -> SUBSET stored'] /\ shed' \in [Consumers -> SUBSET stored']
  <2>1. stored \subseteq stored'
    BY <1>1, RoomMoves
  <2>2. QED BY <1>3, <2>1
<1>6. QED BY <1>3, <1>4, <1>5 DEF TabTypes

-----------------------------------------------------------------------------
(* What a catch-up answers *)

\* A catch-up that could not be had carries nothing.
LEMMA UnavailableType ==
    /\ Unavailable \in Call /\ Unavailable.phase = "unavailable"
    /\ Unavailable.rows = {} /\ Unavailable.owed = {}
BY DEF Unavailable, NoCall, Call, Phase

\* The rows of an answer: no more than the limit, all of what is owed unless it
\* says otherwise, and of these nothing that the catch-up was told to hide.
LEMMA ReadType ==
    ASSUME TypeOK, NEW k \in Reconnects, CatchRead(k)
    PROVE  /\ call'[k] \in Call /\ call'[k].phase = "answered"
           /\ call'[k].rows \subseteq call'[k].owed /\ call'[k].owed \subseteq stored
           /\ Cardinality(call'[k].rows) <= CatchUpLimit
           /\ ~call'[k].truncated => call'[k].owed \subseteq call'[k].rows
           /\ call'[k].rows \subseteq Shown(call[k])
           /\ call'[k].latest \in Shown(call[k]) \cup {0}
           /\ \A j \in Reconnects : j # k => call'[j] = call[j]
<1> DEFINE visible == Shown(call[k])
           owed == {e \in visible : e > call[k].after}
           read == Lowest(owed, CatchUpLimit + 1)
           rows == Lowest(read, CatchUpLimit)
           cut == Cardinality(read) > CatchUpLimit
<1>1. visible \subseteq stored /\ visible \subseteq Ids /\ owed \subseteq visible
  BY DEF TypeOK, WorldTypes, Shown
<1>2. owed \subseteq Ids
  BY <1>1
<1>3. read \subseteq owed
  BY <1>2, LowestBound, WorldStreamAssumption
<1>4. rows \subseteq read /\ Cardinality(rows) <= CatchUpLimit
  BY <1>2, <1>3, LowestBound, WorldStreamAssumption
<1>5. ~cut => rows = owed
  BY <1>2, NotTruncatedIsAll, WorldStreamAssumption
<1>6. Highest(visible) \in visible \cup {0} /\ Highest(visible) \in Ids \cup {0}
  BY <1>1, HighestType
<1> DEFINE answer == [NoCall EXCEPT !.phase = "answered", !.owed = owed, !.rows = rows,
                                    !.truncated = cut, !.latest = Highest(visible)]
<1>7. call' = [call EXCEPT ![k] = answer]
  BY DEF CatchRead
<1>8. cut \in BOOLEAN /\ call \in [Reconnects -> Call]
  BY DEF TypeOK, CallTypes
<1> HIDE DEF visible, owed, read, rows, cut
<1>9. answer \in Call
  BY <1>1, <1>2, <1>3, <1>4, <1>6, <1>8 DEF NoCall, Call, Phase
<1>10. /\ answer.phase = "answered" /\ answer.rows = rows /\ answer.owed = owed
       /\ answer.truncated = cut /\ answer.latest = Highest(visible)
  BY DEF NoCall
<1> HIDE DEF answer
<1>11. call'[k] = answer /\ \A j \in Reconnects : j # k => call'[j] = call[j]
  BY <1>7, <1>8
<1>12. QED BY <1>1, <1>3, <1>4, <1>5, <1>6, <1>9, <1>10, <1>11 DEF visible

\* What a catch-up can do, one read at a time: it is asked once, refused or lost
\* before it is applied, judged by the role and dated by the clear as they are,
\* answered from what these show, and applied as it was answered.
CallStep(k) ==
    \/ call'[k] = call[k]
    \/ Connect /\ k = drops /\ call'[k].phase = "asked" /\ call'[k].rows = {}
    \/ /\ call[k].phase \notin {"none", "caught-up", "resync-required"}
       /\ call'[k] = Unavailable
    \/ /\ call[k].phase = "asked" /\ call'[k].phase = "admitted"
    \/ /\ call[k].phase = "admitted" /\ call'[k].phase = "judged"
       /\ gm \/ call'[k].withheld
    \/ /\ call[k].phase = "judged" /\ call'[k].phase = "dated"
       /\ call'[k].withheld = call[k].withheld /\ call'[k].clearedAt = clearedAt
    \/ /\ call[k].phase = "dated" /\ call'[k].phase = "answered"
       /\ call'[k].rows \subseteq Shown(call[k])
       /\ call'[k].latest \in Shown(call[k]) \cup {0}
    \/ /\ CatchTooLong(k) /\ call[k].phase = "answered"
       /\ call'[k].phase = "resync-required"
       /\ call'[k].rows = call[k].rows /\ call'[k].latest = call[k].latest
    \/ /\ CatchApply(k) /\ call[k].phase = "answered" /\ ~call[k].truncated
       /\ call'[k].phase = "caught-up"
       /\ call'[k].rows = call[k].rows /\ call'[k].owed = call[k].owed
       /\ call'[k].to = {s \in Consumers : at[s] # "idle"}

\* It carries what its type allows, whatever it does.
CallKept(k) ==
    /\ call'[k] \in Call
    /\ call'[k].rows \subseteq call'[k].owed /\ call'[k].owed \subseteq stored
    /\ Cardinality(call'[k].rows) <= CatchUpLimit
    /\ call'[k].phase = "answered" /\ ~call'[k].truncated => call'[k].owed \subseteq call'[k].rows

\* The steps of the server and the tab on one catch-up.
LEMMA CatchMoves ==
    ASSUME TypeOK, AnswersInFull, NEW j \in Reconnects, NEW k \in Reconnects,
           \/ CatchGate(j) \/ CatchRole(j) \/ CatchClear(j) \/ CatchRead(j)
           \/ CatchFails(j) \/ CatchTooLong(j) \/ CatchApply(j)
    PROVE  CallStep(k) /\ CallKept(k)
<1>1. /\ call \in [Reconnects -> Call] /\ call[k] \in Call
      /\ call[k].rows \subseteq call[k].owed /\ call[k].owed \subseteq stored
      /\ Cardinality(call[k].rows) <= CatchUpLimit
      /\ call[k].phase = "answered" /\ ~call[k].truncated => call[k].owed \subseteq call[k].rows
  BY DEF TypeOK, CallTypes, AnswersInFull
<1>2. CASE call'[k] = call[k]
  BY <1>1, <1>2 DEF CallStep, CallKept
<1>3. CASE j # k
  <2>1. call'[k] = call[k]
    BY <1>1, <1>3, ReadType
    DEF CatchGate, CatchRole, CatchClear, CatchFails, CatchTooLong, CatchApply
  <2>2. QED BY <1>2, <2>1
<1>4. CASE call'[k] = Unavailable /\ call[k].phase \notin {"none", "caught-up", "resync-required"}
  <2>1. Cardinality(Unavailable.rows) <= CatchUpLimit
    BY UnavailableType, FS_EmptySet, WorldStreamAssumption
  <2>2. QED BY <1>4, <2>1, UnavailableType DEF CallStep, CallKept
<1>5. CASE j = k /\ CatchGate(k)
  <2>1. CASE call'[k] = Unavailable
    BY <1>4, <1>5, <2>1 DEF CatchGate
  <2>2. CASE call'[k] = [call[k] EXCEPT !.phase = "admitted"]
    BY <1>1, <1>5, <2>2 DEF CatchGate, Call, Phase, CallStep, CallKept
  <2>3. QED BY <1>1, <1>5, <2>1, <2>2 DEF CatchGate
<1>6. CASE j = k /\ CatchRole(k)
  <2>1. PICK readable \in BOOLEAN :
          call' = [call EXCEPT ![k].phase = "judged", ![k].withheld = ~(gm /\ readable)]
    BY <1>6 DEF CatchRole
  <2> DEFINE w == ~(gm /\ readable)
  <2>2. w \in BOOLEAN /\ (gm \/ w)
    OBVIOUS
  <2> HIDE DEF w
  <2>3. call'[k] = [call[k] EXCEPT !.phase = "judged", !.withheld = w]
    BY <1>1, <2>1 DEF w
  <2>4. QED BY <1>1, <1>6, <2>2, <2>3 DEF CatchRole, Call, Phase, CallStep, CallKept
<1>7. CASE j = k /\ CatchClear(k)
  <2>1. clearedAt \in Times \cup {0}
    BY DEF TypeOK, WorldTypes
  <2>2. call'[k] = [call[k] EXCEPT !.phase = "dated", !.clearedAt = clearedAt]
    BY <1>1, <1>7 DEF CatchClear
  <2>3. QED BY <1>1, <1>7, <2>1, <2>2 DEF CatchClear, Call, Phase, CallStep, CallKept
<1>8. CASE j = k /\ CatchRead(k)
  <2>1. call[k].phase = "dated"
    BY <1>8 DEF CatchRead
  <2>2. QED BY <1>8, <2>1, ReadType DEF CallStep, CallKept
<1>9. CASE j = k /\ CatchFails(k)
  BY <1>1, <1>4, <1>9 DEF CatchFails, AtServer
<1>10. CASE j = k /\ CatchTooLong(k)
  <2>1. call'[k] = [call[k] EXCEPT !.phase = "resync-required"] /\ call[k].phase = "answered"
    BY <1>1, <1>10 DEF CatchTooLong
  <2>2. QED BY <1>1, <1>10, <2>1 DEF Call, Phase, CallStep, CallKept
<1>11. CASE j = k /\ CatchApply(k)
  <2> DEFINE registered == {s \in Consumers : at[s] # "idle"}
  <2>1. registered \in SUBSET Consumers
    OBVIOUS
  <2>2. /\ call'[k] = [call[k] EXCEPT !.phase = "caught-up", !.to = registered]
        /\ call[k].phase = "answered" /\ ~call[k].truncated
    BY <1>1, <1>11 DEF CatchApply
  <2> HIDE DEF registered
  <2>3. /\ call'[k] \in Call /\ call'[k].phase = "caught-up" /\ call'[k].to = registered
        /\ call'[k].rows = call[k].rows /\ call'[k].owed = call[k].owed
    BY <1>1, <2>1, <2>2 DEF Call, Phase
  <2>4. CallKept(k)
    BY <1>1, <2>3 DEF CallKept
  <2>5. QED BY <1>11, <2>2, <2>3, <2>4 DEF CallStep, registered
<1>12. QED BY <1>3, <1>5, <1>6, <1>7, <1>8, <1>9, <1>10, <1>11

\* Every step of the system is one of these for each catch-up.
LEMMA CallMoves ==
    ASSUME TypeOK, AnswersInFull, Next, NEW k \in Reconnects
    PROVE  CallStep(k) /\ CallKept(k)
<1>1. /\ call \in [Reconnects -> Call] /\ call[k] \in Call
      /\ call[k].rows \subseteq call[k].owed /\ call[k].owed \subseteq stored
      /\ Cardinality(call[k].rows) <= CatchUpLimit
      /\ call[k].phase = "answered" /\ ~call[k].truncated => call[k].owed \subseteq call[k].rows
  BY DEF TypeOK, CallTypes, AnswersInFull
<1>2. CASE call'[k] = call[k]
  BY <1>1, <1>2 DEF CallStep, CallKept
<1>3. CASE Connect
  <2> DEFINE asked == [NoCall EXCEPT !.phase = "asked", !.after = lastSeen]
  <2>1. asked \in Call /\ asked.rows = {} /\ asked.owed = {} /\ asked.phase = "asked"
    BY DEF NoCall, Call, Phase, TypeOK, TabTypes
  <2>2. Cardinality(asked.rows) <= CatchUpLimit
    BY <2>1, FS_EmptySet, WorldStreamAssumption
  <2>3. call'[k] = IF k = drops THEN asked ELSE call[k]
    BY <1>3 DEF Connect
  <2> HIDE DEF asked
  <2>4. QED BY <1>1, <1>2, <1>3, <2>1, <2>2, <2>3 DEF CallStep, CallKept
<1>4. CASE Restart
  <2>1. Cardinality(Unavailable.rows) <= CatchUpLimit
    BY UnavailableType, FS_EmptySet, WorldStreamAssumption
  <2>2. \/ call'[k] = call[k]
        \/ /\ call[k].phase \notin {"none", "caught-up", "resync-required"}
           /\ call'[k] = Unavailable
    BY <1>4 DEF Restart, AtServer
  <2>3. QED BY <1>2, <2>1, <2>2, UnavailableType DEF CallStep, CallKept
<1>5. CASE \E e \in Ids : Store(e) \/ Publish(e)
  BY <1>2, <1>5 DEF Store, Publish
<1>6. CASE \E s \in Consumers :
         Register(s) \/ Gate(s) \/ Subscribe(s) \/ Take(s) \/ AnswerHeld(s) \/ Tick(s)
  BY <1>2, <1>6 DEF Register, Gate, Subscribe, Take, AnswerHeld, Tick
<1>7. CASE \/ Reap \/ Drop \/ Revoke \/ Demote \/ Promote
           \/ \E p \in BOOLEAN : SetPause(p)
           \/ \E time \in Times : ClearRolls(time)
  BY <1>2, <1>7 DEF Reap, Drop, Revoke, Demote, Promote, ClearRolls, SetPause
<1>8. CASE \E j \in Reconnects :
         \/ CatchGate(j) \/ CatchRole(j) \/ CatchClear(j) \/ CatchRead(j)
         \/ CatchFails(j) \/ CatchTooLong(j) \/ CatchApply(j)
  BY <1>8, CatchMoves
<1>9. QED BY <1>3, <1>4, <1>5, <1>6, <1>7, <1>8 DEF Next

\* Every action keeps the types of the catch-ups, and an answer that is not cut
\* short is all that was owed when it was read.
LEMMA CallTypesStep == TypeOK /\ AnswersInFull /\ Next => CallTypes' /\ AnswersInFull'
<1>1. SUFFICES ASSUME TypeOK, AnswersInFull, Next PROVE CallTypes' /\ AnswersInFull'
  OBVIOUS
<1>2. \A k \in Reconnects : CallKept(k)
  BY <1>1, CallMoves
<1>3. call' = [k \in Reconnects |-> call'[k]]
  <2>1. call \in [Reconnects -> Call]
    BY <1>1 DEF TypeOK, CallTypes
  <2>2. CASE UNCHANGED call
    BY <2>1, <2>2
  <2>3. CASE Connect \/ Restart
    BY <2>3 DEF Connect, Restart
  <2>4. CASE \E j \in Reconnects :
         \/ CatchGate(j) \/ CatchRole(j) \/ CatchClear(j) \/ CatchRead(j)
         \/ CatchFails(j) \/ CatchTooLong(j) \/ CatchApply(j)
    <3>1. PICK j \in Reconnects : \E c : call' = [call EXCEPT ![j] = c]
      BY <2>1, <2>4 DEF CatchGate, CatchRole, CatchClear, CatchRead, CatchFails, CatchTooLong,
                 CatchApply
    <3>2. QED BY <2>1, <3>1
  <2>5. CASE \E e \in Ids : Store(e) \/ Publish(e)
    BY <2>2, <2>5 DEF Store, Publish
  <2>6. CASE \E s \in Consumers :
         Register(s) \/ Gate(s) \/ Subscribe(s) \/ Take(s) \/ AnswerHeld(s) \/ Tick(s)
    BY <2>2, <2>6 DEF Register, Gate, Subscribe, Take, AnswerHeld, Tick
  <2>7. CASE \/ Reap \/ Drop \/ Revoke \/ Demote \/ Promote
             \/ \E p \in BOOLEAN : SetPause(p)
             \/ \E time \in Times : ClearRolls(time)
    BY <2>2, <2>7 DEF Reap, Drop, Revoke, Demote, Promote, ClearRolls, SetPause
  <2>8. QED BY <1>1, <2>3, <2>4, <2>5, <2>6, <2>7 DEF Next
<1>4. call' \in [Reconnects -> Call]
  BY <1>2, <1>3 DEF CallKept
<1>5. stored \subseteq stored'
  BY <1>1, RoomMoves
<1>6. QED BY <1>2, <1>4, <1>5 DEF CallKept, CallTypes, AnswersInFull

\* A catch-up is only asked once its drop is over.
LEMMA AskedStep == TypeOK /\ AnswersInFull /\ AskedInTurn /\ Next => AskedInTurn'
<1>1. SUFFICES ASSUME TypeOK, AnswersInFull, AskedInTurn, Next, NEW k \in Reconnects,
                      k > drops' \/ (k = drops' /\ ~socket')
               PROVE  call'[k].phase = "none"
  BY DEF AskedInTurn
<1>2. drops \in Nat /\ k \in Nat
  BY <1>1, WorldStreamAssumption DEF TypeOK, WorldTypes, Reconnects
<1>3. \/ UNCHANGED <<drops, socket>>
      \/ Connect
      \/ drops' = drops + 1 /\ socket
      \/ drops' = drops /\ ~socket /\ ~socket'
  <2>1. CASE \E e \in Ids : Store(e) \/ Publish(e)
    BY <2>1 DEF Store, Publish
  <2>2. CASE \E s \in Consumers :
         Register(s) \/ Gate(s) \/ Subscribe(s) \/ Take(s) \/ AnswerHeld(s) \/ Tick(s)
    BY <2>2 DEF Register, Gate, Subscribe, Take, AnswerHeld, Tick
  <2>3. CASE \/ Reap \/ Drop \/ Restart \/ Revoke \/ Demote \/ Promote
             \/ \E p \in BOOLEAN : SetPause(p)
             \/ \E time \in Times : ClearRolls(time)
    BY <2>3 DEF Reap, Drop, Restart, Revoke, Demote, Promote, ClearRolls, SetPause
  <2>4. CASE \E j \in Reconnects :
         \/ CatchGate(j) \/ CatchRole(j) \/ CatchClear(j) \/ CatchRead(j)
         \/ CatchFails(j) \/ CatchTooLong(j) \/ CatchApply(j)
    BY <2>4 DEF CatchGate, CatchRole, CatchClear, CatchRead, CatchFails, CatchTooLong, CatchApply
  <2>5. QED BY <1>1, <2>1, <2>2, <2>3, <2>4 DEF Next
<1>4. k > drops \/ (k = drops /\ ~socket)
  BY <1>1, <1>2, <1>3 DEF Connect
<1>5. call[k].phase = "none"
  BY <1>1, <1>4 DEF AskedInTurn
<1>6. ~(Connect /\ k = drops)
  BY <1>1, <1>2 DEF Connect
<1>7. QED BY <1>1, <1>5, <1>6, CallMoves DEF CallStep

\* What a catch-up has brought stays what it brought.
LEMMA AppliedStays ==
    ASSUME TypeOK, AnswersInFull, AskedInTurn, Next, NEW k \in Reconnects,
           call[k].phase \in {"caught-up", "resync-required"}
    PROVE  call'[k] = call[k]
<1>1. ~(Connect /\ k = drops)
  BY DEF Connect, AskedInTurn
<1>2. QED BY <1>1, CallMoves DEF CallStep

\* A catch-up that is applied was answered in full, and stays complete.
LEMMA CompleteStep ==
    TypeOK /\ AnswersInFull /\ CaughtUpIsComplete /\ Next => CaughtUpIsComplete'
<1>1. SUFFICES ASSUME TypeOK, AnswersInFull, CaughtUpIsComplete, Next,
                      NEW k \in Reconnects, call'[k].phase = "caught-up", NEW s \in call'[k].to
               PROVE  call'[k].owed \subseteq got'[s] \cup shed'[s]
  BY DEF CaughtUpIsComplete
<1>2. s \in Consumers
  BY <1>1, CallMoves DEF CallKept, Call
<1>3. got[s] \subseteq got'[s] /\ shed[s] \subseteq shed'[s]
  BY <1>1, <1>2, TabTypesStep
<1>4. CASE call'[k] = call[k]
  BY <1>1, <1>3, <1>4 DEF CaughtUpIsComplete
<1>5. CASE /\ CatchApply(k) /\ call'[k].owed = call[k].owed /\ at[s] # "idle"
           /\ call[k].phase = "answered" /\ ~call[k].truncated
  <2>1. call[k].owed \subseteq call[k].rows
    BY <1>1, <1>5 DEF AnswersInFull
  <2>2. call[k].rows \subseteq got'[s] \cup shed'[s]
    BY <1>1, <1>2, <1>5, ApplyType
  <2>3. QED BY <1>5, <2>1, <2>2
<1>6. QED BY <1>1, <1>4, <1>5, CallMoves, UnavailableType DEF CallStep

-----------------------------------------------------------------------------
(* What a consumer may not get *)

\* What catch-ups brought is still there after any step.
LEMMA ReplayedGrows ==
    ASSUME TypeOK, AnswersInFull, AskedInTurn, Next, NEW ks, ks \subseteq Reconnects
    PROVE  /\ \A e \in Replayed(ks) :
                 \E k \in ks : call'[k].phase = "caught-up" /\ e \in call'[k].rows
           /\ \A k \in ks : call[k].phase = "resync-required" => call'[k] = call[k]
<1>1. \A k \in ks : call[k].phase \in {"caught-up", "resync-required"} => call'[k] = call[k]
  BY AppliedStays
<1>2. \A e \in Replayed(ks) : \E k \in ks : call[k].phase = "caught-up" /\ e \in call[k].rows
  BY DEF Replayed
<1>3. QED BY <1>1, <1>2

\* No catch-up that asks for the role after a demotion shows a secret.
LEMMA HideSecretsStep ==
    TypeOK /\ AnswersInFull /\ AnswersHideSecrets /\ Next => AnswersHideSecrets'
<1> DEFINE Hides(c) == /\ c.phase \in {"judged", "dated"} => c.withheld
                       /\ c.phase = "answered" => (c.rows \cup {c.latest}) \cap secret = {}
<1>0. ASSUME Next PROVE secret' = secret
  BY <1>0, RoomMoves
<1>1. SUFFICES ASSUME TypeOK, AnswersInFull, AnswersHideSecrets, Next, ~gm',
                      NEW k \in Reconnects, k \notin demotion'.underway
               PROVE  Hides(call'[k])
  BY <1>0 DEF AnswersHideSecrets
<1>2. CASE Demote
  <2>1. call'[k].phase \notin PastRole
    BY <1>1, <1>2 DEF Demote, Underway
  <2>2. QED BY <2>1 DEF PastRole
<1>3. CASE ~Demote
  <2>1. ~gm /\ demotion' = demotion
    <3>1. ~Promote
      BY <1>1 DEF Promote
    <3>2. \A s \in Consumers : Take(s) => gm' = gm /\ demotion' = demotion
      BY DEF Take, roomVars
    <3>3. \A time \in Times : ClearRolls(time) => gm' = gm /\ demotion' = demotion
      BY DEF ClearRolls
    <3>4. QED BY <1>1, <1>3, <3>1, <3>2, <3>3, RoomMoves DEF ghostVars
  <2>2. Hides(call[k])
    BY <1>1, <2>1 DEF AnswersHideSecrets
  <2>3. CASE /\ call[k].phase = "dated" /\ call'[k].phase = "answered"
             /\ call'[k].rows \subseteq Shown(call[k])
             /\ call'[k].latest \in Shown(call[k]) \cup {0}
    <3>1. Shown(call[k]) \cap secret = {}
      BY <2>2, <2>3 DEF Shown
    <3>2. 0 \notin secret
      BY <1>1, WorldStreamAssumption DEF TypeOK, WorldTypes
    <3>3. QED BY <2>3, <3>1, <3>2
  <2>4. CASE call'[k] = Unavailable
    BY <2>4, UnavailableType
  <2>5. QED BY <1>1, <2>1, <2>2, <2>3, <2>4, CallMoves DEF CallStep
<1>4. QED BY <1>2, <1>3

\* No step gives a consumer, or the cursor, a secret it may not have.
LEMMA SecretsStep == StreamInv /\ Next => SecretsStayHidden'
<1> DEFINE ks == demotion.underway
<1>1. SUFFICES ASSUME StreamInv, Next, ~gm' PROVE SecretsStayHidden'
  BY DEF SecretsStayHidden
<1>2. /\ TypeOK /\ AnswersInFull /\ AskedInTurn /\ AnswersHideSecrets /\ SecretsStayHidden
      /\ secret' = secret
  BY <1>1, RoomMoves DEF StreamInv
<1>3. CASE Demote
  <2>1. /\ demotion'.got = [s \in Consumers |-> got[s] \cap secret]
        /\ demotion'.seen = IF lastSeen \in secret THEN lastSeen ELSE 0
        /\ got' = got /\ lastSeen' = lastSeen
    BY <1>3 DEF Demote, tabVars
  <2>2. QED BY <1>2, <2>1 DEF SecretsStayHidden
<1>4. CASE ~Demote
  <2>1. ~gm /\ demotion' = demotion
    <3>1. ~Promote
      BY <1>1 DEF Promote
    <3>2. \A s \in Consumers : Take(s) => gm' = gm /\ demotion' = demotion
      BY DEF Take, roomVars
    <3>3. \A time \in Times : ClearRolls(time) => gm' = gm /\ demotion' = demotion
      BY DEF ClearRolls
    <3>4. QED BY <1>1, <1>4, <3>1, <3>2, <3>3, RoomMoves DEF ghostVars
  <2>2. /\ \A s \in Consumers : got[s] \cap secret \subseteq demotion.got[s] \cup Replayed(ks)
        /\ lastSeen \in secret =>
              \/ lastSeen \in {demotion.seen} \cup Replayed(ks)
              \/ \E k \in ks : call[k].phase = "resync-required" /\ lastSeen = call[k].latest
    BY <1>2, <2>1 DEF SecretsStayHidden
  <2>3. ks \subseteq Reconnects
    BY <1>2 DEF TypeOK, TabTypes, Demotion
  <2> DEFINE Then(e) == \E k \in ks : call'[k].phase = "caught-up" /\ e \in call'[k].rows
  <2>4. /\ \A e \in Replayed(ks) : Then(e)
        /\ \A k \in ks : call[k].phase = "resync-required" => call'[k] = call[k]
    BY <1>1, <1>2, <2>3, ReplayedGrows
  <2>5. SUFFICES
          /\ \A s \in Consumers : \A e \in got'[s] \cap secret : e \in demotion.got[s] \/ Then(e)
          /\ lastSeen' \in secret =>
                \/ lastSeen' = demotion.seen \/ Then(lastSeen')
                \/ \E k \in ks : call'[k].phase = "resync-required" /\ lastSeen' = call'[k].latest
    <3>1. \A e : Then(e) => e \in Replayed(ks)'
      BY <2>1 DEF Replayed
    <3> HIDE DEF Then
    <3>2. QED BY <1>2, <2>1, <3>1 DEF SecretsStayHidden
  <2>6. /\ \A s \in Consumers : \A e \in got[s] \cap secret : e \in demotion.got[s] \/ Then(e)
        /\ lastSeen \in secret =>
              \/ lastSeen = demotion.seen \/ Then(lastSeen)
              \/ \E k \in ks : call'[k].phase = "resync-required" /\ lastSeen = call'[k].latest
    <3> HIDE DEF Then
    <3>1. QED BY <2>2, <2>4
  <2> HIDE DEF Then
  <2>7. CASE UNCHANGED tabVars
    BY <2>6, <2>7 DEF tabVars
  <2>8. ASSUME NEW s \in Consumers, Deliver(s, Head(rx[s])), Head(rx[s]) \in stored \ secret
        PROVE  /\ \A t \in Consumers :
                     \A e \in got'[t] \cap secret : e \in demotion.got[t] \/ Then(e)
               /\ lastSeen' \in secret => lastSeen' = lastSeen
    <3> DEFINE e == Head(rx[s])
    <3>1. lastSeen' \in {lastSeen, e} /\ \A t \in Consumers : got'[t] \subseteq got[t] \cup {e}
      BY <1>2, <2>8, DeliverType
    <3>2. QED BY <2>6, <2>8, <3>1
  <2>9. ASSUME NEW k \in Reconnects, CatchTooLong(k)
        PROVE  /\ got' = got
               /\ lastSeen' \in secret =>
                     \E j \in ks : call'[j].phase = "resync-required" /\ lastSeen' = call'[j].latest
    <3>1. got' = got /\ lastSeen' = call[k].latest /\ call[k].phase = "answered"
      BY <2>9 DEF CatchTooLong
    <3>2. k \notin ks => lastSeen' \notin secret
      BY <1>2, <2>1, <3>1 DEF AnswersHideSecrets
    <3>3. call'[k].phase = "resync-required" /\ call'[k].latest = call[k].latest
      <4>1. call \in [Reconnects -> Call] /\ call[k] \in Call
        BY <1>2 DEF TypeOK, CallTypes
      <4>2. call'[k] = [call[k] EXCEPT !.phase = "resync-required"]
        BY <2>9, <4>1 DEF CatchTooLong
      <4>3. QED BY <4>1, <4>2 DEF Call
    <3>4. QED BY <3>1, <3>2, <3>3
  <2>10. ASSUME NEW k \in Reconnects, CatchApply(k)
         PROVE  /\ \A s \in Consumers :
                      \A e \in got'[s] \cap secret : e \in demotion.got[s] \/ Then(e)
                /\ lastSeen' \in secret => lastSeen' = lastSeen \/ Then(lastSeen')
    <3>1. /\ lastSeen' \in {lastSeen} \cup call[k].rows \cup {0}
          /\ \A s \in Consumers : got'[s] \subseteq got[s] \cup call[k].rows
      BY <1>2, <2>10, ApplyType
    <3>2. 0 \notin secret
      BY <1>2, WorldStreamAssumption DEF TypeOK, WorldTypes
    <3>3. call[k].phase = "answered"
      BY <2>10 DEF CatchApply
    <3>4. call'[k].phase = "caught-up" /\ call'[k].rows = call[k].rows
      <4> DEFINE to == {s \in Consumers : at[s] # "idle"}
      <4>1. call \in [Reconnects -> Call] /\ call[k] \in Call
        BY <1>2 DEF TypeOK, CallTypes
      <4>2. call'[k] = [call[k] EXCEPT !.phase = "caught-up", !.to = to]
        BY <2>10, <4>1 DEF CatchApply
      <4> HIDE DEF to
      <4>3. QED BY <4>1, <4>2 DEF Call
    <3>5. \A e \in call[k].rows \cap secret : Then(e)
      <4>1. CASE k \in ks
        BY <3>4, <4>1 DEF Then
      <4>2. CASE k \notin ks
        BY <1>2, <2>1, <3>3, <4>2 DEF AnswersHideSecrets
      <4>3. QED BY <4>1, <4>2
    <3>6. QED BY <2>6, <3>1, <3>2, <3>5
  <2> HIDE DEF ks
  <2>11. QED BY <1>1, <1>2, <2>1, <2>6, <2>7, <2>8, <2>9, <2>10, TabMoves
<1>5. QED BY <1>3, <1>4

\* No catch-up that reads the last clear after it was made shows what it
\* covers, and no roll waits for the second question that the first refused.
LEMMA HideClearedStep ==
    TypeOK /\ AnswersInFull /\ AnswersHideCleared /\ Next => AnswersHideCleared'
<1> DEFINE Hides(c, time) ==
              /\ c.phase = "dated" => c.clearedAt = time
              /\ c.phase = "answered" => \A e \in c.rows : ~(e \in Rolls /\ stamp[e] <= time)
           Asked(h, time, past) == h \in Rolls /\ stamp[h] <= time => h \in past
<1>0. ASSUME Next PROVE stamp' = stamp
  BY <1>0, RoomMoves
<1>1. SUFFICES ASSUME TypeOK, AnswersInFull, AnswersHideCleared, Next
               PROVE  /\ \A k \in Reconnects \ clearing'.underway : Hides(call'[k], clearedAt')
                      /\ \A s \in Consumers : Asked(held'[s], clearedAt', clearing'.passed[s])
  BY <1>0 DEF AnswersHideCleared, IsCleared
<1>2. /\ \A k \in Reconnects \ clearing.underway : Hides(call[k], clearedAt)
      /\ \A s \in Consumers : Asked(held[s], clearedAt, clearing.passed[s])
  BY <1>1 DEF AnswersHideCleared, IsCleared
<1>3. /\ 0 \notin Rolls /\ clearing \in Clearing
      /\ held \in [Consumers -> (secret \cap stored) \cup {0}]
  BY <1>1, WorldStreamAssumption DEF TypeOK, StreamTypes, TabTypes
<1>4. ASSUME NEW time \in Times, ClearRolls(time)
      PROVE  /\ \A k \in Reconnects \ clearing'.underway : Hides(call'[k], clearedAt')
             /\ \A s \in Consumers : Asked(held'[s], clearedAt', clearing'.passed[s])
  <2>1. /\ clearedAt' = time /\ call' = call /\ held' = held
        /\ clearing'.underway = Underway(PastClear)
        /\ clearing'.passed = [s \in Consumers |->
              {e \in Rolls \cap (got[s] \cup {held[s]}) : stamp[e] <= time}]
    BY <1>4 DEF ClearRolls, streamVars
  <2>2. \A k \in Reconnects \ clearing'.underway : call'[k].phase \notin {"dated", "answered"}
    BY <2>1 DEF Underway, PastClear
  <2>3. QED BY <2>1, <2>2
<1>5. CASE ~\E time \in Times : ClearRolls(time)
  <2>1. /\ clearedAt' = clearedAt /\ clearing'.underway = clearing.underway
        /\ \A s \in Consumers : clearing.passed[s] \subseteq clearing'.passed[s]
    <3>1. Demote \/ Promote => clearedAt' = clearedAt /\ clearing' = clearing
      BY DEF Demote, Promote
    <3>2. ASSUME NEW s \in Consumers, Take(s)
          PROVE  /\ clearedAt' = clearedAt /\ clearing'.underway = clearing.underway
                 /\ \A t \in Consumers : clearing.passed[t] \subseteq clearing'.passed[t]
      <4>1. /\ clearedAt' = clearedAt
            /\ \E S \in {{}, {Head(rx[s])}} :
                  clearing' = [clearing EXCEPT !.passed[s] = @ \cup S]
        BY <3>2 DEF Take, roomVars
      <4>2. QED BY <1>3, <4>1 DEF Clearing
    <3>3. QED BY <1>1, <1>5, <3>1, <3>2, RoomMoves DEF ghostVars
  <2>2. ASSUME NEW k \in Reconnects \ clearing.underway PROVE Hides(call'[k], clearedAt)
    <3>1. Hides(call[k], clearedAt)
      BY <1>2, <2>2
    <3>2. CASE /\ call[k].phase = "dated" /\ call'[k].phase = "answered"
               /\ call'[k].rows \subseteq Shown(call[k])
      BY <3>1, <3>2 DEF Shown, IsCleared
    <3>3. CASE call'[k] = Unavailable
      BY <3>3, UnavailableType
    <3>4. QED BY <1>1, <2>2, <3>1, <3>2, <3>3, CallMoves DEF CallStep
  <2>3. ASSUME NEW s \in Consumers PROVE Asked(held'[s], clearedAt, clearing'.passed[s])
    <3>1. Asked(held[s], clearedAt, clearing.passed[s])
      BY <1>2
    <3>2. CASE held'[s] = held[s] \/ held'[s] = 0
      BY <1>3, <2>1, <3>1, <3>2
    <3>3. CASE Take(s)
      <4> DEFINE e == Head(rx[s])
      <4>1. held'[s] # 0 => /\ held'[s] = e
                            /\ IsCleared(e, clearedAt) =>
                                  clearing' = [clearing EXCEPT !.passed[s] = @ \cup {e}]
        BY <1>3, <3>3 DEF Take
      <4>2. CASE held'[s] # 0 /\ IsCleared(e, clearedAt)
        <5>1. e \in clearing'.passed[s]
          BY <1>3, <4>1, <4>2 DEF Clearing
        <5>2. QED BY <4>1, <4>2, <5>1
      <4>3. CASE held'[s] # 0 /\ ~IsCleared(e, clearedAt)
        BY <4>1, <4>3 DEF IsCleared
      <4>4. QED BY <3>2, <4>2, <4>3
    <3>4. CASE ~Take(s)
      <4>1. CASE UNCHANGED held
        BY <3>2, <4>1
      <4>2. CASE \E t \in Consumers : AnswerHeld(t) \/ (t # s /\ Take(t))
        BY <1>3, <3>2, <4>2 DEF AnswerHeld, Take
      <4>3. CASE Drop \/ Restart \/ \E t \in Consumers : Tick(t)
        BY <3>2, <4>3 DEF Drop, Restart, Tick, EndStreams
      <4>4. CASE \E e \in Ids : Store(e) \/ Publish(e)
        BY <4>1, <4>4 DEF Store, Publish, streamVars
      <4>5. CASE \E t \in Consumers : Register(t) \/ Gate(t) \/ Subscribe(t)
        BY <4>1, <4>5 DEF Register, Gate, Subscribe
      <4>6. CASE \/ Reap \/ Connect \/ Revoke \/ Demote \/ Promote
                 \/ \E p \in BOOLEAN : SetPause(p)
        BY <4>1, <4>6 DEF Reap, Connect, Revoke, Demote, Promote, SetPause, streamVars
      <4>7. CASE \E k \in Reconnects :
             \/ CatchGate(k) \/ CatchRole(k) \/ CatchClear(k) \/ CatchRead(k)
             \/ CatchFails(k) \/ CatchTooLong(k) \/ CatchApply(k)
        BY <4>1, <4>7 DEF CatchGate, CatchRole, CatchClear, CatchRead, CatchFails,
                          CatchTooLong, CatchApply, streamVars
      <4>8. QED BY <1>1, <1>5, <3>4, <4>2, <4>3, <4>4, <4>5, <4>6, <4>7 DEF Next
    <3>5. QED BY <3>3, <3>4
  <2>4. QED BY <2>1, <2>2, <2>3
<1>6. QED BY <1>4, <1>5

\* No step gives a consumer a roll that the last clear covers, unless that was
\* decided before the clear or could not be asked.
LEMMA ClearedStep == StreamInv /\ Next => ClearedRollsStayHidden'
<1> DEFINE ks == clearing.underway
<1>1. SUFFICES ASSUME StreamInv, Next PROVE ClearedRollsStayHidden'
  OBVIOUS
<1>2. /\ TypeOK /\ AnswersInFull /\ AskedInTurn /\ AnswersHideCleared /\ ClearedRollsStayHidden
      /\ stamp' = stamp
  BY <1>1, RoomMoves DEF StreamInv
<1>3. ASSUME NEW time \in Times, ClearRolls(time) PROVE ClearedRollsStayHidden'
  <2>1. /\ clearedAt' = time /\ got' = got
        /\ clearing'.passed = [s \in Consumers |->
              {e \in Rolls \cap (got[s] \cup {held[s]}) : stamp[e] <= time}]
    BY <1>3 DEF ClearRolls, tabVars
  <2>2. QED BY <1>2, <2>1 DEF ClearedRollsStayHidden
<1>4. CASE ~\E time \in Times : ClearRolls(time)
  <2>1. clearing \in Clearing
    BY <1>2 DEF TypeOK, TabTypes
  <2>2. /\ clearedAt' = clearedAt /\ clearing'.underway = ks
        /\ \A s \in Consumers : clearing.passed[s] \subseteq clearing'.passed[s]
    <3>1. Demote \/ Promote => clearedAt' = clearedAt /\ clearing' = clearing
      BY DEF Demote, Promote
    <3>2. ASSUME NEW s \in Consumers, Take(s)
          PROVE  /\ clearedAt' = clearedAt /\ clearing'.underway = ks
                 /\ \A t \in Consumers : clearing.passed[t] \subseteq clearing'.passed[t]
      <4>1. /\ clearedAt' = clearedAt
            /\ \E S \in {{}, {Head(rx[s])}} :
                  clearing' = [clearing EXCEPT !.passed[s] = @ \cup S]
        BY <3>2 DEF Take, roomVars
      <4>2. QED BY <2>1, <4>1 DEF Clearing
    <3>3. QED BY <1>1, <1>4, <3>1, <3>2, RoomMoves DEF ghostVars
  <2>3. ks \subseteq Reconnects
    BY <2>1 DEF Clearing
  <2> DEFINE Then(e) == \E k \in ks : call'[k].phase = "caught-up" /\ e \in call'[k].rows
  <2>4. \A e \in Replayed(ks) : Then(e)
    BY <1>1, <1>2, <2>3, ReplayedGrows
  <2>5. SUFFICES ASSUME NEW s \in Consumers, NEW e \in got'[s] \cap Rolls, stamp[e] <= clearedAt
                 PROVE  e \in clearing'.passed[s] \/ Then(e)
    <3>1. \A e : Then(e) => e \in Replayed(ks)'
      BY <2>2 DEF Replayed
    <3> HIDE DEF Then
    <3>2. QED BY <1>2, <2>2, <3>1 DEF ClearedRollsStayHidden
  <2> HIDE DEF Then
  <2>6. CASE e \in got[s]
    <3>1. e \in clearing.passed[s] \cup Replayed(ks)
      BY <1>2, <2>5, <2>6 DEF ClearedRollsStayHidden
    <3>2. QED BY <2>2, <2>4, <3>1
  <2>7. CASE e \notin got[s]
    <3>1. CASE UNCHANGED tabVars
      BY <2>5, <2>7, <3>1 DEF tabVars
    <3>2. ASSUME NEW t \in Consumers, Take(t), Deliver(t, Head(rx[t])),
                 Head(rx[t]) \in stored \ secret
          PROVE  e \in clearing'.passed[s]
      <4>1. t = s /\ e = Head(rx[s])
        BY <1>2, <2>5, <2>7, <3>2, DeliverType
      <4>2. IsCleared(e, clearedAt)
        BY <2>5 DEF IsCleared
      <4>3. PICK readable \in BOOLEAN :
              /\ clearing' = [clearing EXCEPT !.passed[s] = IF ~readable THEN @ \cup {e} ELSE @]
              /\ readable => UNCHANGED tabVars
        BY <3>2, <4>1, <4>2 DEF Take
      <4>4. ~readable
        BY <2>5, <2>7, <4>3 DEF tabVars
      <4>5. QED BY <2>1, <4>3, <4>4 DEF Clearing
    <3>3. ASSUME NEW t \in Consumers, AnswerHeld(t), Deliver(t, held[t]), held[t] \in stored
          PROVE  e \in clearing'.passed[s]
      <4>1. t = s /\ e = held[s]
        BY <1>2, <2>5, <2>7, <3>3, DeliverType
      <4>2. IsCleared(held[s], clearedAt)
        BY <2>5, <4>1 DEF IsCleared
      <4>3. e \in clearing.passed[s]
        BY <1>2, <4>1, <4>2 DEF AnswersHideCleared
      <4>4. QED BY <2>2, <4>3
    <3>4. ASSUME NEW k \in Reconnects, CatchTooLong(k) PROVE FALSE
      BY <2>5, <2>7, <3>4 DEF CatchTooLong
    <3>5. ASSUME NEW k \in Reconnects, CatchApply(k) PROVE Then(e)
      <4>1. e \in call[k].rows
        BY <1>2, <2>5, <2>7, <3>5, ApplyType
      <4>2. call[k].phase = "answered"
        BY <3>5 DEF CatchApply
      <4>3. k \in ks
        BY <1>2, <2>5, <4>1, <4>2 DEF AnswersHideCleared, IsCleared
      <4>4. call'[k].phase = "caught-up" /\ call'[k].rows = call[k].rows
        <5> DEFINE to == {r \in Consumers : at[r] # "idle"}
        <5>1. call \in [Reconnects -> Call] /\ call[k] \in Call
          BY <1>2 DEF TypeOK, CallTypes
        <5>2. call'[k] = [call[k] EXCEPT !.phase = "caught-up", !.to = to]
          BY <3>5, <5>1 DEF CatchApply
        <5> HIDE DEF to
        <5>3. QED BY <5>1, <5>2 DEF Call
      <4>5. QED BY <4>1, <4>3, <4>4 DEF Then
    <3>6. QED BY <1>1, <1>2, <3>1, <3>2, <3>3, <3>4, <3>5, TabMoves
  <2>8. QED BY <2>6, <2>7
<1>5. QED BY <1>3, <1>4

-----------------------------------------------------------------------------
(* The theorems *)

\* The invariant is one: the tab, its streams and its catch-ups under any order
\* of commits, publications, drops, restarts, pauses, clears and changes of role.
THEOREM StreamInvHolds == Spec => []StreamInv
<1>1. Init => StreamInv
  <2>1. SUFFICES ASSUME Init PROVE StreamInv
    OBVIOUS
  <2>2. \A k \in Reconnects : call[k].phase = "none"
    BY <2>1 DEF Init, NoCall
  <2>3. AskedInTurn /\ AnswersInFull /\ CaughtUpIsComplete
    BY <2>2 DEF AskedInTurn, AnswersInFull, CaughtUpIsComplete
  <2>4. 0 \notin Rolls /\ secret \subseteq Rolls
    BY <2>1, WorldStreamAssumption DEF Init
  <2>5. AnswersHideSecrets /\ SecretsStayHidden
    BY <2>1, <2>2, <2>4 DEF Init, AnswersHideSecrets, SecretsStayHidden
  <2>6. AnswersHideCleared /\ ClearedRollsStayHidden
    BY <2>1, <2>2, <2>4 DEF Init, AnswersHideCleared, ClearedRollsStayHidden, IsCleared
  <2>7. QED BY <2>1, <2>3, <2>5, <2>6, InitType DEF StreamInv
<1>2. StreamInv /\ [Next]_vars => StreamInv'
  <2>1. CASE StreamInv /\ Next
    <3>1. TypeOK'
      BY <2>1, WorldTypesStep, StreamTypesStep, TabTypesStep, CallTypesStep DEF StreamInv, TypeOK
    <3>2. AnswersInFull' /\ AskedInTurn' /\ CaughtUpIsComplete'
      BY <2>1, CallTypesStep, AskedStep, CompleteStep DEF StreamInv
    <3>3. AnswersHideSecrets' /\ AnswersHideCleared'
      BY <2>1, HideSecretsStep, HideClearedStep DEF StreamInv
    <3>4. SecretsStayHidden' /\ ClearedRollsStayHidden'
      BY <2>1, SecretsStep, ClearedStep
    <3>5. QED BY <3>1, <3>2, <3>3, <3>4 DEF StreamInv
  <2>2. CASE StreamInv /\ UNCHANGED vars
    BY <2>2 DEF vars, feedVars, roomVars, routeVars, streamVars, tabVars, ghostVars, StreamInv,
        TypeOK, WorldTypes, StreamTypes, TabTypes, CallTypes, AskedInTurn, AnswersHideSecrets,
        SecretsStayHidden, AnswersHideCleared, ClearedRollsStayHidden, IsCleared, Replayed,
        AnswersInFull, CaughtUpIsComplete
  <2>3. QED BY <2>1, <2>2
<1>3. QED BY <1>1, <1>2, PTL DEF Spec

\* TypeOK for every instance: no receiver is given more than the channel's
\* capacity, no answer is longer than CATCH_UP_LIMIT, and the channel is there
\* for as long as a stream reads it (router.rs, world_events_since.rs).
THEOREM StreamTypeCorrect == Spec => []TypeOK
<1>1. StreamInv => TypeOK
  BY DEF StreamInv
<1>2. QED BY <1>1, StreamInvHolds, PTL

\* SecretsStayHidden for every instance: a demoted Game Master's tab gets no
\* gm_only roll, live or replayed, but from a catch-up that had read the role
\* before the demotion (subscriptions.rs's filter, catch_up's).
THEOREM SecretsAreHidden == Spec => []SecretsStayHidden
<1>1. StreamInv => SecretsStayHidden
  BY DEF StreamInv
<1>2. QED BY <1>1, StreamInvHolds, PTL

\* ClearedRollsStayHidden for every instance, and however the clocks stand: a
\* roll that the last clear covers reaches no consumer that had not passed the
\* question by then (roll_event_cleared, catch_up).
THEOREM ClearedRollsAreHidden == Spec => []ClearedRollsStayHidden
<1>1. StreamInv => ClearedRollsStayHidden
  BY DEF StreamInv
<1>2. QED BY <1>1, StreamInvHolds, PTL

\* CaughtUpIsComplete for every instance: a catch-up that reports "caught-up"
\* was not cut short by the limit (catch_up's extra row, catchUpWorldEvents).
THEOREM CaughtUpMeansAll == Spec => []CaughtUpIsComplete
<1>1. StreamInv => CaughtUpIsComplete
  BY DEF StreamInv
<1>2. QED BY <1>1, StreamInvHolds, PTL

=============================================================================
