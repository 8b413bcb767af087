------------------------ MODULE EventDeliveryProofs ------------------------
(***************************************************************************)
(* What is proved of EventDelivery for every number of transactions, every *)
(* batch size, every grace and every delay of the environment.             *)
(***************************************************************************)
EXTENDS EventDelivery, FiniteSetTheorems, WellFoundedInduction, TLAPS

(***************************************************************************)
(* Lemmas about the operators.                                             *)
(***************************************************************************)

\* A bounded set of naturals ends at HighestOf, which is one of its elements
\* or 0: what `max(id)` and the fold of settled_cursor return.
LEMMA HighestOfBounded ==
    ASSUME NEW S \in SUBSET Nat, NEW b \in Nat, \A n \in S : n <= b
    PROVE  /\ HighestOf(S) \in S \cup {0}
           /\ HighestOf(S) \in Nat
           /\ HighestOf(S) <= b
           /\ \A n \in S : n <= HighestOf(S)
<1> DEFINE Upper == {u \in Nat : \A n \in S : n <= u}
<1>1. b \in Upper
  OBVIOUS
<1>2. PICK m \in Upper : \A k \in Upper : ~(<<k, m>> \in OpToRel(<, Nat))
  BY <1>1, NatLessThanWellFounded, WFMin
<1>3. \A k \in Upper : m <= k
  <2>1. \A k \in Nat : k < m => <<k, m>> \in OpToRel(<, Nat)
    BY Zenon DEF OpToRel
  <2>2. \A k \in Upper : ~(k < m)
    BY <1>2, <2>1
  <2>3. QED
    BY <2>2
<1>4. m \in S \cup {0}
  <2>1. SUFFICES ASSUME m \notin S, m # 0 PROVE FALSE
    OBVIOUS
  <2>2. m - 1 \in Upper
    BY <2>1
  <2>3. QED
    BY <2>2, <1>3
<1>5. \A n \in S : n <= m
  OBVIOUS
<1>6. HighestOf(S) \in S \cup {0} /\ \A n \in S : n <= HighestOf(S)
  BY <1>4, <1>5 DEF HighestOf
<1>7. HighestOf(S) \in Nat /\ HighestOf(S) <= b
  <2>1. \A h \in S \cup {0} : h \in Nat /\ h <= b
    OBVIOUS
  <2>2. QED
    BY <1>6, <2>1, Zenon
<1>8. QED
  BY <1>6, <1>7

\* The cursor of settled_cursor is the old one or the id of a settled row, and
\* at least both: the floor the fold starts from.
LEMMA SettledCursorFacts ==
    ASSUME TypeOK, \A t \in Tx : id[t] <= seq, cursor <= seq, NEW batch \in SUBSET Tx
    PROVE  /\ SettledCursor(batch) \in Nat
           /\ cursor <= SettledCursor(batch)
           /\ SettledCursor(batch) <= seq
           /\ SettledCursor(batch) # cursor =>
                 \E r \in SettledRows(batch) : SettledCursor(batch) = id[r]
<1> DEFINE S == {cursor} \cup {id[t] : t \in SettledRows(batch)}
<1>1. SettledRows(batch) \subseteq Tx
  BY DEF SettledRows
<1>2. S \in SUBSET Nat /\ \A n \in S : n <= seq
  BY <1>1 DEF TypeOK
<1>3. seq \in Nat
  BY DEF TypeOK
<1>4. /\ HighestOf(S) \in S \cup {0}
      /\ HighestOf(S) \in Nat
      /\ HighestOf(S) <= seq
      /\ \A n \in S : n <= HighestOf(S)
  BY <1>2, <1>3, HighestOfBounded
<1>5. SettledCursor(batch) = HighestOf(S)
  BY DEF SettledCursor
<1>6. cursor \in S /\ cursor \in Nat
  BY DEF TypeOK
<1>7. HighestOf(S) \in S
  <2>1. ASSUME HighestOf(S) = 0 PROVE HighestOf(S) \in S
    <3>1. cursor <= 0
      BY <1>4, <1>6, <2>1
    <3>2. cursor = HighestOf(S)
      BY <3>1, <1>6, <2>1
    <3>3. QED
      BY <3>2, <1>6
  <2>2. QED
    BY <2>1, <1>4
<1>8. HighestOf(S) # cursor => \E r \in SettledRows(batch) : HighestOf(S) = id[r]
  BY <1>7
<1>9. QED
  BY <1>4, <1>5, <1>6, <1>8

\* LIMIT cuts the ascending result at its end: a visible row past the cursor
\* with a lower id than a returned one is returned too.
LEMMA PolledRowsArePrefix ==
    ASSUME TypeOK, NEW c \in Nat,
           NEW r \in PolledRows(c), NEW q \in After(c), id[q] < id[r]
    PROVE  q \in PolledRows(c)
<1> DEFINE Below(t) == {u \in After(c) : id[u] < id[t]}
<1>1. After(c) \subseteq Tx /\ r \in Tx /\ q \in Tx
  BY DEF After, Visible, PolledRows
<1>2. Below(q) \subseteq Below(r)
  BY <1>1 DEF TypeOK
<1>3. IsFiniteSet(Below(r))
  <2>1. Below(r) \subseteq Tx
    BY <1>1
  <2>2. QED
    BY <2>1, TxAssumption, FS_Subset
<1>4. /\ Cardinality(Below(q)) <= Cardinality(Below(r))
      /\ Cardinality(Below(q)) \in Nat
      /\ Cardinality(Below(r)) \in Nat
  <2>1. IsFiniteSet(Below(q)) /\ Cardinality(Below(q)) <= Cardinality(Below(r))
    BY <1>2, <1>3, FS_Subset
  <2>2. QED
    BY <2>1, <1>3, FS_CardinalityType
<1>5. Cardinality(Below(r)) < Batch
  BY DEF PolledRows
<1>6. Cardinality(Below(q)) < Batch
  BY <1>4, <1>5, ConstantsAssumption
<1>7. QED
  BY <1>6 DEF PolledRows

-----------------------------------------------------------------------------
(* The inductive invariant. *)

\* The invariant holds when the server has just started.
LEMMA InitRelayInv == Init => RelayInv
BY DEF Init, RelayInv, TypeOK, Phase, Loop, IdsInOrder, DelaysBounded, CursorInRange,
       PollMissesOnlyOpen, OnlyStoredIsSent, AtMostOnce, DedupAgreesWithCursor,
       Heard, ConstantsAssumption

USE DEF Phase, Loop, Heard

\* The steps of a transaction disturb no row that is committed, and a new id
\* is above the cursor and above every row of a poll in flight.
LEMMA RecordKeepsRelayInv ==
    ASSUME RelayInv, NEW t \in Tx, Record(t)
    PROVE  RelayInv'
<1> USE DEF RelayInv
<1>1. CASE StampEvent(t)
  <2> USE <1>1 DEF StampEvent, pollVars, relayVars
  <2>1. TypeOK'
    BY DEF TypeOK
  <2>2. IdsInOrder'
    BY DEF IdsInOrder, TypeOK
  <2>3. DelaysBounded'
    BY ConstantsAssumption DEF DelaysBounded, IdsInOrder, TypeOK
  <2>4. CursorInRange' /\ OnlyStoredIsSent' /\ AtMostOnce' /\ DedupAgreesWithCursor'
    BY DEF CursorInRange, OnlyStoredIsSent, AtMostOnce, DedupAgreesWithCursor, TypeOK
  <2>5. PollMissesOnlyOpen'
    BY DEF PollMissesOnlyOpen, TypeOK
  <2>6. QED
    BY <2>1, <2>2, <2>3, <2>4, <2>5
<1>2. CASE InsertEvent(t)
  <2> USE <1>2 DEF InsertEvent, pollVars, relayVars
  <2>1. TypeOK'
    BY DEF TypeOK
  <2>2. id[t] = 0 /\ sent[t] = 0 /\ id'[t] = seq + 1
    BY DEF IdsInOrder, OnlyStoredIsSent, TypeOK
  <2>3. \A u \in Tx : u # t => id'[u] = id[u] /\ took'[u] = took[u] /\ phase'[u] = phase[u]
    BY DEF TypeOK
  <2>4. IdsInOrder'
    BY <2>2, <2>3 DEF IdsInOrder, DelaysBounded, TypeOK
  <2>5. DelaysBounded'
    BY ConstantsAssumption DEF DelaysBounded, IdsInOrder, TypeOK
  <2>6. CursorInRange' /\ OnlyStoredIsSent' /\ AtMostOnce'
    BY DEF CursorInRange, OnlyStoredIsSent, AtMostOnce, TypeOK
  <2>7. DedupAgreesWithCursor'
    BY <2>2, <2>3 DEF DedupAgreesWithCursor, TypeOK
  <2>8. PollMissesOnlyOpen'
    <3>1. \A r \in rows : r # t /\ id'[r] = id[r] /\ phase'[r] = phase[r]
      BY <2>3 DEF PollMissesOnlyOpen, TypeOK
    <3>2. \A r \in rows : ~(id'[t] < id'[r])
      BY <2>2, <3>1 DEF IdsInOrder, TypeOK
    <3>3. QED
      BY <2>3, <3>1, <3>2 DEF PollMissesOnlyOpen, TypeOK
  <2>9. QED
    BY <2>1, <2>4, <2>5, <2>6, <2>7, <2>8
<1>3. CASE CommitEvent(t) \/ RollBack(t)
  <2> USE <1>3 DEF CommitEvent, RollBack, pollVars, relayVars
  <2>1. TypeOK'
    BY DEF TypeOK
  <2>2. \A u \in Tx : phase[u] = "committed" => phase'[u] = "committed"
    BY DEF TypeOK
  <2>3. \A u \in Tx : phase'[u] \in {"inserted", "committed"} => phase[u] \in {"inserted", "committed"}
    BY DEF TypeOK
  <2>4. \A u \in Tx : phase'[u] \in {"idle", "stamped", "inserted"} => phase'[u] = phase[u]
    BY DEF TypeOK
  <2>5. IdsInOrder'
    BY <2>3, <2>4 DEF IdsInOrder, TypeOK
  <2>6. DelaysBounded'
    BY <2>4 DEF DelaysBounded, TypeOK
  <2>7. CursorInRange' /\ OnlyStoredIsSent' /\ AtMostOnce' /\ DedupAgreesWithCursor'
    BY <2>2 DEF CursorInRange, OnlyStoredIsSent, AtMostOnce, DedupAgreesWithCursor, TypeOK
  <2>8. PollMissesOnlyOpen'
    BY <2>2, <2>3 DEF PollMissesOnlyOpen, TypeOK
  <2>9. QED
    BY <2>1, <2>5, <2>6, <2>7, <2>8
<1>4. QED
  BY <1>1, <1>2, <1>3 DEF Record

\* What the probe of the table answers: a number no id of a visible row
\* exceeds, or 0.
LEMMA CurrentMaxFacts ==
    ASSUME TypeOK, IdsInOrder
    PROVE  /\ MaxEventId \in Nat
           /\ MaxEventId <= seq
           /\ \A t \in Visible : id[t] <= MaxEventId
           /\ MaxEventId > 0 => \E t \in Visible : id[t] = MaxEventId
<1> DEFINE S == {id[t] : t \in Visible}
<1>1. S \in SUBSET Nat /\ seq \in Nat /\ \A n \in S : n <= seq
  BY DEF Visible, TypeOK, IdsInOrder
<1>2. /\ MaxEventId \in S \cup {0}
      /\ MaxEventId \in Nat
      /\ MaxEventId <= seq
      /\ \A n \in S : n <= MaxEventId
  BY <1>1, HighestOfBounded DEF MaxEventId
<1>3. QED
  BY <1>2

\* A start-up forgets what was sent; every row sent since the last start from 0
\* is at or below the mark it starts from, or it is a start from 0 itself.
LEMMA HighWaterKeepsRelayInv ==
    ASSUME RelayInv, HighWater
    PROVE  RelayInv'
<1> USE DEF RelayInv
<1> USE DEF HighWater, txVars, pollVars
<1>1. /\ MaxEventId \in Nat
      /\ MaxEventId <= seq
      /\ \A t \in Visible : id[t] <= MaxEventId
  BY CurrentMaxFacts
<1>2. /\ startAfter' \in Nat /\ startAfter' <= seq /\ cursor' = startAfter'
      /\ startAfter' = MaxEventId \/ startAfter' = 0
  BY <1>1 DEF CurrentMaxEventId, TypeOK
<1>3. TypeOK'
  BY <1>2 DEF TypeOK
<1>4. OnlyStoredIsSent' /\ AtMostOnce'
  BY DEF OnlyStoredIsSent, AtMostOnce, TypeOK
<1>5. IdsInOrder' /\ DelaysBounded'
  BY DEF IdsInOrder, DelaysBounded
<1>6. CursorInRange'
  BY <1>2 DEF CursorInRange
<1>7. PollMissesOnlyOpen'
  BY DEF PollMissesOnlyOpen
<1>8. DedupAgreesWithCursor'
  <2>1. CASE startAfter' = 0
    <3>1. \A t \in Tx : ~(sent[t] > base'[t])
      BY <2>1 DEF TypeOK
    <3>2. QED
      BY <3>1 DEF DedupAgreesWithCursor
  <2>2. CASE startAfter' # 0
    <3>1. \A t \in Tx : sent[t] > base[t] => ~(id[t] > cursor')
      BY <1>1, <1>2, <2>2 DEF OnlyStoredIsSent, Visible, TypeOK
    <3>2. QED
      BY <2>2, <3>1 DEF DedupAgreesWithCursor
  <2>3. QED
    BY <2>1, <2>2
<1>9. QED
  BY <1>3, <1>4, <1>5, <1>6, <1>7, <1>8

\* The snapshot of a poll lacks only open transactions below its last row, and
\* those took their ids within HoldLag.
LEMMA PollReadKeepsRelayInv ==
    ASSUME RelayInv, PollRead
    PROVE  RelayInv'
<1> USE DEF RelayInv
<1> USE DEF PollRead, txVars, relayVars
<1>1. PolledRows(cursor) \subseteq After(cursor) /\ After(cursor) \subseteq Tx
  BY DEF PolledRows, After, Visible
<1>2. TypeOK'
  BY <1>1 DEF TypeOK
<1>3. IdsInOrder' /\ CursorInRange' /\ OnlyStoredIsSent' /\ AtMostOnce' /\ DedupAgreesWithCursor'
  BY DEF IdsInOrder, CursorInRange, OnlyStoredIsSent, AtMostOnce, DedupAgreesWithCursor
<1>4. DelaysBounded'
  BY ConstantsAssumption DEF DelaysBounded, TypeOK
<1>5. PollMissesOnlyOpen'
  <2>1. \A r \in PolledRows(cursor) : phase[r] = "committed" /\ id[r] > cursor
    BY <1>1 DEF After, Visible
  <2>2. ASSUME NEW r \in PolledRows(cursor), NEW q \in Tx,
               phase[q] \in {"inserted", "committed"},
               cursor < id[q], id[q] < id[r], q \notin PolledRows(cursor)
        PROVE  now <= took[q] + HoldLag
    <3>1. cursor \in Nat
      BY DEF TypeOK
    <3>2. q \notin After(cursor)
      BY <2>2, <3>1, PolledRowsArePrefix
    <3>3. phase[q] = "inserted"
      BY <2>2, <3>2 DEF After, Visible, TypeOK
    <3>4. QED
      BY <3>3 DEF DelaysBounded
  <2>3. QED
    BY <2>1, <2>2 DEF PollMissesOnlyOpen
<1>6. QED
  BY <1>2, <1>3, <1>4, <1>5

\* Absorbing a batch: each row of it is published unless it was before, which
\* the ids remembered above the cursor decide exactly.
LEMMA PollReturnKeepsRelayInv ==
    ASSUME RelayInv, PollReturn
    PROVE  RelayInv'
<1> USE DEF RelayInv
<1> USE DEF PollReturn, Absorb, NoPoll, txVars
<1>1. /\ cursor' \in Nat
      /\ cursor <= cursor'
      /\ cursor' <= seq
  BY SettledCursorFacts DEF TypeOK, IdsInOrder, CursorInRange
<1>2. \A t \in Tx : t \in Fresh(rows) => sent[t] = base[t] /\ phase[t] = "committed" /\ t \in rows
  BY DEF Fresh, DedupAgreesWithCursor, PollMissesOnlyOpen, OnlyStoredIsSent, TypeOK
<1>3. TypeOK'
  <2>1. delivered' \in SUBSET Nat
    BY DEF TypeOK
  <2>2. sent' \in [Tx -> Nat] /\ base' \in [Tx -> Nat]
    BY DEF TypeOK
  <2>3. QED
    BY <1>1, <2>1, <2>2 DEF TypeOK
<1>4. IdsInOrder'
  BY DEF IdsInOrder
<1>5. DelaysBounded'
  BY DEF DelaysBounded
<1>6. CursorInRange'
  BY <1>1 DEF CursorInRange, TypeOK
<1>7. PollMissesOnlyOpen'
  BY DEF PollMissesOnlyOpen
<1>8. \A t \in Tx : sent'[t] > base[t] <=> sent[t] > base[t] \/ t \in rows
  <2>1. \A t \in rows : t \notin Fresh(rows) => sent[t] > base[t]
    BY DEF Fresh, DedupAgreesWithCursor, PollMissesOnlyOpen, IdsInOrder, TypeOK
  <2>2. QED
    BY <1>2, <2>1 DEF TypeOK
<1>9. OnlyStoredIsSent' /\ AtMostOnce'
  BY <1>2 DEF OnlyStoredIsSent, AtMostOnce, TypeOK
<1>10. DedupAgreesWithCursor'
  <2>1. delivered = {id[t] : t \in {u \in Tx : sent[u] > base[u] /\ id[u] > cursor}}
    BY DEF DedupAgreesWithCursor
  <2>2. \A t \in rows : t \in Tx
    BY DEF TypeOK
  <2>3. \A i : i \in delivered' <=>
           \E t \in Tx : i = id[t] /\ (sent[t] > base[t] \/ t \in rows) /\ id[t] > cursor'
    BY <2>1, <2>2, <1>1 DEF TypeOK
  <2>4. delivered' = {id[t] : t \in {u \in Tx : sent'[u] > base[u] /\ id[u] > cursor'}}
    BY <2>3, <1>8
  <2>5. QED
    BY <2>4 DEF DedupAgreesWithCursor
<1>11. QED
  BY <1>3, <1>4, <1>5, <1>6, <1>7, <1>9, <1>10

\* The other steps of the loop, restarts and the clock leave the relay alone.
LEMMA OtherStepsKeepRelayInv ==
    ASSUME RelayInv,
           PollStart \/ PollFail \/ PollElapsed \/ Restart \/ Tick \/ UNCHANGED vars
    PROVE  RelayInv'
<1> USE DEF RelayInv
<1>1. CASE PollStart \/ PollFail \/ PollElapsed \/ Restart
  <2> USE <1>1 DEF PollStart, PollFail, PollElapsed, Restart, NoPoll, txVars, relayVars, pollVars
  <2>1. TypeOK'
    <3>1. loop' \in Loop /\ started' \in Nat /\ readAt' \in Nat /\ rows' \in SUBSET Tx
                       /\ restarts' \in Nat
      BY DEF TypeOK
    <3>2. QED
      BY <3>1 DEF TypeOK
  <2>2. IdsInOrder' /\ CursorInRange' /\ OnlyStoredIsSent' /\ AtMostOnce'
    BY DEF IdsInOrder, CursorInRange, OnlyStoredIsSent, AtMostOnce
  <2>3. DelaysBounded' /\ PollMissesOnlyOpen'
    BY DEF DelaysBounded, PollMissesOnlyOpen
  <2>4. DedupAgreesWithCursor'
    BY DEF DedupAgreesWithCursor
  <2>5. QED
    BY <2>1, <2>2, <2>3, <2>4
<1>2. CASE Tick
  <2> USE <1>2 DEF Tick, txVars, relayVars, pollVars
  <2>1. TypeOK'
    BY DEF TypeOK
  <2>2. IdsInOrder' /\ CursorInRange' /\ OnlyStoredIsSent' /\ AtMostOnce' /\ DedupAgreesWithCursor'
    BY DEF IdsInOrder, CursorInRange, OnlyStoredIsSent, AtMostOnce, DedupAgreesWithCursor
  <2>3. DelaysBounded' /\ PollMissesOnlyOpen'
    BY ConstantsAssumption DEF DelaysBounded, PollMissesOnlyOpen, TypeOK
  <2>4. QED
    BY <2>1, <2>2, <2>3
<1>3. CASE UNCHANGED vars
  BY <1>3 DEF vars, txVars, relayVars, pollVars, TypeOK, IdsInOrder, DelaysBounded,
       CursorInRange, PollMissesOnlyOpen, OnlyStoredIsSent, AtMostOnce, DedupAgreesWithCursor
<1>4. QED
  BY <1>1, <1>2, <1>3

\* The invariant is inductive.
LEMMA NextRelayInv == RelayInv /\ [Next]_vars => RelayInv'
<1> SUFFICES ASSUME RelayInv, [Next]_vars PROVE RelayInv'
  OBVIOUS
<1>1. CASE \E t \in Tx : Record(t)
  BY <1>1, RecordKeepsRelayInv
<1>2. CASE HighWater
  BY <1>2, HighWaterKeepsRelayInv
<1>3. CASE PollRead
  BY <1>3, PollReadKeepsRelayInv
<1>4. CASE PollReturn
  BY <1>4, PollReturnKeepsRelayInv
<1>5. CASE PollStart \/ PollFail \/ PollElapsed \/ Restart \/ Tick \/ UNCHANGED vars
  BY <1>5, OtherStepsKeepRelayInv
<1>6. QED
  BY <1>1, <1>2, <1>3, <1>4, <1>5 DEF Next

\* The invariant holds always, whatever the delays of the database are.
LEMMA RelayInvariant == Spec => []RelayInv
BY InitRelayInv, NextRelayInv, PTL DEF Spec

-----------------------------------------------------------------------------
(* The theorems. *)

\* Type correctness of the delivery loop, its relay and the event table.
THEOREM TypeCorrect == Spec => []TypeOK
<1>1. RelayInv => TypeOK
  BY DEF RelayInv
<1>2. QED
  BY <1>1, RelayInvariant, PTL

\* Nothing but a start from 0 makes the server publish an event again: not the
\* re-reading of the lagging cursor, not a failed or abandoned poll, not a
\* restart that read its high-water mark, whatever the delays of the database
\* are. StartFromZero.cfg shows that a start from 0 does.
THEOREM PublishedAtMostOnce == Spec => []AtMostOnce
<1>1. RelayInv => AtMostOnce
  BY DEF RelayInv
<1>2. QED
  BY <1>1, RelayInvariant, PTL

\* The relay's memory is always exactly the ids above the cursor that were
\* published since the last start from 0, also after a start whose query failed.
THEOREM DedupIsExact == Spec => []DedupAgreesWithCursor
<1>1. RelayInv => DedupAgreesWithCursor
  BY DEF RelayInv
<1>2. QED
  BY <1>1, RelayInvariant, PTL

\* A row that settles proves that every transaction with a lower id has ended:
\* the arithmetic of COMMIT_GRACE.
LEMMA SettledMeansEnded ==
    ASSUME RelayInv, DelaysFitGrace, loop = "returning",
           NEW r \in SettledRows(rows), NEW q \in Tx,
           phase[q] \in {"inserted", "committed"}, cursor < id[q], id[q] <= id[r]
    PROVE  q \in rows
<1> USE DEF RelayInv
<1> SUFFICES ASSUME q \notin rows PROVE FALSE
  OBVIOUS
<1>1. r \in rows /\ r \in Tx /\ id[r] \in Nat /\ id[q] \in Nat
  BY DEF SettledRows, TypeOK
<1>2. id[q] < id[r]
  BY <1>1 DEF IdsInOrder, TypeOK
<1>3. readAt <= took[q] + HoldLag
  BY <1>1, <1>2 DEF PollMissesOnlyOpen
<1>4. took[q] <= took[r]
  BY <1>1, <1>2 DEF IdsInOrder
<1>5. took[r] <= stamp[r] + StampLag
  BY <1>1, <1>2 DEF DelaysBounded
<1>6. stamp[r] < now - Grace
  BY <1>1, ConstantsAssumption DEF SettledRows, IsYoung, TypeOK
<1>7. now <= readAt + PollLag
  BY DEF DelaysBounded
<1>8. QED
  BY <1>1, <1>3, <1>4, <1>5, <1>6, <1>7, ConstantsAssumption DEF DelaysFitGrace, TypeOK

\* Where the delays fit the grace, no step moves the cursor past an event that
\* was not published or an id whose transaction is still open.
LEMMA NextNothingPassedOver ==
    ASSUME DelaysFitGrace, RelayInv, NothingPassedOver, [Next]_vars
    PROVE  NothingPassedOver'
<1> USE DEF RelayInv, NothingPassedOver, Owed
<1>1. CASE \E t \in Tx : Record(t)
  <2> PICK t \in Tx : Record(t)
    BY <1>1
  <2>1. UNCHANGED <<loop, cursor, startAfter, sent, base>>
    BY DEF Record, StampEvent, InsertEvent, CommitEvent, RollBack, relayVars
  <2>2. CASE InsertEvent(t)
    <3>1. id'[t] = seq + 1 /\ \A u \in Tx : u # t => id'[u] = id[u] /\ phase'[u] = phase[u]
      BY <2>2 DEF InsertEvent, TypeOK
    <3>2. QED
      BY <2>1, <3>1 DEF TypeOK, CursorInRange
  <2>3. CASE StampEvent(t) \/ CommitEvent(t) \/ RollBack(t)
    <3>1. id' = id /\ \A u \in Tx : phase'[u] \in {"inserted", "committed"} =>
                                       phase[u] \in {"inserted", "committed"}
      BY <2>3 DEF StampEvent, CommitEvent, RollBack, TypeOK
    <3>2. QED
      BY <2>1, <3>1
  <2>4. QED
    BY <2>2, <2>3 DEF Record
<1>2. CASE HighWater
  <2>1. startAfter' = cursor' /\ cursor' \in Nat /\ id' = id
    BY <1>2, HighWaterKeepsRelayInv DEF HighWater, TypeOK, txVars
  <2>2. \A t \in Tx : ~(id'[t] > startAfter' /\ id'[t] <= cursor')
    BY <2>1 DEF TypeOK
  <2>3. QED
    BY <2>2, Zenon
<1>3. CASE PollReturn
  <2> USE <1>3 DEF PollReturn, Absorb, txVars
  <2>1. /\ cursor' \in Nat
        /\ cursor' # cursor => \E r \in SettledRows(rows) : cursor' = id[r]
    BY SettledCursorFacts DEF TypeOK, IdsInOrder, CursorInRange
  <2>2. \A q \in Tx : /\ phase[q] \in {"inserted", "committed"}
                     /\ cursor < id[q] /\ id[q] <= cursor'
                     => q \in rows
    BY <2>1, SettledMeansEnded DEF TypeOK
  <2>3. \A q \in rows : sent'[q] > base[q]
    <3>1. \A q \in rows : q \in Tx /\ (q \notin Fresh(rows) => sent[q] > base[q])
      BY DEF Fresh, DedupAgreesWithCursor, PollMissesOnlyOpen, IdsInOrder, TypeOK
    <3>2. QED
      BY <3>1 DEF OnlyStoredIsSent, TypeOK
  <2>4. \A q \in Tx : sent[q] > base[q] => sent'[q] > base[q]
    BY DEF TypeOK
  <2>5. ASSUME NEW q \in Tx, Owed(q), id[q] <= cursor' PROVE sent'[q] > base'[q]
    <3>1. CASE id[q] <= cursor
      BY <2>4, <2>5, <3>1
    <3>2. CASE cursor < id[q]
      BY <2>2, <2>3, <2>5, <3>2
    <3>3. QED
      BY <3>1, <3>2 DEF TypeOK
  <2>6. UNCHANGED <<phase, id, startAfter>>
    OBVIOUS
  <2>7. QED
    BY <2>5, <2>6, Zenon
<1>4. CASE PollStart \/ PollRead \/ PollFail \/ PollElapsed \/ Restart \/ Tick \/ UNCHANGED vars
  <2>1. UNCHANGED <<phase, id, startAfter, cursor, sent, base>> /\ (loop = "boot" => loop' = "boot")
    BY <1>4 DEF PollStart, PollRead, PollFail, PollElapsed, Restart, Tick, vars, txVars, relayVars
  <2>2. QED
    BY <2>1
<1>5. QED
  BY <1>1, <1>2, <1>3, <1>4 DEF Next

\* If the grace covers the delays between reading created_at, taking the id,
\* committing it, and between a poll's snapshot and its absorb, then no event
\* is ever passed over: the rule of settled_cursor with the condition under
\* which it is right. SlowPoll.cfg shows that the condition is needed.
THEOREM NoEventIsLost ==
    ASSUME DelaysFitGrace
    PROVE  Spec => []NothingPassedOver
<1>1. Init => NothingPassedOver
  BY DEF Init, NothingPassedOver
<1>2. RelayInv /\ NothingPassedOver /\ [Next]_vars => NothingPassedOver'
  BY NextNothingPassedOver
<1>3. QED
  BY <1>1, <1>2, RelayInvariant, PTL DEF Spec

\* The cursor never moves backwards while the loop runs.
THEOREM CursorNeverMovesBack == Spec => CursorMonotone
<1>1. RelayInv /\ [Next]_vars => [loop # "boot" /\ loop' # "boot" => cursor' >= cursor]_vars
  <2> SUFFICES ASSUME RelayInv, Next, loop # "boot" PROVE cursor' >= cursor
    OBVIOUS
  <2>1. CASE PollReturn
    BY <2>1, SettledCursorFacts DEF PollReturn, Absorb, RelayInv, TypeOK, IdsInOrder, CursorInRange
  <2>2. CASE ~PollReturn
    <3>1. cursor' = cursor
      BY <2>2 DEF Next, Record, StampEvent, InsertEvent, CommitEvent, RollBack, HighWater,
           PollStart, PollRead, PollFail, PollElapsed, Restart, Tick, relayVars
    <3>2. QED
      BY <3>1 DEF RelayInv, TypeOK
  <2>3. QED
    BY <2>1, <2>2
<1>2. QED
  BY <1>1, RelayInvariant, PTL DEF Spec, CursorMonotone

-----------------------------------------------------------------------------
(* Refinement: the polling loop implements EventFeed. *)

\* The high-water mark is 0 or the id of a row that is there for good, so a
\* later start-up that reads one never starts from a lower one.
StartIsStored == startAfter > 0 => \E t \in Tx : phase[t] = "committed" /\ id[t] = startAfter

\* The high-water mark stays the id of a committed row, through polls, later
\* start-ups and restarts.
LEMMA StartIsStoredInvariant == Spec => []StartIsStored
<1>1. Init => StartIsStored
  BY DEF Init, StartIsStored
<1>2. RelayInv /\ StartIsStored /\ [Next]_vars => StartIsStored'
  <2> SUFFICES ASSUME RelayInv, StartIsStored, [Next]_vars PROVE StartIsStored'
    OBVIOUS
  <2> USE DEF RelayInv
  <2>1. CASE HighWater
    <3>1. MaxEventId > 0 => \E t \in Visible : id[t] = MaxEventId
      BY CurrentMaxFacts
    <3>2. QED
      BY <2>1, <3>1 DEF HighWater, CurrentMaxEventId, StartIsStored, Visible, txVars
  <2>2. CASE \E t \in Tx : Record(t)
    <3> PICK t \in Tx : Record(t)
      BY <2>2
    <3>1. startAfter' = startAfter
      BY DEF Record, StampEvent, InsertEvent, CommitEvent, RollBack, relayVars
    <3>2. \A u \in Tx : phase[u] = "committed" => phase'[u] = "committed" /\ id'[u] = id[u]
      BY DEF Record, StampEvent, InsertEvent, CommitEvent, RollBack, TypeOK
    <3>3. QED
      BY <3>1, <3>2 DEF StartIsStored
  <2>3. CASE ~HighWater /\ ~(\E t \in Tx : Record(t))
    <3>1. UNCHANGED <<phase, id, startAfter>>
      BY <2>3 DEF Next, PollStart, PollRead, PollReturn, Absorb, PollFail, PollElapsed, Restart,
           Tick, vars, txVars, relayVars
    <3>2. QED
      BY <3>1 DEF StartIsStored
  <2>4. QED
    BY <2>1, <2>2, <2>3
<1>3. QED
  BY <1>1, <1>2, RelayInvariant, PTL DEF Spec

\* A step that keeps what StatusOf reads of an event keeps its status.
LEMMA RecordRefines ==
    ASSUME RelayInv, NEW t \in Tx, Record(t)
    PROVE  [Feed!Next]_(Feed!vars)
<1> USE DEF RelayInv
<1>1. sent' = sent /\ base' = base /\ startAfter' = startAfter /\ loop' = loop
  BY DEF Record, StampEvent, InsertEvent, CommitEvent, RollBack, relayVars
<1>2. \A u \in Tx \ {t} : phase'[u] = phase[u] /\ id'[u] = id[u]
  BY DEF Record, StampEvent, InsertEvent, CommitEvent, RollBack, TypeOK
<1>3. \A u \in Tx \ {t} : StatusOf(u)' = StatusOf(u)
  BY <1>1, <1>2 DEF StatusOf
<1>4. FeedStatus' = [FeedStatus EXCEPT ![t] = StatusOf(t)']
  BY <1>3 DEF FeedStatus
<1>5. phase[t] # "committed" => ~(sent[t] > base[t])
  BY DEF OnlyStoredIsSent, TypeOK
<1>6. CASE StampEvent(t)
  <2>1. StatusOf(t)' = StatusOf(t)
    BY <1>6 DEF StampEvent, StatusOf, TypeOK
  <2>2. FeedStatus' = FeedStatus
    BY <2>1, <1>4 DEF FeedStatus
  <2>3. QED
    BY <2>2, <1>1 DEF Feed!vars
<1>7. CASE InsertEvent(t)
  <2>1. StatusOf(t) = "unwritten"
    BY <1>7 DEF InsertEvent, StatusOf
  <2>2. phase'[t] = "inserted" /\ id'[t] = seq + 1
    BY <1>7 DEF InsertEvent, TypeOK
  <2>3. phase[t] # "committed"
    BY <1>7 DEF InsertEvent
  <2>4. StatusOf(t)' = "open"
    BY <2>2, <2>3, <1>1, <1>5 DEF StatusOf, CursorInRange, TypeOK
  <2>5. Feed!Write(t)
    BY <2>1, <2>4, <1>1, <1>4 DEF Feed!Write, FeedStatus
  <2>6. QED
    BY <2>5 DEF Feed!Next
<1>8. CASE CommitEvent(t)
  <2>1. phase[t] = "inserted" /\ phase'[t] = "committed" /\ id'[t] = id[t]
    BY <1>8 DEF CommitEvent, TypeOK
  <2>2. CASE id[t] <= startAfter
    <3>1. StatusOf(t)' = StatusOf(t)
      BY <2>1, <2>2, <1>1, <1>5 DEF StatusOf
    <3>2. FeedStatus' = FeedStatus
      BY <3>1, <1>4 DEF FeedStatus
    <3>3. QED
      BY <3>2, <1>1 DEF Feed!vars
  <2>3. CASE ~(id[t] <= startAfter)
    <3>1. StatusOf(t) = "open" /\ StatusOf(t)' = "stored"
      BY <2>1, <2>3, <1>1, <1>5 DEF StatusOf
    <3>2. Feed!Store(t)
      BY <3>1, <1>1, <1>4 DEF Feed!Store, FeedStatus
    <3>3. QED
      BY <3>2 DEF Feed!Next
  <2>4. QED
    BY <2>2, <2>3
<1>9. CASE RollBack(t)
  <2>1. phase[t] \in {"stamped", "inserted"} /\ phase'[t] = "rolledback"
    BY <1>9 DEF RollBack, TypeOK
  <2>2. StatusOf(t) \in {"unwritten", "open", "skipped"} /\ StatusOf(t)' = "discarded"
    BY <2>1, <1>1, <1>5 DEF StatusOf
  <2>3. Feed!Discard(t)
    BY <2>2, <1>1, <1>4 DEF Feed!Discard, FeedStatus
  <2>4. QED
    BY <2>3 DEF Feed!Next
<1>10. QED
  BY <1>6, <1>7, <1>8, <1>9 DEF Record

\* Starting the loop from the high-water mark skips what is stored and some of
\* what is open, only that; starting it from 0 makes all of it owed again.
LEMMA HighWaterRefines ==
    ASSUME RelayInv, StartIsStored, HighWater
    PROVE  Feed!Next
<1> USE DEF RelayInv
<1>1. /\ MaxEventId \in Nat
      /\ \A t \in Visible : id[t] <= MaxEventId
  BY CurrentMaxFacts
<1>2. startAfter <= MaxEventId
  BY <1>1 DEF StartIsStored, Visible, TypeOK
<1>3. /\ UNCHANGED <<phase, id, sent>>
      /\ loop = "boot" /\ loop' = "sleeping"
      /\ startAfter' = MaxEventId \/ startAfter' = 0
      /\ base' = IF startAfter' = 0 THEN sent ELSE base
  BY DEF HighWater, CurrentMaxEventId, txVars
<1>4. \A t \in Tx : id[t] \in Nat /\ startAfter \in Nat /\ sent[t] \in Nat
                    /\ base[t] \in Nat /\ phase[t] \in Phase
  BY DEF TypeOK
<1>5. \A t \in Tx : phase[t] \in {"inserted", "committed"} => id[t] > 0
  BY DEF IdsInOrder
<1>6. CASE startAfter' # 0
  <2> DEFINE Open == {t \in Tx : phase[t] = "inserted" /\ StatusOf(t) = "open"
                                  /\ id[t] <= MaxEventId}
  <2>1. startAfter' = MaxEventId /\ base' = base
    BY <1>3, <1>6
  <2>2. \A t \in Tx : StatusOf(t)' = IF StatusOf(t) = "stored" \/ t \in Open
                                     THEN "skipped" ELSE StatusOf(t)
    <3> SUFFICES ASSUME NEW t \in Tx
                 PROVE StatusOf(t)' = IF StatusOf(t) = "stored" \/ t \in Open
                                      THEN "skipped" ELSE StatusOf(t)
      OBVIOUS
    <3>1. phase[t] = "committed" => id[t] <= MaxEventId
      BY <1>1 DEF Visible
    <3>2. QED
      BY <3>1, <2>1, <1>1, <1>2, <1>3, <1>4 DEF StatusOf
  <2>3. Open \in SUBSET {t \in Tx : FeedStatus[t] = "open"}
    BY DEF FeedStatus
  <2>4. FeedStatus' = [t \in Tx |-> IF FeedStatus[t] = "stored" \/ t \in Open
                                     THEN "skipped" ELSE FeedStatus[t]]
    BY <2>2 DEF FeedStatus
  <2>5. Feed!Start
    BY <1>3, <2>3, <2>4 DEF Feed!Start
  <2>6. QED
    BY <2>5 DEF Feed!Next
<1>7. CASE startAfter' = 0
  <2> DEFINE Open == {t \in Tx : phase[t] = "inserted" /\ StatusOf(t) = "skipped"}
  <2>1. base' = sent
    BY <1>3, <1>7
  <2>2. \A t \in Tx : StatusOf(t)' = IF t \in Open THEN "open"
                                     ELSE IF StatusOf(t) \in {"heard", "skipped"} THEN "stored"
                                     ELSE StatusOf(t)
    <3> SUFFICES ASSUME NEW t \in Tx
                 PROVE StatusOf(t)' = IF t \in Open THEN "open"
                                      ELSE IF StatusOf(t) \in {"heard", "skipped"} THEN "stored"
                                      ELSE StatusOf(t)
      OBVIOUS
    <3>1. sent[t] > base[t] => phase[t] = "committed"
      BY <1>4 DEF OnlyStoredIsSent
    <3>2. QED
      BY <3>1, <2>1, <1>3, <1>4, <1>5, <1>7 DEF StatusOf
  <2>3. Open \in SUBSET {t \in Tx : FeedStatus[t] = "skipped"}
    BY DEF FeedStatus
  <2>4. FeedStatus' = [t \in Tx |-> IF t \in Open THEN "open"
                                     ELSE IF FeedStatus[t] \in {"heard", "skipped"} THEN "stored"
                                     ELSE FeedStatus[t]]
    BY <2>2 DEF FeedStatus
  <2>5. Feed!StartOver
    BY <1>3, <2>3, <2>4 DEF Feed!StartOver
  <2>6. QED
    BY <2>5 DEF Feed!Next
<1>8. QED
  BY <1>6, <1>7

\* Absorbing a poll hands over stored events, each of them once.
LEMMA PollReturnRefines ==
    ASSUME RelayInv, PollReturn
    PROVE  Feed!Next
<1> USE DEF RelayInv
<1>1. /\ UNCHANGED <<phase, id, startAfter, base>>
      /\ loop = "returning" /\ loop' = "sleeping"
      /\ sent' = [t \in Tx |-> sent[t] + (IF t \in Fresh(rows) THEN 1 ELSE 0)]
  BY DEF PollReturn, Absorb, txVars
<1>2. \A t \in Fresh(rows) : /\ t \in Tx /\ sent[t] = base[t]
                             /\ phase[t] = "committed" /\ id[t] > startAfter
  BY <1>1 DEF Fresh, DedupAgreesWithCursor, PollMissesOnlyOpen, CursorInRange,
       OnlyStoredIsSent, TypeOK
<1>3. sent' = [t \in Tx |-> IF t \in Fresh(rows) THEN sent[t] + 1 ELSE sent[t]]
  BY <1>1 DEF TypeOK
<1>4. \A t \in Fresh(rows) : StatusOf(t) = "stored" /\ StatusOf(t)' = "heard"
  BY <1>1, <1>2, <1>3 DEF StatusOf, TypeOK
<1>5. \A t \in Tx \ Fresh(rows) : StatusOf(t)' = StatusOf(t)
  BY <1>1, <1>3 DEF StatusOf
<1>6. FeedStatus' = [t \in Tx |-> IF t \in Fresh(rows) THEN "heard" ELSE FeedStatus[t]]
  BY <1>4, <1>5 DEF FeedStatus
<1>7. Fresh(rows) \in SUBSET {t \in Tx : FeedStatus[t] = "stored"}
  BY <1>2, <1>4 DEF FeedStatus
<1>8. Feed!Hear
  BY <1>1, <1>3, <1>6, <1>7 DEF Feed!Hear
<1>9. QED
  BY <1>8 DEF Feed!Next

\* Every behaviour of the delivery loop is one of the abstract feed: an event
\* is handed over only after it is stored, only a start-up skips, and only a
\* start-up from 0 hands out again.
THEOREM DeliveryImplementsFeed == Spec => ImplementsFeed
<1>1. Init => Feed!Init
  <2>1. Init => FeedStatus = [t \in Tx |-> "unwritten"]
    BY DEF Init, FeedStatus, StatusOf
  <2>2. QED
    BY <2>1 DEF Init, Feed!Init
<1>2. RelayInv /\ StartIsStored /\ [Next]_vars => [Feed!Next]_(Feed!vars)
  <2> SUFFICES ASSUME RelayInv, StartIsStored, [Next]_vars PROVE [Feed!Next]_(Feed!vars)
    OBVIOUS
  <2>1. CASE \E t \in Tx : Record(t)
    BY <2>1, RecordRefines
  <2>2. CASE HighWater
    BY <2>2, HighWaterRefines
  <2>3. CASE PollReturn
    BY <2>3, PollReturnRefines
  <2>4. CASE Restart
    <3>1. UNCHANGED <<phase, id, startAfter, sent, base>> /\ loop # "boot" /\ loop' = "boot"
      BY <2>4 DEF Restart, txVars, relayVars
    <3>2. FeedStatus' = FeedStatus
      BY <3>1 DEF FeedStatus, StatusOf
    <3>3. Feed!Stop
      BY <3>1, <3>2 DEF Feed!Stop
    <3>4. QED
      BY <3>3 DEF Feed!Next
  <2>5. CASE PollStart \/ PollRead \/ PollFail \/ PollElapsed \/ Tick \/ UNCHANGED vars
    <3>1. UNCHANGED <<phase, id, startAfter, sent, base>> /\ (loop = "boot") = (loop' = "boot")
      BY <2>5 DEF PollStart, PollRead, PollFail, PollElapsed, Tick, vars, txVars, relayVars
    <3>2. FeedStatus' = FeedStatus
      BY <3>1 DEF FeedStatus, StatusOf
    <3>3. QED
      BY <3>1, <3>2 DEF Feed!vars
  <2>6. QED
    BY <2>1, <2>2, <2>3, <2>4, <2>5 DEF Next
<1>3. QED
  BY <1>1, <1>2, RelayInvariant, StartIsStoredInvariant, PTL DEF Spec, ImplementsFeed, Feed!Spec
=============================================================================
