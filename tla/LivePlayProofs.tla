--------------------------- MODULE LivePlayProofs ---------------------------
(***************************************************************************)
(* Proofs about LivePlay, for every number of processes and handlers and   *)
(* every throttle, window, beat interval and delay.                        *)
(***************************************************************************)
EXTENDS LivePlay, TLAPS

\* What failures may cost grows by one beat and one write with each of them.
LEMMA CostFacts ==
    /\ \A n \in Nat : Cost(n) \in Nat /\ Cost(n + 1) = Cost(n) + BeatEvery + WriteLag
    /\ \A n \in 0 .. MaxFails : Cost(n) <= Cost(MaxFails)
    /\ Cost(MaxFails + 1) = (1 + MaxFails) * (BeatEvery + WriteLag)
<1>1. BeatEvery + WriteLag \in Nat /\ MaxFails \in Nat
  BY LivePlayAssumption
<1>2. \A k \in Nat : \A n \in Nat : n * k \in Nat /\ (n + 1) * k = n * k + k
  OBVIOUS
<1>3. \A k \in Nat : \A m \in Nat : \A n \in 0 .. m : n * k <= m * k
  <2>1. SUFFICES ASSUME NEW k \in Nat, NEW m \in Nat, NEW n \in 0 .. m
                 PROVE  n * k <= m * k
    OBVIOUS
  <2>2. /\ m - n \in Nat /\ n \in Nat
        /\ (m - n) * k \in Nat
        /\ m * k = n * k + (m - n) * k
    OBVIOUS
  <2>3. QED BY <2>2
<1>4. QED BY <1>1, <1>2, <1>3, LivePlayAssumption DEF Cost

\* The invariant holds when the server has just started.
LEMMA InitLiveInv == Init => LiveInv
BY LivePlayAssumption DEF Init, LiveInv, TypeOK, ClocksAgree, ThrottleHasAMark,
    RenewalUnderway, Time, Never

\* Every action keeps the types.
LEMMA TypeStep == TypeOK /\ Next => TypeOK'
<1>1. SUFFICES ASSUME TypeOK, Next PROVE TypeOK'
  OBVIOUS
<1> USE LivePlayAssumption DEF TypeOK, Time, Never
<1>2. ASSUME NEW h \in Handlers, HandlerStep(h) PROVE TypeOK'
  <2>1. CASE BeatSkipped(h) BY <2>1, <1>1 DEF BeatSkipped
  <2>2. CASE Beat(h) BY <2>2, <1>1 DEF Beat
  <2>3. CASE Upsert(h) BY <2>3, <1>1 DEF Upsert
  <2>4. CASE UpsertFails(h) BY <2>4, <1>1 DEF UpsertFails
  <2>5. CASE RememberMark(h) BY <2>5, <1>1 DEF RememberMark
  <2>6. QED BY <1>2, <2>1, <2>2, <2>3, <2>4, <2>5 DEF HandlerStep
<1>3. ASSUME NEW p \in Processes, RestartProcess(p) PROVE TypeOK'
  BY <1>3, <1>1 DEF RestartProcess
<1>4. CASE Stop BY <1>4, <1>1 DEF Stop
<1>5. CASE Tick BY <1>5, <1>1 DEF Tick
<1>6. QED BY <1>1, <1>2, <1>3, <1>4, <1>5 DEF Next

\* Beats, writes and notes keep the clocks in agreement.
LEMMA ClocksStep == TypeOK /\ TypeOK' /\ ClocksAgree /\ Next => ClocksAgree'
<1>1. SUFFICES ASSUME TypeOK, TypeOK', ClocksAgree, Next PROVE ClocksAgree'
  OBVIOUS
<1> USE LivePlayAssumption DEF TypeOK, Time, Never, ClocksAgree
<1>2. ASSUME NEW h \in Handlers, HandlerStep(h) PROVE ClocksAgree'
  <2>1. CASE BeatSkipped(h) BY <2>1, <1>1 DEF BeatSkipped
  <2>2. CASE Beat(h) BY <2>2, <1>1 DEF Beat
  <2>3. CASE Upsert(h) BY <2>3, <1>1 DEF Upsert
  <2>4. CASE UpsertFails(h) BY <2>4, <1>1 DEF UpsertFails
  <2>5. CASE RememberMark(h) BY <2>5, <1>1 DEF RememberMark
  <2>6. QED BY <1>2, <2>1, <2>2, <2>3, <2>4, <2>5 DEF HandlerStep
<1>3. ASSUME NEW p \in Processes, RestartProcess(p) PROVE ClocksAgree'
  BY <1>3, <1>1 DEF RestartProcess
<1>4. CASE Stop BY <1>4, <1>1 DEF Stop
<1>5. CASE Tick BY <1>5, <1>1 DEF Tick
<1>6. QED BY <1>1, <1>2, <1>3, <1>4, <1>5 DEF Next

\* A process is only ever throttled for a mark that is in the table.
LEMMA ThrottleStep ==
    TypeOK /\ TypeOK' /\ ClocksAgree /\ ThrottleHasAMark /\ Next => ThrottleHasAMark'
<1>1. SUFFICES ASSUME TypeOK, TypeOK', ClocksAgree, ThrottleHasAMark, Next
               PROVE  ThrottleHasAMark'
  OBVIOUS
<1> USE LivePlayAssumption DEF TypeOK, Time, Never, ThrottleHasAMark
<1>2. ASSUME NEW h \in Handlers, HandlerStep(h) PROVE ThrottleHasAMark'
  <2>1. CASE BeatSkipped(h) BY <2>1, <1>1 DEF BeatSkipped
  <2>2. CASE Beat(h) BY <2>2, <1>1 DEF Beat
  <2>3. CASE Upsert(h)
    <3>1. at[h] <= now BY <2>3, <1>1 DEF Upsert, ClocksAgree
    <3>2. stored # Never => stored <= stored' BY <2>3, <1>1 DEF Upsert, ClocksAgree
    <3>3. stored' # Never /\ at[h] <= stored' + MarkEvery
      BY <2>3, <3>1, <1>1 DEF Upsert
    <3>4. QED BY <2>3, <3>2, <3>3, <1>1 DEF Upsert
  <2>4. CASE UpsertFails(h) BY <2>4, <1>1 DEF UpsertFails
  <2>5. CASE RememberMark(h) BY <2>5, <1>1 DEF RememberMark
  <2>6. QED BY <1>2, <2>1, <2>2, <2>3, <2>4, <2>5 DEF HandlerStep
<1>3. ASSUME NEW p \in Processes, RestartProcess(p) PROVE ThrottleHasAMark'
  <2>1. \A k \in Handlers : wrote'[k] => wrote[k] /\ ProcessOf[k] # p
    BY <1>3, <1>1 DEF RestartProcess
  <2>2. \A k \in Handlers : ProcessOf[k] # p => at'[k] = at[k]
    BY <1>3, <1>1 DEF RestartProcess
  <2>3. QED BY <2>1, <2>2, <1>3, <1>1 DEF RestartProcess
<1>4. CASE Stop BY <1>4, <1>1 DEF Stop
<1>5. CASE Tick BY <1>5, <1>1 DEF Tick
<1>6. QED BY <1>1, <1>2, <1>3, <1>4, <1>5 DEF Next

\* Once the mark is overdue a beat that will renew it is being handled: a beat
\* then is not throttled, and whoever loses one is no later than its delay.
LEMMA RenewalStep == LiveInv /\ TypeOK' /\ Next => RenewalUnderway'
<1>1. SUFFICES ASSUME TypeOK, TypeOK', ClocksAgree, ThrottleHasAMark, RenewalUnderway, Next
               PROVE  RenewalUnderway'
  BY DEF LiveInv
<1> USE LivePlayAssumption DEF TypeOK, Time, Never
<1>2. /\ Cost(fails) \in Nat /\ Cost(fails') \in Nat
      /\ Cost(fails + 1) = Cost(fails) + BeatEvery + WriteLag
  BY <1>1, CostFacts
<1>3. ASSUME NEW h \in Handlers, HandlerStep(h) PROVE RenewalUnderway'
  <2>1. CASE BeatSkipped(h)
    <3>1. stored # Never /\ lastBeat' < stored + 2 * MarkEvery
      BY <2>1, <1>1 DEF BeatSkipped, RecentlyMarked, ThrottleHasAMark
    <3>2. QED BY <3>1, <2>1, <1>1, <1>2 DEF BeatSkipped, RenewalUnderway, Overdue
  <2>2. CASE Beat(h)
    <3>1. CASE stored # Never /\ Overdue(lastBeat)
      <4>1. PICK k \in Handlers : at[k] # Never /\ ~wrote[k] /\ ~Overdue(at[k] - BeatEvery)
        BY <3>1, <2>2, <1>1 DEF RenewalUnderway, Beat
      <4>2. at'[k] = at[k] /\ wrote'[k] = wrote[k] /\ stored' = stored /\ fails' = fails
        BY <4>1, <2>2, <1>1 DEF Beat
      <4>3. QED BY <4>1, <4>2 DEF RenewalUnderway, Overdue
    <3>2. CASE stored # Never /\ ~Overdue(lastBeat)
      <4>1. now <= lastBeat + BeatEvery BY <2>2, <1>1 DEF Beat, ClocksAgree
      <4>2. ~wrote[h] BY <2>2, <1>1 DEF Beat, ThrottleHasAMark
      <4>3. at'[h] = now /\ wrote' = wrote /\ stored' = stored /\ fails' = fails
        BY <2>2, <1>1 DEF Beat
      <4>4. ~Overdue(now - BeatEvery) BY <3>2, <4>1, <1>1, <1>2 DEF Overdue
      <4>5. QED BY <4>2, <4>3, <4>4, <1>1 DEF RenewalUnderway, Overdue
    <3>3. CASE stored = Never BY <3>3, <2>2 DEF Beat, RenewalUnderway
    <3>4. QED BY <3>1, <3>2, <3>3
  <2>3. CASE Upsert(h)
    <3>1. lastBeat' < stored' + 2 * MarkEvery
      BY <2>3, <1>1 DEF Upsert, ClocksAgree
    <3>2. ASSUME NEW b \in Int, NEW s \in Int, NEW c \in Nat, b < s + 2 * MarkEvery
          PROVE  ~(b >= s + 2 * MarkEvery + c)
      BY <3>2
    <3>3. lastBeat' \in Int /\ stored' \in Int BY <1>1
    <3>4. ~Overdue(lastBeat)' BY <3>1, <3>2, <3>3, <1>2 DEF Overdue
    <3>5. QED BY <3>4 DEF RenewalUnderway
  <2>4. CASE UpsertFails(h)
    <3>1. CASE played /\ stored # Never /\ Overdue(lastBeat)
      <4>1. PICK k \in Handlers : at[k] # Never /\ ~wrote[k] /\ ~Overdue(at[k] - BeatEvery)
        BY <3>1, <1>1 DEF RenewalUnderway
      <4>2. CASE k = h
        <5>1. lastBeat <= at[h] + WriteLag BY <4>1, <4>2, <1>1 DEF ClocksAgree
        <5>2. QED BY <4>1, <4>2, <5>1, <2>4, <1>1, <1>2
                  DEF UpsertFails, RenewalUnderway, Overdue
      <4>3. CASE k # h
        BY <4>1, <4>3, <2>4, <1>1, <1>2 DEF UpsertFails, RenewalUnderway, Overdue
      <4>4. QED BY <4>2, <4>3
    <3>2. CASE ~(played /\ stored # Never /\ Overdue(lastBeat))
      BY <3>2, <2>4, <1>1, <1>2 DEF UpsertFails, RenewalUnderway, Overdue
    <3>3. QED BY <3>1, <3>2
  <2>5. CASE RememberMark(h)
    <3>1. \A k \in Handlers : at[k] # Never /\ ~wrote[k] => at'[k] = at[k] /\ ~wrote'[k]
      BY <2>5, <1>1 DEF RememberMark
    <3>2. QED BY <3>1, <2>5, <1>1 DEF RememberMark, RenewalUnderway, Overdue
  <2>6. QED BY <1>3, <2>1, <2>2, <2>3, <2>4, <2>5 DEF HandlerStep
<1>4. ASSUME NEW p \in Processes, RestartProcess(p) PROVE RenewalUnderway'
  <2>1. CASE played /\ stored # Never /\ Overdue(lastBeat)
    <3>1. PICK k \in Handlers : at[k] # Never /\ ~wrote[k] /\ ~Overdue(at[k] - BeatEvery)
      BY <2>1, <1>1 DEF RenewalUnderway
    <3>2. lastBeat <= at[k] + WriteLag BY <3>1, <1>1 DEF ClocksAgree
    <3>3. QED BY <3>1, <3>2, <1>4, <1>1, <1>2 DEF RestartProcess, RenewalUnderway, Overdue
  <2>2. CASE ~(played /\ stored # Never /\ Overdue(lastBeat))
    BY <2>2, <1>4, <1>1, <1>2 DEF RestartProcess, RenewalUnderway, Overdue
  <2>3. QED BY <2>1, <2>2
<1>5. CASE Stop BY <1>5, <1>1 DEF Stop, RenewalUnderway
<1>6. CASE Tick BY <1>6, <1>1 DEF Tick, RenewalUnderway, Overdue
<1>7. QED BY <1>1, <1>3, <1>4, <1>5, <1>6 DEF Next

\* The invariant is inductive.
LEMMA NextLiveInv == LiveInv /\ [Next]_vars => LiveInv'
<1>1. CASE Next
  BY <1>1, TypeStep, ClocksStep, ThrottleStep, RenewalStep DEF LiveInv
<1>2. CASE UNCHANGED vars
  BY <1>2 DEF vars, LiveInv, TypeOK, ClocksAgree, ThrottleHasAMark, RenewalUnderway, Overdue
<1>3. QED BY <1>1, <1>2

\* The invariant holds always.
LEMMA LiveInvariant == Spec => []LiveInv
BY InitLiveInv, NextLiveInv, PTL DEF Spec

\* Handlers, throttles, marks and clocks keep their types.
THEOREM LiveTypeCorrect == Spec => []TypeOK
<1>1. LiveInv => TypeOK
  BY DEF LiveInv
<1>2. QED BY <1>1, LiveInvariant, PTL

\* While clients beat, the mark that says a world is in live play is renewed at
\* the latest two throttles, one beat and one write after it was made, and one
\* beat and one write later for each failure: the window that reads it has to be
\* longer than that.
THEOREM MarkIsRenewed == Spec => []MarkGapBounded
<1>1. LiveInv => MarkGapBounded
  <2>1. SUFFICES ASSUME LiveInv, played, stored # Never
                 PROVE  now - stored <= 2 * MarkEvery + Cost(MaxFails + 1)
    BY CostFacts DEF MarkGapBounded
  <2>2. /\ Cost(fails) \in Nat /\ Cost(MaxFails) \in Nat /\ Cost(fails) <= Cost(MaxFails)
        /\ Cost(MaxFails + 1) = Cost(MaxFails) + BeatEvery + WriteLag
    BY <2>1, CostFacts, LivePlayAssumption DEF LiveInv, TypeOK
  <2>3. now \in Int /\ stored \in Int /\ lastBeat \in Int
    BY <2>1 DEF LiveInv, TypeOK, Time, Never
  <2>4. CASE Overdue(lastBeat)
    <3>1. PICK h \in Handlers : at[h] # Never /\ ~Overdue(at[h] - BeatEvery)
      BY <2>1, <2>4 DEF LiveInv, RenewalUnderway
    <3>2. at[h] \in Int /\ now <= at[h] + WriteLag
      BY <2>1, <3>1 DEF LiveInv, TypeOK, ClocksAgree, Time, Never
    <3>3. at[h] - BeatEvery < stored + 2 * MarkEvery + Cost(fails)
      BY <3>1, <3>2, <2>2, <2>3, LivePlayAssumption DEF Overdue
    <3>4. QED BY <3>2, <3>3, <2>2, <2>3, LivePlayAssumption
  <2>5. CASE ~Overdue(lastBeat)
    <3>1. now <= lastBeat + BeatEvery BY <2>1 DEF LiveInv, ClocksAgree
    <3>2. QED BY <3>1, <2>5, <2>2, <2>3, LivePlayAssumption DEF Overdue
  <2>6. QED BY <2>4, <2>5
<1>2. QED BY <1>1, LiveInvariant, PTL

\* A world nobody beats is not in live play past the window and one write.
THEOREM QuietWorldsAreNotLive == Spec => []QuietWorldIsNotLive
<1>1. LiveInv => QuietWorldIsNotLive
  BY LivePlayAssumption
     DEF LiveInv, TypeOK, ClocksAgree, QuietWorldIsNotLive, InLivePlay, Time, Never
<1>2. QED BY <1>1, LiveInvariant, PTL

\* Whoever beats and however their handlers interleave, a world's row is written
\* at most once in MarkEvery: the upsert's own condition says so, not the
\* processes' notes.
THEOREM WritesAreThrottled == Spec => OneWritePerThrottle
<1>1. TypeOK /\ [Next]_vars =>
          (stored # Never /\ stored' # stored => stored' - stored > MarkEvery)
  <2>1. SUFFICES ASSUME TypeOK, Next, stored # Never, stored' # stored
                 PROVE  stored' - stored > MarkEvery
    BY DEF vars
  <2>2. PICK h \in Handlers : Upsert(h)
    BY <2>1 DEF Next, HandlerStep, BeatSkipped, Beat, UpsertFails, RememberMark,
                RestartProcess, Stop, Tick
  <2>3. stored < now - MarkEvery /\ stored' = now
    BY <2>1, <2>2 DEF Upsert
  <2>4. QED BY <2>1, <2>3, LivePlayAssumption DEF TypeOK, Time, Never
<1>2. QED BY <1>1, LiveTypeCorrect, PTL DEF Spec, OneWritePerThrottle
=============================================================================
