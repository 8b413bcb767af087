-------------------------- MODULE ReconcileProofs --------------------------
(***************************************************************************)
(* What Reconcile promises for every set of pages, changes and tokens and  *)
(* any number of passes and failures: its type invariant, that no queued   *)
(* edit is lost, that `applied` is true, and that on a token no two        *)
(* requests worked on at once a Game Master's move stands and no move is   *)
(* made twice.                                                             *)
(*                                                                         *)
(* The inductive invariant follows a request through its statements: what  *)
(* the check found of a token's mark still holds when the move is written  *)
(* and when its own mark is left, because whoever else could have changed  *)
(* the mark meanwhile would have been at work on the token too.            *)
(***************************************************************************)
EXTENDS Reconcile, SequenceTheorems, NumberLemmas

-----------------------------------------------------------------------------
(* The inductive invariant *)

\* A drain that waits for a request names it, and has a pass left.
DrainsInOrder ==
    \A p \in Clients :
        /\ drain[p].at = "sent" => drain[p].call \in 1 .. MaxFaults + 1
        /\ drain[p].at \in {"sent", "forget"} => drain[p].pass < MaxPasses

\* What a page may forget, it has heard of.
AnswersAreHeard ==
    \A p \in Clients : \A a \in drain[p].answer : a[2] \in heard[a[1]]

\* Each request a page has given up at the server cost a failure: there is
\* always a place for the next one.
Busy(p) == {n \in 1 .. MaxFaults + 1 : call[<<p, n>>].at # "none"}
SlotsSuffice ==
    \A p \in Clients : Cardinality(Busy(p)) <= faults + (IF drain[p].at = "sent" THEN 1 ELSE 0)

\* A request at the server carries changes of its own client, and its place in
\* the order is one that was given out, as is that of every mark.
RequestsInOrder ==
    /\ \A k \in Calls : call[k].at \in {"admit", "check", "weigh", "write", "mark"} =>
           call[k].todo # <<>> /\ ToSet(call[k].todo) \subseteq Mine(k[1])
    /\ \A k \in Calls : AtWork(k) => call[k].seq < next_seq
    /\ \A k \in Calls : call[k].at \in {"weigh", "write", "mark"} => Head(call[k].todo) \notin attacks
    /\ \A t \in Tokens : marks[t] # None => marks[t].seq < next_seq

\* Carried out, or without effect because the token is gone.
Done(c) == c \in ToSet(log) \/ TokenOf[c] \in gone
OutcomesAreTrue ==
    /\ \A k \in Calls : \A a \in call[k].out : a[2] = "applied" => Done(a[1])
    /\ \A k \in Calls : call[k].at = "mark" => Done(Head(call[k].todo))

\* Two requests that are at work on one token are known to be.
OverlapsAreNoted ==
    \A j, k \in Calls : j # k /\ AtWork(j) /\ AtWork(k) => TokensOf(j) \cap TokensOf(k) \subseteq overlap

\* The mark of t stands against the request k.
Held(t, k) == marks[t] # None /\ resolve(marks[t], [role |-> RoleOf(k[1]), seq |-> call[k].seq])

\* What the check found is so until the request leaves its own mark.
CheckStays ==
    \A k \in Calls : call[k].at \in {"write", "mark"} =>
        TokenOf[Head(call[k].todo)] \in overlap \/ ~Held(TokenOf[Head(call[k].todo)], k)

\* The moves of this process of the server, on tokens without an overlap.
Settled(i) == since < i /\ log[i] \notin attacks /\ TokenOf[log[i]] \notin overlap

\* A move has a mark of its role or a higher one, or is about to get it.
MovesAreMarked ==
    \A i \in DOMAIN log : Settled(i) =>
        \/ /\ marks[TokenOf[log[i]]] # None
           /\ author[log[i]] \in GameMasters => marks[TokenOf[log[i]]].role = "GameMaster"
        \/ \E k \in Calls : call[k].at = "mark" /\ Head(call[k].todo) = log[i]

\* A request that carries a move already made will find the mark against it.
RepeatsAreHeld ==
    \A k \in Calls : AtWork(k) =>
        \A i \in DOMAIN log : Settled(i) /\ log[i] \in ToSet(call[k].todo) =>
            \/ Held(TokenOf[log[i]], k)
            \/ call[k].at = "mark" /\ log[i] = Head(call[k].todo)

ReconcileInvariant ==
    /\ TypeOK
    /\ DrainsInOrder
    /\ AnswersAreHeard
    /\ NothingLost
    /\ SlotsSuffice
    /\ RequestsInOrder
    /\ OutcomesAreTrue
    /\ AppliedIsTrue
    /\ OverlapsAreNoted
    /\ CheckStays
    /\ MovesAreMarked
    /\ RepeatsAreHeld
    /\ GameMasterStands
    /\ ResentMoveIsNotRepeated

-----------------------------------------------------------------------------
(* The model's operators *)

\* The order of replay: any two rows of a browser's outbox are in it one way,
\* since local ids differ where sequence numbers do not.
LEMMA ReplayBefore ==
    ASSUME NEW S \in SUBSET Changes, \A c \in S : outbox[c] \in Nat
    PROVE  /\ \A c \in S : ~replay_before(c, c)
           /\ \A c, d \in S : c # d => replay_before(c, d) \/ replay_before(d, c)
           /\ \A c, d \in S : replay_before(c, d) => ~replay_before(d, c)
           /\ \A b, c, d \in S : replay_before(b, c) /\ replay_before(c, d) => replay_before(b, d)
BY ReconcileAssumption DEF replay_before

\* The request carries each of the rows that are due once, in the order of
\* replay: a place for a row is how many come before it.
THEOREM ReplayOrder ==
    ASSUME NEW S \in SUBSET Changes, \A c \in S : outbox[c] \in Nat
    PROVE  /\ replay_order(S) \in Seq(S)
           /\ ToSet(replay_order(S)) = S
           /\ \A i, j \in DOMAIN replay_order(S) :
                  i < j => replay_before(replay_order(S)[i], replay_order(S)[j])
<1> DEFINE n == Cardinality(S)
           Pred(c) == {d \in S : replay_before(d, c)}
           f == [c \in S |-> Cardinality(Pred(c)) + 1]
           s == [i \in 1 .. n |-> CHOOSE c \in S : f[c] = i]
<1>1. IsFiniteSet(S) /\ n \in Nat
  BY ReconcileAssumption, FS_Subset, FS_CardinalityType
<1>2. \A c \in S : IsFiniteSet(Pred(c)) /\ Cardinality(Pred(c)) \in 0 .. n - 1
  <2>1. SUFFICES ASSUME NEW c \in S
                 PROVE  IsFiniteSet(Pred(c)) /\ Cardinality(Pred(c)) \in 0 .. n - 1
    OBVIOUS
  <2>2. Pred(c) \in SUBSET S /\ Pred(c) # S
    BY ReplayBefore
  <2> HIDE DEF Pred
  <2>3. IsFiniteSet(Pred(c)) /\ Cardinality(Pred(c)) <= n /\ Cardinality(Pred(c)) # n
    BY <1>1, <2>2, FS_Subset
  <2>4. Cardinality(Pred(c)) \in Nat
    BY <2>3, FS_CardinalityType
  <2>5. QED BY <2>3, <2>4, <1>1
<1>a. \A c \in S : f[c] = Cardinality(Pred(c)) + 1
  OBVIOUS
<1> HIDE DEF f, Pred, n
<1>3. \A c, d \in S : replay_before(c, d) => f[c] < f[d]
  <2>1. SUFFICES ASSUME NEW c \in S, NEW d \in S, replay_before(c, d)
                 PROVE  Cardinality(Pred(c)) < Cardinality(Pred(d))
    BY <1>2, <1>a
  <2>2. Pred(c) \in SUBSET Pred(d) /\ Pred(c) # Pred(d)
    BY <2>1, ReplayBefore DEF Pred
  <2>3. Cardinality(Pred(c)) <= Cardinality(Pred(d)) /\ Cardinality(Pred(c)) # Cardinality(Pred(d))
    BY <1>2, <2>2, FS_Subset
  <2>4. QED BY <1>2, <2>3
<1>4. f \in [S -> 1 .. n]
  <2>1. \A c \in S : Cardinality(Pred(c)) + 1 \in 1 .. n
    BY <1>1, <1>2
  <2>2. QED BY <2>1 DEF f
<1>5. \A c, d \in S : f[c] = f[d] => c = d
  <2>1. \A c \in S : f[c] \in Int
    BY <1>4
  <2>2. QED BY <1>3, <2>1, ReplayBefore
<1>6. f \in Injection(S, 1 .. n)
  BY <1>4, <1>5 DEF Injection, IsInjective
<1>7. \A i \in 1 .. n : \E c \in S : f[c] = i
  <2>1. IsFiniteSet(1 .. n) /\ Cardinality(1 .. n) = n
    BY <1>1, FS_Interval
  <2>2. f \in Surjection(S, 1 .. n)
    BY <1>6, <2>1, FS_Injection DEF n
  <2>3. QED BY <2>2 DEF Surjection
<1>8. s \in [1 .. n -> S] /\ \A i \in 1 .. n : f[s[i]] = i
  BY <1>7
<1> HIDE DEF s
<1>9. \A i, j \in 1 .. n : i < j => replay_before(s[i], s[j])
  <2>1. SUFFICES ASSUME NEW i \in 1 .. n, NEW j \in 1 .. n, i < j
                 PROVE  replay_before(s[i], s[j])
    OBVIOUS
  <2>2. s[i] \in S /\ s[j] \in S /\ f[s[i]] < f[s[j]]
    BY <2>1, <1>8
  <2>3. s[i] # s[j] /\ ~replay_before(s[j], s[i])
    BY <2>1, <2>2, <1>3, <1>8
  <2>4. QED BY <2>2, <2>3, ReplayBefore
<1>10. s \in SetToSeqs(S) /\ DOMAIN s = 1 .. n
  <2>1. \A i, j \in 1 .. n : i # j => s[i] # s[j]
    BY <1>8
  <2>2. QED BY <1>8, <2>1 DEF SetToSeqs, n
<1> DEFINE r == replay_order(S)
<1>11. r \in SetToSeqs(S) /\ \A i, j \in DOMAIN r : i < j => replay_before(r[i], r[j])
  BY <1>9, <1>10 DEF replay_order
<1>12. r \in [1 .. n -> S] /\ \A i, j \in 1 .. n : i # j => r[i] # r[j]
  BY <1>11 DEF SetToSeqs, n
<1> HIDE DEF r
<1>13. r \in Seq(S)
  BY <1>1, <1>12, SeqDef
<1>14. ToSet(r) = S
  <2>1. r \in Injection(1 .. n, S)
    BY <1>12 DEF Injection, IsInjective
  <2>2. Cardinality(1 .. n) = n
    BY <1>1, FS_Interval
  <2>3. r \in Surjection(1 .. n, S)
    BY <2>1, <2>2, <1>1, FS_Injection DEF n
  <2>4. QED BY <2>3 DEF Surjection, ToSet
<1>15. QED BY <1>11, <1>13, <1>14 DEF r

\* The changes of a request that is not empty, its head and what is behind it.
LEMMA TodoFacts ==
    ASSUME NEW s \in Seq(Changes), s # <<>>
    PROVE  /\ Head(s) \in Changes /\ Head(s) \in ToSet(s)
           /\ Tail(s) \in Seq(Changes) /\ ToSet(Tail(s)) \subseteq ToSet(s)
<1>1. Len(s) \in Nat \ {0} /\ DOMAIN s = 1 .. Len(s)
  BY EmptySeq, LenProperties
<1>2. Head(s) = s[1] /\ Head(s) \in Changes
  BY <1>1, HeadTailProperties
<1>3. Head(s) \in ToSet(s)
  BY <1>1, <1>2 DEF ToSet
<1>4. /\ Tail(s) \in Seq(Changes) /\ Len(Tail(s)) = Len(s) - 1
      /\ \A i \in 1 .. Len(Tail(s)) : Tail(s)[i] = s[i + 1]
  BY HeadTailProperties
<1>5. DOMAIN Tail(s) = 1 .. Len(s) - 1
  BY <1>4, LenProperties
<1>6. \A i \in DOMAIN Tail(s) : i + 1 \in DOMAIN s /\ Tail(s)[i] = s[i + 1]
  BY <1>1, <1>4, <1>5
<1>7. ToSet(Tail(s)) \subseteq ToSet(s)
  BY <1>6 DEF ToSet
<1>8. QED BY <1>2, <1>3, <1>4, <1>7

\* The log with one change more.
LEMMA LogFacts ==
    ASSUME NEW s \in Seq(Changes), NEW c \in Changes
    PROVE  /\ Append(s, c) \in Seq(Changes) /\ Len(Append(s, c)) = Len(s) + 1
           /\ DOMAIN s = 1 .. Len(s) /\ Len(s) \in Nat
           /\ DOMAIN Append(s, c) = 1 .. Len(s) + 1
           /\ \A i \in DOMAIN s : Append(s, c)[i] = s[i]
           /\ Append(s, c)[Len(s) + 1] = c
           /\ ToSet(s) \subseteq ToSet(Append(s, c)) /\ c \in ToSet(Append(s, c))
<1>1. /\ Append(s, c) \in Seq(Changes) /\ Len(Append(s, c)) = Len(s) + 1
      /\ DOMAIN s = 1 .. Len(s) /\ Len(s) \in Nat
      /\ DOMAIN Append(s, c) = 1 .. Len(s) + 1
      /\ \A i \in DOMAIN s : Append(s, c)[i] = s[i]
      /\ Append(s, c)[Len(s) + 1] = c
  BY LenProperties
<1>2. \A i \in DOMAIN s : i \in DOMAIN Append(s, c)
  BY <1>1
<1>3. QED BY <1>1, <1>2 DEF ToSet

-----------------------------------------------------------------------------
(* What a step does to the requests *)

Others(k) == \A j \in Calls \ {k} : call'[j] = call[j]
ServerStays == UNCHANGED <<next_seq, marks, log, since, overlap>>

\* The change at the head is answered with o.
TakesNext(k, o) ==
    /\ Others(k)
    /\ call'[k].todo = Tail(call[k].todo) /\ call'[k].seq = call[k].seq
    /\ call'[k].at = IF Tail(call[k].todo) = <<>> THEN "reply" ELSE "check"
    /\ call'[k].out = call[k].out \cup {<<Head(call[k].todo), o>>}

\* Settle takes the next change and leaves the request of its type.
LEMMA SettleFacts ==
    ASSUME call \in [Calls -> Call], NEW k \in Calls, call[k].todo # <<>>,
           NEW o \in Outcome, Settle(k, o)
    PROVE  call' \in [Calls -> Call] /\ TakesNext(k, o)
<1> DEFINE rest == Tail(call[k].todo)
           step == IF rest = <<>> THEN "reply" ELSE "check"
           head == Head(call[k].todo)
           out == call[k].out \cup {<<head, o>>}
<1>1. call[k] \in Call
  OBVIOUS
<1>2. rest \in Seq(Changes) /\ head \in Changes
  BY <1>1, TodoFacts DEF Call
<1>3. out \in SUBSET (Changes \X Outcome) /\ step \in CallState
  BY <1>1, <1>2 DEF Call, CallState
<1>4. call' = [call EXCEPT ![k].at = step, ![k].todo = rest, ![k].out = out]
  BY DEF Settle
<1> HIDE DEF rest, step, head, out
<1>5. call' \in [Calls -> Call]
  BY <1>2, <1>3, <1>4 DEF Call
<1>6. /\ call'[k].at = step /\ call'[k].todo = rest /\ call'[k].out = out
      /\ call'[k].seq = call[k].seq /\ Others(k)
  BY <1>4 DEF Call, Others
<1>7. QED BY <1>5, <1>6 DEF TakesNext, rest, step, head, out

\* A request is answered as a whole.
LEMMA AllAnsweredFacts ==
    ASSUME call \in [Calls -> Call], NEW k \in Calls, NEW o \in Outcome, AllAnswered(k, o)
    PROVE  /\ call' \in [Calls -> Call] /\ Others(k) /\ call'[k].at = "reply"
           /\ \A a \in call'[k].out : a[2] = o
<1> DEFINE out == {<<c, o>> : c \in ToSet(call[k].todo)}
<1>1. call[k] \in Call
  OBVIOUS
<1>2. ToSet(call[k].todo) \subseteq Changes
  BY <1>1, LenProperties DEF Call, ToSet
<1>3. out \in SUBSET (Changes \X Outcome) /\ (\A a \in out : a[2] = o)
  BY <1>2
<1>4. call' = [call EXCEPT ![k].at = "reply", ![k].todo = <<>>, ![k].out = out]
  BY DEF AllAnswered
<1> HIDE DEF out
<1>5. call' \in [Calls -> Call]
  <2>1. "reply" \in CallState /\ <<>> \in Seq(Changes)
    BY EmptySeq DEF CallState
  <2>2. QED BY <1>3, <1>4, <2>1 DEF Call
<1>6. call'[k].at = "reply" /\ call'[k].out = out /\ Others(k)
  BY <1>4 DEF Call, Others
<1>7. QED BY <1>3, <1>5, <1>6

\* A page that is about to send has a free place for its request.
LEMMA SlotIsFree ==
    ASSUME TypeOK, SlotsSuffice, NEW p \in Clients, drain[p].at = "read"
    PROVE  /\ FreeSlot(p) \in 1 .. MaxFaults + 1 /\ <<p, FreeSlot(p)>> \in Calls
           /\ call[<<p, FreeSlot(p)>>].at = "none"
<1> DEFINE N == MaxFaults + 1
           free == {n \in 1 .. N : call[<<p, n>>].at = "none"}
<1>1. N \in Nat /\ faults \in Nat /\ faults < N
  BY ReconcileAssumption DEF TypeOK
<1>2. IsFiniteSet(1 .. N) /\ Cardinality(1 .. N) = N
  BY <1>1, ReconcileAssumption, FS_Interval
<1>3. Busy(p) # 1 .. N
  BY <1>1, <1>2 DEF SlotsSuffice
<1>4. free # {} /\ free \subseteq Nat
  BY <1>1, <1>3 DEF Busy
<1>5. \E m \in free : \A d \in free : m <= d
  BY <1>4, LeastExists
<1>6. Min(free) \in free
  BY <1>5 DEF Min
<1>7. QED BY <1>6 DEF FreeSlot, Calls

\* The next sequence number of a browser is one.
LEMMA NextSeqType ==
    ASSUME TypeOK, NEW p \in Clients PROVE next_seq_of(p) \in Nat
<1> DEFINE rows == {d \in Mine(p) : Stored(d)}
           held == {outbox[c] : c \in rows}
<1>1. rows \in SUBSET Changes /\ \A c \in rows : outbox[c] \in Nat
  BY DEF TypeOK, Mine, Stored
<1>2. IsFiniteSet(rows)
  BY <1>1, ReconcileAssumption, FS_Subset
<1>3. IsFiniteSet(held)
  <2> DEFINE f == [c \in rows |-> outbox[c]]
  <2>1. f \in Surjection(rows, held)
    BY DEF Surjection
  <2>2. QED BY <1>2, <2>1, FS_Surjection
<1>4. held \subseteq Nat
  BY <1>1
<1>5. CASE held = {}
  BY <1>5 DEF next_seq_of
<1>6. CASE held # {}
  <2>1. \E m \in held : \A d \in held : m >= d
    BY <1>3, <1>4, <1>6, GreatestExists
  <2>2. Max(held) \in held
    BY <2>1 DEF Max
  <2>3. QED BY <2>2, <1>4, <1>6 DEF next_seq_of
<1>7. QED BY <1>5, <1>6

\* The drain of a page that ends, or begins.
LEMMA DrainTypes ==
    /\ NoDrain \in Drain /\ [NoDrain EXCEPT !.at = "read"] \in Drain
    /\ [NoDrain EXCEPT !.at = "read"].at = "read" /\ [NoDrain EXCEPT !.at = "read"].answer = {}
    /\ NoDrain.at = "idle" /\ NoDrain.answer = {}
BY ReconcileAssumption DEF NoDrain, Drain

\* A drain that sends what it has not sent yet.
LEMMA DrainSends ==
    ASSUME drain \in [Clients -> Drain], NEW p \in Clients, NEW s \in SUBSET Changes, NEW n \in 0 .. MaxFaults + 1,
           drain' = [drain EXCEPT ![p].at = "sent", ![p].sent = s, ![p].call = n]
    PROVE  /\ drain' \in [Clients -> Drain] /\ \A q \in Clients \ {p} : drain'[q] = drain[q]
           /\ drain'[p].at = "sent" /\ drain'[p].call = n /\ drain'[p].pass = drain[p].pass
           /\ drain'[p].answer = drain[p].answer
<1> DEFINE A == {"idle", "read", "sent", "forget"}
           P == 0 .. MaxPasses
           S == SUBSET Changes
           K == 0 .. MaxFaults + 1
           W == SUBSET (Changes \X Outcome)
<1>1. Drain = [at : A, pass : P, sent : S, call : K, answer : W]
  BY DEF Drain
<1>2. "read" \in A /\ "sent" \in A /\ "forget" \in A /\ {} \in W /\ 0 \in K
  BY ReconcileAssumption
<1> HIDE DEF A, P, S, K, W
<1>3. QED BY <1>1, <1>2 DEF S, K

\* One that has its answer.
LEMMA DrainForgets ==
    ASSUME drain \in [Clients -> Drain], NEW p \in Clients, NEW w \in SUBSET (Changes \X Outcome),
           drain' = [drain EXCEPT ![p].at = "forget", ![p].answer = w]
    PROVE  /\ drain' \in [Clients -> Drain] /\ \A q \in Clients \ {p} : drain'[q] = drain[q]
           /\ drain'[p].at = "forget" /\ drain'[p].answer = w /\ drain'[p].pass = drain[p].pass
<1> DEFINE A == {"idle", "read", "sent", "forget"}
           P == 0 .. MaxPasses
           S == SUBSET Changes
           K == 0 .. MaxFaults + 1
           W == SUBSET (Changes \X Outcome)
<1>1. Drain = [at : A, pass : P, sent : S, call : K, answer : W]
  BY DEF Drain
<1>2. "read" \in A /\ "sent" \in A /\ "forget" \in A /\ {} \in W /\ 0 \in K
  BY ReconcileAssumption
<1> HIDE DEF A, P, S, K, W
<1>3. QED BY <1>1, <1>2 DEF W

\* One that goes on with its next pass.
LEMMA DrainReads ==
    ASSUME drain \in [Clients -> Drain], NEW p \in Clients, drain[p].pass + 1 \in 0 .. MaxPasses,
           drain' = [drain EXCEPT ![p].at = "read", ![p].pass = drain[p].pass + 1,
                                   ![p].call = 0, ![p].answer = {}]
    PROVE  /\ drain' \in [Clients -> Drain] /\ \A q \in Clients \ {p} : drain'[q] = drain[q]
           /\ drain'[p].at = "read" /\ drain'[p].answer = {}
<1> DEFINE A == {"idle", "read", "sent", "forget"}
           P == 0 .. MaxPasses
           S == SUBSET Changes
           K == 0 .. MaxFaults + 1
           W == SUBSET (Changes \X Outcome)
<1>1. Drain = [at : A, pass : P, sent : S, call : K, answer : W]
  BY DEF Drain
<1>2. "read" \in A /\ "sent" \in A /\ "forget" \in A /\ {} \in W /\ 0 \in K
  BY ReconcileAssumption
<1> HIDE DEF A, P, S, K, W
<1>3. QED BY <1>1, <1>2 DEF P

\* The empty request, and one that was just sent.
LEMMA CallTypes ==
    /\ NoCall \in Call /\ NoCall.at = "none" /\ NoCall.out = {}
    /\ [NoCall EXCEPT !.at = "error"] \in Call /\ [NoCall EXCEPT !.at = "error"].at = "error"
    /\ [NoCall EXCEPT !.at = "error"].out = {}
    /\ \A s \in Seq(Changes) : LET new == [NoCall EXCEPT !.at = "admit", !.todo = s]
                               IN  new \in Call /\ new.at = "admit" /\ new.todo = s /\ new.out = {}
<1>1. NoCall \in Call
  BY EmptySeq DEF NoCall, Call, CallState
<1>2. QED BY <1>1 DEF NoCall, Call, CallState

\* The parts of TypeOK that page steps can change, and the server's.
PageTypes ==
    /\ offline \in [Clients -> BOOLEAN]
    /\ edit \in [Changes -> EditState]
    /\ outbox \in [Changes -> Nat \cup {None}]
    /\ drawn \in [Changes -> Nat]
    /\ drain \in [Clients -> Drain]
    /\ heard \in [Changes -> SUBSET Outcome]
ServerTypes ==
    /\ call \in [Calls -> Call]
    /\ next_seq \in Nat
    /\ marks \in [Tokens -> Mark \cup {None}]
    /\ log \in Seq(Changes) /\ since \in 0 .. Len(log)
    /\ overlap \subseteq Tokens
WorldTypes ==
    /\ author \in [Changes -> Clients] /\ attacks \subseteq Changes
    /\ owner \in [Tokens -> Clients] /\ gone \subseteq Tokens
    /\ paused \in BOOLEAN /\ removed \subseteq Clients
    /\ faults \in 0 .. MaxFaults

\* TypeOK is these three.
LEMMA TypeParts == TypeOK <=> PageTypes /\ ServerTypes /\ WorldTypes
BY DEF TypeOK, PageTypes, ServerTypes, WorldTypes

\* Whose changes they are never changes, nor does a deleted token come back.
LEMMA WorldStep ==
    ASSUME TypeOK, Next
    PROVE  /\ WorldTypes' /\ author' = author /\ attacks' = attacks /\ gone \subseteq gone'
           /\ faults <= faults'
<1>1. WorldTypes
  BY TypeParts
<1> USE <1>1, ReconcileAssumption DEF WorldTypes, worldVars, Fault, NoFault
<1>2. ASSUME NEW c \in Changes, QueueEdit(c) \/ EditStored(c)
      PROVE  /\ WorldTypes' /\ author' = author /\ attacks' = attacks /\ gone \subseteq gone'
             /\ faults <= faults'
  BY <1>2 DEF QueueEdit, EditStored
<1>3. ASSUME NEW p \in Clients,
             \/ GoOffline(p) \/ GoOnline(p) \/ OtherTrigger(p)
             \/ PageStep(p) \/ ReadFails(p) \/ LoseRequest(p) \/ Reload(p)
      PROVE  /\ WorldTypes' /\ author' = author /\ attacks' = attacks /\ gone \subseteq gone'
             /\ faults <= faults'
  <2>1. /\ UNCHANGED worldVars
        /\ Fault \/ NoFault
    BY <1>3 DEF GoOffline, GoOnline, OtherTrigger, PageStep, ReadQueue, TakeReply,
                ForgetAnswered, ReadFails, LoseRequest, Reload
  <2>2. QED BY <2>1
<1>4. ASSUME NEW k \in Calls, ServerStep(k)
      PROVE  /\ WorldTypes' /\ author' = author /\ attacks' = attacks /\ gone \subseteq gone'
             /\ faults <= faults'
  <2>1. /\ UNCHANGED worldVars
        /\ Fault \/ NoFault
    BY <1>4 DEF ServerStep, AdmitRequest, CheckChange, WeighMark, UpdateToken, RememberMark, ApplyAttack,
                DropReply
  <2>2. QED BY <2>1
<1>5. CASE Restart
  BY <1>5 DEF Restart
<1>6. CASE ChangeWorld
  <2>1. owner' \in [Tokens -> Clients] /\ gone' \subseteq Tokens /\ gone \subseteq gone'
    BY <1>6 DEF ChangeWorld
  <2>2. paused' \in BOOLEAN /\ removed' \subseteq Clients
    BY <1>6 DEF ChangeWorld
  <2>3. QED BY <1>6, <2>1, <2>2 DEF ChangeWorld
<1>7. QED BY <1>2, <1>3, <1>4, <1>5, <1>6 DEF Next

\* A page's outbox, drain and answers keep their types.
LEMMA PageTypeStep ==
    ASSUME TypeOK, DrainsInOrder, SlotsSuffice, Next PROVE PageTypes'
<1>1. /\ PageTypes /\ call \in [Calls -> Call] /\ author \in [Changes -> Clients]
  BY TypeParts DEF ServerTypes, WorldTypes
<1> USE <1>1 DEF PageTypes
<1>2. ASSUME NEW p \in Clients, EndDrain(p) \/ StartDrain(p)
      PROVE  drain' \in [Clients -> Drain]
  BY <1>2, DrainTypes DEF EndDrain, StartDrain
<1>3. ASSUME NEW c \in Changes, QueueEdit(c) PROVE PageTypes'
  <2>1. next_seq_of(author[c]) \in Nat
    BY NextSeqType
  <2>2. QED BY <1>3, <2>1 DEF QueueEdit, EditState
<1>4. ASSUME NEW c \in Changes, EditStored(c) PROVE PageTypes'
  <2>1. edit' \in [Changes -> EditState] /\ outbox' \in [Changes -> Nat \cup {None}]
    BY <1>4 DEF EditStored, EditState
  <2>2. QED BY <1>4, <2>1 DEF EditStored
<1>5. ASSUME NEW p \in Clients, GoOffline(p) \/ GoOnline(p) \/ OtherTrigger(p) \/ ReadFails(p)
      PROVE  PageTypes'
  BY <1>5, <1>2 DEF GoOffline, GoOnline, OtherTrigger, ReadFails
<1>6. ASSUME NEW p \in Clients, ReadQueue(p) PROVE PageTypes'
  <2>1. CASE EndDrain(p)
    BY <1>2, <1>6, <2>1 DEF ReadQueue
  <2>2. CASE ~EndDrain(p)
    <3> DEFINE fresh == {c \in Mine(p) : Stored(c)} \ drain[p].sent
    <3> DEFINE sent == drain[p].sent \cup fresh
    <3>1. drain' = [drain EXCEPT ![p].at = "sent", ![p].sent = sent, ![p].call = FreeSlot(p)]
      BY <1>6, <2>2 DEF ReadQueue
    <3>2. FreeSlot(p) \in 0 .. MaxFaults + 1
      <4>1. FreeSlot(p) \in 1 .. MaxFaults + 1
        BY <1>6, SlotIsFree DEF ReadQueue
      <4>2. QED BY <4>1, ReconcileAssumption
    <3>a. sent \in SUBSET Changes
      <4>1. drain[p] \in Drain
        OBVIOUS
      <4>2. QED BY <4>1 DEF Drain, Mine
    <3> HIDE DEF fresh, sent
    <3>3. drain' \in [Clients -> Drain]
      BY <3>1, <3>2, <3>a, DrainSends
    <3>4. QED BY <3>3, <1>6 DEF ReadQueue
  <2>3. QED BY <2>1, <2>2
<1>7. ASSUME NEW p \in Clients, TakeReply(p) PROVE PageTypes'
  <2>1. WaitsFor(p) \in Calls
    BY <1>7 DEF TakeReply, WaitsFor, Calls, DrainsInOrder
  <2>2. call[WaitsFor(p)].out \in SUBSET (Changes \X Outcome)
    BY <2>1 DEF Call
  <2>3. drain' \in [Clients -> Drain]
    <3>1. CASE EndDrain(p)
      BY <1>2, <3>1
    <3>2. CASE drain' = [drain EXCEPT ![p].at = "forget", ![p].answer = call[WaitsFor(p)].out]
      <4> DEFINE w == call[WaitsFor(p)].out
      <4>1. w \in SUBSET (Changes \X Outcome) /\ drain' = [drain EXCEPT ![p].at = "forget", ![p].answer = w]
        BY <2>2, <3>2
      <4> HIDE DEF w
      <4>2. QED BY <4>1, DrainForgets
    <3>3. QED BY <1>7, <3>1, <3>2 DEF TakeReply
  <2>4. heard' \in [Changes -> SUBSET Outcome]
    <3> DEFINE told(c) == heard[c] \cup {o \in Outcome : <<c, o>> \in call[WaitsFor(p)].out}
    <3>1. heard' = heard \/ heard' = [c \in Changes |-> told(c)]
      BY <1>7 DEF TakeReply
    <3>2. \A c \in Changes : told(c) \in SUBSET Outcome
      OBVIOUS
    <3> HIDE DEF told
    <3>3. QED BY <3>1, <3>2
  <2>5. QED BY <1>7, <2>3, <2>4 DEF TakeReply
<1>8. ASSUME NEW p \in Clients, LoseRequest(p) PROVE PageTypes'
  BY <1>2, <1>8 DEF LoseRequest
<1>9. ASSUME NEW p \in Clients, ForgetAnswered(p) PROVE PageTypes'
  <2>1. outbox' \in [Changes -> Nat \cup {None}]
    BY <1>9 DEF ForgetAnswered
  <2>2. drain[p].pass + 1 \in 0 .. MaxPasses /\ 0 \in 0 .. MaxFaults + 1
    BY <1>9, ReconcileAssumption DEF ForgetAnswered, DrainsInOrder, Drain
  <2>3. drain' = [drain EXCEPT ![p].at = "read", ![p].pass = drain[p].pass + 1, ![p].call = 0, ![p].answer = {}]
    BY <1>9 DEF ForgetAnswered
  <2>4. drain' \in [Clients -> Drain]
    BY <2>2, <2>3, DrainReads
  <2>5. QED BY <1>9, <2>1, <2>4 DEF ForgetAnswered
<1>10. ASSUME NEW p \in Clients, Reload(p) PROVE PageTypes'
  BY <1>10, DrainTypes DEF Reload, EditState
<1>11. CASE UNCHANGED pageVars
  BY <1>11 DEF pageVars
<1>12. ASSUME NEW k \in Calls, ServerStep(k) PROVE UNCHANGED pageVars
  BY <1>12 DEF ServerStep, AdmitRequest, CheckChange, WeighMark, UpdateToken, RememberMark, ApplyAttack,
               DropReply
<1>13. CASE Restart \/ ChangeWorld
  BY <1>11, <1>13 DEF Restart, ChangeWorld
<1>14. QED BY <1>3, <1>4, <1>5, <1>6, <1>7, <1>8, <1>9, <1>10, <1>11, <1>12, <1>13
             DEF Next, PageStep

-----------------------------------------------------------------------------
(* What a step does to the server: nothing, a restart, or one of these to  *)
(* one request                                                             *)

Keeps(k) ==
    call'[k].todo = call[k].todo /\ call'[k].seq = call[k].seq /\ call'[k].out = call[k].out

Sends(k) ==
    /\ Others(k) /\ ServerStays
    /\ call[k].at = "none" /\ call'[k].at = "admit" /\ call'[k].out = {}
    /\ call'[k].todo # <<>> /\ ToSet(call'[k].todo) \subseteq Mine(k[1])
Ends(k) ==
    /\ Others(k) /\ ServerStays
    /\ call[k].at \in {"admit", "reply", "error"} /\ call'[k].at \in {"none", "reply", "error"}
    /\ \A a \in call'[k].out : a[2] = "applied" => a \in call[k].out
Admits(k) ==
    /\ Others(k) /\ UNCHANGED <<marks, log, since>>
    /\ call[k].at = "admit" /\ call'[k].at = "check"
    /\ call'[k].todo = call[k].todo /\ call'[k].out = call[k].out
    /\ call'[k].seq = next_seq /\ next_seq' = next_seq + 1
    /\ overlap' = overlap \cup
          (TokensOf(k) \cap UNION {TokensOf(j) : j \in {i \in Calls : AtWork(i)}})
Answers(k) ==
    /\ ServerStays /\ call[k].at \in {"check", "weigh", "write"}
    /\ \E o \in Outcome \ {"applied"} : TakesNext(k, o)
Plays(k) ==
    /\ UNCHANGED <<next_seq, marks, since, overlap>>
    /\ call[k].at = "check" /\ Head(call[k].todo) \in attacks
    /\ TakesNext(k, "applied") /\ log' = Append(log, Head(call[k].todo))
Checks(k) ==
    /\ Others(k) /\ ServerStays /\ Keeps(k)
    /\ Head(call[k].todo) \notin attacks
    /\ \/ call[k].at = "check" /\ call'[k].at = "weigh"
       \/ /\ call[k].at = "weigh" /\ call'[k].at = "write"
          /\ ~Held(TokenOf[Head(call[k].todo)], k)
Writes(k) ==
    /\ Others(k) /\ UNCHANGED <<next_seq, marks, since, overlap>> /\ Keeps(k)
    /\ call[k].at = "write" /\ call'[k].at = "mark"
    /\ \/ TokenOf[Head(call[k].todo)] \in gone /\ log' = log
       \/ log' = Append(log, Head(call[k].todo))
Marks(k) ==
    /\ UNCHANGED <<next_seq, log, since, overlap>>
    /\ call[k].at = "mark" /\ TakesNext(k, "applied")
    /\ marks' = [marks EXCEPT ![TokenOf[Head(call[k].todo)]] =
                    [role |-> RoleOf(k[1]), seq |-> call[k].seq]]

Works(k) ==
    \/ Sends(k) \/ Ends(k) \/ Admits(k) \/ Answers(k) \/ Plays(k) \/ Checks(k) \/ Writes(k)
    \/ Marks(k)

\* A page's step sends a request, ends one, or leaves the server alone.
LEMMA PageWorks ==
    ASSUME TypeOK, DrainsInOrder, SlotsSuffice, NEW p \in Clients,
           \/ GoOffline(p) \/ GoOnline(p) \/ OtherTrigger(p)
           \/ PageStep(p) \/ ReadFails(p) \/ LoseRequest(p) \/ Reload(p)
    PROVE  ServerTypes' /\ (UNCHANGED serverVars \/ \E k \in Calls : Sends(k) \/ Ends(k))
<1>1. ServerTypes /\ PageTypes
  BY TypeParts
<1>2. CASE UNCHANGED serverVars
  BY <1>1, <1>2 DEF ServerTypes, serverVars
<1>3. CASE GoOffline(p) \/ GoOnline(p) \/ OtherTrigger(p) \/ ForgetAnswered(p) \/ ReadFails(p) \/ Reload(p)
  BY <1>2, <1>3 DEF GoOffline, GoOnline, OtherTrigger, ForgetAnswered, ReadFails, Reload
<1>4. ASSUME NEW k \in Calls, call[k].at \in {"admit", "reply", "error"},
             call' = [call EXCEPT ![k] = NoCall], ServerStays
      PROVE  ServerTypes' /\ Ends(k)
  <2>1. call' \in [Calls -> Call] /\ Others(k) /\ call'[k] = NoCall
    BY <1>1, <1>4, CallTypes DEF ServerTypes, Others
  <2>2. QED BY <1>1, <1>4, <2>1, CallTypes DEF ServerTypes, ServerStays, Ends
<1>5. CASE ReadQueue(p)
  <2> DEFINE fresh == {c \in Mine(p) : Stored(c)} \ drain[p].sent
             k == <<p, FreeSlot(p)>>
             s == replay_order(fresh)
             new == [NoCall EXCEPT !.at = "admit", !.todo = s]
  <2>1. CASE UNCHANGED call
    BY <1>2, <1>5, <2>1 DEF ReadQueue, serverVars
  <2>2. CASE call' # call
    <3>1. fresh # {} /\ call' = [call EXCEPT ![k] = new] /\ ServerStays /\ drain[p].at = "read"
      BY <1>5, <2>2 DEF ReadQueue, ServerStays
    <3>2. k \in Calls /\ call[k].at = "none"
      BY <3>1, SlotIsFree
    <3>3. fresh \in SUBSET Changes /\ \A c \in fresh : outbox[c] \in Nat
      BY <1>1 DEF PageTypes, Mine, Stored
    <3>4. fresh \subseteq Mine(p)
      OBVIOUS
    <3> HIDE DEF fresh
    <3>5. s \in Seq(fresh) /\ ToSet(s) = fresh
      BY <3>3, ReplayOrder
    <3>6. s \in Seq(Changes)
      BY <3>3, <3>5, SeqDef
    <3>7. s # <<>>
      BY <3>1, <3>5 DEF ToSet
    <3> HIDE DEF s
    <3>8. new \in Call /\ new.at = "admit" /\ new.todo = s /\ new.out = {}
      BY <3>6, CallTypes
    <3>9. k[1] = p
      OBVIOUS
    <3> HIDE DEF k, new
    <3>10. call' \in [Calls -> Call] /\ Others(k) /\ call'[k] = new
      BY <1>1, <3>1, <3>2, <3>8 DEF ServerTypes, Others
    <3>11. Sends(k)
      BY <3>1, <3>2, <3>4, <3>5, <3>7, <3>8, <3>9, <3>10 DEF Sends
    <3>12. ServerTypes'
      BY <1>1, <3>1, <3>10 DEF ServerTypes, ServerStays
    <3>13. QED BY <3>2, <3>11, <3>12
  <2>3. QED BY <2>1, <2>2
<1>6. CASE TakeReply(p)
  <2> DEFINE k == WaitsFor(p)
  <2>1. k \in Calls
    BY <1>6 DEF TakeReply, WaitsFor, Calls, DrainsInOrder
  <2>2. call[k].at \in {"reply", "error"} /\ call' = [call EXCEPT ![k] = NoCall] /\ ServerStays
    BY <1>6 DEF TakeReply, ServerStays
  <2> HIDE DEF k
  <2>3. QED BY <1>4, <2>1, <2>2
<1>7. CASE LoseRequest(p)
  <2> DEFINE k == WaitsFor(p)
  <2>1. k \in Calls
    BY <1>7 DEF LoseRequest, WaitsFor, Calls, DrainsInOrder
  <2>2. /\ ServerStays
        /\ \/ call[k].at = "admit" /\ call' = [call EXCEPT ![k] = NoCall]
           \/ UNCHANGED call
    BY <1>7 DEF LoseRequest, ServerStays
  <2> HIDE DEF k
  <2>3. CASE UNCHANGED call
    BY <1>2, <2>2, <2>3 DEF ServerStays, serverVars
  <2>4. CASE ~UNCHANGED call
    BY <1>4, <2>1, <2>2, <2>4
  <2>5. QED BY <2>3, <2>4
<1>8. QED BY <1>3, <1>5, <1>6, <1>7 DEF PageStep

\* A statement of a request is one of the kinds above.
LEMMA StatementWorks ==
    ASSUME TypeOK, RequestsInOrder, NEW k \in Calls, ServerStep(k)
    PROVE  ServerTypes' /\ Works(k)
<1>1. ServerTypes /\ call[k] \in Call
  BY TypeParts DEF ServerTypes
<1>2. call[k].at \in {"admit", "check", "weigh", "write", "mark"} => call[k].todo # <<>>
  BY DEF RequestsInOrder
<1> DEFINE c == Head(call[k].todo)
           t == TokenOf[c]
<1>3. call[k].todo # <<>> => c \in Changes /\ t \in Tokens
  BY <1>1, TodoFacts, ReconcileAssumption DEF Call
<1>4. ASSUME call[k].todo # <<>>, call[k].at \in {"check", "weigh", "write"}, NEW o \in Outcome, o # "applied",
             Settle(k, o), ServerStays
      PROVE  ServerTypes' /\ Works(k)
  <2>1. call' \in [Calls -> Call] /\ TakesNext(k, o)
    BY <1>1, <1>4, SettleFacts DEF ServerTypes
  <2>2. Answers(k)
    BY <1>4, <2>1 DEF Answers
  <2>3. QED BY <1>1, <1>4, <2>1, <2>2 DEF ServerTypes, ServerStays, Works
<1>5. ASSUME call[k].at = "admit", NEW o \in Outcome, o # "applied", AllAnswered(k, o), ServerStays
      PROVE  ServerTypes' /\ Works(k)
  <2>1. call' \in [Calls -> Call] /\ Others(k) /\ call'[k].at = "reply" /\ \A a \in call'[k].out : a[2] = o
    BY <1>1, <1>5, AllAnsweredFacts DEF ServerTypes
  <2>2. Ends(k)
    BY <1>5, <2>1 DEF Ends
  <2>3. QED BY <1>1, <1>5, <2>1, <2>2 DEF ServerTypes, ServerStays, Works
<1>6. CASE AdmitRequest(k)
  <2>1. CASE AllAnswered(k, "PermissionDenied") /\ UNCHANGED <<next_seq, overlap>>
    BY <1>5, <1>6, <2>1 DEF AdmitRequest, ServerStays, Outcome
  <2>2. CASE AllAnswered(k, "PlayPaused") /\ UNCHANGED <<next_seq, overlap>>
    BY <1>5, <1>6, <2>2 DEF AdmitRequest, ServerStays, Outcome
  <2>3. CASE /\ call' = [call EXCEPT ![k].at = "error", ![k].todo = <<>>]
             /\ UNCHANGED <<next_seq, overlap>>
    <3>1. "error" \in CallState /\ <<>> \in Seq(Changes)
      BY EmptySeq DEF CallState
    <3>2. /\ call' \in [Calls -> Call] /\ Others(k) /\ call'[k].at = "error"
          /\ call'[k].out = call[k].out
      BY <1>1, <2>3, <3>1 DEF ServerTypes, Call, Others
    <3>3. Ends(k)
      BY <1>6, <2>3, <3>2 DEF Ends, AdmitRequest, ServerStays
    <3>4. QED BY <1>1, <1>6, <2>3, <3>2, <3>3 DEF ServerTypes, AdmitRequest, Works
  <2>4. CASE /\ call' = [call EXCEPT ![k].at = "check", ![k].seq = next_seq]
             /\ next_seq' = next_seq + 1
             /\ overlap' = overlap \cup
                   (TokensOf(k) \cap UNION {TokensOf(j) : j \in {i \in Calls : AtWork(i)}})
    <3>1. "check" \in CallState /\ next_seq \in Nat
      BY <1>1 DEF CallState, ServerTypes
    <3>2. /\ call' \in [Calls -> Call] /\ Others(k) /\ call'[k].at = "check"
          /\ call'[k].seq = next_seq /\ call'[k].todo = call[k].todo /\ call'[k].out = call[k].out
      BY <1>1, <2>4, <3>1 DEF ServerTypes, Call, Others
    <3>3. Admits(k)
      BY <1>6, <2>4, <3>2 DEF Admits, AdmitRequest
    <3>4. ToSet(call[k].todo) \subseteq Changes
      BY <1>1, LenProperties DEF Call, ToSet
    <3>5. TokensOf(k) \subseteq Tokens
      BY <3>4, ReconcileAssumption DEF TokensOf
    <3>6. overlap' \subseteq Tokens
      BY <1>1, <2>4, <3>5 DEF ServerTypes
    <3>7. QED BY <1>1, <1>6, <2>4, <3>1, <3>2, <3>3, <3>6 DEF ServerTypes, AdmitRequest, Works
  <2>5. QED BY <1>6, <2>1, <2>2, <2>3, <2>4 DEF AdmitRequest
<1>7. CASE CheckChange(k)
  <2>1. call[k].at = "check" /\ c \notin attacks /\ ServerStays /\ call[k].todo # <<>>
    BY <1>2, <1>7 DEF CheckChange, ServerStays
  <2>2. CASE \E o \in Outcome \ {"applied"} : Settle(k, o)
    BY <1>4, <2>1, <2>2
  <2>3. CASE call' = [call EXCEPT ![k].at = "weigh"]
    <3>1. "weigh" \in CallState
      BY DEF CallState
    <3>2. call' \in [Calls -> Call] /\ Others(k) /\ call'[k].at = "weigh" /\ Keeps(k)
      BY <1>1, <2>3, <3>1 DEF ServerTypes, Call, Others, Keeps
    <3>3. Checks(k)
      BY <2>1, <3>2 DEF Checks
    <3>4. QED BY <1>1, <2>1, <3>2, <3>3 DEF ServerTypes, ServerStays, Works
  <2>4. {"GoneAway", "PermissionDenied", "NotYourTurn", "Invalid"} \subseteq Outcome \ {"applied"}
    BY DEF Outcome
  <2>5. QED BY <1>7, <2>2, <2>3, <2>4 DEF CheckChange
<1>8. CASE WeighMark(k)
  <2>1. /\ call[k].at = "weigh" /\ c \notin attacks /\ ServerStays /\ call[k].todo # <<>>
    BY <1>2, <1>8 DEF WeighMark, ServerStays, RequestsInOrder
  <2>2. CASE Settle(k, "Superseded")
    BY <1>4, <2>1, <2>2 DEF Outcome
  <2>3. CASE /\ ~(marks[t] # None /\ resolve(marks[t], [role |-> RoleOf(k[1]), seq |-> call[k].seq]))
             /\ call' = [call EXCEPT ![k].at = "write"]
    <3>1. "write" \in CallState
      BY DEF CallState
    <3>2. call' \in [Calls -> Call] /\ Others(k) /\ call'[k].at = "write" /\ Keeps(k)
      BY <1>1, <2>3, <3>1 DEF ServerTypes, Call, Others, Keeps
    <3>3. ~Held(t, k)
      BY <2>3 DEF Held
    <3>4. Checks(k)
      BY <2>1, <3>2, <3>3 DEF Checks
    <3>5. QED BY <1>1, <2>1, <3>2, <3>4 DEF ServerTypes, ServerStays, Works
  <2>4. QED BY <1>8, <2>2, <2>3 DEF WeighMark
<1>9. CASE UpdateToken(k)
  <2>1. call[k].at = "write" /\ call[k].todo # <<>> /\ UNCHANGED <<next_seq, marks, since, overlap>>
    BY <1>2, <1>9 DEF UpdateToken
  <2>2. CASE Settle(k, "Invalid") /\ UNCHANGED log
    BY <1>4, <2>1, <2>2 DEF ServerStays, Outcome
  <2>3. CASE /\ call' = [call EXCEPT ![k].at = "mark"]
             /\ log' = IF t \in gone THEN log ELSE Append(log, c)
    <3>1. "mark" \in CallState
      BY DEF CallState
    <3>2. call' \in [Calls -> Call] /\ Others(k) /\ call'[k].at = "mark" /\ Keeps(k)
      BY <1>1, <2>3, <3>1 DEF ServerTypes, Call, Others, Keeps
    <3>3. Writes(k)
      BY <2>1, <2>3, <3>2 DEF Writes
    <3>4. log' \in Seq(Changes) /\ since \in 0 .. Len(log')
      BY <1>1, <1>3, <2>1, <2>3, LogFacts DEF ServerTypes
    <3>5. QED BY <1>1, <2>1, <3>2, <3>3, <3>4 DEF ServerTypes, Works
  <2>4. QED BY <1>9, <2>2, <2>3 DEF UpdateToken
<1>10. CASE RememberMark(k)
  <2>1. call[k].at = "mark" /\ call[k].todo # <<>> /\ UNCHANGED <<next_seq, log, since, overlap>>
    BY <1>2, <1>10 DEF RememberMark
  <2>2. call' \in [Calls -> Call] /\ TakesNext(k, "applied")
    BY <1>1, <1>10, <2>1, SettleFacts DEF RememberMark, ServerTypes, Outcome
  <2>3. Marks(k)
    BY <1>10, <2>1, <2>2 DEF Marks, RememberMark
  <2>4. [role |-> RoleOf(k[1]), seq |-> call[k].seq] \in Mark
    BY <1>1 DEF Mark, Role, RoleOf, Call
  <2>5. marks' \in [Tokens -> Mark \cup {None}]
    BY <1>1, <1>10, <2>4 DEF RememberMark, ServerTypes
  <2>6. QED BY <1>1, <2>1, <2>2, <2>3, <2>5 DEF ServerTypes, Works
<1>11. CASE ApplyAttack(k)
  <2>1. call[k].at = "check" /\ c \in attacks /\ call[k].todo # <<>> /\ UNCHANGED <<next_seq, marks, since, overlap>>
    BY <1>2, <1>11 DEF ApplyAttack
  <2>2. CASE UNCHANGED log /\ \E o \in Outcome \ {"applied"} : Settle(k, o)
    BY <1>4, <2>1, <2>2 DEF ServerStays
  <2>3. CASE Settle(k, "applied") /\ log' = Append(log, c)
    <3>1. call' \in [Calls -> Call] /\ TakesNext(k, "applied")
      BY <1>1, <2>1, <2>3, SettleFacts DEF ServerTypes, Outcome
    <3>2. Plays(k)
      BY <2>1, <2>3, <3>1 DEF Plays
    <3>3. log' \in Seq(Changes) /\ since \in 0 .. Len(log')
      BY <1>1, <1>3, <2>1, <2>3, LogFacts DEF ServerTypes
    <3>4. QED BY <1>1, <2>1, <3>1, <3>2, <3>3 DEF ServerTypes, Works
  <2>4. {"GoneAway", "PermissionDenied", "NotYourTurn", "Invalid", "PlayPaused"} \subseteq Outcome \ {"applied"}
    BY DEF Outcome
  <2>5. QED BY <1>11, <2>2, <2>3, <2>4 DEF ApplyAttack
<1>12. CASE DropReply(k)
  <2>1. call' \in [Calls -> Call] /\ Others(k) /\ call'[k] = NoCall
    BY <1>1, <1>12, CallTypes DEF ServerTypes, Others, DropReply
  <2>2. Ends(k)
    BY <1>12, <2>1, CallTypes DEF Ends, DropReply, ServerStays
  <2>3. QED BY <1>1, <1>12, <2>1, <2>2 DEF ServerTypes, DropReply, Works
<1>13. QED BY <1>6, <1>7, <1>8, <1>9, <1>10, <1>11, <1>12 DEF ServerStep

\* What a step does to the server.
LEMMA ServerSteps ==
    ASSUME TypeOK, DrainsInOrder, SlotsSuffice, RequestsInOrder, Next
    PROVE  ServerTypes' /\ (UNCHANGED serverVars \/ Restart \/ \E k \in Calls : Works(k))
<1>1. ServerTypes
  BY TypeParts
<1>2. CASE UNCHANGED serverVars
  BY <1>1, <1>2 DEF ServerTypes, serverVars
<1>3. ASSUME NEW c \in Changes, QueueEdit(c) \/ EditStored(c) PROVE UNCHANGED serverVars
  BY <1>3 DEF QueueEdit, EditStored
<1>4. CASE Restart
  <2>1. \A k \in Calls : (IF call[k].at = "none" THEN call[k] ELSE [NoCall EXCEPT !.at = "error"]) \in Call
    BY <1>1, CallTypes DEF ServerTypes
  <2>2. call' \in [Calls -> Call]
    BY <1>4, <2>1 DEF Restart
  <2>3. since' \in 0 .. Len(log') /\ log' \in Seq(Changes)
    BY <1>1, <1>4, LenProperties DEF Restart, ServerTypes
  <2>4. QED BY <1>1, <1>4, <2>2, <2>3 DEF Restart, ServerTypes
<1>5. CASE ChangeWorld
  BY <1>2, <1>5 DEF ChangeWorld
<1>6. ASSUME NEW p \in Clients,
             \/ GoOffline(p) \/ GoOnline(p) \/ OtherTrigger(p)
             \/ PageStep(p) \/ ReadFails(p) \/ LoseRequest(p) \/ Reload(p)
      PROVE  ServerTypes' /\ (UNCHANGED serverVars \/ \E k \in Calls : Works(k))
  BY <1>6, PageWorks DEF Works
<1>7. QED BY <1>2, <1>3, <1>4, <1>5, <1>6, StatementWorks DEF Next

-----------------------------------------------------------------------------
(* What a step does to a page: its drain stays, stops waiting, sends, or   *)
(* has its answer                                                          *)

OtherDrains(p) == \A q \in Clients \ {p} : drain'[q] = drain[q]
Rests(p) ==
    drain'[p].at \in {"idle", "read"} /\ drain'[p].answer = {} /\ heard' = heard
Asks(p) ==
    /\ drain[p].at = "read" /\ drain'[p].at = "sent" /\ drain[p].pass < MaxPasses
    /\ drain'[p].pass = drain[p].pass /\ drain'[p].call \in 1 .. MaxFaults + 1
    /\ drain'[p].answer = drain[p].answer /\ heard' = heard
Hears(p) ==
    /\ drain[p].at = "sent" /\ drain'[p].at = "forget" /\ drain'[p].pass = drain[p].pass
    /\ WaitsFor(p) \in Calls /\ drain'[p].answer = call[WaitsFor(p)].out
    /\ heard' = [c \in Changes |-> heard[c] \cup {o \in Outcome : <<c, o>> \in call[WaitsFor(p)].out}]

\* What a step does to the drains, and to what was heard.
LEMMA DrainSteps ==
    ASSUME TypeOK, DrainsInOrder, SlotsSuffice, Next
    PROVE  \/ UNCHANGED <<drain, heard>>
           \/ \E p \in Clients : OtherDrains(p) /\ (Rests(p) \/ Asks(p) \/ Hears(p))
<1>1. drain \in [Clients -> Drain] /\ call \in [Calls -> Call]
  BY DEF TypeOK
<1>2. ASSUME NEW p \in Clients, EndDrain(p), UNCHANGED heard PROVE OtherDrains(p) /\ Rests(p)
  BY <1>1, <1>2, DrainTypes DEF EndDrain, OtherDrains, Rests
<1>3. ASSUME NEW p \in Clients, StartDrain(p), UNCHANGED heard
      PROVE  UNCHANGED <<drain, heard>> \/ (OtherDrains(p) /\ Rests(p))
  BY <1>1, <1>3, DrainTypes DEF StartDrain, OtherDrains, Rests
<1>4. ASSUME NEW c \in Changes, QueueEdit(c) \/ EditStored(c) PROVE UNCHANGED <<drain, heard>>
  BY <1>4 DEF QueueEdit, EditStored
<1>5. ASSUME NEW k \in Calls, ServerStep(k) PROVE UNCHANGED <<drain, heard>>
  BY <1>5 DEF ServerStep, AdmitRequest, CheckChange, WeighMark, UpdateToken, RememberMark, ApplyAttack,
              DropReply, pageVars
<1>6. CASE Restart \/ ChangeWorld
  BY <1>6 DEF Restart, ChangeWorld, pageVars
<1>7. ASSUME NEW p \in Clients, GoOffline(p) \/ GoOnline(p) \/ OtherTrigger(p)
      PROVE  UNCHANGED <<drain, heard>> \/ (OtherDrains(p) /\ Rests(p))
  BY <1>3, <1>7 DEF GoOffline, GoOnline, OtherTrigger
<1>8. ASSUME NEW p \in Clients, ReadFails(p) \/ LoseRequest(p) \/ Reload(p)
      PROVE  OtherDrains(p) /\ Rests(p)
  BY <1>2, <1>8 DEF ReadFails, LoseRequest, Reload, EndDrain
<1>9. ASSUME NEW p \in Clients, ReadQueue(p) PROVE OtherDrains(p) /\ (Rests(p) \/ Asks(p))
  <2>1. CASE EndDrain(p)
    BY <1>2, <1>9, <2>1 DEF ReadQueue
  <2>2. CASE ~EndDrain(p)
    <3> DEFINE fresh == {c \in Mine(p) : Stored(c)} \ drain[p].sent
               sent == drain[p].sent \cup fresh
               slot == FreeSlot(p)
    <3>1. /\ drain' = [drain EXCEPT ![p].at = "sent", ![p].sent = sent, ![p].call = slot]
          /\ drain[p].at = "read" /\ drain[p].pass < MaxPasses /\ heard' = heard
      BY <1>9, <2>2 DEF ReadQueue
    <3>2. slot \in 1 .. MaxFaults + 1
      BY <3>1, SlotIsFree
    <3>3. slot \in 0 .. MaxFaults + 1
      BY <3>2, ReconcileAssumption
    <3>4. sent \in SUBSET Changes
      BY <1>1 DEF Drain, Mine
    <3> HIDE DEF fresh, sent, slot
    <3>5. /\ \A q \in Clients \ {p} : drain'[q] = drain[q]
          /\ drain'[p].at = "sent" /\ drain'[p].call = slot /\ drain'[p].pass = drain[p].pass
          /\ drain'[p].answer = drain[p].answer
      BY <1>1, <3>1, <3>3, <3>4, DrainSends
    <3>6. QED BY <3>1, <3>2, <3>5 DEF OtherDrains, Asks
  <2>3. QED BY <2>1, <2>2
<1>10. ASSUME NEW p \in Clients, TakeReply(p) PROVE OtherDrains(p) /\ (Rests(p) \/ Hears(p))
  <2>1. CASE EndDrain(p) /\ UNCHANGED heard
    BY <1>2, <2>1
  <2>2. CASE ~(EndDrain(p) /\ UNCHANGED heard)
    <3> DEFINE w == call[WaitsFor(p)].out
    <3>1. /\ drain[p].at = "sent" /\ drain' = [drain EXCEPT ![p].at = "forget", ![p].answer = w]
          /\ heard' = [c \in Changes |-> heard[c] \cup {o \in Outcome : <<c, o>> \in w}]
      BY <1>10, <2>2 DEF TakeReply
    <3>2. WaitsFor(p) \in Calls
      BY <3>1 DEF WaitsFor, Calls, DrainsInOrder
    <3>3. w \in SUBSET (Changes \X Outcome)
      BY <1>1, <3>2 DEF Call
    <3> HIDE DEF w
    <3>4. /\ \A q \in Clients \ {p} : drain'[q] = drain[q]
          /\ drain'[p].at = "forget" /\ drain'[p].answer = w /\ drain'[p].pass = drain[p].pass
      BY <1>1, <3>1, <3>3, DrainForgets
    <3>5. QED BY <3>1, <3>2, <3>4 DEF OtherDrains, Hears, w
  <2>3. QED BY <2>1, <2>2
<1>11. ASSUME NEW p \in Clients, ForgetAnswered(p) PROVE OtherDrains(p) /\ Rests(p)
  <2>1. /\ drain' = [drain EXCEPT ![p].at = "read", ![p].pass = drain[p].pass + 1, ![p].call = 0, ![p].answer = {}]
        /\ drain[p].at = "forget" /\ heard' = heard
    BY <1>11 DEF ForgetAnswered
  <2>2. drain[p].pass + 1 \in 0 .. MaxPasses
    BY <1>1, <2>1, ReconcileAssumption DEF DrainsInOrder, Drain
  <2>3. /\ \A q \in Clients \ {p} : drain'[q] = drain[q]
        /\ drain'[p].at = "read" /\ drain'[p].answer = {}
    BY <1>1, <2>1, <2>2, DrainReads
  <2>4. QED BY <2>1, <2>3 DEF OtherDrains, Rests
<1>12. QED BY <1>4, <1>5, <1>6, <1>7, <1>8, <1>9, <1>10, <1>11 DEF Next, PageStep

\* What was heard stays heard.
LEMMA HeardStays ==
    ASSUME TypeOK, DrainsInOrder, SlotsSuffice, Next
    PROVE  \A c \in Changes : heard[c] \subseteq heard'[c]
BY DrainSteps DEF Rests, Asks, Hears

\* Drains stay in order.
LEMMA DrainsInOrderStep ==
    ASSUME TypeOK, DrainsInOrder, SlotsSuffice, Next PROVE DrainsInOrder'
<1>1. CASE UNCHANGED <<drain, heard>>
  BY <1>1 DEF DrainsInOrder
<1>2. ASSUME NEW p \in Clients, OtherDrains(p), Rests(p) \/ Asks(p) \/ Hears(p)
      PROVE  DrainsInOrder'
  <2>1. ASSUME NEW q \in Clients
        PROVE  /\ drain'[q].at = "sent" => drain'[q].call \in 1 .. MaxFaults + 1
               /\ drain'[q].at \in {"sent", "forget"} => drain'[q].pass < MaxPasses
    BY <1>2 DEF DrainsInOrder, OtherDrains, Rests, Asks, Hears
  <2>2. QED BY <2>1 DEF DrainsInOrder
<1>3. QED BY <1>1, <1>2, DrainSteps

\* A page keeps having heard of what it may forget.
LEMMA AnswersAreHeardStep ==
    ASSUME TypeOK, DrainsInOrder, SlotsSuffice, AnswersAreHeard, Next PROVE AnswersAreHeard'
<1>1. CASE UNCHANGED <<drain, heard>>
  BY <1>1 DEF AnswersAreHeard
<1>2. ASSUME NEW p \in Clients, OtherDrains(p), Rests(p) \/ Asks(p) \/ Hears(p)
      PROVE  AnswersAreHeard'
  <2>1. SUFFICES ASSUME NEW q \in Clients, NEW a \in drain'[q].answer PROVE a[2] \in heard'[a[1]]
    BY DEF AnswersAreHeard
  <2>2. CASE a \in drain[q].answer
    <3>1. a \in Changes \X Outcome
      BY <2>2 DEF TypeOK, Drain
    <3>2. a[2] \in heard[a[1]] /\ a[1] \in Changes
      BY <2>2, <3>1 DEF AnswersAreHeard
    <3>3. QED BY <3>2, HeardStays
  <2>3. CASE a \notin drain[q].answer
    <3>1. q = p /\ Hears(p) /\ a \in call[WaitsFor(p)].out
      BY <1>2, <2>1, <2>3 DEF OtherDrains, Rests, Asks, Hears
    <3>2. a \in Changes \X Outcome
      BY <3>1 DEF TypeOK, Call, Hears
    <3>3. a = <<a[1], a[2]>> /\ a[1] \in Changes /\ a[2] \in Outcome
      BY <3>2
    <3>4. QED BY <3>1, <3>3 DEF Hears
  <2>4. QED BY <2>2, <2>3
<1>3. QED BY <1>1, <1>2, DrainSteps

\* Rows leave the outbox when the page was answered, and only then.
LEMMA NothingLostStep ==
    ASSUME TypeOK, DrainsInOrder, SlotsSuffice, AnswersAreHeard, NothingLost, Next PROVE NothingLost'
<1>1. /\ outbox \in [Changes -> Nat \cup {None}] /\ edit \in [Changes -> EditState]
      /\ heard \in [Changes -> SUBSET Outcome] /\ drawn \in [Changes -> Nat] /\ None \notin Nat
      /\ \A c \in Changes : heard[c] \subseteq heard'[c]
  BY HeardStays, ReconcileAssumption DEF TypeOK
<1>2. CASE UNCHANGED <<edit, outbox>>
  BY <1>1, <1>2 DEF NothingLost, Stored
<1>3. ASSUME NEW c \in Changes, QueueEdit(c) PROVE NothingLost'
  BY <1>1, <1>3 DEF NothingLost, Stored, QueueEdit
<1>4. ASSUME NEW c \in Changes, EditStored(c) PROVE NothingLost'
  BY <1>1, <1>4 DEF NothingLost, Stored, EditStored
<1>5. ASSUME NEW p \in Clients, ForgetAnswered(p) PROVE NothingLost'
  <2>1. SUFFICES ASSUME NEW c \in Changes, edit[c] = "queued", ~Stored(c)' PROVE heard[c] # {}
    BY <1>1, <1>5 DEF NothingLost, ForgetAnswered
  <2>2. CASE ~Stored(c)
    BY <2>1, <2>2 DEF NothingLost
  <2>3. CASE Stored(c)
    <3>1. c \in Answered(p)
      BY <1>5, <2>1, <2>3 DEF ForgetAnswered, Stored
    <3>2. PICK o \in Outcome : <<c, o>> \in drain[p].answer
      BY <3>1 DEF Answered
    <3>3. o \in heard[c]
      BY <3>2 DEF AnswersAreHeard
    <3>4. QED BY <3>3
  <2>4. QED BY <2>2, <2>3
<1>6. ASSUME NEW p \in Clients, Reload(p) PROVE NothingLost'
  BY <1>1, <1>6 DEF NothingLost, Stored, Reload
<1>7. ASSUME NEW p \in Clients,
             \/ GoOffline(p) \/ GoOnline(p) \/ OtherTrigger(p)
             \/ ReadQueue(p) \/ TakeReply(p) \/ ReadFails(p) \/ LoseRequest(p)
      PROVE  UNCHANGED <<edit, outbox>>
  BY <1>7 DEF GoOffline, GoOnline, OtherTrigger, ReadQueue, TakeReply, ReadFails, LoseRequest
<1>8. ASSUME NEW k \in Calls, ServerStep(k) PROVE UNCHANGED <<edit, outbox>>
  BY <1>8 DEF ServerStep, AdmitRequest, CheckChange, WeighMark, UpdateToken, RememberMark, ApplyAttack,
              DropReply, pageVars
<1>9. CASE Restart \/ ChangeWorld
  BY <1>2, <1>9 DEF Restart, ChangeWorld, pageVars
<1>10. QED BY <1>2, <1>3, <1>4, <1>5, <1>6, <1>7, <1>8, <1>9 DEF Next, PageStep

\* The places that requests of a page take are finitely many.
LEMMA BusyIsFinite ==
    ASSUME NEW p \in Clients
    PROVE  /\ IsFiniteSet(Busy(p)) /\ Cardinality(Busy(p)) \in Nat
           /\ IsFiniteSet(Busy(p)') /\ Cardinality(Busy(p)') \in Nat
<1>1. IsFiniteSet(1 .. MaxFaults + 1)
  <2>1. 1 \in Int /\ MaxFaults + 1 \in Int
    BY ReconcileAssumption
  <2>2. QED BY <2>1, FS_Interval
<1>2. Busy(p) \in SUBSET (1 .. MaxFaults + 1) /\ Busy(p)' \in SUBSET (1 .. MaxFaults + 1)
  BY DEF Busy
<1>3. QED BY <1>1, <1>2, FS_Subset, FS_CardinalityType

\* Waiting for a request, as a number.
Waiting(p) == IF drain[p].at = "sent" THEN 1 ELSE 0

\* Places suffice where none is taken, and a page that stops waiting has cost
\* a failure.
LEMMA NoNewRequest ==
    ASSUME SlotsSuffice, faults \in Nat, faults' \in Nat, NEW p \in Clients,
           Busy(p)' \subseteq Busy(p), faults + Waiting(p) <= faults' + Waiting(p)'
    PROVE  Cardinality(Busy(p)') <= faults' + Waiting(p)'
<1>1. Cardinality(Busy(p)') <= Cardinality(Busy(p))
  BY BusyIsFinite, FS_Subset
<1>2. Cardinality(Busy(p)) <= faults + Waiting(p)
  BY DEF SlotsSuffice, Waiting
<1>3. Waiting(p) \in Nat /\ Waiting(p)' \in Nat
  BY DEF Waiting
<1>4. QED BY <1>1, <1>2, <1>3, BusyIsFinite

\* Places go on to suffice.
LEMMA SlotsSufficeStep ==
    ASSUME TypeOK, DrainsInOrder, SlotsSuffice, RequestsInOrder, Next PROVE SlotsSuffice'
<1>1. /\ call \in [Calls -> Call] /\ drain \in [Clients -> Drain]
      /\ faults \in Nat /\ faults' \in Nat /\ faults <= faults'
  BY WorldStep DEF TypeOK, WorldTypes
<1>2. SUFFICES ASSUME NEW q \in Clients PROVE Cardinality(Busy(q)') <= faults' + Waiting(q)'
  BY DEF SlotsSuffice, Waiting
<1>3. Waiting(q) \in {0, 1} /\ Waiting(q)' \in {0, 1}
  BY DEF Waiting
<1>4. CASE Busy(q)' \subseteq Busy(q) /\ (Fault \/ Waiting(q) <= Waiting(q)')
  <2>1. faults + Waiting(q) <= faults' + Waiting(q)'
    BY <1>1, <1>3, <1>4 DEF Fault
  <2>2. QED BY <1>1, <1>4, <2>1, NoNewRequest
<1>5. ASSUME UNCHANGED call PROVE Busy(q)' \subseteq Busy(q)
  BY <1>5 DEF Busy
<1>6. ASSUME NEW k \in Calls, Others(k), call[k].at # "none" PROVE Busy(q)' \subseteq Busy(q)
  BY <1>6 DEF Others, Busy, Calls
<1>7. ASSUME NEW c \in Changes, QueueEdit(c) \/ EditStored(c)
      PROVE  Busy(q)' \subseteq Busy(q) /\ Waiting(q) <= Waiting(q)'
  BY <1>3, <1>5, <1>7 DEF QueueEdit, EditStored, serverVars, Waiting
<1>8. ASSUME NEW k \in Calls, ServerStep(k)
      PROVE  Busy(q)' \subseteq Busy(q) /\ Waiting(q) <= Waiting(q)'
  <2>1. Works(k) /\ call[k].at # "none"
    BY <1>8, StatementWorks
      DEF ServerStep, AdmitRequest, CheckChange, WeighMark, UpdateToken, RememberMark, ApplyAttack, DropReply
  <2>2. Others(k)
    BY <2>1 DEF Works, Sends, Ends, Admits, Answers, Plays, Checks, Writes, Marks, TakesNext
  <2>3. UNCHANGED drain
    BY <1>8 DEF ServerStep, AdmitRequest, CheckChange, WeighMark, UpdateToken, RememberMark, ApplyAttack,
                DropReply, pageVars
  <2>4. QED BY <1>3, <1>6, <2>1, <2>2, <2>3 DEF Waiting
<1>9. CASE Restart
  <2>1. Busy(q)' \subseteq Busy(q)
    BY <1>9 DEF Restart, Busy, Calls
  <2>2. QED BY <1>4, <1>9, <2>1 DEF Restart
<1>10. CASE ChangeWorld
  BY <1>4, <1>5, <1>10 DEF ChangeWorld, serverVars
<1>11. ASSUME NEW p \in Clients, GoOffline(p) \/ ReadFails(p) \/ Reload(p) \/ LoseRequest(p)
      PROVE  Busy(q)' \subseteq Busy(q) /\ Fault
  <2>1. CASE UNCHANGED call
    BY <1>5, <1>11, <2>1 DEF GoOffline, ReadFails, Reload, LoseRequest
  <2>2. CASE ~UNCHANGED call
    <3> DEFINE k == WaitsFor(p)
    <3>1. drain[p].at = "sent" /\ call[k].at = "admit" /\ call' = [call EXCEPT ![k] = NoCall] /\ Fault
      BY <1>11, <2>2 DEF GoOffline, ReadFails, Reload, LoseRequest, serverVars
    <3>2. k \in Calls
      BY <3>1 DEF WaitsFor, Calls, DrainsInOrder
    <3> HIDE DEF k
    <3>3. Others(k)
      BY <1>1, <3>1, <3>2 DEF Others
    <3>4. QED BY <1>6, <3>1, <3>2, <3>3
  <2>3. QED BY <2>1, <2>2
<1>12. ASSUME NEW p \in Clients, StartDrain(p) PROVE Waiting(q) <= Waiting(q)'
  BY <1>1, <1>3, <1>12 DEF StartDrain, Waiting
<1>13. ASSUME NEW p \in Clients, GoOnline(p) \/ OtherTrigger(p)
       PROVE  Busy(q)' \subseteq Busy(q) /\ Waiting(q) <= Waiting(q)'
  BY <1>5, <1>12, <1>13 DEF GoOnline, OtherTrigger, serverVars
<1>14. ASSUME NEW p \in Clients, ForgetAnswered(p)
       PROVE  Busy(q)' \subseteq Busy(q) /\ Waiting(q) <= Waiting(q)'
  <2>1. drain[p].at = "forget" /\ UNCHANGED call /\ (q # p => drain'[q] = drain[q])
    BY <1>1, <1>14 DEF ForgetAnswered, serverVars
  <2>2. QED BY <1>3, <1>5, <2>1 DEF Waiting
<1>15. ASSUME NEW p \in Clients, TakeReply(p) PROVE Cardinality(Busy(q)') <= faults' + Waiting(q)'
  <2> DEFINE k == WaitsFor(p)
  <2>1. /\ drain[p].at = "sent" /\ call[k].at \in {"reply", "error"}
        /\ call' = [call EXCEPT ![k] = NoCall] /\ faults' = faults
    BY <1>15 DEF TakeReply, NoFault
  <2>2. drain[p].call \in 1 .. MaxFaults + 1 /\ k \in Calls
    BY <2>1 DEF WaitsFor, Calls, DrainsInOrder
  <2>3. /\ Others(k) /\ call'[k].at = "none"
    BY <1>1, <2>1, <2>2, CallTypes DEF Others
  <2>4. Busy(q)' \subseteq Busy(q)
    BY <1>6, <2>1, <2>2, <2>3
  <2>5. CASE q # p
    <3>1. drain'[q] = drain[q]
      BY <1>1, <1>15, <2>5 DEF TakeReply, EndDrain
    <3>2. QED BY <1>3, <1>4, <2>4, <3>1 DEF Waiting
  <2>6. CASE q = p
    <3>1. drain[p].call \in Busy(p) /\ drain[p].call \notin Busy(p)'
      BY <2>1, <2>2, <2>3 DEF Busy, WaitsFor
    <3>2. Busy(p)' \subseteq Busy(p) \ {drain[p].call}
      BY <2>4, <2>6, <3>1
    <3>3. /\ Cardinality(Busy(p) \ {drain[p].call}) = Cardinality(Busy(p)) - 1
          /\ IsFiniteSet(Busy(p) \ {drain[p].call})
      BY <3>1, BusyIsFinite, FS_RemoveElement
    <3>4. Cardinality(Busy(p)') <= Cardinality(Busy(p)) - 1
      BY <3>2, <3>3, FS_Subset
    <3>5. Cardinality(Busy(p)) <= faults + 1
      BY <2>1 DEF SlotsSuffice
    <3>6. QED BY <1>1, <1>3, <2>1, <2>6, <3>4, <3>5, BusyIsFinite
  <2>7. QED BY <2>5, <2>6
<1>16. ASSUME NEW p \in Clients, ReadQueue(p) PROVE Cardinality(Busy(q)') <= faults' + Waiting(q)'
  <2>1. drain[p].at = "read" /\ faults' = faults
    BY <1>16 DEF ReadQueue, NoFault
  <2>2. CASE UNCHANGED call
    <3>1. Waiting(q) <= Waiting(q)'
      <4>1. CASE q = p
        BY <1>3, <2>1, <4>1 DEF Waiting
      <4>2. CASE q # p
        <5>1. drain'[q] = drain[q]
          BY <1>1, <1>16, <4>2 DEF ReadQueue, EndDrain
        <5>2. QED BY <1>3, <5>1 DEF Waiting
      <4>3. QED BY <4>1, <4>2
    <3>2. QED BY <1>4, <1>5, <2>2, <3>1
  <2>3. CASE ~UNCHANGED call
    <3> DEFINE slot == FreeSlot(p)
    <3>1. PICK new \in {[NoCall EXCEPT !.at = "admit", !.todo = replay_order({c \in Mine(p) : Stored(c)} \ drain[p].sent)]} :
             call' = [call EXCEPT ![<<p, slot>>] = new]
      BY <1>16, <2>3 DEF ReadQueue
    <3>2. slot \in 1 .. MaxFaults + 1 /\ <<p, slot>> \in Calls
      BY <2>1, SlotIsFree
    <3>3. drain'[p].at = "sent" /\ (q # p => drain'[q] = drain[q])
      <4> DEFINE sent == drain[p].sent \cup ({c \in Mine(p) : Stored(c)} \ drain[p].sent)
      <4>1. drain' = [drain EXCEPT ![p].at = "sent", ![p].sent = sent, ![p].call = slot]
        BY <1>16, <2>3 DEF ReadQueue
      <4> HIDE DEF sent, slot
      <4>2. QED BY <1>1, <4>1 DEF Drain
    <3> HIDE DEF slot
    <3>4. \A n \in 1 .. MaxFaults + 1 : n # slot \/ q # p => call'[<<q, n>>] = call[<<q, n>>]
      BY <1>1, <3>1, <3>2 DEF Calls
    <3>5. CASE q # p
      <4>1. Busy(q)' \subseteq Busy(q)
        BY <3>4, <3>5 DEF Busy
      <4>2. QED BY <1>3, <1>4, <3>3, <3>5, <4>1 DEF Waiting
    <3>6. CASE q = p
      <4>1. Busy(p)' \subseteq Busy(p) \cup {slot}
        BY <3>4, <3>6 DEF Busy
      <4>2. IsFiniteSet(Busy(p) \cup {slot}) /\ Cardinality(Busy(p) \cup {slot}) <= Cardinality(Busy(p)) + 1
        <5> DEFINE B == Busy(p)
        <5>1. IsFiniteSet(B) /\ Cardinality(B) \in Nat
          BY BusyIsFinite
        <5> HIDE DEF B
        <5>2. /\ IsFiniteSet(B \cup {slot})
              /\ Cardinality(B \cup {slot}) = IF slot \in B THEN Cardinality(B) ELSE Cardinality(B) + 1
          BY <5>1, FS_AddElement
        <5>3. QED BY <5>1, <5>2 DEF B
      <4>3. Cardinality(Busy(p)') <= Cardinality(Busy(p) \cup {slot})
        BY <4>1, <4>2, FS_Subset
      <4>4. Cardinality(Busy(p)) <= faults + 0
        BY <2>1 DEF SlotsSuffice
      <4>5. Waiting(p)' = 1
        BY <3>3 DEF Waiting
      <4>6. Cardinality(Busy(p) \cup {slot}) \in Nat
        BY <4>2, FS_CardinalityType
      <4>7. QED BY <1>1, <2>1, <3>6, <4>2, <4>3, <4>4, <4>5, <4>6, BusyIsFinite
    <3>7. QED BY <3>5, <3>6
  <2>4. QED BY <2>2, <2>3
<1>17. QED BY <1>4, <1>7, <1>8, <1>9, <1>10, <1>11, <1>13, <1>14, <1>15, <1>16 DEF Next, PageStep

-----------------------------------------------------------------------------
(* The requests at the server and what they have done *)

\* The change a request is at is one of its client's, on one of its tokens.
LEMMA HeadFacts ==
    ASSUME TypeOK, RequestsInOrder, NEW k \in Calls, call[k].at \in {"admit", "check", "weigh", "write", "mark"}
    PROVE  /\ call[k].todo \in Seq(Changes) /\ call[k].todo # <<>>
           /\ Head(call[k].todo) \in Changes /\ TokenOf[Head(call[k].todo)] \in Tokens
           /\ Head(call[k].todo) \in ToSet(call[k].todo)
           /\ TokenOf[Head(call[k].todo)] \in TokensOf(k)
           /\ author[Head(call[k].todo)] = k[1]
           /\ ToSet(Tail(call[k].todo)) \subseteq ToSet(call[k].todo)
           /\ ToSet(call[k].todo) \subseteq Mine(k[1])
<1>1. call[k].todo \in Seq(Changes)
  BY DEF TypeOK, Call
<1>2. call[k].todo # <<>> /\ ToSet(call[k].todo) \subseteq Mine(k[1])
  BY DEF RequestsInOrder
<1>3. /\ Head(call[k].todo) \in Changes /\ Head(call[k].todo) \in ToSet(call[k].todo)
      /\ ToSet(Tail(call[k].todo)) \subseteq ToSet(call[k].todo)
  BY <1>1, <1>2, TodoFacts
<1>4. TokenOf[Head(call[k].todo)] \in Tokens /\ TokenOf[Head(call[k].todo)] \in TokensOf(k)
  BY <1>3, ReconcileAssumption DEF TokensOf
<1>5. author[Head(call[k].todo)] = k[1]
  BY <1>2, <1>3 DEF Mine
<1>6. QED BY <1>1, <1>2, <1>3, <1>4, <1>5

\* What every step of a request leaves alone, and that it takes on nothing new
\* once it is at work.
LEMMA WorkFrame ==
    ASSUME TypeOK, RequestsInOrder, NEW k \in Calls, Works(k)
    PROVE  /\ Others(k) /\ since' = since /\ overlap \subseteq overlap'
           /\ AtWork(k)' => /\ AtWork(k) \/ Admits(k)
                            /\ call[k].at \in {"admit", "check", "weigh", "write", "mark"}
                            /\ ToSet(call'[k].todo) \subseteq ToSet(call[k].todo)
                            /\ call'[k].todo # <<>>
           /\ call'[k].at \in {"weigh", "write", "mark"} =>
                  (Checks(k) \/ Writes(k)) /\ call'[k].todo = call[k].todo
<1>1. CASE Sends(k) \/ Ends(k)
  BY <1>1 DEF Sends, Ends, ServerStays, AtWork
<1>2. CASE Admits(k)
  BY <1>2, HeadFacts DEF Admits, AtWork
<1>3. CASE Checks(k) \/ Writes(k)
  BY <1>3, HeadFacts DEF Checks, Writes, Keeps, ServerStays, AtWork
<1>4. ASSUME NEW o, TakesNext(k, o), call[k].at \in {"check", "weigh", "write", "mark"},
             since' = since, overlap' = overlap
      PROVE  /\ Others(k) /\ since' = since /\ overlap \subseteq overlap'
             /\ AtWork(k)' => /\ AtWork(k)
                              /\ call[k].at \in {"admit", "check", "weigh", "write", "mark"}
                              /\ ToSet(call'[k].todo) \subseteq ToSet(call[k].todo)
                              /\ call'[k].todo # <<>>
             /\ call'[k].at \notin {"weigh", "write", "mark"}
  BY <1>4, HeadFacts DEF TakesNext, AtWork
<1>5. CASE Answers(k) \/ Plays(k) \/ Marks(k)
  BY <1>4, <1>5 DEF Answers, Plays, Marks, ServerStays
<1>6. QED BY <1>1, <1>2, <1>3, <1>5 DEF Works

\* The tokens of a request at work were its tokens before.
LEMMA TokensStay ==
    ASSUME TypeOK, RequestsInOrder, NEW k \in Calls, Works(k), AtWork(k)'
    PROVE  TokensOf(k)' \subseteq TokensOf(k)
BY WorkFrame DEF TokensOf

\* Two requests at work on one token are still noted.
LEMMA OverlapsAreNotedStep ==
    ASSUME TypeOK, DrainsInOrder, SlotsSuffice, RequestsInOrder, OverlapsAreNoted, Next
    PROVE  OverlapsAreNoted'
<1>1. CASE UNCHANGED serverVars
  BY <1>1 DEF OverlapsAreNoted, serverVars, AtWork, TokensOf
<1>2. CASE Restart
  <2>1. \A k \in Calls : call'[k].at \in {"none", "error"}
    BY <1>2, CallTypes DEF Restart
  <2>2. QED BY <2>1 DEF OverlapsAreNoted, AtWork
<1>3. ASSUME NEW k \in Calls, Works(k) PROVE OverlapsAreNoted'
  <2>1. ASSUME NEW j \in Calls, j # k, AtWork(j)', AtWork(k)'
        PROVE  TokensOf(j)' \cap TokensOf(k)' \subseteq overlap'
    <3>1. AtWork(j) /\ TokensOf(j)' = TokensOf(j)
      BY <1>3, <2>1, WorkFrame DEF Others, AtWork, TokensOf
    <3>2. TokensOf(k)' \subseteq TokensOf(k)
      BY <1>3, <2>1, TokensStay
    <3>3. CASE AtWork(k)
      BY <1>3, <2>1, <3>1, <3>2, <3>3, WorkFrame DEF OverlapsAreNoted
    <3>4. CASE Admits(k)
      BY <3>1, <3>2, <3>4 DEF Admits
    <3>5. QED BY <1>3, <2>1, <3>3, <3>4, WorkFrame
  <2>2. ASSUME NEW j \in Calls, NEW m \in Calls, j # m, j # k, m # k, AtWork(j)', AtWork(m)'
        PROVE  TokensOf(j)' \cap TokensOf(m)' \subseteq overlap'
    <3>1. AtWork(j) /\ TokensOf(j)' = TokensOf(j) /\ AtWork(m) /\ TokensOf(m)' = TokensOf(m)
      BY <1>3, <2>2, WorkFrame DEF Others, AtWork, TokensOf
    <3>2. QED BY <1>3, <2>2, <3>1, WorkFrame DEF OverlapsAreNoted
  <2>3. SUFFICES ASSUME NEW j \in Calls, NEW m \in Calls, j # m, AtWork(j)', AtWork(m)'
                 PROVE  TokensOf(j)' \cap TokensOf(m)' \subseteq overlap'
    BY DEF OverlapsAreNoted
  <2>4. CASE j = k
    BY <2>1, <2>3, <2>4
  <2>5. CASE m = k
    BY <2>1, <2>3, <2>5
  <2>6. CASE j # k /\ m # k
    BY <2>2, <2>3, <2>6
  <2>7. QED BY <2>4, <2>5, <2>6
<1>4. QED BY <1>1, <1>2, <1>3, ServerSteps

\* Requests and marks stay in order.
LEMMA RequestsInOrderStep ==
    ASSUME TypeOK, DrainsInOrder, SlotsSuffice, RequestsInOrder, Next
    PROVE  RequestsInOrder'
<1>1. author' = author /\ attacks' = attacks /\ \A p \in Clients : Mine(p)' = Mine(p)
  BY WorldStep DEF Mine
<1>2. /\ call \in [Calls -> Call] /\ next_seq \in Nat /\ marks \in [Tokens -> Mark \cup {None}]
      /\ \A k \in Calls : k[1] \in Clients /\ call[k].seq \in Nat
      /\ \A t \in Tokens : marks[t] # None => marks[t].seq \in Nat
  BY DEF TypeOK, Calls, Call, Mark
<1>3. CASE UNCHANGED serverVars
  BY <1>1, <1>2, <1>3 DEF RequestsInOrder, serverVars, AtWork
<1>4. CASE Restart
  <2>1. \A k \in Calls : call'[k].at \in {"none", "error"}
    BY <1>4, CallTypes DEF Restart
  <2>2. \A t \in Tokens : marks'[t] = None
    BY <1>4 DEF Restart
  <2>3. QED BY <2>1, <2>2 DEF RequestsInOrder, AtWork
<1>5. ASSUME NEW k \in Calls, Works(k) PROVE RequestsInOrder'
  <2>1. next_seq' \in Nat /\ next_seq <= next_seq'
    BY <1>2, <1>5 DEF Works, Sends, Ends, Admits, Answers, Plays, Checks, Writes, Marks, ServerStays
  <2>2. \A t \in Tokens : marks'[t] # None => marks'[t].seq < next_seq'
    <3>1. CASE Marks(k)
      <4> DEFINE t == TokenOf[Head(call[k].todo)]
                 new == [role |-> RoleOf(k[1]), seq |-> call[k].seq]
      <4>1. marks' = [marks EXCEPT ![t] = new] /\ next_seq' = next_seq
        BY <3>1 DEF Marks
      <4>2. new.seq < next_seq
        BY <3>1 DEF Marks, RequestsInOrder, AtWork
      <4> HIDE DEF t, new
      <4>3. QED BY <1>2, <4>1, <4>2 DEF RequestsInOrder
    <3>2. CASE ~Marks(k)
      <4>1. marks' = marks
        BY <1>5, <3>2 DEF Works, Sends, Ends, Admits, Answers, Plays, Checks, Writes, ServerStays
      <4>2. QED BY <1>2, <2>1, <4>1 DEF RequestsInOrder
    <3>3. QED BY <3>1, <3>2
  <2>3. ASSUME NEW m \in Calls, call'[m].at \in {"admit", "check", "weigh", "write", "mark"}
        PROVE  call'[m].todo # <<>> /\ ToSet(call'[m].todo) \subseteq Mine(m[1])
    <3>1. CASE m # k
      BY <1>5, <2>3, <3>1, WorkFrame DEF Others, RequestsInOrder
    <3>2. CASE m = k /\ AtWork(k)'
      BY <1>5, <3>2, WorkFrame, HeadFacts
    <3>3. CASE m = k /\ ~AtWork(k)'
      <4>1. call'[k].at = "admit"
        BY <2>3, <3>3 DEF AtWork
      <4>2. Sends(k)
        BY <1>5, <4>1 DEF Works, Ends, Admits, Answers, Plays, Checks, Writes, Marks, TakesNext
      <4>3. QED BY <3>3, <4>2 DEF Sends
    <3>4. QED BY <3>1, <3>2, <3>3
  <2>4. ASSUME NEW m \in Calls, AtWork(m)' PROVE call'[m].seq < next_seq'
    <3>1. CASE m # k
      <4>1. call'[m] = call[m] /\ AtWork(m)
        BY <1>5, <2>4, <3>1, WorkFrame DEF Others, AtWork
      <4>2. call[m].seq < next_seq
        BY <4>1 DEF RequestsInOrder
      <4>3. QED BY <1>2, <2>1, <4>1, <4>2
    <3>2. CASE m = k /\ Admits(k)
      BY <1>2, <3>2 DEF Admits
    <3>3. CASE m = k /\ ~Admits(k)
      <4>1. AtWork(k)
        BY <1>5, <2>4, <3>3, WorkFrame
      <4>2. call'[k].seq = call[k].seq
        BY <1>5, <2>4, <3>3 DEF Works, Sends, Ends, Answers, Plays, Checks, Writes, Marks, TakesNext,
                                Keeps, AtWork
      <4>3. QED BY <1>2, <2>1, <3>3, <4>1, <4>2 DEF RequestsInOrder
    <3>4. QED BY <3>1, <3>2, <3>3
  <2>5. ASSUME NEW m \in Calls, call'[m].at \in {"weigh", "write", "mark"} PROVE Head(call'[m].todo) \notin attacks
    <3>1. CASE m # k
      BY <1>5, <2>5, <3>1, WorkFrame DEF Others, RequestsInOrder
    <3>2. CASE m = k
      BY <1>5, <2>5, <3>2, WorkFrame DEF Checks, Writes, RequestsInOrder
    <3>3. QED BY <3>1, <3>2
  <2>6. \A m \in Calls : Mine(m[1])' = Mine(m[1])
    BY <1>1, <1>2
  <2>7. QED BY <1>1, <2>2, <2>3, <2>4, <2>5, <2>6 DEF RequestsInOrder
<1>6. QED BY <1>3, <1>4, <1>5, ServerSteps

\* Done, in the state a step leads to.
DoneThen(c) == c \in ToSet(log') \/ TokenOf[c] \in gone'

\* What was done stays done.
LEMMA DoneStays ==
    ASSUME TypeOK, DrainsInOrder, SlotsSuffice, RequestsInOrder, Next, NEW c \in Changes, Done(c)
    PROVE  DoneThen(c)
<1>1. gone \subseteq gone' /\ log \in Seq(Changes)
  BY WorldStep DEF TypeOK
<1>2. ToSet(log) \subseteq ToSet(log')
  <2>1. ASSUME NEW k \in Calls, Works(k) PROVE ToSet(log) \subseteq ToSet(log')
    <3>1. \/ log' = log
          \/ /\ log' = Append(log, Head(call[k].todo))
             /\ call[k].at \in {"admit", "check", "weigh", "write", "mark"}
      BY <2>1 DEF Works, Sends, Ends, Admits, Answers, Plays, Checks, Writes, Marks, ServerStays
    <3>2. QED BY <1>1, <3>1, HeadFacts, LogFacts
  <2>2. CASE log' = log
    BY <2>2
  <2>3. QED BY <2>1, <2>2, ServerSteps DEF serverVars, Restart
<1>3. QED BY <1>1, <1>2 DEF Done, DoneThen

\* The server goes on saying `applied` only of what was done.
LEMMA OutcomesAreTrueStep ==
    ASSUME TypeOK, DrainsInOrder, SlotsSuffice, RequestsInOrder, OutcomesAreTrue, Next
    PROVE  OutcomesAreTrue'
<1>1. call \in [Calls -> Call] /\ log \in Seq(Changes) /\ gone \subseteq gone'
  BY WorldStep DEF TypeOK
<1>2. \A k \in Calls : \A a \in call[k].out : a[1] \in Changes
  BY <1>1 DEF Call
<1>3. \A c \in Changes : Done(c) => DoneThen(c)
  BY DoneStays
<1> DEFINE True ==
       \A k \in Calls : /\ \A a \in call'[k].out : a[2] = "applied" => DoneThen(a[1])
                        /\ call'[k].at = "mark" => DoneThen(Head(call'[k].todo))
<1>0. SUFFICES True
  BY DEF OutcomesAreTrue, Done, DoneThen
<1>4. ASSUME NEW k \in Calls, call[k].at = "mark" PROVE DoneThen(Head(call[k].todo))
  BY <1>3, <1>4, HeadFacts DEF OutcomesAreTrue
<1>5. CASE UNCHANGED serverVars
  <2>1. UNCHANGED call
    BY <1>5 DEF serverVars
  <2>2. QED BY <1>2, <1>3, <1>4, <2>1 DEF OutcomesAreTrue
<1>6. CASE Restart
  <2>1. ASSUME NEW k \in Calls
        PROVE  call'[k].at # "mark" /\ (call'[k].out = {} \/ call'[k].out = call[k].out)
    BY <1>6, CallTypes DEF Restart
  <2>2. QED BY <1>2, <1>3, <2>1 DEF OutcomesAreTrue
<1>7. ASSUME NEW k \in Calls, Works(k) PROVE True
  <2>1. Others(k)
    BY <1>7, WorkFrame
  <2>2. ASSUME NEW o, TakesNext(k, o), call[k].at \in {"check", "weigh", "write", "mark"},
               o = "applied" => DoneThen(Head(call[k].todo))
        PROVE  /\ \A a \in call'[k].out : a[2] = "applied" => DoneThen(a[1])
               /\ call'[k].at # "mark"
    BY <1>2, <1>3, <2>2 DEF TakesNext, OutcomesAreTrue
  <2>3. ASSUME Head(call[k].todo) \in Changes, log' = Append(log, Head(call[k].todo))
        PROVE  DoneThen(Head(call[k].todo))
    BY <1>1, <2>3, LogFacts DEF Done, DoneThen
  <2>4. /\ \A a \in call'[k].out : a[2] = "applied" => DoneThen(a[1])
        /\ call'[k].at = "mark" => DoneThen(Head(call'[k].todo))
    <3>1. CASE Sends(k) \/ Ends(k) \/ Admits(k) \/ Checks(k)
      BY <1>2, <1>3, <3>1 DEF Sends, Ends, Admits, Checks, Keeps, OutcomesAreTrue
    <3>2. CASE Answers(k)
      BY <2>2, <3>2 DEF Answers
    <3>3. CASE Plays(k)
      <4>1. DoneThen(Head(call[k].todo))
        BY <2>3, <3>3, HeadFacts DEF Plays
      <4>2. QED BY <2>2, <3>3, <4>1 DEF Plays
    <3>4. CASE Writes(k)
      <4>1. DoneThen(Head(call[k].todo))
        BY <1>1, <2>3, <3>4, HeadFacts DEF Writes, DoneThen
      <4>2. call'[k].todo = call[k].todo /\ call'[k].out = call[k].out
        BY <3>4 DEF Writes, Keeps
      <4>3. QED BY <1>2, <1>3, <4>1, <4>2 DEF OutcomesAreTrue
    <3>5. CASE Marks(k)
      BY <1>4, <2>2, <3>5 DEF Marks
    <3>6. QED BY <1>7, <3>1, <3>2, <3>3, <3>4, <3>5 DEF Works
  <2>5. ASSUME NEW m \in Calls, m # k
        PROVE  /\ \A a \in call'[m].out : a[2] = "applied" => DoneThen(a[1])
               /\ call'[m].at = "mark" => DoneThen(Head(call'[m].todo))
    BY <1>2, <1>3, <1>4, <2>1, <2>5 DEF Others, OutcomesAreTrue
  <2>6. QED BY <2>4, <2>5
<1>8. QED BY <1>5, <1>6, <1>7, ServerSteps

\* And a page hears it only of what was done.
LEMMA AppliedIsTrueStep ==
    ASSUME TypeOK, DrainsInOrder, SlotsSuffice, RequestsInOrder, OutcomesAreTrue, AppliedIsTrue, Next
    PROVE  AppliedIsTrue'
<1>1. SUFFICES ASSUME NEW c \in Changes, "applied" \in heard'[c] PROVE DoneThen(c)
  BY DEF AppliedIsTrue, Done, DoneThen
<1>2. CASE "applied" \in heard[c]
  BY <1>2, DoneStays DEF AppliedIsTrue, Done, DoneThen
<1>3. CASE "applied" \notin heard[c]
  <2>1. PICK p \in Clients : Hears(p)
    BY <1>1, <1>3, DrainSteps DEF Rests, Asks
  <2>2. <<c, "applied">> \in call[WaitsFor(p)].out /\ WaitsFor(p) \in Calls
    BY <1>1, <1>3, <2>1 DEF Hears
  <2>3. Done(c)
    BY <2>2 DEF OutcomesAreTrue
  <2>4. QED BY <2>3, DoneStays
<1>4. QED BY <1>2, <1>3

-----------------------------------------------------------------------------
(* What was moved, and the marks that stand for it *)

\* Held, and Settled, in the state a step leads to.
HeldThen(t, k) ==
    marks'[t] # None /\ resolve(marks'[t], [role |-> RoleOf(k[1]), seq |-> call'[k].seq])
SettledThen(i) == since' < i /\ log'[i] \notin attacks /\ TokenOf[log'[i]] \notin overlap'

\* A move that counts after a step of a request counted before it, or is the
\* one that this request has written.
LEMMA SettledEntry ==
    ASSUME TypeOK, RequestsInOrder, NEW k \in Calls, Works(k), NEW i \in DOMAIN log', SettledThen(i)
    PROVE  \/ i \in DOMAIN log /\ log'[i] = log[i] /\ Settled(i)
           \/ /\ Writes(k) /\ i = Len(log) + 1 /\ log'[i] = Head(call[k].todo)
              /\ log' = Append(log, Head(call[k].todo))
<1>1. log \in Seq(Changes) /\ since' = since /\ overlap \subseteq overlap'
  BY WorkFrame DEF TypeOK
<1>2. ASSUME i \in DOMAIN log, log'[i] = log[i] PROVE Settled(i)
  BY <1>1, <1>2 DEF Settled, SettledThen
<1>3. CASE log' = log
  BY <1>2, <1>3
<1>4. CASE log' # log
  <2>1. /\ Plays(k) \/ Writes(k)
        /\ log' = Append(log, Head(call[k].todo)) /\ Head(call[k].todo) \in Changes
    BY <1>4, HeadFacts DEF Works, Sends, Ends, Admits, Answers, Plays, Checks, Writes, Marks, ServerStays
  <2>2. /\ DOMAIN log = 1 .. Len(log) /\ Len(log) \in Nat /\ DOMAIN log' = 1 .. Len(log) + 1
        /\ \A j \in DOMAIN log : log'[j] = log[j]
        /\ log'[Len(log) + 1] = Head(call[k].todo)
    BY <1>1, <2>1, LogFacts
  <2>3. CASE i \in DOMAIN log
    BY <1>2, <2>2, <2>3
  <2>4. CASE i \notin DOMAIN log
    <3>1. i = Len(log) + 1 /\ log'[i] = Head(call[k].todo)
      BY <2>2, <2>4
    <3>2. ~Plays(k)
      BY <3>1 DEF Plays, SettledThen
    <3>3. QED BY <2>1, <3>1, <3>2
  <2>5. QED BY <2>3, <2>4
<1>5. QED BY <1>3, <1>4

\* The log's entries are changes on tokens.
LEMMA EntryTypes ==
    ASSUME TypeOK, NEW i \in DOMAIN log PROVE log[i] \in Changes /\ TokenOf[log[i]] \in Tokens
<1>1. log[i] \in Changes
  BY LenProperties DEF TypeOK
<1>2. QED BY <1>1, ReconcileAssumption

\* Only one request is at work on a token without an overlap.
LEMMA OnlyOneAtWork ==
    ASSUME OverlapsAreNoted, NEW j \in Calls, NEW k \in Calls, AtWork(j), AtWork(k),
           NEW t \in TokensOf(j), t \in TokensOf(k), t \notin overlap
    PROVE  j = k
BY DEF OverlapsAreNoted

\* A mark that a request does not leave, and its place in the order, decide as
\* before.
LEMMA HeldStays ==
    ASSUME NEW t, NEW k, marks'[t] = marks[t], call'[k].seq = call[k].seq
    PROVE  HeldThen(t, k) <=> Held(t, k)
BY DEF Held, HeldThen

\* A mark held by a Game Master stands against a player, and one of the same
\* client against whatever it sends later.
LEMMA MarkStands ==
    ASSUME NEW m \in Mark, NEW k, NEW n \in Nat
    PROVE  /\ m.role = "GameMaster" /\ ~resolve(m, [role |-> RoleOf(k[1]), seq |-> n]) => k[1] \in GameMasters
           /\ (m.seq <= n /\ (k[1] \in GameMasters => m.role = "GameMaster"))
                  => resolve(m, [role |-> RoleOf(k[1]), seq |-> n])
BY DEF Mark, Role, RoleOf, resolve

\* Only a request that leaves its mark changes the marks.
LEMMA MarksStay ==
    ASSUME NEW k \in Calls, Works(k), ~Marks(k) PROVE marks' = marks
BY DEF Works, Sends, Ends, Admits, Answers, Plays, Checks, Writes, ServerStays

\* And only that one.
LEMMA OtherMarksStay ==
    ASSUME TypeOK, NEW k \in Calls, Works(k), NEW t \in Tokens,
           ~(Marks(k) /\ t = TokenOf[Head(call[k].todo)])
    PROVE  marks'[t] = marks[t]
<1>1. CASE Marks(k)
  BY <1>1 DEF Marks, TypeOK
<1>2. CASE ~Marks(k)
  BY <1>2, MarksStay
<1>3. QED BY <1>1, <1>2

\* A request's own mark stands against it.
LEMMA OwnMark ==
    ASSUME TypeOK, RequestsInOrder, NEW k \in Calls, Marks(k), NEW t, t = TokenOf[Head(call[k].todo)]
    PROVE  /\ t \in Tokens /\ marks'[t] # None /\ HeldThen(t, k)
           /\ marks'[t].role = RoleOf(k[1])
<1>1. t \in Tokens /\ call[k].seq \in Nat
  BY HeadFacts DEF Marks, TypeOK, Call
<1> DEFINE new == [role |-> RoleOf(k[1]), seq |-> call[k].seq]
<1>2. marks'[t] = new
  BY <1>1 DEF Marks, TypeOK
<1>3. new \in Mark
  BY <1>1 DEF Mark, Role, RoleOf
<1>4. new # None
  BY <1>3, ReconcileAssumption
<1>5. call'[k].seq = call[k].seq
  BY DEF Marks, TakesNext
<1>6. resolve(new, new)
  BY <1>1 DEF resolve
<1>7. QED BY <1>1, <1>2, <1>4, <1>5, <1>6 DEF HeldThen

\* What the check found stays.
LEMMA CheckStaysStep ==
    ASSUME TypeOK, DrainsInOrder, SlotsSuffice, RequestsInOrder, OverlapsAreNoted, CheckStays, Next
    PROVE  CheckStays'
<1> DEFINE Stays ==
       \A m \in Calls : call'[m].at \in {"write", "mark"} =>
           \/ TokenOf[Head(call'[m].todo)] \in overlap'
           \/ ~HeldThen(TokenOf[Head(call'[m].todo)], m)
<1>1. SUFFICES Stays
  BY DEF CheckStays, Held, HeldThen
<1>2. CASE UNCHANGED serverVars
  BY <1>2 DEF CheckStays, serverVars, Held, HeldThen
<1>3. CASE Restart
  <2>1. \A k \in Calls : call'[k].at \in {"none", "error"}
    BY <1>3, CallTypes DEF Restart
  <2>2. QED BY <2>1
<1>4. ASSUME NEW k \in Calls, Works(k) PROVE Stays
  <2>1. SUFFICES ASSUME NEW m \in Calls, call'[m].at \in {"write", "mark"}, NEW t,
                        t = TokenOf[Head(call'[m].todo)], t \notin overlap'
                 PROVE  ~HeldThen(t, m)
    OBVIOUS
  <2>2. t \notin overlap
    BY <1>4, <2>1, WorkFrame
  <2>3. CASE m = k
    <3>1. /\ Checks(k) \/ Writes(k)
          /\ t = TokenOf[Head(call[k].todo)] /\ marks' = marks /\ call'[k].seq = call[k].seq
      BY <1>4, <2>1, <2>3, WorkFrame DEF Checks, Writes, Keeps, ServerStays
    <3>2. ~Held(t, k)
      BY <2>1, <2>2, <2>3, <3>1 DEF Checks, Writes, CheckStays
    <3>3. QED BY <2>3, <3>1, <3>2, HeldStays
  <2>4. CASE m # k
    <3>1. call'[m] = call[m] /\ call[m].at \in {"write", "mark"}
      BY <1>4, <2>1, <2>4, WorkFrame DEF Others
    <3>2. t = TokenOf[Head(call[m].todo)] /\ t \in Tokens /\ t \in TokensOf(m) /\ AtWork(m)
      BY <2>1, <3>1, HeadFacts DEF AtWork
    <3>3. ~Held(t, m)
      BY <2>2, <3>1, <3>2 DEF CheckStays
    <3>4. ~(Marks(k) /\ t = TokenOf[Head(call[k].todo)])
      <4>1. SUFFICES ASSUME Marks(k), t = TokenOf[Head(call[k].todo)] PROVE FALSE
        OBVIOUS
      <4>2. AtWork(k) /\ t \in TokensOf(k)
        BY <4>1, HeadFacts DEF Marks, AtWork
      <4>3. QED BY <2>2, <2>4, <3>2, <4>2, OnlyOneAtWork
    <3>5. QED BY <1>4, <3>1, <3>2, <3>3, <3>4, OtherMarksStay, HeldStays
  <2>5. QED BY <2>3, <2>4
<1>5. QED BY <1>2, <1>3, <1>4, ServerSteps

\* A move that was marked, or is about to be, in the state a step leads to.
MarkedThen(c) ==
    \/ /\ marks'[TokenOf[c]] # None
       /\ author[c] \in GameMasters => marks'[TokenOf[c]].role = "GameMaster"
    \/ \E m \in Calls : call'[m].at = "mark" /\ Head(call'[m].todo) = c

\* Every move that counts is marked, or is about to be.
LEMMA MovesAreMarkedStep ==
    ASSUME TypeOK, DrainsInOrder, SlotsSuffice, RequestsInOrder, CheckStays, MovesAreMarked, Next
    PROVE  MovesAreMarked'
<1>1. author' = author /\ attacks' = attacks
  BY WorldStep
<1>2. SUFFICES ASSUME NEW i \in DOMAIN log', SettledThen(i) PROVE MarkedThen(log'[i])
  BY <1>1 DEF MovesAreMarked, Settled, SettledThen, MarkedThen
<1>3. CASE UNCHANGED serverVars
  BY <1>2, <1>3 DEF MovesAreMarked, serverVars, Settled, SettledThen, MarkedThen
<1>4. CASE Restart
  <2>1. DOMAIN log' = 1 .. Len(log) /\ since' = Len(log) /\ Len(log) \in Nat
    BY <1>4, LenProperties DEF Restart, TypeOK
  <2>2. QED BY <1>2, <2>1 DEF SettledThen
<1>5. ASSUME NEW k \in Calls, Works(k) PROVE MarkedThen(log'[i])
  <2>1. CASE i \in DOMAIN log /\ log'[i] = log[i] /\ Settled(i)
    <3> DEFINE c == log[i]
               t == TokenOf[c]
    <3>1. c \in Changes /\ t \in Tokens /\ t \notin overlap
      BY <2>1, EntryTypes DEF Settled
    <3>2. CASE marks[t] # None /\ (author[c] \in GameMasters => marks[t].role = "GameMaster")
      <4>1. CASE Marks(k) /\ t = TokenOf[Head(call[k].todo)]
        <5>1. marks'[t] # None /\ marks'[t].role = RoleOf(k[1])
          BY <4>1, OwnMark
        <5>2. ASSUME author[c] \in GameMasters PROVE k[1] \in GameMasters
          <6>1. marks[t] \in Mark /\ marks[t].role = "GameMaster" /\ call[k].seq \in Nat
            BY <3>1, <3>2, <5>2 DEF TypeOK, Call
          <6>2. ~Held(t, k)
            BY <3>1, <4>1 DEF Marks, CheckStays
          <6>3. QED BY <3>2, <6>1, <6>2, MarkStands DEF Held
        <5>3. QED BY <2>1, <5>1, <5>2 DEF MarkedThen, RoleOf
      <4>2. CASE ~(Marks(k) /\ t = TokenOf[Head(call[k].todo)])
        BY <1>5, <2>1, <3>1, <3>2, <4>2, OtherMarksStay DEF MarkedThen
      <4>3. QED BY <4>1, <4>2
    <3>3. ASSUME NEW m \in Calls, call[m].at = "mark", Head(call[m].todo) = c
          PROVE  MarkedThen(c)
      <4>1. CASE m # k
        BY <1>5, <3>3, <4>1, WorkFrame DEF Others, MarkedThen
      <4>2. CASE m = k
        <5>1. Marks(k)
          BY <1>5, <3>3, <4>2 DEF Works, Sends, Ends, Admits, Answers, Plays, Checks, Writes
        <5>2. author[c] = k[1]
          BY <3>3, <4>2, HeadFacts
        <5>3. marks'[t] # None /\ marks'[t].role = RoleOf(k[1])
          BY <3>3, <4>2, <5>1, OwnMark
        <5>4. QED BY <5>2, <5>3 DEF MarkedThen, RoleOf
      <4>3. QED BY <4>1, <4>2
    <3>4. QED BY <2>1, <3>2, <3>3 DEF MovesAreMarked
  <2>2. CASE Writes(k) /\ log'[i] = Head(call[k].todo)
    BY <2>2 DEF Writes, Keeps, MarkedThen
  <2>3. QED BY <1>2, <1>5, <2>1, <2>2, SettledEntry
<1>6. QED BY <1>3, <1>4, <1>5, ServerSteps

\* A request that is just admitted finds a mark against each move it carries
\* that was made already.
LEMMA AdmittedRepeats ==
    ASSUME TypeOK, RequestsInOrder, MovesAreMarked, NEW k \in Calls, Admits(k),
           NEW i \in DOMAIN log, Settled(i), log[i] \in ToSet(call[k].todo), TokenOf[log[i]] \notin overlap'
    PROVE  HeldThen(TokenOf[log[i]], k)
<1> DEFINE c == log[i]
           t == TokenOf[c]
<1>1. c \in Changes /\ t \in Tokens
  BY EntryTypes
<1>2. author[c] = k[1] /\ t \in TokensOf(k)
  BY HeadFacts DEF Admits, Mine, TokensOf
<1>3. ASSUME NEW m \in Calls, call[m].at = "mark", Head(call[m].todo) = c PROVE FALSE
  <2>1. AtWork(m) /\ t \in TokensOf(m)
    BY <1>3, HeadFacts DEF AtWork
  <2>2. QED BY <1>2, <2>1 DEF Admits
<1>4. marks[t] # None /\ (author[c] \in GameMasters => marks[t].role = "GameMaster")
  BY <1>3 DEF MovesAreMarked
<1>5. marks[t] \in Mark /\ marks[t].seq < next_seq /\ next_seq \in Nat
  BY <1>1, <1>4 DEF TypeOK, RequestsInOrder
<1>6. marks[t].seq <= next_seq
  BY <1>5 DEF Mark
<1>7. resolve(marks[t], [role |-> RoleOf(k[1]), seq |-> next_seq])
  BY <1>2, <1>4, <1>5, <1>6, MarkStands
<1>8. marks' = marks /\ call'[k].seq = next_seq
  BY DEF Admits
<1>9. QED BY <1>4, <1>7, <1>8 DEF HeldThen

\* Requests go on to find a mark against what they carry a second time.
LEMMA RepeatsAreHeldStep ==
    ASSUME TypeOK, DrainsInOrder, SlotsSuffice, RequestsInOrder, OverlapsAreNoted, MovesAreMarked,
           RepeatsAreHeld, Next
    PROVE  RepeatsAreHeld'
<1>1. attacks' = attacks
  BY WorldStep
<1>2. SUFFICES ASSUME NEW m \in Calls, AtWork(m)', NEW i \in DOMAIN log', SettledThen(i),
                      log'[i] \in ToSet(call'[m].todo)
               PROVE  \/ HeldThen(TokenOf[log'[i]], m)
                      \/ call'[m].at = "mark" /\ log'[i] = Head(call'[m].todo)
  BY <1>1 DEF RepeatsAreHeld, Settled, SettledThen, Held, HeldThen
<1> DEFINE Repeated == \/ HeldThen(TokenOf[log'[i]], m)
                       \/ call'[m].at = "mark" /\ log'[i] = Head(call'[m].todo)
<1>3. CASE UNCHANGED serverVars
  <2>1. AtWork(m) /\ i \in DOMAIN log /\ Settled(i) /\ log[i] \in ToSet(call[m].todo)
    BY <1>2, <1>3 DEF serverVars, Settled, SettledThen, AtWork
  <2>2. QED BY <1>3, <2>1 DEF RepeatsAreHeld, serverVars, Held, HeldThen
<1>4. CASE Restart
  <2>1. call'[m].at \in {"none", "error"}
    BY <1>4, CallTypes DEF Restart
  <2>2. QED BY <1>2, <2>1 DEF AtWork
<1>5. ASSUME NEW k \in Calls, Works(k) PROVE Repeated
  <2>1. /\ m # k => call'[m] = call[m] /\ AtWork(m)
        /\ overlap \subseteq overlap'
    BY <1>2, <1>5, WorkFrame DEF Others, AtWork
  <2>2. CASE i \in DOMAIN log /\ log'[i] = log[i] /\ Settled(i)
    <3> DEFINE c == log[i]
               t == TokenOf[c]
    <3>1. c \in Changes /\ t \in Tokens /\ t \notin overlap /\ t \notin overlap'
      BY <1>2, <2>2, EntryTypes DEF Settled, SettledThen
    <3>2. c \in ToSet(call'[m].todo)
      BY <1>2, <2>2
    <3>3. CASE m # k
      <4>1. call'[m] = call[m] /\ AtWork(m) /\ t \in TokensOf(m)
        BY <2>1, <3>2, <3>3 DEF TokensOf
      <4>2. Held(t, m) \/ (call[m].at = "mark" /\ c = Head(call[m].todo))
        BY <2>2, <3>2, <4>1 DEF RepeatsAreHeld
      <4>3. ~(Marks(k) /\ t = TokenOf[Head(call[k].todo)])
        <5>1. SUFFICES ASSUME Marks(k), t = TokenOf[Head(call[k].todo)] PROVE FALSE
          OBVIOUS
        <5>2. AtWork(k) /\ t \in TokensOf(k)
          BY <5>1, HeadFacts DEF Marks, AtWork
        <5>3. QED BY <3>1, <3>3, <4>1, <5>2, OnlyOneAtWork
      <4>4. marks'[t] = marks[t]
        BY <1>5, <3>1, <4>3, OtherMarksStay
      <4>5. HeldThen(t, m) <=> Held(t, m)
        BY <4>1, <4>4, HeldStays
      <4>6. QED BY <2>2, <4>1, <4>2, <4>5
    <3>4. CASE m = k /\ Admits(k)
      <4>1. c \in ToSet(call[k].todo)
        BY <3>2, <3>4 DEF Admits
      <4>2. HeldThen(t, k)
        BY <2>2, <3>1, <3>4, <4>1, AdmittedRepeats
      <4>3. QED BY <2>2, <3>4, <4>2
    <3>5. CASE m = k /\ ~Admits(k)
      <4>1. AtWork(k) /\ c \in ToSet(call[k].todo)
        BY <1>2, <1>5, <3>2, <3>5, WorkFrame
      <4>2. Held(t, k) \/ (call[k].at = "mark" /\ c = Head(call[k].todo))
        BY <2>2, <4>1 DEF RepeatsAreHeld
      <4>3. call'[k].seq = call[k].seq
        BY <1>2, <1>5, <3>5 DEF Works, Sends, Ends, Answers, Plays, Checks, Writes, Marks, TakesNext,
                                Keeps, AtWork
      <4>4. CASE Marks(k) /\ t = TokenOf[Head(call[k].todo)]
        BY <2>2, <3>5, <4>4, OwnMark
      <4>5. CASE ~(Marks(k) /\ t = TokenOf[Head(call[k].todo)])
        <5>1. marks'[t] = marks[t]
          BY <1>5, <3>1, <4>5, OtherMarksStay
        <5>2. HeldThen(t, k) <=> Held(t, k)
          BY <4>3, <5>1, HeldStays
        <5>3. call[k].at = "mark" => Marks(k)
          BY <1>5 DEF Works, Sends, Ends, Admits, Answers, Plays, Checks, Writes
        <5>4. QED BY <2>2, <3>5, <4>2, <4>5, <5>2, <5>3
      <4>6. QED BY <4>4, <4>5
    <3>6. QED BY <3>3, <3>4, <3>5
  <2>3. CASE Writes(k) /\ log'[i] = Head(call[k].todo)
    <3>1. CASE m = k
      BY <2>3, <3>1 DEF Writes, Keeps
    <3>2. CASE m # k
      <4> DEFINE t == TokenOf[log'[i]]
      <4>1. AtWork(k) /\ t \in TokensOf(k)
        BY <2>3, HeadFacts DEF Writes, AtWork
      <4>2. AtWork(m) /\ t \in TokensOf(m)
        BY <1>2, <2>1, <3>2 DEF TokensOf
      <4>3. t \notin overlap
        BY <1>2, <2>1 DEF SettledThen
      <4>4. QED BY <3>2, <4>1, <4>2, <4>3, OnlyOneAtWork
    <3>3. QED BY <3>1, <3>2
  <2>4. QED BY <1>2, <1>5, <2>2, <2>3, SettledEntry
<1>6. QED BY <1>3, <1>4, <1>5, ServerSteps

\* The step that matters: the move a request writes, next to an earlier one of
\* the same token that counts.
LEMMA WrittenMove ==
    ASSUME TypeOK, RequestsInOrder, OverlapsAreNoted, CheckStays, MovesAreMarked, RepeatsAreHeld,
           NEW k \in Calls, call[k].at = "write", NEW i \in DOMAIN log, Settled(i),
           TokenOf[log[i]] = TokenOf[Head(call[k].todo)]
    PROVE  /\ author[log[i]] \in GameMasters => author[Head(call[k].todo)] \in GameMasters
           /\ log[i] # Head(call[k].todo)
<1> DEFINE c == log[i]
           d == Head(call[k].todo)
           t == TokenOf[d]
<1>1. /\ AtWork(k) /\ t \in TokensOf(k) /\ t \in Tokens /\ author[d] = k[1]
      /\ d \in ToSet(call[k].todo) /\ t \notin overlap
  BY HeadFacts DEF AtWork, Settled
<1>2. ~Held(t, k)
  BY <1>1 DEF CheckStays
<1>3. c # d
  BY <1>1, <1>2 DEF RepeatsAreHeld
<1>4. ASSUME NEW m \in Calls, call[m].at = "mark", Head(call[m].todo) = c PROVE FALSE
  <2>1. AtWork(m) /\ t \in TokensOf(m)
    BY <1>4, HeadFacts DEF AtWork
  <2>2. m = k
    BY <1>1, <2>1, OnlyOneAtWork
  <2>3. QED BY <1>4, <2>2
<1>5. ASSUME author[c] \in GameMasters PROVE k[1] \in GameMasters
  <2>1. marks[t] # None /\ marks[t].role = "GameMaster"
    BY <1>4, <1>5 DEF MovesAreMarked
  <2>2. marks[t] \in Mark /\ call[k].seq \in Nat
    BY <1>1, <2>1 DEF TypeOK, Call
  <2>3. QED BY <1>2, <2>1, <2>2, MarkStands DEF Held
<1>6. QED BY <1>1, <1>3, <1>5

\* So a Game Master's move stands, and no move is made twice.
LEMMA MovesStep ==
    ASSUME TypeOK, DrainsInOrder, SlotsSuffice, RequestsInOrder, OverlapsAreNoted, CheckStays,
           MovesAreMarked, RepeatsAreHeld, GameMasterStands, ResentMoveIsNotRepeated, Next
    PROVE  GameMasterStands' /\ ResentMoveIsNotRepeated'
<1>1. author' = author /\ attacks' = attacks
  BY WorldStep
<1> DEFINE Good(c, d) == (author[c] \in GameMasters => author[d] \in GameMasters) /\ c # d
<1>2. SUFFICES ASSUME NEW i \in DOMAIN log', NEW j \in DOMAIN log', i < j,
                      SettledThen(i), SettledThen(j), TokenOf[log'[i]] = TokenOf[log'[j]]
               PROVE  Good(log'[i], log'[j])
  <2>1. ASSUME NEW i \in DOMAIN log', NEW j \in DOMAIN log', SettledPair(i, j)'
        PROVE  i < j /\ SettledThen(i) /\ SettledThen(j) /\ TokenOf[log'[i]] = TokenOf[log'[j]]
    <3>1. log' \in Seq(Changes) /\ since' \in Nat
      BY ServerSteps, LenProperties DEF ServerTypes
    <3>2. i \in Int /\ j \in Int
      BY <3>1, LenProperties
    <3>3. QED BY <1>1, <2>1, <3>1, <3>2 DEF SettledPair, SettledThen
  <2>2. QED BY <1>1, <2>1 DEF GameMasterStands, ResentMoveIsNotRepeated
<1>3. ASSUME i \in DOMAIN log, j \in DOMAIN log, log'[i] = log[i], log'[j] = log[j], Settled(i), Settled(j)
      PROVE  Good(log'[i], log'[j])
  <2>1. SettledPair(i, j)
    BY <1>2, <1>3 DEF SettledPair, Settled
  <2>2. QED BY <1>3, <2>1 DEF GameMasterStands, ResentMoveIsNotRepeated
<1>4. CASE UNCHANGED serverVars
  BY <1>2, <1>3, <1>4 DEF serverVars, Settled, SettledThen
<1>5. CASE Restart
  <2>1. DOMAIN log' = 1 .. Len(log) /\ since' = Len(log) /\ Len(log) \in Nat
    BY <1>5, LenProperties DEF Restart, TypeOK
  <2>2. QED BY <1>2, <2>1 DEF SettledThen
<1>6. ASSUME NEW k \in Calls, Works(k) PROVE Good(log'[i], log'[j])
  <2>1. DOMAIN log = 1 .. Len(log) /\ Len(log) \in Nat
    BY LenProperties DEF TypeOK
  <2>2. CASE i \in DOMAIN log /\ log'[i] = log[i] /\ Settled(i)
    <3>1. CASE j \in DOMAIN log /\ log'[j] = log[j] /\ Settled(j)
      BY <1>3, <2>2, <3>1
    <3>2. CASE Writes(k) /\ log'[j] = Head(call[k].todo)
      BY <1>2, <2>2, <3>2, WrittenMove DEF Writes
    <3>3. QED BY <1>2, <1>6, <3>1, <3>2, SettledEntry
  <2>3. CASE i = Len(log) + 1 /\ log' = Append(log, Head(call[k].todo)) /\ Writes(k)
    <3>1. DOMAIN log' = 1 .. Len(log) + 1
      BY <2>3, HeadFacts, LogFacts DEF Writes, TypeOK
    <3>2. QED BY <1>2, <2>1, <2>3, <3>1
  <2>4. QED BY <1>2, <1>6, <2>2, <2>3, SettledEntry
<1>7. QED BY <1>4, <1>5, <1>6, ServerSteps

-----------------------------------------------------------------------------
(* The theorems *)

\* The invariant holds of a world nobody has edited yet.
LEMMA InitInvariant == Init => ReconcileInvariant
<1>1. SUFFICES ASSUME Init PROVE ReconcileInvariant
  OBVIOUS
<1>2. TypeOK
  <2>1. PageTypes
    BY <1>1, DrainTypes DEF Init, PageTypes, EditState
  <2>2. ServerTypes
    <3>1. log \in Seq(Changes) /\ since \in 0 .. Len(log)
      BY <1>1, EmptySeq DEF Init
    <3>2. call \in [Calls -> Call] /\ marks \in [Tokens -> Mark \cup {None}]
      BY <1>1, CallTypes DEF Init
    <3>3. next_seq \in Nat /\ overlap \subseteq Tokens
      BY <1>1 DEF Init
    <3>4. QED BY <3>1, <3>2, <3>3 DEF ServerTypes
  <2>3. WorldTypes
    <3>1. PICK x \in Casts : author = x.author /\ attacks = x.attacks /\ owner = x.owner
      BY <1>1 DEF Init
    <3>2. owner \in [Tokens -> Clients] /\ author \in [Changes -> Clients] /\ attacks \subseteq Changes
      BY <3>1, ReconcileAssumption
    <3>3. faults \in 0 .. MaxFaults
      BY <1>1, ReconcileAssumption DEF Init
    <3>4. gone \subseteq Tokens /\ paused \in BOOLEAN /\ removed \subseteq Clients
      BY <1>1 DEF Init
    <3>5. QED BY <3>2, <3>3, <3>4 DEF WorldTypes
  <2>4. QED BY <2>1, <2>2, <2>3, TypeParts
<1>3. /\ \A p \in Clients : drain[p].at = "idle" /\ drain[p].answer = {}
      /\ \A k \in Calls : call[k].at = "none" /\ call[k].out = {}
      /\ \A t \in Tokens : marks[t] = None
      /\ DOMAIN log = {} /\ faults = 0
  <2>1. DOMAIN log = {}
    BY <1>1, EmptySeq DEF Init
  <2>2. \A p \in Clients : drain[p].at = "idle" /\ drain[p].answer = {}
    BY <1>1, DrainTypes DEF Init
  <2>3. \A k \in Calls : call[k].at = "none" /\ call[k].out = {}
    BY <1>1, CallTypes DEF Init
  <2>4. QED BY <1>1, <2>1, <2>2, <2>3 DEF Init
<1>4. DrainsInOrder /\ AnswersAreHeard /\ RequestsInOrder /\ OutcomesAreTrue /\ OverlapsAreNoted
  BY <1>3 DEF DrainsInOrder, AnswersAreHeard, RequestsInOrder, OutcomesAreTrue, OverlapsAreNoted, AtWork
<1>5. NothingLost /\ AppliedIsTrue
  BY <1>1 DEF Init, NothingLost, AppliedIsTrue
<1>6. SlotsSuffice
  <2>1. ASSUME NEW p \in Clients PROVE Cardinality(Busy(p)) = 0
    <3>1. Busy(p) = {}
      BY <1>3 DEF Busy, Calls
    <3>2. QED BY <3>1, FS_EmptySet
  <2>2. QED BY <1>3, <2>1 DEF SlotsSuffice
<1>7. CheckStays /\ MovesAreMarked /\ RepeatsAreHeld
  BY <1>3 DEF CheckStays, MovesAreMarked, RepeatsAreHeld, AtWork
<1>8. GameMasterStands /\ ResentMoveIsNotRepeated
  BY <1>3 DEF GameMasterStands, ResentMoveIsNotRepeated
<1>9. QED BY <1>2, <1>4, <1>5, <1>6, <1>7, <1>8 DEF ReconcileInvariant

\* Every step keeps it.
LEMMA NextInvariant == ReconcileInvariant /\ [Next]_vars => ReconcileInvariant'
<1>1. SUFFICES ASSUME ReconcileInvariant, [Next]_vars PROVE ReconcileInvariant'
  OBVIOUS
<1>2. CASE Next
  <2>1. /\ TypeOK /\ DrainsInOrder /\ AnswersAreHeard /\ NothingLost /\ SlotsSuffice /\ RequestsInOrder
        /\ OutcomesAreTrue /\ AppliedIsTrue /\ OverlapsAreNoted /\ CheckStays /\ MovesAreMarked
        /\ RepeatsAreHeld /\ GameMasterStands /\ ResentMoveIsNotRepeated
    BY <1>1 DEF ReconcileInvariant
  <2>2. TypeOK'
    <3>1. PageTypes' /\ ServerTypes' /\ WorldTypes'
      BY <1>2, <2>1, PageTypeStep, ServerSteps, WorldStep
    <3>2. QED BY <3>1 DEF TypeOK, PageTypes, ServerTypes, WorldTypes
  <2>3. DrainsInOrder' /\ AnswersAreHeard' /\ NothingLost' /\ SlotsSuffice'
    BY <1>2, <2>1, DrainsInOrderStep, AnswersAreHeardStep, NothingLostStep, SlotsSufficeStep
  <2>4. RequestsInOrder' /\ OutcomesAreTrue' /\ AppliedIsTrue' /\ OverlapsAreNoted'
    BY <1>2, <2>1, RequestsInOrderStep, OutcomesAreTrueStep, AppliedIsTrueStep, OverlapsAreNotedStep
  <2>5. CheckStays' /\ MovesAreMarked' /\ RepeatsAreHeld'
    BY <1>2, <2>1, CheckStaysStep, MovesAreMarkedStep, RepeatsAreHeldStep
  <2>6. GameMasterStands' /\ ResentMoveIsNotRepeated'
    BY <1>2, <2>1, MovesStep
  <2>7. QED BY <2>2, <2>3, <2>4, <2>5, <2>6 DEF ReconcileInvariant
<1>3. CASE UNCHANGED vars
  <2>1. UNCHANGED <<offline, edit, outbox, drawn, drain, heard, call, next_seq, marks, log, since, overlap,
                    owner, gone, paused, removed, author, attacks, faults>>
    BY <1>3 DEF vars, pageVars, serverVars, worldVars
  <2>2. TypeOK' /\ DrainsInOrder' /\ AnswersAreHeard' /\ NothingLost'
    BY <1>1, <2>1 DEF ReconcileInvariant, TypeOK, DrainsInOrder, AnswersAreHeard, NothingLost, Stored
  <2>3. SlotsSuffice' /\ RequestsInOrder' /\ OutcomesAreTrue' /\ AppliedIsTrue' /\ OverlapsAreNoted'
    BY <1>1, <2>1 DEF ReconcileInvariant, SlotsSuffice, Busy, RequestsInOrder, AtWork, Mine,
                      OutcomesAreTrue, Done, AppliedIsTrue, OverlapsAreNoted, TokensOf
  <2>4. CheckStays' /\ MovesAreMarked' /\ RepeatsAreHeld'
    BY <1>1, <2>1 DEF ReconcileInvariant, CheckStays, MovesAreMarked, RepeatsAreHeld, Settled, Held, AtWork
  <2>5. GameMasterStands' /\ ResentMoveIsNotRepeated'
    BY <1>1, <2>1 DEF ReconcileInvariant, GameMasterStands, ResentMoveIsNotRepeated, SettledPair
  <2>6. QED BY <2>2, <2>3, <2>4, <2>5 DEF ReconcileInvariant
<1>4. QED BY <1>1, <1>2, <1>3

\* The inductive invariant holds throughout.
LEMMA Invariance == Spec => []ReconcileInvariant
BY InitInvariant, NextInvariant, PTL DEF Spec

\* Outboxes, drains, requests, marks and the log are always of their types;
\* in particular a page that is about to send has a place for its request, and
\* a drain never counts past MAX_DRAIN_PASSES.
THEOREM ReconcileTypeCorrect == Spec => []TypeOK
<1>1. ReconcileInvariant => TypeOK
  BY DEF ReconcileInvariant
<1>2. QED BY <1>1, Invariance, PTL

\* forget_resolved: no edit that was reported queued leaves the outbox before
\* the page was answered about it.
THEOREM NoQueuedEditIsLost == Spec => []NothingLost
<1>1. ReconcileInvariant => NothingLost
  BY DEF ReconcileInvariant
<1>2. QED BY <1>1, Invariance, PTL

\* apply_one: a page hears `applied` only of a change that was carried out, or
\* whose token was deleted.
THEOREM AppliedWasDone == Spec => []AppliedIsTrue
<1>1. ReconcileInvariant => AppliedIsTrue
  BY DEF ReconcileInvariant
<1>2. QED BY <1>1, Invariance, PTL

\* conflict::resolve with existing_mark and remember_mark: while one process of
\* the server runs, no player's replayed move lands on a Game Master's, on a
\* token that no two requests were at work on at once.
THEOREM GameMasterMovesStand == Spec => []GameMasterStands
<1>1. ReconcileInvariant => GameMasterStands
  BY DEF ReconcileInvariant
<1>2. QED BY <1>1, Invariance, PTL

\* A move that is sent again is not made again, on the same conditions.
THEOREM NoMoveIsMadeTwice == Spec => []ResentMoveIsNotRepeated
<1>1. ReconcileInvariant => ResentMoveIsNotRepeated
  BY DEF ReconcileInvariant
<1>2. QED BY <1>1, Invariance, PTL
=============================================================================
