-------------------------- MODULE PlayPauseProofs --------------------------
(***************************************************************************)
(* What PlayPause promises for every set of calls and moderation actions:  *)
(* its type invariant, the four safety invariants its run checks and that  *)
(* a decision is final.                                                    *)
(*                                                                         *)
(* The inductive invariant says which rows a call can have at each of its  *)
(* statements. Its argument rests on two facts about every step: the step  *)
(* is one call's, which touches no other call's rows, and a call that has  *)
(* ended takes no further step, so what the others have seen of it stays.  *)
(***************************************************************************)
EXTENDS PlayPause, TLAPS

-----------------------------------------------------------------------------
(* The inductive invariant *)

\* Each kind of call runs its own statements only.
OwnStatements ==
    \A c \in Calls :
        /\ at[c] = "check" => c \in Raisers
        /\ at[c] = "gather" => c \in Approvers
        /\ at[c] \in {"insert", "find", "attach"} => c \in Pausers \cup Raisers \cup Approvers
        /\ Open(c) => c \notin Lifters

\* Whose rows there are: a call's are there from the statement that writes them
\* until the call fails, and only what a call committed is lifted or decided.
RowsHaveWriters ==
    /\ \A p \in pauses : p \in Pausers \cup Approvers /\ at[p] \in {"commit", "done"}
    /\ \A p \in lifted : p \in pauses /\ at[p] = "done"
    /\ \A r \in requests : r \in Raisers /\ at[r] \notin {"new", "failed"}
    /\ \A r \in Calls : decider[r] # None =>
           /\ r \in requests /\ at[r] = "done"
           /\ at[decider[r]] \notin {"new", "failed"}
    /\ \A t \in triggers : at[t.by] \notin {"new", "failed"}
    /\ events = pauses

\* An approval is the decision of a request from its first statement on, and
\* goes on with that request until it finds a pause.
ApprovalHasRequest ==
    /\ \A c \in Approvers : Open(c) \/ c \in pauses =>
           \E r \in requests : decider[r] = c
    /\ \A r \in Calls : decider[r] \in Approvers
                        /\ at[decider[r]] \in {"gather", "insert", "find"} =>
           row[decider[r]] = r

\* A call that found a pause puts an operator's trigger on it, and an approval
\* ends with that or with a pause of its own.
ApprovalReachesPause ==
    \A c \in Pausers \cup Approvers :
        /\ at[c] = "attach" =>
               NoAction \in todo[c] \/ \E t \in triggers : t.by = c /\ t.on[1] = "pause"
        /\ at[c] \in {"commit", "done"} /\ (\E r \in Calls : decider[r] = c) =>
               c \in pauses \/ \E t \in triggers : t.by = c /\ t.on[1] = "pause"

\* What was lifted when a call began stays lifted, and what the call goes on to
\* attach to is not among it.
AttachesToTheCurrent ==
    \A c \in Calls :
        /\ before[c].lifted \subseteq lifted
        /\ at[c] = "attach" => row[c] \in Calls \ before[c].lifted

\* Some trigger for a is on what row[c] names, and no other call can undo it.
Stands(c, a) ==
    \E t \in triggers : t.action = a /\ t.on[2] = row[c] /\ (t.by = c \/ ~Open(t.by))

RaiseRecords ==
    \A c \in Raisers :
        /\ at[c] = "attach" => todo[c] = {ActionOf[c]}
        /\ at[c] \in {"commit", "done"} => Stands(c, ActionOf[c])

\* What was recorded when a call began is still there, its calls ended.
SeenStays ==
    \A c \in Calls : \A t \in before[c].triggers : t \in triggers /\ at[t.by] = "done"

\* As Stands, on the pause row[c] names.
Moved(c, a) ==
    \E u \in triggers : u.action = a /\ u.on = <<"pause", row[c]>> /\ (u.by = c \/ ~Open(u.by))

\* What an approval saw on its request is yet to be attached or stands on the
\* pause it goes on with.
GatheredStays ==
    \A r \in Calls : LET c == decider[r] IN
        c \in Approvers \ pauses =>
            \A t \in before[c].triggers : t.on = <<"request", r>> =>
                /\ at[c] \in {"insert", "find"} => t.action \in todo[c]
                /\ at[c] = "attach" => t.action \in todo[c] \/ Moved(c, t.action)
                /\ at[c] \in {"commit", "done"} => Moved(c, t.action)

PlayPauseInvariant ==
    /\ TypeOK
    /\ OwnStatements
    /\ RowsHaveWriters
    /\ ApprovalHasRequest
    /\ ApprovalReachesPause
    /\ AttachesToTheCurrent
    /\ NeverAnOldPause
    /\ RaiseRecords
    /\ SeenStays
    /\ GatheredStays

-----------------------------------------------------------------------------
(* Every step is one call's *)

\* The disjuncts of Next.
CallStep(c) ==
    \/ BeginPause(c) \/ BeginRaise(c) \/ Decide(c) \/ Lift(c)
    \/ Statement(c)
    \/ Fail(c)

\* What a step of the call c may change.
Touches(c) ==
    /\ at[c] \notin {"done", "failed"} /\ at'[c] # "new"
    /\ \A d \in Calls \ {c} :
           /\ at'[d] = at[d] /\ row'[d] = row[d]
           /\ todo'[d] = todo[d] /\ before'[d] = before[d]
    /\ at[c] # "new" => before'[c] = before[c]
    /\ \A d \in Calls \ {c} :
           /\ d \in pauses' <=> d \in pauses
           /\ d \in requests' <=> d \in requests
           /\ d \in events' <=> d \in events
    /\ \A t \in triggers : t.by # c => t \in triggers'
    /\ \A t \in triggers' : t.by # c => t \in triggers
    /\ lifted \subseteq lifted'
    /\ \A r \in Calls : \/ decider'[r] = decider[r]
                        \/ decider[r] = None /\ decider'[r] = c
                        \/ decider[r] = c /\ decider'[r] = None

\* Rolling a call back takes away what it wrote and nothing else.
LEMMA RollBackTouches ==
    ASSUME TypeOK, NEW c \in Calls, Open(c), RollBack(c) PROVE Touches(c)
BY DEF TypeOK, Open, RollBack, Goto, Touches

\* Nor does any other step of a call touch a row that another call wrote.
LEMMA StepTouches ==
    ASSUME TypeOK, NEW c \in Calls, CallStep(c) PROVE Touches(c)
<1> USE DEF TypeOK, Goto
<1>1. CASE BeginPause(c) \/ BeginRaise(c)
  BY <1>1 DEF BeginPause, BeginRaise, Begin, Remember, Touches, tables
<1>2. CASE Decide(c)
  BY <1>2 DEF Decide, Won, Remember, Touches
<1>3. CASE Lift(c)
  BY <1>3 DEF Lift, Touches
<1>4. CASE PauseInsert(c)
  BY <1>4 DEF PauseInsert, WithTrigger, Touches
<1>5. CASE PauseFind(c)
  BY <1>5, RollBackTouches DEF PauseFind, TryAgain, Open, Touches, tables
<1>6. CASE PauseAttach(c) \/ RaiseAttach(c)
  BY <1>6 DEF PauseAttach, RaiseAttach, AttachTo, WithTrigger, Touches
<1>7. CASE RaiseCheck(c)
  BY <1>7 DEF RaiseCheck, Touches, tables
<1>8. CASE RaiseInsert(c)
  BY <1>8 DEF RaiseInsert, Touches
<1>9. CASE RaiseFind(c)
  BY <1>9, RollBackTouches DEF RaiseFind, TryAgain, Open, Touches, tables
<1>10. CASE Gather(c) \/ Commit(c)
  BY <1>10 DEF Gather, Commit, Touches, tables
<1>11. CASE Fail(c)
  BY <1>11, RollBackTouches DEF Fail
<1>12. QED BY <1>1, <1>2, <1>3, <1>4, <1>5, <1>6, <1>7, <1>8, <1>9, <1>10, <1>11
             DEF CallStep, Statement

-----------------------------------------------------------------------------
(* The parts of the invariant, step by step *)

\* The initial state has them all.
LEMMA InitInvariant == Init => PlayPauseInvariant
BY PlayPauseAssumption
   DEF Init, PlayPauseInvariant, TypeOK, OwnStatements, RowsHaveWriters, ApprovalHasRequest,
       ApprovalReachesPause, AttachesToTheCurrent, NeverAnOldPause, RaiseRecords,
       SeenStays, GatheredStays, Open, Step, Deciders, Calls

\* Rolling back keeps the types: what is lifted was committed.
LEMMA RollBackType ==
    ASSUME TypeOK, RowsHaveWriters, NEW c \in Calls, Open(c), RollBack(c) PROVE TypeOK'
BY DEF TypeOK, RowsHaveWriters, Open, RollBack, Goto, Step

\* So does trying again.
LEMMA TryAgainType ==
    ASSUME TypeOK, RowsHaveWriters, NEW c \in Calls, at[c] = "find",
           NEW step \in Step, TryAgain(c, step)
    PROVE  TypeOK'
<1>1. CASE pass[c] = 0 BY <1>1 DEF TryAgain, TypeOK, Goto, tables
<1>2. CASE pass[c] # 0 BY <1>2, RollBackType DEF TryAgain, Open
<1>3. QED BY <1>1, <1>2

\* The triggers of a request or a pause name moderation actions, or none.
LEMMA ActionsOnType ==
    ASSUME TypeOK, NEW owner, NEW c PROVE ActionsOn(owner, c) \subseteq Actions \cup {NoAction}
<1>1. \A t \in triggers : t.action \in Actions \cup {NoAction}
  BY DEF TypeOK, Trigger
<1>2. QED BY <1>1 DEF ActionsOn

\* A call writes rows of their type.
LEMMA TypeStep ==
    ASSUME PlayPauseInvariant, NEW c \in Calls, CallStep(c) PROVE TypeOK'
<1>1. TypeOK /\ RowsHaveWriters /\ AttachesToTheCurrent
  BY DEF PlayPauseInvariant
<1>2. \A owner \in Owner, a \in Actions \cup {NoAction} : WithTrigger(c, owner, a) \in SUBSET Trigger
  BY <1>1 DEF TypeOK, WithTrigger, Trigger
<1>b. ActionsOn(<<"request", row[c]>>, c) \subseteq Actions \cup {NoAction}
  BY <1>1, ActionsOnType
<1> USE <1>1 DEF TypeOK, Goto, Step
<1>a. Remember(c) =>
          before' \in [Calls -> [lifted : SUBSET Calls, triggers : SUBSET Trigger]]
  <2>1. lifted \in SUBSET Calls /\ {t \in triggers : ~Open(t.by)} \in SUBSET Trigger
    OBVIOUS
  <2>2. QED BY <2>1 DEF Remember
<1>3. CASE BeginPause(c) \/ BeginRaise(c)
  BY <1>3, <1>a DEF BeginPause, BeginRaise, Begin, tables
<1>4. CASE Decide(c)
  <2>1. PICK r \in VisibleRequests(c) :
            /\ decider[r] # None => Sees(c, decider[r])
            /\ row' = [row EXCEPT ![c] = r]
            /\ \/ decider[r] = None /\ Won(c, r)
               \/ decider[r] # None /\ Goto(c, "done") /\ UNCHANGED decider
    BY <1>4, Zenon DEF Decide
  <2>2. r \in Calls BY DEF VisibleRequests
  <2>3. at' \in [Calls -> Step] /\ row' \in [Calls -> Calls \cup {None}]
    BY <2>1, <2>2 DEF Won
  <2>4. decider' \in [Calls -> Deciders \cup {None}]
    BY <1>4, <2>1, <2>2 DEF Won, Decide
  <2>5. QED BY <1>4, <1>a, <2>3, <2>4 DEF Decide
<1>5. CASE Lift(c)
  BY <1>5 DEF Lift
<1>6. CASE PauseInsert(c)
  <2>1. WithTrigger(c, <<"pause", c>>, NoAction) \in SUBSET Trigger
    BY <1>2 DEF Owner
  <2>2. triggers' \in SUBSET Trigger
    BY <1>6, <2>1 DEF PauseInsert
  <2>3. at' \in [Calls -> Step] /\ todo' \in [Calls -> SUBSET (Actions \cup {NoAction})]
    BY <1>6 DEF PauseInsert
  <2>4. pauses' \in SUBSET Calls /\ pauses \subseteq pauses' /\ events' \in SUBSET Calls
    BY <1>6 DEF PauseInsert
  <2>5. QED BY <1>6, <2>2, <2>3, <2>4 DEF PauseInsert
<1>7. CASE PauseFind(c)
  <2>1. CASE \E p \in ActivePause(c) :
                 /\ Goto(c, "attach")
                 /\ row' = [row EXCEPT ![c] = p]
                 /\ todo' = [todo EXCEPT ![c] = @ \cup {NoAction}]
                 /\ UNCHANGED <<pass, before, tables>>
    <3>1. PICK p \in Calls : row' = [row EXCEPT ![c] = p]
      BY <2>1 DEF ActivePause
    <3>2. row' \in [Calls -> Calls \cup {None}]
      BY <3>1
    <3>3. todo' \in [Calls -> SUBSET (Actions \cup {NoAction})]
      BY <2>1
    <3>4. QED BY <2>1, <3>2, <3>3 DEF tables
  <2>2. CASE TryAgain(c, "insert")
    BY <1>7, <2>2, TryAgainType DEF PauseFind
  <2>3. QED BY <1>7, <2>1, <2>2 DEF PauseFind
<1>8. CASE PauseAttach(c) \/ RaiseAttach(c)
  <2>1. row[c] \in Calls /\ todo[c] \subseteq Actions \cup {NoAction}
    BY <1>8 DEF PauseAttach, RaiseAttach, AttachTo, AttachesToTheCurrent
  <2>2. PICK owner \in Owner : AttachTo(c, owner)
    BY <1>8, <2>1 DEF PauseAttach, RaiseAttach, Owner
  <2>3. PICK a \in todo[c] : /\ triggers' = WithTrigger(c, owner, a)
                             /\ todo' = [todo EXCEPT ![c] = @ \ {a}]
                             /\ Goto(c, IF todo'[c] = {} THEN "commit" ELSE "attach")
    BY <2>2 DEF AttachTo
  <2>4. triggers' \in SUBSET Trigger
    BY <2>1, <2>2, <2>3, <1>2
  <2>5. at' \in [Calls -> Step] /\ todo' \in [Calls -> SUBSET (Actions \cup {NoAction})]
    BY <2>3
  <2>6. QED BY <2>2, <2>4, <2>5 DEF AttachTo
<1>9. CASE RaiseCheck(c) \/ RaiseFind(c)
  <2>1. c \in Raisers /\ ActionOf[c] \in Actions
    BY <1>9, PlayPauseAssumption DEF RaiseCheck, RaiseFind
  <2>2. CASE \E q \in Calls :
                 /\ Goto(c, "attach")
                 /\ row' = [row EXCEPT ![c] = q]
                 /\ todo' = [todo EXCEPT ![c] = {ActionOf[c]}]
                 /\ UNCHANGED <<pass, before, tables>>
    <3>1. row' \in [Calls -> Calls \cup {None}]
      BY <2>2
    <3>2. todo' \in [Calls -> SUBSET (Actions \cup {NoAction})]
      BY <2>1, <2>2
    <3>3. QED BY <2>2, <3>1, <3>2 DEF tables
  <2>3. CASE Goto(c, "insert") /\ UNCHANGED <<pass, row, todo, before, tables>>
    BY <2>3 DEF tables
  <2>4. CASE at[c] = "find" /\ TryAgain(c, "check")
    BY <2>4, TryAgainType
  <2>5. ActivePause(c) \subseteq Calls /\ PendingRequest(c) \subseteq Calls
    BY DEF ActivePause, PendingRequest, VisibleRequests
  <2>6. QED BY <1>9, <2>2, <2>3, <2>4, <2>5 DEF RaiseCheck, RaiseFind
<1>10. CASE RaiseInsert(c)
  BY <1>10 DEF RaiseInsert
<1>12. CASE Gather(c)
  BY <1>12, <1>b DEF Gather, tables
<1>13. CASE Commit(c)
  BY <1>13 DEF Commit, tables
<1>14. CASE Fail(c)
  BY <1>14, RollBackType DEF Fail
<1>15. QED BY <1>3, <1>4, <1>5, <1>6, <1>7, <1>8, <1>9, <1>10, <1>12, <1>13, <1>14
             DEF CallStep, Statement

\* A call goes on to a statement of its own kind.
LEMMA OwnStatementsStep ==
    ASSUME PlayPauseInvariant, NEW c \in Calls, CallStep(c) PROVE OwnStatements'
<1>1. TypeOK /\ OwnStatements /\ Touches(c)
  BY StepTouches DEF PlayPauseInvariant
<1>2. SUFFICES /\ at'[c] = "check" => c \in Raisers
               /\ at'[c] = "gather" => c \in Approvers
               /\ at'[c] \in {"insert", "find", "attach"} =>
                      c \in Pausers \cup Raisers \cup Approvers
               /\ at'[c] \notin {"new", "done", "failed"} => c \notin Lifters
  BY <1>1 DEF OwnStatements, Touches, Open
<1> USE <1>1, PlayPauseAssumption DEF TypeOK, Goto, OwnStatements, Open, Deciders
<1>3. CASE BeginPause(c) \/ BeginRaise(c)
  BY <1>3 DEF BeginPause, BeginRaise, Begin
<1>4. CASE Decide(c) \/ Lift(c)
  BY <1>4 DEF Decide, Won, Lift
<1>5. CASE PauseInsert(c) \/ PauseFind(c) \/ PauseAttach(c)
  BY <1>5 DEF PauseInsert, PauseFind, TryAgain, RollBack, PauseAttach, AttachTo
<1>6. CASE RaiseCheck(c) \/ RaiseInsert(c) \/ RaiseFind(c) \/ RaiseAttach(c)
  BY <1>6 DEF RaiseCheck, RaiseInsert, RaiseFind, TryAgain, RollBack, RaiseAttach, AttachTo
<1>7. CASE Gather(c) \/ Commit(c) \/ Fail(c)
  BY <1>7 DEF Gather, Commit, Fail, RollBack
<1>8. QED BY <1>3, <1>4, <1>5, <1>6, <1>7 DEF CallStep, Statement

\* A call that is rolled back has no rows.
LEMMA RollBackClears ==
    ASSUME TypeOK, NEW c \in Calls, RollBack(c)
    PROVE  /\ c \notin pauses' /\ c \notin requests' /\ c \notin events' /\ lifted' = lifted
           /\ at'[c] = "failed"
           /\ \A r \in Calls : decider'[r] # c
           /\ \A t \in triggers' : t.by # c
BY PlayPauseAssumption DEF TypeOK, RollBack, Goto

\* A call writes each row at the statement that is for it, and Lift and Decide
\* find only what is committed.
LEMMA RowsStep ==
    ASSUME PlayPauseInvariant, NEW c \in Calls, CallStep(c) PROVE RowsHaveWriters'
<1>1. TypeOK /\ OwnStatements /\ RowsHaveWriters /\ Touches(c) /\ TypeOK'
  BY StepTouches, TypeStep DEF PlayPauseInvariant
<1> DEFINE OwnRows ==
        /\ c \in pauses' => c \in Pausers \cup Approvers /\ at'[c] \in {"commit", "done"}
        /\ c \in requests' => c \in Raisers /\ at'[c] # "failed"
        /\ c \in events' <=> c \in pauses'
        /\ \A p \in lifted' : p \in lifted \/ (p \in pauses /\ at[p] = "done")
        /\ \A r \in Calls : decider'[r] = c =>
               /\ at'[c] # "failed"
               /\ decider[r] # c => r \in requests /\ at[r] = "done"
        /\ (\E t \in triggers' : t.by = c) => at'[c] # "failed"
<1>2. SUFFICES OwnRows
  <2>1. ASSUME OwnRows PROVE RowsHaveWriters'
    <3>1. /\ at'[c] # "new" /\ at[c] # "done"
          /\ \A d \in Calls : d # c => at'[d] = at[d]
      BY <1>1 DEF Touches
    <3>2. \A p \in pauses' : p \in Pausers \cup Approvers /\ at'[p] \in {"commit", "done"}
      BY <2>1, <3>1, <1>1 DEF Touches, RowsHaveWriters, TypeOK
    <3>3. \A p \in lifted' : p \in pauses' /\ at'[p] = "done"
      BY <2>1, <3>1, <1>1 DEF RowsHaveWriters, Touches, TypeOK
    <3>4. \A r \in requests' : r \in Raisers /\ at'[r] \notin {"new", "failed"}
      BY <2>1, <3>1, <1>1 DEF Touches, RowsHaveWriters, TypeOK
    <3>5. ASSUME NEW r \in Calls, decider'[r] # None
          PROVE  /\ r \in requests' /\ at'[r] = "done"
                 /\ at'[decider'[r]] \notin {"new", "failed"}
      <4>1. r \in requests /\ at[r] = "done" /\ r # c
        <5>1. CASE decider'[r] = decider[r] BY <5>1, <3>5, <3>1, <1>1 DEF RowsHaveWriters
        <5>2. CASE decider'[r] = c /\ decider[r] # c BY <5>2, <2>1, <3>1
        <5>3. QED BY <5>1, <5>2, <3>5, <1>1 DEF Touches
      <4>2. r \in requests' /\ at'[r] = "done"
        BY <4>1, <3>1, <1>1 DEF Touches
      <4>3. CASE decider'[r] = c BY <4>3, <4>2, <2>1, <3>1
      <4>4. CASE decider'[r] # c
        <5>1. decider'[r] = decider[r] /\ decider[r] \in Calls
          BY <4>4, <3>5, <1>1 DEF Touches, TypeOK, Calls
        <5>2. QED BY <5>1, <4>4, <4>2, <3>5, <3>1, <1>1 DEF RowsHaveWriters
      <4>5. QED BY <4>3, <4>4
    <3>6. \A t \in triggers' : at'[t.by] \notin {"new", "failed"}
      <4>1. ASSUME NEW t \in triggers' PROVE at'[t.by] \notin {"new", "failed"}
        <5>1. CASE t.by = c BY <5>1, <2>1, <3>1
        <5>2. CASE t.by # c
          <6>1. t \in triggers /\ t.by \in Calls
            BY <5>2, <1>1 DEF Touches, TypeOK, Trigger
          <6>2. QED BY <6>1, <5>2, <3>1, <1>1 DEF RowsHaveWriters
        <5>3. QED BY <5>1, <5>2
      <4>2. QED BY <4>1
    <3>7. events' = pauses'
      <4>1. \A d \in Calls : d \in events' <=> d \in pauses'
        BY <2>1, <1>1 DEF Touches, RowsHaveWriters
      <4>2. events' \subseteq Calls /\ pauses' \subseteq Calls
        BY <1>1 DEF TypeOK
      <4>3. QED BY <4>1, <4>2
    <3>8. QED BY <3>2, <3>3, <3>4, <3>5, <3>6, <3>7 DEF RowsHaveWriters
  <2>2. QED BY <2>1
<1>3. CASE at[c] = "new"
  <2>1. /\ c \notin pauses /\ c \notin requests /\ c \notin events
        /\ \A r \in Calls : decider[r] # c
        /\ \A t \in triggers : t.by # c
    BY <1>3, <1>1, PlayPauseAssumption DEF RowsHaveWriters
  <2>2. CASE BeginPause(c) \/ BeginRaise(c)
    BY <2>1, <2>2 DEF BeginPause, BeginRaise, Begin, tables
  <2>3. CASE Decide(c)
    <3>1. PICK r \in VisibleRequests(c) :
              /\ decider[r] # None => Sees(c, decider[r])
              /\ row' = [row EXCEPT ![c] = r]
              /\ \/ decider[r] = None /\ Won(c, r)
                 \/ decider[r] # None /\ Goto(c, "done") /\ UNCHANGED decider
      BY <2>3, Zenon DEF Decide
    <3>2. r \in requests /\ at[r] = "done" /\ r \in Calls
      BY <3>1, <2>1, <1>1 DEF VisibleRequests, Sees, Open, RowsHaveWriters, TypeOK
    <3>3. at'[c] # "failed"
      BY <3>1, <1>1 DEF Won, Goto, TypeOK
    <3>4. \A q \in Calls : decider'[q] = c => q = r
      BY <3>1, <3>2, <2>1, <1>1 DEF Won, TypeOK
    <3>5. UNCHANGED <<pauses, lifted, requests, triggers, events>>
      BY <2>3 DEF Decide
    <3>6. QED BY <2>1, <3>2, <3>3, <3>4, <3>5
  <2>4. CASE Lift(c)
    <3>1. \A p \in pauses : Sees(c, p) => at[p] = "done"
      BY <2>1, <1>1 DEF Sees, Open, RowsHaveWriters
    <3>2. UNCHANGED <<pauses, requests, decider, triggers, events>>
      BY <2>4 DEF Lift
    <3>3. \A p \in lifted' : p \in lifted \/ (p \in pauses /\ at[p] = "done")
      BY <2>4, <3>1 DEF Lift
    <3>4. QED BY <2>1, <3>2, <3>3
  <2>5. QED BY <1>3, <2>2, <2>3, <2>4
              DEF CallStep, Statement, PauseInsert, PauseFind, PauseAttach, AttachTo, RaiseCheck,
                  RaiseInsert, RaiseFind, RaiseAttach, Gather, Commit, Fail, Open
<1>4. CASE Open(c) /\ RollBack(c)
  <2>1. /\ c \notin pauses' /\ c \notin requests' /\ c \notin events' /\ lifted' = lifted
        /\ \A r \in Calls : decider'[r] # c
        /\ \A t \in triggers' : t.by # c
    BY <1>4, <1>1, RollBackClears
  <2>2. QED BY <2>1
<1>5. CASE PauseInsert(c)
  <2>1. c \in Pausers \cup Approvers /\ c \notin Raisers /\ c \notin pauses /\ at'[c] # "failed"
    BY <1>5, <1>1, PlayPauseAssumption
       DEF PauseInsert, Goto, TypeOK, RowsHaveWriters, Deciders
  <2>2. QED BY <2>1, <1>5, <1>1 DEF PauseInsert, Goto, TypeOK, RowsHaveWriters
<1>6. CASE at[c] \in {"find", "check", "gather", "attach"} /\ at'[c] # "failed"
           /\ UNCHANGED <<pauses, lifted, requests, decider, events>>
  BY <1>6, <1>1 DEF RowsHaveWriters
<1>7. CASE RaiseInsert(c)
  <2>1. c \notin pauses /\ c \notin events
    BY <1>7, <1>1 DEF RaiseInsert, RowsHaveWriters
  <2>2. /\ c \in Raisers /\ at'[c] = "find"
        /\ UNCHANGED <<pauses, lifted, decider, triggers, events>>
    BY <1>7, <1>1 DEF RaiseInsert, Goto, TypeOK
  <2>3. QED BY <2>1, <2>2
<1>8. CASE Commit(c)
  BY <1>8, <1>1 DEF Commit, Goto, TypeOK, RowsHaveWriters, tables
<1>9. ASSUME NEW owner, AttachTo(c, owner) PROVE OwnRows
  <2>1. at[c] = "attach" /\ at'[c] # "failed"
    BY <1>9, <1>1 DEF AttachTo, Goto, TypeOK
  <2>2. QED BY <2>1, <1>6, <1>9 DEF AttachTo
<1>10. CASE PauseFind(c) \/ RaiseFind(c)
  BY <1>10, <1>4, <1>6, <1>1 DEF PauseFind, RaiseFind, TryAgain, Open, Goto, TypeOK, tables
<1>11. CASE RaiseCheck(c) \/ Gather(c)
  BY <1>11, <1>6, <1>1 DEF RaiseCheck, Gather, Goto, TypeOK, tables
<1>12. QED BY <1>3, <1>4, <1>5, <1>7, <1>8, <1>9, <1>10, <1>11
             DEF CallStep, Statement, BeginPause, BeginRaise, Begin, Decide, Lift,
                 PauseAttach, RaiseAttach, Fail

\* A statement of a call that has begun either rolls it back, or takes nothing
\* away and decides nothing.
LEMMA StatementKeeps ==
    ASSUME TypeOK, NEW c \in Calls, CallStep(c), Open(c)
    PROVE  \/ RollBack(c)
           \/ /\ at'[c] # "failed" /\ decider' = decider /\ lifted' = lifted
              /\ requests \subseteq requests' /\ triggers \subseteq triggers'
              /\ pauses \subseteq pauses'
<1> USE DEF TypeOK, Goto, Open
<1>1. CASE BeginPause(c) \/ BeginRaise(c) \/ Decide(c) \/ Lift(c)
  BY <1>1 DEF BeginPause, BeginRaise, Begin, Decide, Lift
<1>2. CASE PauseInsert(c)
  BY <1>2 DEF PauseInsert, WithTrigger
<1>3. CASE PauseFind(c) \/ RaiseFind(c)
  BY <1>3 DEF PauseFind, RaiseFind, TryAgain, tables
<1>4. CASE PauseAttach(c) \/ RaiseAttach(c)
  BY <1>4 DEF PauseAttach, RaiseAttach, AttachTo, WithTrigger
<1>5. CASE RaiseCheck(c) \/ RaiseInsert(c) \/ Gather(c) \/ Commit(c)
  BY <1>5 DEF RaiseCheck, RaiseInsert, Gather, Commit, tables
<1>6. CASE Fail(c)
  BY <1>6 DEF Fail
<1>7. QED BY <1>1, <1>2, <1>3, <1>4, <1>5, <1>6 DEF CallStep, Statement

\* What a decision does: it takes over a committed request nobody had decided,
\* or changes nothing but its own control.
LEMMA DecideFacts ==
    ASSUME TypeOK, RowsHaveWriters, NEW c \in Calls, Decide(c)
    PROVE  \E r \in requests :
               /\ at[r] = "done" /\ row'[c] = r
               /\ \/ /\ decider[r] = None /\ decider' = [decider EXCEPT ![r] = c]
                     /\ at'[c] = (IF c \in Approvers THEN "gather" ELSE "commit")
                  \/ decider[r] # None /\ at'[c] = "done" /\ decider' = decider
<1>1. PICK r \in VisibleRequests(c) :
          /\ decider[r] # None => Sees(c, decider[r])
          /\ row' = [row EXCEPT ![c] = r]
          /\ \/ decider[r] = None /\ Won(c, r)
             \/ decider[r] # None /\ Goto(c, "done") /\ UNCHANGED decider
  BY Zenon DEF Decide
<1>2. at[c] = "new" /\ c \notin requests
  BY DEF Decide, RowsHaveWriters
<1>3. r \in requests /\ at[r] = "done"
  BY <1>1, <1>2 DEF VisibleRequests, Sees, Open, RowsHaveWriters
<1>4. QED BY <1>1, <1>3 DEF Won, Goto, TypeOK

\* A call that begins is of its kind, and the only approvals that begin are
\* decisions.
LEMMA NewCalls ==
    ASSUME NEW c \in Calls, CallStep(c), at[c] = "new"
    PROVE  \/ BeginPause(c) \/ BeginRaise(c) \/ Decide(c) \/ Lift(c)
BY DEF CallStep, Statement, PauseInsert, PauseFind, PauseAttach, AttachTo, RaiseCheck,
       RaiseInsert, RaiseFind, RaiseAttach, Gather, Commit, Fail, Open

\* An approval keeps its request: it is committed, so nobody takes it away, and
\* decided, so nobody decides it again.
LEMMA ApprovalStep ==
    ASSUME PlayPauseInvariant, NEW c \in Calls, CallStep(c) PROVE ApprovalHasRequest'
<1>1. /\ TypeOK /\ RowsHaveWriters /\ ApprovalHasRequest /\ Touches(c)
      /\ TypeOK' /\ RowsHaveWriters' /\ OwnStatements'
  BY StepTouches, TypeStep, RowsStep, OwnStatementsStep DEF PlayPauseInvariant
<1>2. ASSUME NEW a \in Approvers, at'[a] \notin {"new", "done", "failed"} \/ a \in pauses'
      PROVE  \E r \in requests' : decider'[r] = a
  <2>1. a \in Calls /\ a # None
    BY PlayPauseAssumption DEF Calls, Deciders
  <2>2. CASE a # c
    <3>1. Open(a) \/ a \in pauses
      BY <1>2, <2>1, <2>2, <1>1 DEF Touches, Open
    <3>2. PICK r \in requests : decider[r] = a
      BY <3>1, <1>1 DEF ApprovalHasRequest
    <3>3. r \in Calls /\ at[r] = "done"
      BY <3>2, <2>1, <1>1 DEF RowsHaveWriters, TypeOK
    <3>4. QED BY <3>2, <3>3, <2>1, <2>2, <1>1 DEF Touches
  <2>3. CASE a = c /\ at[c] = "new"
    <3>1. Decide(c)
      BY <2>3, <1>1, <1>2, NewCalls, PlayPauseAssumption
         DEF BeginPause, BeginRaise, Lift, Deciders
    <3>2. PICK r \in requests :
               /\ at[r] = "done" /\ row'[c] = r
               /\ \/ /\ decider[r] = None /\ decider' = [decider EXCEPT ![r] = c]
                     /\ at'[c] = (IF c \in Approvers THEN "gather" ELSE "commit")
                  \/ decider[r] # None /\ at'[c] = "done" /\ decider' = decider
      BY <3>1, <1>1, DecideFacts
    <3>3. c \notin pauses' /\ requests' = requests
      BY <3>1, <1>1 DEF Decide, RowsHaveWriters
    <3>4. QED BY <3>2, <3>3, <2>3, <1>2, <1>1 DEF TypeOK
  <2>4. CASE a = c /\ at[c] # "new"
    <3>1. Open(c)
      BY <2>4, <1>1 DEF Touches, Open
    <3>2. ~RollBack(c)
      BY <2>4, <1>2, <1>1, RollBackClears
    <3>3. decider' = decider /\ requests \subseteq requests'
      BY <3>1, <3>2, <1>1, StatementKeeps
    <3>4. QED BY <3>1, <3>3, <2>4, <1>1 DEF ApprovalHasRequest
  <2>5. QED BY <2>2, <2>3, <2>4
<1>3. ASSUME NEW r \in Calls, decider'[r] \in Approvers,
             at'[decider'[r]] \in {"gather", "insert", "find"}
      PROVE  row'[decider'[r]] = r
  <2>1. decider'[r] \in Calls /\ decider'[r] # None
    BY <1>3, PlayPauseAssumption DEF Calls, Deciders
  <2>2. CASE decider'[r] # c
    <3>1. decider'[r] = decider[r]
      BY <2>1, <2>2, <1>1 DEF Touches
    <3>2. QED BY <3>1, <2>1, <2>2, <1>1, <1>3 DEF Touches, ApprovalHasRequest
  <2>3. CASE decider'[r] = c /\ at[c] = "new"
    <3>1. Decide(c)
      BY <2>3, <1>1, <1>3, NewCalls, PlayPauseAssumption
         DEF BeginPause, BeginRaise, Lift, Deciders
    <3>2. PICK q \in requests :
               /\ at[q] = "done" /\ row'[c] = q
               /\ \/ /\ decider[q] = None /\ decider' = [decider EXCEPT ![q] = c]
                     /\ at'[c] = (IF c \in Approvers THEN "gather" ELSE "commit")
                  \/ decider[q] # None /\ at'[c] = "done" /\ decider' = decider
      BY <3>1, <1>1, DecideFacts
    <3>3. decider[r] # c
      BY <2>1, <2>3, <1>1 DEF RowsHaveWriters
    <3>4. QED BY <3>2, <3>3, <2>3, <1>1 DEF TypeOK
  <2>4. CASE decider'[r] = c /\ at[c] # "new"
    <3>1. Open(c)
      BY <2>4, <1>1 DEF Touches, Open
    <3>2. ~RollBack(c)
      BY <2>4, <1>1, RollBackClears
    <3>3. decider' = decider
      BY <3>1, <3>2, <1>1, StatementKeeps
    <3>4. c \notin Pausers /\ c \notin Raisers
      BY <1>3, <2>4, PlayPauseAssumption DEF Deciders
    <3>5. at[c] \in {"gather", "insert", "find"} /\ row'[c] = row[c]
      BY <3>1, <3>2, <3>4, <2>4, <1>3, <1>1
         DEF CallStep, BeginPause, BeginRaise, Begin, Decide, Lift, Statement, PauseInsert, PauseFind,
             TryAgain, PauseAttach, AttachTo, RaiseCheck, RaiseInsert, RaiseFind, RaiseAttach,
             Gather, Commit, Fail, Goto, TypeOK, Open
    <3>6. QED BY <3>3, <3>5, <2>4, <1>3, <1>1 DEF ApprovalHasRequest
  <2>5. QED BY <2>2, <2>3, <2>4
<1>4. QED BY <1>2, <1>3 DEF ApprovalHasRequest, Open

\* Attaching leaves the trigger on its owner, written by the call itself or by
\* one that has ended; an operator's trigger is always the call's own.
LEMMA AttachFacts ==
    ASSUME TypeOK, RowsHaveWriters, NEW c \in Calls, NEW owner, AttachTo(c, owner)
    PROVE  \E a \in todo[c] :
               /\ todo'[c] = todo[c] \ {a} /\ triggers \subseteq triggers'
               /\ at'[c] = IF todo'[c] = {} THEN "commit" ELSE "attach"
               /\ \A t \in triggers' : t \in triggers \/ (t.on = owner /\ t.by = c)
               /\ \E t \in triggers' : t.action = a /\ t.on = owner /\ (t.by = c \/ ~Open(t.by))
               /\ a = NoAction => \E t \in triggers' : t.by = c /\ t.on = owner
<1>1. PICK a \in todo[c] :
          /\ ~TriggerBusy(c, owner, a)
          /\ triggers' = WithTrigger(c, owner, a)
          /\ todo' = [todo EXCEPT ![c] = @ \ {a}]
          /\ Goto(c, IF todo'[c] = {} THEN "commit" ELSE "attach")
  BY Zenon DEF AttachTo
<1> DEFINE new == [on |-> owner, action |-> a, by |-> c]
<1>2. new.on = owner /\ new.action = a /\ new.by = c
  OBVIOUS
<1>3. CASE \E t \in triggers : SameTrigger(t, owner, a)
  <2>1. PICK t \in triggers : SameTrigger(t, owner, a)
    BY <1>3
  <2>2. a # NoAction /\ t.action = a /\ t.on = owner /\ (t.by = c \/ ~Open(t.by))
    BY <2>1, <1>1 DEF TriggerBusy, SameTrigger, Sees
  <2>3. triggers' = triggers
    BY <1>1, <1>3 DEF WithTrigger
  <2>4. QED BY <2>1, <2>2, <2>3, <1>1 DEF Goto, TypeOK
<1>4. CASE ~\E t \in triggers : SameTrigger(t, owner, a)
  <2>1. triggers' = triggers \cup {new}
    BY <1>1, <1>4 DEF WithTrigger
  <2> HIDE DEF new
  <2>2. QED BY <2>1, <1>2, <1>1 DEF Goto, TypeOK
<1>5. QED BY <1>3, <1>4

\* An approval that ends has a pause of its own or a trigger on another's.
LEMMA ReachesPauseStep ==
    ASSUME PlayPauseInvariant, NEW c \in Calls, CallStep(c) PROVE ApprovalReachesPause'
<1>1. /\ TypeOK /\ RowsHaveWriters /\ ApprovalReachesPause /\ Touches(c)
      /\ TypeOK' /\ RowsHaveWriters'
  BY StepTouches, TypeStep, RowsStep DEF PlayPauseInvariant
<1> DEFINE HasTrigger(d) == \E t \in triggers : t.by = d /\ t.on[1] = "pause"
           HasTriggerNext(d) == \E t \in triggers' : t.by = d /\ t.on[1] = "pause"
           Reaches(d) ==
               /\ at'[d] = "attach" => NoAction \in todo'[d] \/ HasTriggerNext(d)
               /\ at'[d] \in {"commit", "done"} /\ (\E r \in Calls : decider'[r] = d) =>
                      d \in pauses' \/ HasTriggerNext(d)
<1>2. SUFFICES ASSUME NEW d \in Pausers \cup Approvers PROVE Reaches(d)
  BY DEF ApprovalReachesPause
<1>3. d \in Calls /\ d # None
  BY PlayPauseAssumption DEF Calls, Deciders
<1>4. CASE d # c
  <2>1. /\ at'[d] = at[d] /\ todo'[d] = todo[d] /\ (d \in pauses => d \in pauses')
        /\ \A r \in Calls : decider'[r] = d => decider[r] = d
        /\ HasTrigger(d) => HasTriggerNext(d)
    BY <1>3, <1>4, <1>1 DEF Touches
  <2>2. QED BY <2>1, <1>1 DEF ApprovalReachesPause
<1>5. CASE d = c /\ at[c] = "new"
  <2>1. BeginPause(c) \/ Decide(c)
    BY <1>5, NewCalls, PlayPauseAssumption DEF BeginRaise, Lift, Deciders
  <2>2. CASE BeginPause(c)
    BY <2>2, <1>5, <1>1 DEF BeginPause, Begin, Goto, TypeOK
  <2>3. CASE Decide(c)
    <3>1. PICK q \in requests :
               /\ at[q] = "done" /\ row'[c] = q
               /\ \/ /\ decider[q] = None /\ decider' = [decider EXCEPT ![q] = c]
                     /\ at'[c] = (IF c \in Approvers THEN "gather" ELSE "commit")
                  \/ decider[q] # None /\ at'[c] = "done" /\ decider' = decider
      BY <2>3, <1>1, DecideFacts
    <3>2. \A r \in Calls : decider[r] # c
      BY <1>3, <1>5, <1>1 DEF RowsHaveWriters
    <3>3. c \in Approvers
      BY <2>3, <1>5, PlayPauseAssumption DEF Decide, Deciders
    <3>4. QED BY <3>1, <3>2, <3>3, <1>5
  <2>4. QED BY <2>1, <2>2, <2>3
<1>6. CASE d = c /\ RollBack(c)
  BY <1>6, <1>1, RollBackClears
<1>7. CASE d = c /\ at[c] # "new" /\ ~RollBack(c)
  <2>1. Open(c)
    BY <1>7, <1>1 DEF Touches, Open
  <2>2. /\ decider' = decider /\ pauses \subseteq pauses'
        /\ HasTrigger(c) => HasTriggerNext(c)
    BY <1>7, <2>1, <1>1, StatementKeeps
  <2>3. CASE PauseInsert(c)
    BY <1>7, <2>3, <1>1 DEF PauseInsert, Goto, TypeOK
  <2>4. CASE PauseFind(c)
    BY <1>7, <2>4, <1>1 DEF PauseFind, TryAgain, Goto, TypeOK
  <2>5. CASE PauseAttach(c)
    <3>1. at[c] = "attach" /\ AttachTo(c, <<"pause", row[c]>>)
      BY <2>5 DEF PauseAttach, AttachTo
    <3>2. PICK a \in todo[c] :
              /\ todo'[c] = todo[c] \ {a} /\ triggers \subseteq triggers'
              /\ at'[c] = IF todo'[c] = {} THEN "commit" ELSE "attach"
              /\ a = NoAction => \E t \in triggers' : t.by = c /\ t.on = <<"pause", row[c]>>
      BY <3>1, <1>1, AttachFacts
    <3>3. a = NoAction => HasTriggerNext(c)
      BY <3>2
    <3>4. NoAction \in todo'[c] \/ HasTriggerNext(c)
      BY <3>1, <3>2, <3>3, <2>2, <1>7, <1>1 DEF ApprovalReachesPause
    <3>5. QED BY <3>2, <3>4, <1>7
  <2>6. CASE Gather(c)
    BY <1>7, <2>6, <1>1 DEF Gather, Goto, TypeOK
  <2>7. CASE Commit(c)
    BY <1>7, <2>7, <2>2, <1>1 DEF Commit, Goto, TypeOK, ApprovalReachesPause
  <2>8. QED BY <1>7, <2>1, <2>3, <2>4, <2>5, <2>6, <2>7, PlayPauseAssumption
            DEF CallStep, Statement, BeginPause, BeginRaise, Begin, Decide, Lift, RaiseCheck,
                RaiseInsert, RaiseFind, RaiseAttach, Fail, Open, Deciders
<1>8. QED BY <1>4, <1>5, <1>6, <1>7

\* The world is paused by what a call goes on to attach to, or was when it
\* looked: never by a pause lifted before it began.
LEMMA CurrentStep ==
    ASSUME PlayPauseInvariant, NEW c \in Calls, CallStep(c) PROVE AttachesToTheCurrent'
<1>1. /\ TypeOK /\ RowsHaveWriters /\ OwnStatements /\ AttachesToTheCurrent /\ Touches(c)
      /\ TypeOK'
  BY StepTouches, TypeStep DEF PlayPauseInvariant
<1>2. ASSUME NEW d \in Calls, d # c
      PROVE  /\ before'[d].lifted \subseteq lifted'
             /\ at'[d] = "attach" => row'[d] \in Calls \ before'[d].lifted
  BY <1>2, <1>1 DEF AttachesToTheCurrent, Touches
<1>3. before'[c].lifted \subseteq lifted'
  <2>1. CASE at[c] # "new"
    BY <2>1, <1>1 DEF AttachesToTheCurrent, Touches
  <2>2. CASE at[c] = "new"
    <3>1. CASE before' = before
      BY <3>1, <1>1 DEF AttachesToTheCurrent, Touches
    <3>2. CASE Remember(c)
      <4>1. before'[c].lifted = lifted
        BY <3>2, <1>1 DEF Remember, TypeOK
      <4>2. QED BY <4>1, <1>1 DEF Touches
    <3>3. QED BY <3>1, <3>2, <2>2, NewCalls DEF BeginPause, BeginRaise, Begin, Decide, Lift
  <2>3. QED BY <2>1, <2>2
<1>4. ASSUME at'[c] = "attach" PROVE row'[c] \in Calls \ before'[c].lifted
  <2>1. Open(c) /\ before'[c] = before[c] /\ before[c].lifted \subseteq lifted
    <3>1. CASE at[c] = "new"
      BY <3>1, <1>4, NewCalls, <1>1
         DEF BeginPause, BeginRaise, Begin, Decide, Won, Lift, Goto, TypeOK
    <3>2. CASE at[c] # "new"
      BY <3>2, <1>1 DEF Touches, Open, AttachesToTheCurrent
    <3>3. QED BY <3>1, <3>2
  <2>2. CASE at[c] = "attach" /\ row'[c] = row[c]
    BY <2>1, <2>2, <1>1 DEF AttachesToTheCurrent
  <2>3. CASE row'[c] \in pauses \ lifted
    BY <2>1, <2>3, <1>1 DEF TypeOK
  <2>4. CASE row'[c] \in requests
    BY <2>1, <2>4, <1>1, PlayPauseAssumption DEF RowsHaveWriters, TypeOK, Deciders
  <2>5. CASE PauseFind(c) \/ RaiseCheck(c)
    BY <2>3, <2>5, <1>4, <1>1
       DEF PauseFind, RaiseCheck, ActivePause, TryAgain, RollBack, Goto, TypeOK
  <2>6. CASE RaiseFind(c)
    BY <2>4, <2>6, <1>4, <1>1
       DEF RaiseFind, PendingRequest, VisibleRequests, TryAgain, RollBack, Goto, TypeOK
  <2>7. CASE PauseAttach(c) \/ RaiseAttach(c)
    BY <2>2, <2>7 DEF PauseAttach, RaiseAttach, AttachTo
  <2>8. CASE PauseInsert(c) \/ RaiseInsert(c) \/ Gather(c) \/ Commit(c) \/ Fail(c)
    BY <2>8, <1>4, <1>1
       DEF PauseInsert, RaiseInsert, Gather, Commit, Fail, RollBack, Goto, TypeOK
  <2>9. QED BY <2>1, <2>5, <2>6, <2>7, <2>8
            DEF CallStep, Statement, BeginPause, BeginRaise, Begin, Decide, Lift, Open
<1>5. QED BY <1>2, <1>3, <1>4 DEF AttachesToTheCurrent

\* No trigger is written on a pause that was lifted before its call began.
LEMMA OldPauseStep ==
    ASSUME PlayPauseInvariant, NEW c \in Calls, CallStep(c) PROVE NeverAnOldPause'
<1>1. /\ TypeOK /\ RowsHaveWriters /\ AttachesToTheCurrent /\ NeverAnOldPause /\ Touches(c)
      /\ TypeOK'
  BY StepTouches, TypeStep DEF PlayPauseInvariant
<1>2. SUFFICES ASSUME NEW t \in triggers', t.on[1] = "pause"
               PROVE  t.on[2] \notin before'[t.by].lifted
  BY DEF NeverAnOldPause
<1>3. t.by \in Calls
  BY <1>1 DEF TypeOK, Trigger
<1>4. CASE t \in triggers
  <2>1. before'[t.by] = before[t.by]
    BY <1>3, <1>4, <1>1 DEF RowsHaveWriters, Touches
  <2>2. QED BY <2>1, <1>2, <1>4, <1>1 DEF NeverAnOldPause
<1>5. CASE t \notin triggers
  <2>1. t.by = c
    BY <1>5, <1>1 DEF Touches
  <2>2. CASE PauseInsert(c)
    <3>1. t = [on |-> <<"pause", c>>, action |-> NoAction, by |-> c] /\ at[c] = "insert"
      BY <1>5, <2>2 DEF PauseInsert, WithTrigger
    <3>2. t.on[2] = c
      BY <3>1
    <3>3. before'[c] = before[c] /\ c \notin before[c].lifted
      BY <3>1, <1>1 DEF Touches, AttachesToTheCurrent, RowsHaveWriters
    <3>4. QED BY <2>1, <3>2, <3>3
  <2>3. ASSUME NEW owner, AttachTo(c, owner), owner[2] = row[c]
        PROVE  t.on[2] \notin before'[t.by].lifted
    <3>1. t.on = owner
      BY <2>3, <1>5, <1>1, AttachFacts
    <3>2. at[c] = "attach"
      BY <2>3 DEF AttachTo
    <3>3. QED BY <3>1, <3>2, <2>1, <2>3, <1>1 DEF AttachesToTheCurrent, Touches
  <2>4. CASE PauseAttach(c) \/ RaiseAttach(c)
    BY <2>3, <2>4 DEF PauseAttach, RaiseAttach
  <2>5. CASE RollBack(c)
    BY <1>5, <2>5 DEF RollBack
  <2>6. QED BY <1>5, <2>2, <2>4, <2>5
            DEF CallStep, Statement, BeginPause, BeginRaise, Begin, Decide, Lift, PauseFind,
                TryAgain, RaiseCheck, RaiseInsert, RaiseFind, Gather, Commit, Fail, tables
<1>6. QED BY <1>4, <1>5

\* A trigger that is the call's own or an ended call's stays, unless the call
\* itself is rolled back.
LEMMA StandingStays ==
    ASSUME TypeOK, RowsHaveWriters, NEW c \in Calls, CallStep(c),
           NEW d \in Calls, d # c \/ ~RollBack(c),
           NEW t \in triggers, t.by = d \/ ~Open(t.by)
    PROVE  t \in triggers' /\ (t.by = d \/ ~Open(t.by)')
<1>1. Touches(c) /\ t.by \in Calls /\ at[t.by] \notin {"new", "failed"}
  BY StepTouches DEF TypeOK, Trigger, RowsHaveWriters
<1>2. CASE t.by # c
  BY <1>1, <1>2 DEF Touches, Open
<1>3. CASE t.by = c
  <2>1. d = c /\ Open(c)
    BY <1>1, <1>3 DEF Touches, Open
  <2>2. QED BY <2>1, <1>3, StatementKeeps
<1>4. QED BY <1>2, <1>3

\* A raise attaches its one action, and what it attached or found stays.
LEMMA RaiseStep ==
    ASSUME PlayPauseInvariant, NEW c \in Calls, CallStep(c) PROVE RaiseRecords'
<1>1. TypeOK /\ RowsHaveWriters /\ RaiseRecords /\ Touches(c) /\ TypeOK'
  BY StepTouches, TypeStep DEF PlayPauseInvariant
<1>2. SUFFICES ASSUME NEW d \in Raisers
               PROVE  /\ at'[d] = "attach" => todo'[d] = {ActionOf[d]}
                      /\ at'[d] \in {"commit", "done"} => Stands(d, ActionOf[d])'
  BY DEF RaiseRecords
<1>3. d \in Calls
  BY DEF Calls
<1>4. ASSUME d # c \/ ~RollBack(c), row'[d] = row[d], Stands(d, ActionOf[d])
      PROVE  Stands(d, ActionOf[d])'
  <2>1. PICK t \in triggers :
            t.action = ActionOf[d] /\ t.on[2] = row[d] /\ (t.by = d \/ ~Open(t.by))
    BY <1>4 DEF Stands
  <2>2. t \in triggers' /\ (t.by = d \/ ~Open(t.by)')
    BY <2>1, <1>4, <1>3, <1>1, StandingStays
  <2>3. QED BY <2>1, <2>2, <1>4 DEF Stands
<1>5. CASE d # c
  <2>1. at'[d] = at[d] /\ todo'[d] = todo[d] /\ row'[d] = row[d]
    BY <1>3, <1>5, <1>1 DEF Touches
  <2>2. QED BY <2>1, <1>4, <1>5, <1>1 DEF RaiseRecords
<1>6. CASE d = c /\ (RollBack(c) \/ at[c] = "new")
  BY <1>6, NewCalls, PlayPauseAssumption, <1>1
     DEF BeginPause, BeginRaise, Begin, Decide, Lift, RollBack, Goto, TypeOK, Deciders
<1>7. CASE d = c /\ ~RollBack(c) /\ at[c] # "new"
  <2>1. Open(c) /\ c \notin Pausers \cup Approvers
    BY <1>7, <1>1, PlayPauseAssumption DEF Touches, Open, Deciders
  <2>2. CASE RaiseCheck(c) \/ RaiseInsert(c)
    BY <1>7, <2>2, <1>1 DEF RaiseCheck, RaiseInsert, Goto, TypeOK
  <2>3. CASE RaiseFind(c)
    BY <1>7, <2>3, <1>1 DEF RaiseFind, TryAgain, Goto, TypeOK
  <2>4. CASE RaiseAttach(c)
    <3>1. PICK owner : AttachTo(c, owner) /\ owner[2] = row[c]
      BY <2>4 DEF RaiseAttach
    <3>2. at[c] = "attach" /\ todo[c] = {ActionOf[c]} /\ row'[c] = row[c]
      BY <3>1, <1>7, <1>1 DEF AttachTo, RaiseRecords
    <3>3. PICK a \in todo[c] :
              /\ todo'[c] = todo[c] \ {a}
              /\ at'[c] = IF todo'[c] = {} THEN "commit" ELSE "attach"
              /\ \E t \in triggers' :
                     t.action = a /\ t.on = owner /\ (t.by = c \/ ~Open(t.by))
      BY <3>1, <1>1, AttachFacts
    <3>4. PICK t \in triggers' : t.action = ActionOf[c] /\ t.on[2] = row'[c] /\ (t.by = c \/ ~Open(t.by))
      BY <3>1, <3>2, <3>3
    <3>5. t.by = c \/ ~Open(t.by)'
      <4>1. CASE t.by # c
        <5>1. t \in triggers /\ t.by \in Calls
          BY <4>1, <1>1 DEF Touches, TypeOK, Trigger
        <5>2. QED BY <5>1, <4>1, <3>4, <1>1 DEF Touches, Open
      <4>2. QED BY <4>1
    <3>6. Stands(c, ActionOf[c])'
      BY <3>4, <3>5 DEF Stands
    <3>7. todo'[c] = {}
      BY <3>2, <3>3
    <3>8. QED BY <3>3, <3>6, <3>7, <1>7
  <2>5. CASE Commit(c)
    BY <1>4, <1>7, <2>5, <1>1 DEF Commit, Goto, TypeOK, RaiseRecords
  <2>6. CASE Gather(c)
    BY <1>7, <2>6, <1>1 DEF Gather, Goto, TypeOK
  <2>7. QED BY <1>7, <2>1, <2>2, <2>3, <2>4, <2>5, <2>6
            DEF CallStep, Statement, BeginPause, BeginRaise, Begin, Decide, Lift, PauseInsert,
                PauseFind, PauseAttach, Fail, Open
<1>8. QED BY <1>5, <1>6, <1>7

\* What was recorded when a call began was committed, and stays.
LEMMA SeenStep ==
    ASSUME PlayPauseInvariant, NEW c \in Calls, CallStep(c) PROVE SeenStays'
<1>1. TypeOK /\ RowsHaveWriters /\ SeenStays /\ Touches(c) /\ TypeOK'
  BY StepTouches, TypeStep DEF PlayPauseInvariant
<1>2. SUFFICES ASSUME NEW d \in Calls, NEW t \in before'[d].triggers
               PROVE  t \in triggers' /\ at'[t.by] = "done"
  BY DEF SeenStays
<1>3. ASSUME t \in triggers, at[t.by] = "done" PROVE t \in triggers' /\ at'[t.by] = "done"
  <2>1. t.by \in Calls
    BY <1>3, <1>1 DEF TypeOK, Trigger
  <2>2. QED BY <1>3, <2>1, <1>1 DEF Touches
<1>4. CASE before'[d] = before[d]
  BY <1>2, <1>3, <1>4, <1>1 DEF SeenStays
<1>5. CASE d = c /\ Remember(c)
  <2>1. t \in triggers /\ ~Open(t.by)
    BY <1>2, <1>5, <1>1 DEF Remember, TypeOK
  <2>2. at[t.by] = "done"
    BY <2>1, <1>1 DEF RowsHaveWriters, Open
  <2>3. QED BY <2>1, <2>2, <1>3
<1>6. before'[d] = before[d] \/ (d = c /\ Remember(c))
  <2>1. CASE d # c \/ at[c] # "new"
    BY <2>1, <1>1 DEF Touches
  <2>2. CASE d = c /\ at[c] = "new"
    BY <2>2, NewCalls DEF BeginPause, BeginRaise, Begin, Decide, Lift
  <2>3. QED BY <2>1, <2>2
<1>7. QED BY <1>4, <1>5, <1>6

\* What an approval gathers is what it saw, and each of it is attached.
LEMMA GatheredStep ==
    ASSUME PlayPauseInvariant, NEW c \in Calls, CallStep(c) PROVE GatheredStays'
<1>1. /\ TypeOK /\ RowsHaveWriters /\ ApprovalHasRequest /\ SeenStays /\ GatheredStays
      /\ Touches(c) /\ TypeOK' /\ RowsHaveWriters'
  BY StepTouches, TypeStep, RowsStep DEF PlayPauseInvariant
<1>2. SUFFICES ASSUME NEW r \in Calls, NEW d, d = decider'[r], d \in Approvers \ pauses',
                      NEW t \in before'[d].triggers, t.on = <<"request", r>>
               PROVE  /\ at'[d] \in {"insert", "find"} => t.action \in todo'[d]
                      /\ at'[d] = "attach" => t.action \in todo'[d] \/ Moved(d, t.action)'
                      /\ at'[d] \in {"commit", "done"} => Moved(d, t.action)'
  BY DEF GatheredStays
<1>3. d \in Calls /\ d # None
  BY <1>2, PlayPauseAssumption DEF Calls, Deciders
<1>4. ASSUME NEW a, d # c \/ ~RollBack(c), row'[d] = row[d], Moved(d, a)
      PROVE  Moved(d, a)'
  <2>1. PICK u \in triggers :
            u.action = a /\ u.on = <<"pause", row[d]>> /\ (u.by = d \/ ~Open(u.by))
    BY <1>4 DEF Moved
  <2>2. u \in triggers' /\ (u.by = d \/ ~Open(u.by)')
    BY <2>1, <1>4, <1>3, <1>1, StandingStays
  <2>3. QED BY <2>1, <2>2, <1>4 DEF Moved
<1>5. CASE d # c
  <2>1. /\ at'[d] = at[d] /\ todo'[d] = todo[d] /\ row'[d] = row[d] /\ before'[d] = before[d]
        /\ decider[r] = d /\ d \notin pauses
    BY <1>2, <1>3, <1>5, <1>1 DEF Touches
  <2>2. QED BY <2>1, <1>2, <1>4, <1>5, <1>1 DEF GatheredStays
<1>6. CASE d = c /\ at[c] = "new"
  <2>1. Decide(c)
    BY <1>2, <1>6, NewCalls, PlayPauseAssumption DEF BeginPause, BeginRaise, Lift, Deciders
  <2>2. decider[r] # c
    BY <1>3, <1>6, <1>1 DEF RowsHaveWriters
  <2>3. at'[c] = "gather"
    BY <2>1, <2>2, <1>2, <1>6, <1>1, DecideFacts
  <2>4. QED BY <2>3, <1>6
<1>7. CASE d = c /\ at[c] # "new"
  <2>1. Open(c) /\ before'[c] = before[c]
    BY <1>7, <1>1 DEF Touches, Open
  <2>2. ~RollBack(c)
    BY <1>2, <1>7, <1>1, RollBackClears
  <2>3. decider[r] = c /\ c \in Approvers \ pauses /\ triggers \subseteq triggers'
    BY <1>2, <1>7, <2>1, <2>2, <1>1, StatementKeeps
  <2>4. t \in before[c].triggers /\ t \in triggers /\ at[t.by] = "done"
    BY <1>2, <1>7, <2>1, <1>1 DEF SeenStays
  <2>5. /\ at[c] \in {"insert", "find"} => t.action \in todo[c]
        /\ at[c] = "attach" => t.action \in todo[c] \/ Moved(c, t.action)
        /\ at[c] \in {"commit", "done"} => Moved(c, t.action)
    BY <2>3, <2>4, <1>2, <1>1 DEF GatheredStays
  <2>6. CASE Gather(c)
    <3>1. row[c] = r
      BY <2>3, <2>6, <1>1 DEF ApprovalHasRequest, Gather
    <3>2. t.action \in ActionsOn(<<"request", r>>, c)
      BY <2>4, <1>2 DEF ActionsOn, Sees, Open
    <3>3. QED BY <3>1, <3>2, <2>6, <1>7, <1>1 DEF Gather, Goto, TypeOK
  <2>7. CASE PauseInsert(c)
    BY <1>2, <1>7, <2>5, <2>7, <1>1 DEF PauseInsert, Goto, TypeOK
  <2>8. CASE PauseFind(c)
    BY <1>7, <2>2, <2>5, <2>8, <1>1 DEF PauseFind, TryAgain, Goto, TypeOK
  <2>9. CASE PauseAttach(c)
    <3>1. at[c] = "attach" /\ row'[c] = row[c] /\ AttachTo(c, <<"pause", row[c]>>)
      BY <2>9 DEF PauseAttach, AttachTo
    <3>2. PICK a \in todo[c] :
              /\ todo'[c] = todo[c] \ {a}
              /\ at'[c] = IF todo'[c] = {} THEN "commit" ELSE "attach"
              /\ \E u \in triggers' :
                     u.action = a /\ u.on = <<"pause", row[c]>> /\ (u.by = c \/ ~Open(u.by))
      BY <3>1, <1>1, AttachFacts
    <3>3. Moved(c, a)'
      <4>1. PICK u \in triggers' :
                u.action = a /\ u.on = <<"pause", row[c]>> /\ (u.by = c \/ ~Open(u.by))
        BY <3>2
      <4>2. CASE u.by # c
        <5>1. u \in triggers /\ u.by \in Calls
          BY <4>1, <4>2, <1>1 DEF Touches, TypeOK, Trigger
        <5>2. ~Open(u.by)'
          BY <5>1, <4>1, <4>2, <1>1 DEF Touches, Open
        <5>3. QED BY <4>1, <5>2, <3>1 DEF Moved
      <4>3. CASE u.by = c
        BY <4>1, <4>3, <3>1 DEF Moved
      <4>4. QED BY <4>2, <4>3
    <3>4. t.action \in todo'[c] \/ Moved(c, t.action)'
      BY <3>1, <3>2, <3>3, <2>2, <2>5, <1>4, <1>7
    <3>5. QED BY <3>2, <3>4, <1>7
  <2>10. CASE Commit(c)
    BY <1>4, <1>7, <2>2, <2>5, <2>10, <1>1 DEF Commit, Goto, TypeOK
  <2>11. QED BY <2>1, <2>2, <2>3, <2>6, <2>7, <2>8, <2>9, <2>10, PlayPauseAssumption
            DEF CallStep, Statement, BeginPause, BeginRaise, Begin, Decide, Lift, RaiseCheck,
                RaiseInsert, RaiseFind, RaiseAttach, Fail, Open, Deciders
<1>8. QED BY <1>5, <1>6, <1>7

-----------------------------------------------------------------------------
(* The theorems *)

\* The invariant is inductive.
LEMMA NextInvariant == PlayPauseInvariant /\ [Next]_vars => PlayPauseInvariant'
<1>1. ASSUME PlayPauseInvariant, Next PROVE PlayPauseInvariant'
  <2>1. PICK c \in Calls : CallStep(c)
    BY <1>1 DEF Next, CallStep
  <2>2. QED BY <1>1, <2>1, TypeStep, OwnStatementsStep, RowsStep, ApprovalStep, ReachesPauseStep,
               CurrentStep, OldPauseStep, RaiseStep, SeenStep, GatheredStep
            DEF PlayPauseInvariant
<1>2. ASSUME PlayPauseInvariant, UNCHANGED vars PROVE PlayPauseInvariant'
  <2> USE <1>2 DEF PlayPauseInvariant, vars, Open
  <2>1. TypeOK' /\ OwnStatements' /\ RowsHaveWriters'
    BY DEF TypeOK, OwnStatements, RowsHaveWriters
  <2>2. ApprovalHasRequest' /\ ApprovalReachesPause' /\ AttachesToTheCurrent'
    BY DEF ApprovalHasRequest, ApprovalReachesPause, AttachesToTheCurrent
  <2>3. NeverAnOldPause' /\ RaiseRecords' /\ SeenStays'
    BY DEF NeverAnOldPause, RaiseRecords, Stands, SeenStays
  <2>4. GatheredStays'
    BY DEF GatheredStays, Moved
  <2>5. QED BY <2>1, <2>2, <2>3, <2>4
<1>3. QED BY <1>1, <1>2

\* The invariant holds always.
LEMMA InvariantHolds == Spec => []PlayPauseInvariant
BY InitInvariant, NextInvariant, PTL DEF Spec

\* Calls, pauses, requests, decisions and triggers keep their types.
THEOREM PauseTypeCorrect == Spec => []TypeOK
<1>1. PlayPauseInvariant => TypeOK
  BY DEF PlayPauseInvariant
<1>2. QED BY <1>1, InvariantHolds, PTL

\* Whichever statement of an approval fails and whatever runs beside it, a
\* request is approved exactly when its pause is made or found, and every pause
\* has its event.
THEOREM ApprovalsArePauses == Spec => []ApprovedIsPaused
<1>1. PlayPauseInvariant => ApprovedIsPaused
  <2>1. SUFFICES ASSUME PlayPauseInvariant PROVE ApprovedIsPaused
    OBVIOUS
  <2>2. /\ TypeOK /\ RowsHaveWriters /\ ApprovalHasRequest /\ ApprovalReachesPause
        /\ OwnStatements
    BY <2>1 DEF PlayPauseInvariant
  <2>3. ASSUME NEW r \in requests, Decided(r), decider[r] \in Approvers
        PROVE  decider[r] \in pauses \/ \E t \in triggers : t.by = decider[r] /\ t.on[1] = "pause"
    <3>1. r \in Calls /\ at[decider[r]] = "done"
      BY <2>2, <2>3 DEF TypeOK, RowsHaveWriters, Decided, Open
    <3>2. QED BY <3>1, <2>2, <2>3 DEF ApprovalReachesPause
  <2>4. \A c \in pauses \cap Approvers : \E r \in requests : decider[r] = c
    BY <2>2 DEF ApprovalHasRequest
  <2>5. QED BY <2>2, <2>3, <2>4 DEF ApprovedIsPaused, RowsHaveWriters
<1>2. QED BY <1>1, InvariantHolds, PTL

\* No call records its trigger on a pause that was lifted before it began.
THEOREM TriggersAreOfTheirTime == Spec => []NeverAnOldPause
<1>1. PlayPauseInvariant => NeverAnOldPause
  BY DEF PlayPauseInvariant
<1>2. QED BY <1>1, InvariantHolds, PTL

\* A raise that returned has its moderation action on the request or the pause
\* it names, however its retries interleave and whichever of them fail.
THEOREM RaisesAreRecorded == Spec => []RaisedIsRecorded
<1>1. PlayPauseInvariant => RaisedIsRecorded
  <2>1. SUFFICES ASSUME PlayPauseInvariant, NEW c \in Raisers, at[c] = "done"
                 PROVE  \E t \in triggers :
                            t.action = ActionOf[c] /\ t.on[2] = row[c] /\ ~Open(t.by)
    BY DEF RaisedIsRecorded
  <2>2. PICK t \in triggers :
            t.action = ActionOf[c] /\ t.on[2] = row[c] /\ (t.by = c \/ ~Open(t.by))
    BY <2>1 DEF PlayPauseInvariant, RaiseRecords, Stands
  <2>3. ~Open(t.by)
    BY <2>1, <2>2 DEF Open
  <2>4. QED BY <2>2, <2>3
<1>2. QED BY <1>1, InvariantHolds, PTL

\* An approval onto a paused world leaves none of the triggers it saw behind.
THEOREM GatheredTriggersAreMoved == Spec => []GatheredTriggersMove
<1>1. PlayPauseInvariant => GatheredTriggersMove
  <2>1. SUFFICES ASSUME PlayPauseInvariant, NEW r \in requests, Decided(r),
                        decider[r] \in Approvers \ pauses,
                        NEW t \in before[decider[r]].triggers, t.on = <<"request", r>>
                 PROVE  \E u \in triggers :
                            u.on = <<"pause", row[decider[r]]>> /\ u.action = t.action
    BY DEF GatheredTriggersMove
  <2>2. r \in Calls /\ at[decider[r]] = "done"
    BY <2>1 DEF PlayPauseInvariant, TypeOK, RowsHaveWriters, Decided, Open
  <2>3. Moved(decider[r], t.action)
    BY <2>1, <2>2 DEF PlayPauseInvariant, GatheredStays
  <2>4. QED BY <2>3 DEF Moved
<1>2. QED BY <1>1, InvariantHolds, PTL

\* One decision of a request stands, for good.
THEOREM DecisionsAreFinal == Spec => DecisionIsFinal
<1>1. PlayPauseInvariant /\ [Next]_vars =>
          \A r \in requests : Decided(r) => decider'[r] = decider[r]
  <2>1. SUFFICES ASSUME PlayPauseInvariant, Next, NEW r \in requests, Decided(r)
                 PROVE  decider'[r] = decider[r]
    BY DEF vars
  <2>2. PICK c \in Calls : CallStep(c)
    BY <2>1 DEF Next, CallStep
  <2>3. r \in Calls /\ decider[r] # None /\ at[decider[r]] = "done"
    BY <2>1 DEF PlayPauseInvariant, TypeOK, RowsHaveWriters, Decided, Open
  <2>4. decider[r] # c
    BY <2>1, <2>2, <2>3, StepTouches DEF PlayPauseInvariant, Touches
  <2>5. QED BY <2>1, <2>2, <2>3, <2>4, StepTouches DEF PlayPauseInvariant, Touches
<1>2. QED BY <1>1, InvariantHolds, PTL DEF Spec, DecisionIsFinal
=============================================================================
