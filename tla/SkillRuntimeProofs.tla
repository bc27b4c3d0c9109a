------------------------- MODULE SkillRuntimeProofs -------------------------
(***************************************************************************)
(* Proofs about skill sessions, for every recipe, every budget and any     *)
(* number of crashes and resumes.                                          *)
(***************************************************************************)
EXTENDS SkillRuntime, TLAPS

-----------------------------------------------------------------------------
(* Type correctness *)

\* Nothing has happened to a session before it is started.
Unborn == ~began => pc = "down" /\ returned = 0 /\ disk = Fresh

\* Every save writes what the runner has in memory, a crash forgets only what the
\* runner had not saved: the two never differ.
TInv == TypeOK /\ state = disk /\ Unborn

LEMMA FreshSession == Fresh \in Session /\ NoResult \in Result
BY SkillAssumption DEF Fresh, Session, NoResult, Result, Places, Sentinels

LEMMA InitType == Init => TInv
<1> SUFFICES ASSUME Init PROVE TInv
  OBVIOUS
<1>1. disk \in Session /\ state \in Session /\ result \in Result
  BY FreshSession DEF Init
<1>2. attempt \in Nat \ {0} /\ resumes \in 0 .. MaxResumes /\ crashes \in 0 .. MaxCrashes
  BY SkillAssumption DEF Init
<1>3. TypeOK
  BY <1>1, <1>2 DEF Init, TypeOK
<1>4. QED
  BY <1>3 DEF Init, TInv, Unborn

\* Resuming a session, however it was saved, is a step that keeps the types.
LEMMA RunType ==
    ASSUME TInv, NEW s \in Session, NEW b \in {StepBudget, TurnBudget}, Run(s, b)
    PROVE  TInv'
BY SkillAssumption DEF TInv, Unborn, TypeOK, Run, Save

LEMMA ResumedSessions ==
    ASSUME TInv
    PROVE  /\ [disk EXCEPT !.current = IF @ = "INTERRUPT" /\ disk.pending # NoStep
                                       THEN disk.pending ELSE @,
                           !.pending = NoStep] \in Session
           /\ (disk.current = "INTERRUPT" => disk.pending # NoStep) =>
                 [disk EXCEPT !.current = IF @ = "INTERRUPT" THEN disk.pending ELSE @] \in Session
BY DEF TInv, TypeOK, Session, Places

LEMMA TypeStep == TInv /\ [Next]_vars => TInv'
<1> SUFFICES ASSUME TInv, [Next]_vars PROVE TInv'
  OBVIOUS
<1> USE SkillAssumption DEF TInv, Unborn, history
<1>n. state \in [current : Places, count : Nat, done : BOOLEAN, aborted : BOOLEAN,
                  pending : Steps \cup {NoStep}]
  BY DEF TypeOK, Session
<1>1. CASE Start
  BY <1>1, FreshSession DEF Start, Save, TypeOK
<1>2. CASE ResumeAsSaved
  BY <1>2, RunType DEF ResumeAsSaved, TypeOK
<1>3. CASE ResumeFromRepl
  BY <1>3, RunType, ResumedSessions DEF ResumeFromRepl
<1>4. CASE ResumeFromTurn
  BY <1>4, RunType, ResumedSessions DEF ResumeFromTurn
<1>5. CASE BudgetExceeded
  BY <1>5 DEF BudgetExceeded, Save, TypeOK, Session
<1>6. CASE StopAtSentinel
  BY <1>6 DEF StopAtSentinel, Save, TypeOK, Session
<1>7. CASE StepNotFound
  BY <1>7 DEF StepNotFound, Save, TypeOK, Session
<1>8. CASE BeginStep
  BY <1>8 DEF BeginStep, TypeOK
<1>9. CASE StepReturns
  BY <1>9 DEF StepReturns, TypeOK
<1>10. CASE StepRaises
  BY <1>10 DEF StepRaises, TypeOK, Session
<1>11. CASE RetriesExhausted
  <2>1. result' \in Result
    BY <1>11, FreshSession DEF RetriesExhausted, TypeOK, Result, Places, Sentinels
  <2>2. QED
    BY <1>11, <2>1 DEF RetriesExhausted, TypeOK
<1>12. CASE RecordInterrupt
  <2>1. Pending(result) \in Steps \cup {NoStep}
    BY DEF TypeOK, Pending, Result, Session
  <2>a. "INTERRUPT" \in Places
    BY DEF Places, Sentinels
  <2>b. state.count + 1 \in Nat /\ state.done \in BOOLEAN /\ state.aborted \in BOOLEAN
    BY <1>n
  <2>2. state' \in Session
    BY <1>12, <1>n, <2>1, <2>a, <2>b DEF RecordInterrupt, Save, Session
  <2>3. QED
    BY <1>12, <2>2 DEF RecordInterrupt, Save, TypeOK, Sentinels
<1>13. CASE Record
  <2>1. Pending(result) \in Steps \cup {NoStep}
    BY DEF TypeOK, Pending, Result, Session
  <2>a. result.next \in Places
    BY DEF TypeOK, Result
  <2>b. state.count + 1 \in Nat /\ state.done \in BOOLEAN /\ state.aborted \in BOOLEAN
    BY <1>n
  <2>2. Recorded \in Session
    BY <1>n, <2>1, <2>a, <2>b DEF Recorded, Session
  <2>3. QED
    BY <1>13, <2>2 DEF Record, Save, TypeOK
<1>14. CASE Finish
  BY <1>14 DEF Finish, Save, TypeOK, Session
<1>15. CASE Crash
  BY <1>15 DEF Crash, TypeOK
<1>16. CASE UNCHANGED vars
  BY <1>16 DEF vars, TypeOK
<1>17. QED
  BY <1>1, <1>2, <1>3, <1>4, <1>5, <1>6, <1>7, <1>8, <1>9, <1>10, <1>11, <1>12, <1>13,
     <1>14, <1>15, <1>16 DEF Next, Loop

\* Every reachable state of a session is well typed, and no step is tried more
\* often than its retries allow, whatever the recipe does.
THEOREM TypeCorrect == Spec => []TypeOK
<1>1. Spec => []TInv
  BY InitType, TypeStep, PTL DEF Spec
<1>2. TInv => TypeOK
  BY DEF TInv
<1>3. QED
  BY <1>1, <1>2, PTL

LEMMA AlwaysTyped == Spec => []TInv
BY InitType, TypeStep, PTL DEF Spec

-----------------------------------------------------------------------------
(* Repetition and budgets *)

\* Within a run, the session has not reached the run's budget while a step is
\* being called; of the calls that returned, only the one in hand and one for
\* each crash are not on disk.
CountInv ==
    /\ OneStepPerCrash
    /\ WithinBudget
    /\ pc \in {"try", "record"} => disk.count < budget
    /\ pc = "finish" => disk.count <= budget

LEMMA InitCount == Init => CountInv
BY SkillAssumption DEF Init, Fresh, CountInv, OneStepPerCrash, WithinBudget

LEMMA CountStep == TInv /\ CountInv /\ [Next]_vars => CountInv'
<1> SUFFICES ASSUME TInv, CountInv, [Next]_vars PROVE CountInv'
  OBVIOUS
<1> USE SkillAssumption DEF history
<1>t. /\ disk.count \in Nat /\ returned \in Nat /\ crashes \in Nat
      /\ budget \in Nat /\ state = disk /\ state.count \in Nat
  BY DEF TInv, TypeOK, Session
<1>e. /\ disk \in Session /\ state \in Session
  BY DEF TInv, TypeOK
<1> DEFINE Kept == disk'.count = disk.count /\ returned' = returned
<1>k. ASSUME Kept, crashes' = crashes, pc # "record", pc' \in {"down", "loop"}
      PROVE  CountInv'
  BY <1>k, <1>t DEF CountInv, OneStepPerCrash, WithinBudget
<1>1. CASE Start
  BY <1>1, <1>t DEF Start, Save, Fresh, TInv, Unborn, CountInv, OneStepPerCrash, WithinBudget
<1>2. CASE ResumeAsSaved
  BY <1>2, <1>k DEF ResumeAsSaved, Run, Save
<1>3. CASE ResumeFromRepl
  BY <1>3, <1>k, <1>e DEF ResumeFromRepl, Run, Save, Session
<1>4. CASE ResumeFromTurn
  BY <1>4, <1>k, <1>e DEF ResumeFromTurn, Run, Save, Session
<1>5. CASE BudgetExceeded
  BY <1>5, <1>k, <1>t, <1>e DEF BudgetExceeded, Save, Session
<1>6. CASE StopAtSentinel
  BY <1>6, <1>k, <1>t, <1>e DEF StopAtSentinel, Save, Session
<1>7. CASE StepNotFound
  BY <1>7, <1>k, <1>t, <1>e DEF StepNotFound, Save, Session
<1>8. CASE BeginStep
  BY <1>8, <1>t DEF BeginStep, CountInv, OneStepPerCrash, WithinBudget
<1>9. CASE StepReturns
  BY <1>9, <1>t DEF StepReturns, CountInv, OneStepPerCrash, WithinBudget
<1>10. CASE StepRaises
  BY <1>10, <1>t DEF StepRaises, CountInv, OneStepPerCrash, WithinBudget
<1>11. CASE RetriesExhausted
  BY <1>11, <1>t DEF RetriesExhausted, CountInv, OneStepPerCrash, WithinBudget
<1>12. CASE RecordInterrupt
  <2>1. disk'.count = disk.count + 1 /\ pc' = "down"
    BY <1>12, <1>t, <1>e DEF RecordInterrupt, Save, Session
  <2>2. QED
    BY <1>12, <2>1, <1>t DEF RecordInterrupt, CountInv, OneStepPerCrash, WithinBudget, TInv, TypeOK
<1>13. CASE Record
  <2>1. disk'.count = disk.count + 1 /\ pc' \in {"finish", "loop"}
    BY <1>13, <1>t, <1>e DEF Record, Recorded, Save, Session
  <2>2. QED
    BY <1>13, <2>1, <1>t DEF Record, CountInv, OneStepPerCrash, WithinBudget, TInv, TypeOK
<1>14. CASE Finish
  BY <1>14, <1>k, <1>t, <1>e DEF Finish, Save, Session
<1>15. CASE Crash
  BY <1>15, <1>t DEF Crash, CountInv, OneStepPerCrash, WithinBudget
<1>16. CASE UNCHANGED vars
  BY <1>16 DEF vars, CountInv, OneStepPerCrash, WithinBudget
<1>17. QED
  BY <1>1, <1>2, <1>3, <1>4, <1>5, <1>6, <1>7, <1>8, <1>9, <1>10, <1>11, <1>12, <1>13,
     <1>14, <1>15, <1>16 DEF Next, Loop

LEMMA AlwaysCounted == Spec => []CountInv
BY AlwaysTyped, InitCount, CountStep, PTL DEF Spec

\* A crash makes a session repeat at most one step, for every recipe and any
\* number of interrupts, crashes and resumes.
THEOREM RepeatsOneStepPerCrash == Spec => []OneStepPerCrash
<1>1. CountInv => OneStepPerCrash
  BY DEF CountInv
<1>2. QED
  BY <1>1, AlwaysCounted, PTL

\* No session gets beyond the larger of the two budgets.
THEOREM StaysWithinBudget == Spec => []WithinBudget
<1>1. CountInv => WithinBudget
  BY DEF CountInv
<1>2. QED
  BY <1>1, AlwaysCounted, PTL

-----------------------------------------------------------------------------
(* Every run is finite *)

\* How far the runner is from the end of a turn of its loop.
Distance == [loop |-> 4, try |-> 3, record |-> 2, finish |-> 1, down |-> 0][pc]

\* The run has recorded a step, of which its budget allows so many; or it is nearer to
\* the end of its loop; or it tries the step again, as often as its retries allow.
RunMovesOn ==
    /\ budget' = budget
    /\ \/ disk'.count = disk.count + 1 /\ disk'.count <= budget
       \/ disk'.count = disk.count /\ Distance' < Distance
       \/ /\ disk' = disk /\ pc = "try" /\ pc' = "try"
          /\ attempt' = attempt + 1 /\ attempt' <= 1 + Retries[state.current]

\* Whatever the recipe does, looping for ever included, every step of a run uses up
\* something that the run has only so much of: its budget, the way to the end of the loop,
\* the retries of a step.
THEOREM RunsMoveOn == Spec => [][pc # "down" => RunMovesOn]_vars
<1>1. ASSUME TInv, CountInv, Next, pc # "down"
      PROVE  RunMovesOn
  <2> USE DEF history
  <2>t. /\ disk.count \in Nat /\ budget \in Nat /\ state = disk /\ disk \in Session
        /\ Retries[state.current] \in Nat \/ pc # "try"
    BY <1>1, SkillAssumption DEF TInv, TypeOK, Session
  <2>d. /\ pc = "loop" => Distance = 4
        /\ pc = "try" => Distance = 3
        /\ pc = "record" => Distance = 2
        /\ pc = "finish" => Distance = 1
        /\ pc' = "down" => Distance' = 0
        /\ pc' = "try" => Distance' = 3
        /\ pc' = "record" => Distance' = 2
    BY DEF Distance
  <2>p. pc \in {"loop", "try", "record", "finish"}
    BY <1>1 DEF TInv, TypeOK
  <2>1. ~Start /\ ~ResumeAsSaved /\ ~ResumeFromRepl /\ ~ResumeFromTurn
    BY <1>1 DEF Start, ResumeAsSaved, ResumeFromRepl, ResumeFromTurn, Run
  <2>2. CASE BudgetExceeded \/ StepNotFound \/ StopAtSentinel \/ Finish
    <3>1. disk'.count = disk.count /\ budget' = budget /\ pc' = "down"
      BY <2>2, <2>t DEF BudgetExceeded, StepNotFound, StopAtSentinel, Finish, Save, Session
    <3>2. QED
      BY <2>d, <2>p, <3>1 DEF RunMovesOn
  <2>3. CASE BeginStep \/ StepReturns \/ RetriesExhausted
    <3>1. disk' = disk /\ budget' = budget
          /\ \/ pc = "loop" /\ pc' = "try"
             \/ pc = "try" /\ pc' = "record"
      BY <2>3 DEF BeginStep, StepReturns, RetriesExhausted
    <3>2. QED
      BY <2>d, <3>1 DEF RunMovesOn
  <2>4. CASE StepRaises
    BY <2>4, <2>t, <1>1 DEF StepRaises, RunMovesOn, TInv, TypeOK
  <2>5. CASE RecordInterrupt \/ Record
    <3>1. disk'.count = disk.count + 1 /\ budget' = budget /\ pc = "record"
      BY <2>5, <2>t DEF RecordInterrupt, Record, Recorded, Save, Session
    <3>2. QED
      BY <1>1, <2>t, <3>1 DEF RunMovesOn, CountInv
  <2>6. CASE Crash
    <3>1. disk' = disk /\ budget' = budget /\ pc' = "down"
      BY <2>6 DEF Crash
    <3>2. QED
      BY <2>d, <2>p, <3>1 DEF RunMovesOn
  <2>7. QED
    BY <1>1, <2>1, <2>2, <2>3, <2>4, <2>5, <2>6 DEF Next, Loop
<1>2. TInv /\ CountInv /\ [Next]_vars => [pc # "down" => RunMovesOn]_vars
  BY <1>1
<1>3. QED
  BY <1>2, AlwaysTyped, AlwaysCounted, PTL DEF Spec

-----------------------------------------------------------------------------
(* What is finished *)

\* A finished session has no runner, and a session at END or done was brought
\* there by its recipe.
EndInv ==
    /\ Finished(disk) => pc = "down"
    /\ disk.current = "END" => verdict = "END"
    /\ disk.done => verdict = "END"

LEMMA InitEnd == Init => EndInv
BY SkillAssumption DEF Init, Fresh, EndInv, Finished, Sentinels

LEMMA EndStep == TInv /\ EndInv /\ [Next]_vars => EndInv'
<1> SUFFICES ASSUME TInv, EndInv, [Next]_vars PROVE EndInv'
  OBVIOUS
<1> USE DEF history, Finished
<1>e. /\ disk \in Session /\ state = disk
      /\ "END" \notin Steps
  BY SkillAssumption DEF TInv, TypeOK, Sentinels
<1>r. ASSUME NEW s \in Session, NEW b, Run(s, b),
             s.done = disk.done, s.aborted = disk.aborted,
             s.current = disk.current \/ s.current \in Steps
      PROVE  EndInv'
  BY <1>r, <1>e DEF Run, Save, EndInv
<1>1. CASE Start
  BY <1>1, <1>e, SkillAssumption DEF Start, Save, Fresh, EndInv
<1>2. CASE ResumeAsSaved
  BY <1>2, <1>r, <1>e DEF ResumeAsSaved
<1>3. CASE ResumeFromRepl
  <2> DEFINE s == [disk EXCEPT !.current = IF @ = "INTERRUPT" THEN disk.pending ELSE @]
  <2>1. s \in Session
    BY <1>3, ResumedSessions DEF ResumeFromRepl
  <2>2. /\ s.done = disk.done /\ s.aborted = disk.aborted
        /\ s.current = disk.current \/ s.current \in Steps
    BY <1>3, <1>e DEF ResumeFromRepl, Session
  <2>3. QED
    BY <1>3, <1>r, <2>1, <2>2 DEF ResumeFromRepl
<1>4. CASE ResumeFromTurn
  <2> DEFINE s == [disk EXCEPT !.current = IF @ = "INTERRUPT" /\ disk.pending # NoStep
                                           THEN disk.pending ELSE @,
                               !.pending = NoStep]
  <2>1. s \in Session
    BY ResumedSessions
  <2>2. /\ s.done = disk.done /\ s.aborted = disk.aborted
        /\ s.current = disk.current \/ s.current \in Steps
    BY <1>e DEF Session
  <2>3. QED
    BY <1>4, <1>r, <2>1, <2>2 DEF ResumeFromTurn
<1>5. CASE BudgetExceeded
  BY <1>5, <1>e DEF BudgetExceeded, Save, EndInv, Session
<1>6. CASE StopAtSentinel
  BY <1>6, <1>e DEF StopAtSentinel, Save, EndInv, Session
<1>7. CASE StepNotFound
  BY <1>7, <1>e DEF StepNotFound, Save, EndInv, Session
<1>8. CASE BeginStep \/ StepReturns \/ StepRaises \/ RetriesExhausted
  BY <1>8 DEF BeginStep, StepReturns, StepRaises, RetriesExhausted, EndInv
<1>9. CASE RecordInterrupt
  BY <1>9, <1>e DEF RecordInterrupt, Save, EndInv, Session
<1>10. CASE Record
  <2>1. /\ disk'.current = result.next
        /\ disk'.done = disk.done /\ disk'.aborted = disk.aborted
    BY <1>10, <1>e DEF Record, Recorded, Save, Session
  <2>2. ~disk.done /\ ~disk.aborted
    BY <1>10 DEF Record, EndInv
  <2>3. QED
    BY <1>10, <2>1, <2>2 DEF Record, EndInv, Sentinels
<1>11. CASE Finish
  BY <1>11, <1>e DEF Finish, Save, EndInv, Session
<1>12. CASE Crash
  BY <1>12 DEF Crash, EndInv
<1>13. CASE UNCHANGED vars
  BY <1>13 DEF vars, EndInv
<1>14. QED
  BY <1>1, <1>2, <1>3, <1>4, <1>5, <1>6, <1>7, <1>8, <1>9, <1>10, <1>11, <1>12, <1>13
     DEF Next, Loop

LEMMA AlwaysEnded == Spec => []EndInv
BY AlwaysTyped, InitEnd, EndStep, PTL DEF Spec

\* Only its recipe brings a session to done, never a budget, a crash or a resume.
THEOREM DoneByRecipe == Spec => []DoneMeansEnded
<1>1. EndInv => DoneMeansEnded
  BY DEF EndInv, DoneMeansEnded
<1>2. QED
  BY <1>1, AlwaysEnded, PTL

\* No way of resuming takes up a session that is done or aborted.
THEOREM FinishedStaysFinished == Spec => FinishedForGood
<1>1. TInv /\ EndInv /\ [Next]_vars => [Finished(disk) => UNCHANGED <<disk, pc>>]_vars
  <2> SUFFICES ASSUME TInv, EndInv, Next, Finished(disk)
               PROVE  UNCHANGED <<disk, pc>>
    BY DEF EndInv
  <2>1. pc = "down" /\ began
    BY DEF EndInv, TInv, Unborn, Fresh, Finished
  <2>2. ~Start /\ ~ResumeAsSaved /\ ~ResumeFromRepl /\ ~ResumeFromTurn /\ ~Crash
    BY <2>1 DEF Start, ResumeAsSaved, ResumeFromRepl, ResumeFromTurn, Run, Crash
  <2>3. ~Loop
    BY <2>1 DEF Loop, BudgetExceeded, StopAtSentinel, StepNotFound, BeginStep, StepReturns,
                StepRaises, RetriesExhausted, RecordInterrupt, Record, Finish
  <2>4. QED
    BY <2>2, <2>3 DEF Next
<1>2. QED
  BY <1>1, AlwaysTyped, AlwaysEnded, PTL DEF Spec, FinishedForGood
=============================================================================
