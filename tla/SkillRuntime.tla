---------------------------- MODULE SkillRuntime ----------------------------
(***************************************************************************)
(* One session of a skill (skill_runtime.py): the runner calls the step    *)
(* functions of a recipe one after the other and saves the session after   *)
(* each; a step may fail and be retried, hand over to a recovery step,     *)
(* interrupt the session for the operator, end or abort it.  A runner may  *)
(* die at any moment; a saved session is resumed by the RUN_SKILL          *)
(* directive, by the REPL (`skill resume`) or by the next turn of the chat *)
(* (dispatch.py), each in its own way.                                     *)
(*                                                                         *)
(* A recipe may do anything in what its steps return; a step is taken not  *)
(* to reach into the session it is handed, other than into its data.  A    *)
(* save is atomic (temporary file and rename).  One runner at a time has   *)
(* the session; the times, results and error texts it records are left out.*)
(***************************************************************************)
EXTENDS Naturals

CONSTANTS
    Steps,        \* the names in the recipe's STEPS
    Entrypoint,   \* the step a session starts with
    Unknown,      \* a name a step may return that the recipe lacks
    Retries,      \* retry_on_fail of each step
    RecoveryNext, \* recovery_next of each step, or NoStep
    NoStep,
    StepBudget,   \* DEFAULT_STEP_BUDGET (50), for a start and most resumes
    TurnBudget,   \* the step_budget of a resume by the next turn (10)
    MaxResumes, MaxCrashes \* bounds

Sentinels == {"END", "ABORT", "INTERRUPT"}

ASSUME SkillAssumption ==
    /\ Entrypoint \in Steps /\ Unknown \notin Steps /\ NoStep \notin Steps
    /\ (Steps \cup {Unknown, NoStep}) \cap Sentinels = {}
    /\ Retries \in [Steps -> Nat]
    /\ RecoveryNext \in [Steps -> Steps \cup {NoStep}]
    /\ StepBudget \in Nat /\ TurnBudget \in Nat
    /\ MaxResumes \in Nat /\ MaxCrashes \in Nat

VARIABLES
    disk,     \* the saved session
    state,    \* the running session in memory
    pc,       \* where the runner is; "down" when there is none
    budget,   \* the step_budget of this run_skill
    attempt,  \* of _run_step_with_retries
    result,   \* what the step returned
    \* The rest is history, which no guard but a bound reads.
    began,    \* has the session been started
    returned, \* how many calls of a step function have returned
    verdict,  \* the last sentinel a step's result brought about
    resumes, crashes

history == <<began, returned, verdict, resumes, crashes>>
vars == <<disk, state, pc, budget, attempt, result, history>>

Places == Steps \cup {Unknown} \cup Sentinels

\* pending is the recipe's data["_pending_step"].
Session == [current : Places, count : Nat, done : BOOLEAN, aborted : BOOLEAN,
            pending : Steps \cup {NoStep}]

\* interrupt is the result's flag of that name; pending is the step it names in
\* its state_update, if any.
Result == [next : Places, interrupt : BOOLEAN, pending : Steps \cup {NoStep}]

Fresh == [current |-> Entrypoint, count |-> 0, done |-> FALSE, aborted |-> FALSE,
          pending |-> NoStep]
NoResult == [next |-> "END", interrupt |-> FALSE, pending |-> NoStep]

Finished(s) == s.done \/ s.aborted

Init ==
    /\ disk = Fresh /\ state = Fresh
    /\ pc = "down" /\ budget = StepBudget /\ attempt = 1 /\ result = NoResult
    /\ began = FALSE /\ returned = 0 /\ verdict = "none"
    /\ resumes = 0 /\ crashes = 0

\* save_state, with the runner going on to place.
Save(s, place) == state' = s /\ disk' = s /\ pc' = place

-----------------------------------------------------------------------------
(* Starting and resuming: run_skill, dispatch.py, master_ai.py *)

\* run_skill without resume: a fresh session is saved before its first step.
\* (A directive that names the session in JSON without "resume" would start it
\* over; that new life of the file is not modelled.)
Start ==
    /\ pc = "down" /\ ~began
    /\ began' = TRUE
    /\ Save(Fresh, "loop")
    /\ budget' = StepBudget
    /\ UNCHANGED <<attempt, result, returned, verdict, resumes, crashes>>

\* Faulty variant: a finished session is run again.
RunFinishedToo(s, b) ==
    /\ pc = "down" /\ began
    /\ resumes < MaxResumes /\ resumes' = resumes + 1
    /\ Save(s, "loop")
    /\ budget' = b
    /\ UNCHANGED <<attempt, result, began, returned, verdict, crashes>>

\* run_skill with resume, once the session has been saved as s: a finished
\* session is only returned.
Run(s, b) ==
    /\ pc = "down" /\ began
    /\ ~Finished(disk)
    /\ resumes < MaxResumes /\ resumes' = resumes + 1
    /\ Save(s, "loop")
    /\ budget' = b
    /\ UNCHANGED <<attempt, result, began, returned, verdict, crashes>>

\* RUN_SKILL with a session id, or `skill run <name> <session>`: as it was saved.
ResumeAsSaved == Run(disk, StepBudget)

\* `skill resume`: an interrupted session moves on to its pending step, and is
\* refused without one. The pending step stays on record.
ResumeFromRepl ==
    /\ disk.current = "INTERRUPT" => disk.pending # NoStep
    /\ Run([disk EXCEPT !.current = IF @ = "INTERRUPT" THEN disk.pending ELSE @], StepBudget)

\* The next turn brings the results of the pending directives: the session moves
\* on to its pending step, if it has one, and forgets it. (The copy of the pending
\* step in the history's marker, a fallback, is taken to agree with the session's.)
ResumeFromTurn ==
    Run([disk EXCEPT
            !.current = IF @ = "INTERRUPT" /\ disk.pending # NoStep THEN disk.pending ELSE @,
            !.pending = NoStep],
        TurnBudget)

-----------------------------------------------------------------------------
(* The loop of run_skill *)

\* The number of recorded steps is compared with this run's budget first.
BudgetExceeded ==
    /\ pc = "loop" /\ state.count >= budget
    /\ Save([state EXCEPT !.aborted = TRUE], "down")
    /\ UNCHANGED <<budget, attempt, result, history>>

\* The loop is entered on END or ABORT only after a crash: Finish comes first.
StopAtSentinel ==
    /\ pc = "loop" /\ state.count < budget
    /\ \/ state.current = "END" /\ Save([state EXCEPT !.done = TRUE], "down")
       \/ state.current = "ABORT" /\ Save([state EXCEPT !.aborted = TRUE], "down")
       \/ state.current = "INTERRUPT" /\ Save(state, "down")
    /\ UNCHANGED <<budget, attempt, result, history>>

StepNotFound ==
    /\ pc = "loop" /\ state.count < budget
    /\ state.current = Unknown
    /\ Save([state EXCEPT !.aborted = TRUE], "down")
    /\ UNCHANGED <<budget, attempt, result, history>>

\* Faulty variant: the budget is not checked.
BeginStepUnbudgeted ==
    /\ pc = "loop"
    /\ state.current \in Steps
    /\ pc' = "try" /\ attempt' = 1
    /\ UNCHANGED <<disk, state, budget, result, history>>

BeginStep ==
    /\ pc = "loop" /\ state.count < budget
    /\ state.current \in Steps
    /\ pc' = "try" /\ attempt' = 1
    /\ UNCHANGED <<disk, state, budget, result, history>>

\* The step function returns a dict.
StepReturns ==
    /\ pc = "try"
    /\ result' \in Result
    /\ returned' = returned + 1
    /\ pc' = "record"
    /\ UNCHANGED <<disk, state, budget, attempt, began, verdict, resumes, crashes>>

\* Faulty variant: a step that raised is begun again, its attempts uncounted.
StepRaisesUncounted ==
    /\ pc = "try"
    /\ pc' = "loop"
    /\ UNCHANGED <<disk, state, budget, attempt, result, history>>

\* Faulty variant: one retry too many.
StepRaisesOnceMore ==
    /\ pc = "try"
    /\ attempt <= Retries[state.current] + 1
    /\ attempt' = attempt + 1
    /\ UNCHANGED <<disk, state, pc, budget, result, history>>

\* The step function raises, or returns something else, and is tried again.
StepRaises ==
    /\ pc = "try"
    /\ attempt <= Retries[state.current]
    /\ attempt' = attempt + 1
    /\ UNCHANGED <<disk, state, pc, budget, result, history>>

\* It has raised for the last time: the recovery step is next, or the end.
RetriesExhausted ==
    /\ pc = "try"
    /\ attempt > Retries[state.current]
    /\ result' = [NoResult EXCEPT
          !.next = IF RecoveryNext[state.current] # NoStep
                   THEN RecoveryNext[state.current] ELSE "ABORT"]
    /\ pc' = "record"
    /\ UNCHANGED <<disk, state, budget, attempt, history>>

Pending(r) == IF r.pending # NoStep THEN r.pending ELSE state.pending

\* An interrupt is recorded and saved, and the run is over.
RecordInterrupt ==
    /\ pc = "record" /\ result.interrupt
    /\ Save([state EXCEPT !.current = "INTERRUPT", !.count = @ + 1, !.pending = Pending(result)],
            "down")
    /\ verdict' = "INTERRUPT"
    /\ UNCHANGED <<budget, attempt, result, began, returned, resumes, crashes>>

Recorded ==
    [state EXCEPT !.current = result.next, !.count = @ + 1, !.pending = Pending(result)]

\* Faulty variant: the session is saved only when it ends.
RecordUnsaved ==
    /\ pc = "record" /\ ~result.interrupt
    /\ state' = Recorded
    /\ pc' = IF result.next \in {"END", "ABORT"} THEN "finish" ELSE "loop"
    /\ verdict' = IF result.next \in Sentinels THEN result.next ELSE verdict
    /\ UNCHANGED <<disk, budget, attempt, result, began, returned, resumes, crashes>>

\* Any other result is recorded and saved, and the loop goes on.
Record ==
    /\ pc = "record" /\ ~result.interrupt
    /\ Save(Recorded, IF result.next \in {"END", "ABORT"} THEN "finish" ELSE "loop")
    /\ verdict' = IF result.next \in Sentinels THEN result.next ELSE verdict
    /\ UNCHANGED <<budget, attempt, result, began, returned, resumes, crashes>>

\* Faulty variant: every sentinel counts as done.
FinishAsDone ==
    /\ pc = "finish"
    /\ Save([state EXCEPT !.done = TRUE], "down")
    /\ UNCHANGED <<budget, attempt, result, history>>

\* After END or ABORT the session is saved once more, as done or aborted.
Finish ==
    /\ pc = "finish"
    /\ Save(IF state.current = "END" THEN [state EXCEPT !.done = TRUE]
                                     ELSE [state EXCEPT !.aborted = TRUE],
            "down")
    /\ UNCHANGED <<budget, attempt, result, history>>

\* The runner dies; what it saved stays.
Crash ==
    /\ pc # "down"
    /\ crashes < MaxCrashes /\ crashes' = crashes + 1
    /\ pc' = "down" /\ state' = disk
    /\ UNCHANGED <<disk, budget, attempt, result, began, returned, verdict, resumes>>

-----------------------------------------------------------------------------
Loop ==
    \/ BudgetExceeded \/ StopAtSentinel \/ StepNotFound \/ BeginStep
    \/ StepReturns \/ StepRaises \/ RetriesExhausted
    \/ RecordInterrupt \/ Record \/ Finish

Next ==
    \/ Start \/ ResumeAsSaved \/ ResumeFromRepl \/ ResumeFromTurn
    \/ Loop \/ Crash

\* A runner that is not killed goes on: its loop waits for nobody.
Spec == Init /\ [][Next]_vars /\ WF_vars(Loop)

-----------------------------------------------------------------------------
(* Properties *)

\* Every variable holds a value of its type, and a step is tried no more often
\* than its retries allow.
TypeOK ==
    /\ disk \in Session /\ state \in Session
    /\ pc \in {"down", "loop", "try", "record", "finish"}
    /\ budget \in {StepBudget, TurnBudget}
    /\ attempt \in Nat \ {0} /\ result \in Result
    /\ pc = "try" => state.current \in Steps /\ attempt <= 1 + Retries[state.current]
    /\ began \in BOOLEAN /\ returned \in Nat
    /\ verdict \in {"none"} \cup Sentinels
    /\ resumes \in 0 .. MaxResumes /\ crashes \in 0 .. MaxCrashes

\* A crash repeats at most the one step that was not saved: of the calls that
\* returned, all but one for each crash, and the one in hand, are on disk.
OneStepPerCrash ==
    returned <= disk.count + crashes + (IF pc = "record" THEN 1 ELSE 0)

\* No session gets beyond the budget of the run that takes it furthest, however
\* often it is interrupted, crashes and is resumed.
WithinBudget == disk.count <= IF StepBudget > TurnBudget THEN StepBudget ELSE TurnBudget

\* A session saved as done or aborted stays as it is, and no runner takes it up
\* again, by whichever way it is resumed.
FinishedForGood == [][Finished(disk) => UNCHANGED <<disk, pc>>]_vars

\* A session that is saved as done was ended by its recipe.
DoneMeansEnded == disk.done => verdict = "END"

\* Whatever the recipe does, looping for ever included, a run comes to an end:
\* the session is finished or waits for the operator.
RunsEnd == pc = "loop" ~> pc = "down"

=============================================================================
