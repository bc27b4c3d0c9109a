----------------------------- MODULE TurnProofs -----------------------------
(***************************************************************************)
(* Proofs about the turn of the assistant, for every limit on turns,       *)
(* nudges and the watchdog, and whatever the models say; and about         *)
(* process_reply, which the turn calls, for every set of replies and       *)
(* whatever becomes of their directives.                                   *)
(***************************************************************************)
EXTENDS TurnLoop, ReplyDispatch, FiniteSetTheorems, TLAPS

USE DEF loopVars, mainVars, display

-----------------------------------------------------------------------------
(* Type correctness *)

\* The plain types.
Types ==
    /\ at \in {"main", "calling", "answering", "dispatching", "looping", "recalling", "closing",
               "watchdog"}
    /\ route \in {"cloud", "local"} /\ reply \in ReplyForms /\ result \in {"none", "reply"}
    /\ repairing \in BOOLEAN /\ unverified \in BOOLEAN /\ interrupted \in BOOLEAN
    /\ note \in {"none", "operator", "auto"} /\ late \in Nat /\ ended \in Endings

\* A repair or a nudge is counted before the call it causes, the turn after it.
Counts ==
    /\ turns \in 0 .. MaxTurns
    /\ repairs \in 0 .. MaxTurns /\ nudges \in 0 .. MaxTurns
    /\ attempts \in 0 .. (MaxNudges + 1) /\ attemptsRead \in 0 .. (MaxNudges + 1)
    /\ at \in {"calling", "answering", "dispatching", "looping"}
          => repairs <= turns /\ nudges <= turns
    /\ at = "recalling" => turns < MaxTurns /\ repairs <= turns + 1 /\ nudges <= turns + 1

\* What is on the screen has been seen, and what was seen is flagged.
Flags ==
    /\ rendered \in BOOLEAN /\ shown \in BOOLEAN /\ seen \in BOOLEAN
    /\ (shown => seen) /\ (seen => rendered)

\* The watchdog's streak counts the turns that no human began, but for the first
\* after a restart.
Leash ==
    /\ streak \in 0 .. MaxStreak /\ unattended \in 0 .. (MaxStreak + 1)
    /\ at = "main" /\ note = "auto" => unattended <= streak
    /\ at # "main" => note # "auto" /\ unattended <= streak + 1

TInv == Types /\ Counts /\ Flags /\ Leash

\* The least of two numbers.
LEMMA MinOfTwo ==
    ASSUME NEW m \in Nat, NEW n \in Nat
    PROVE  Min({m, n}) \in Nat /\ Min({m, n}) <= m /\ Min({m, n}) <= n
<1>1. \E x \in {m, n} : \A y \in {m, n} : x <= y
  <2>1. CASE m <= n
    BY <2>1
  <2>2. CASE ~(m <= n)
    BY <2>2
  <2>3. QED
    BY <2>1, <2>2
<1>2. Min({m, n}) \in {m, n} /\ \A y \in {m, n} : Min({m, n}) <= y
  BY <1>1 DEF Min
<1>3. QED
  BY <1>2

\* The count of nudges stays one above the limit at most.
LEMMA NudgeCounted ==
    ASSUME attempts \in 0 .. (MaxNudges + 1), attemptsRead \in 0 .. (MaxNudges + 1), CountNudge
    PROVE  attempts' \in 0 .. (MaxNudges + 1)
<1>1. Min({attemptsRead + 1, MaxNudges + 1}) \in 0 .. (MaxNudges + 1)
  BY TurnAssumption, MinOfTwo
<1>2. QED
  BY <1>1 DEF CountNudge

LEMMA InitTyped == Init => TInv
<1> SUFFICES ASSUME Init PROVE TInv
  OBVIOUS
<1>1. Types
  BY DEF Init, Types, ReplyForms, Endings
<1>2. Counts
  BY TurnAssumption DEF Init, Counts
<1>3. Flags
  BY DEF Init, Flags
<1>4. Leash
  BY TurnAssumption DEF Init, Leash
<1>5. QED
  BY <1>1, <1>2, <1>3, <1>4 DEF TInv

LEMMA TypesKept == TInv /\ [Next]_vars => Types'
<1> SUFFICES ASSUME Types, [Next]_vars PROVE Types'
  BY DEF TInv
<1> USE DEF Types, ReplyForms, Endings
<1>1. CASE BeginTurn
  BY <1>1 DEF BeginTurn
<1>2. CASE AnswerFromCache
  BY <1>2 DEF AnswerFromCache
<1>10. CASE Interrupt
  BY <1>10 DEF Interrupt
<1>11. CASE TurnRaises
  BY <1>11 DEF TurnRaises
<1>3. CASE Watchdog
  BY <1>3 DEF Watchdog
<1>4. CASE AnswerDirectly \/ FirstCall \/ SetAside
  BY <1>4 DEF AnswerDirectly, FirstCall, SetAside
<1>5. CASE Dispatch
  <2>1. late' \in Nat /\ at' = "looping" /\ UNCHANGED <<reply, route, interrupted, ended>>
    BY <1>5 DEF Dispatch
  <2>2. result' \in {"reply", "none"} /\ repairing' \in BOOLEAN
    BY <1>5 DEF Dispatch
  <2>3. unverified' \in BOOLEAN /\ note' \in {"none", "operator", "auto"}
    BY <1>5 DEF Dispatch
  <2>4. QED
    BY <2>1, <2>2, <2>3
<1>6. CASE Reask \/ StopLoop \/ NextCall \/ NoReply \/ LeaveLoop
  BY <1>6 DEF Reask, StopLoop, NextCall, NoReply, LeaveLoop
<1>7. CASE Close
  BY <1>7 DEF Close
<1>8. CASE UNCHANGED vars
  BY <1>8 DEF vars
<1>9. QED
  BY <1>1, <1>4, <1>5, <1>6, <1>7, <1>8, <1>2, <1>10, <1>11, <1>3 DEF Next, InTurn

LEMMA CountsKept == TInv /\ [Next]_vars => Counts'
<1> SUFFICES ASSUME Types, Counts, [Next]_vars PROVE Counts'
  BY DEF TInv
<1> USE TurnAssumption DEF Counts
<1>1. CASE BeginTurn
  BY <1>1 DEF BeginTurn
<1>2. CASE AnswerFromCache \/ Interrupt \/ TurnRaises \/ Watchdog
  BY <1>2 DEF AnswerFromCache, Interrupt, TurnRaises, Watchdog
<1>3. CASE AnswerDirectly \/ FirstCall \/ SetAside \/ Dispatch
  BY <1>3 DEF AnswerDirectly, FirstCall, SetAside, Dispatch
<1>4. CASE Reask
  BY <1>4, NudgeCounted DEF Reask, GoesOn
<1>5. CASE StopLoop
  BY <1>5, NudgeCounted DEF StopLoop
<1>6. CASE NextCall
  BY <1>6 DEF NextCall
<1>7. CASE NoReply \/ LeaveLoop \/ Close
  BY <1>7 DEF NoReply, LeaveLoop, Close
<1>8. CASE UNCHANGED vars
  BY <1>8 DEF vars
<1>9. QED
  BY <1>1, <1>2, <1>3, <1>4, <1>5, <1>6, <1>7, <1>8 DEF Next, InTurn

LEMMA FlagsKept == TInv /\ [Next]_vars => Flags'
<1> SUFFICES ASSUME Flags, [Next]_vars PROVE Flags'
  BY DEF TInv
<1> USE DEF Flags, Render
<1>1. CASE BeginTurn
  BY <1>1 DEF BeginTurn
<1>2. CASE AnswerFromCache \/ Interrupt \/ TurnRaises \/ Watchdog
  BY <1>2 DEF AnswerFromCache, Interrupt, TurnRaises, Watchdog
<1>3. CASE AnswerDirectly \/ SetAside \/ Reask \/ StopLoop \/ NoReply \/ LeaveLoop
  BY <1>3 DEF AnswerDirectly, SetAside, Reask, StopLoop, NoReply, LeaveLoop
<1>4. CASE FirstCall \/ NextCall
  BY <1>4 DEF FirstCall, NextCall, Arrives
<1>5. CASE Dispatch
  <2>1. UNCHANGED display \/ Render
    BY <1>5 DEF Dispatch
  <2>2. CASE UNCHANGED display
    BY <2>2
  <2>3. CASE Render
    BY <2>3
  <2>4. QED
    BY <2>1, <2>2, <2>3
<1>6. CASE Close
  BY <1>6 DEF Close
<1>7. CASE UNCHANGED vars
  BY <1>7 DEF vars
<1>8. QED
  BY <1>1, <1>3, <1>4, <1>5, <1>6, <1>7, <1>2 DEF Next, InTurn

LEMMA LeashKept == TInv /\ [Next]_vars => Leash'
<1> SUFFICES ASSUME Types, Leash, [Next]_vars PROVE Leash'
  BY DEF TInv
<1> USE TurnAssumption DEF Leash
<1>1. CASE BeginTurn \/ AnswerFromCache
  BY <1>1 DEF BeginTurn, AnswerFromCache
<1>2. CASE Interrupt \/ TurnRaises
  BY <1>2 DEF Interrupt, TurnRaises
<1>3. CASE Watchdog
  BY <1>3 DEF Watchdog, Leashed
<1>4. CASE Dispatch
  BY <1>4 DEF Dispatch
<1>5. CASE AnswerDirectly \/ SetAside \/ InTurn
  BY <1>5 DEF InTurn, AnswerDirectly, FirstCall, SetAside, Reask, StopLoop, NextCall, NoReply,
              LeaveLoop, Close
<1>6. CASE UNCHANGED vars
  BY <1>6 DEF vars
<1>7. QED
  BY <1>1, <1>2, <1>3, <1>4, <1>5, <1>6 DEF Next

LEMMA AlwaysTyped == Spec => []TInv
<1>1. TInv /\ [Next]_vars => TInv'
  BY TypesKept, CountsKept, FlagsKept, LeashKept DEF TInv
<1>2. QED
  BY <1>1, InitTyped, PTL DEF Spec

\* Every counter keeps its limit, whatever the models say: turns, repairs and nudges,
\* and the turns that the watchdog begins in a row.
THEOREM TypeCorrect == Spec => []TypeOK
<1>1. TInv => TypeOK
  BY DEF TInv, Types, Counts, Flags, Leash, TypeOK
<1>2. QED
  BY <1>1, AlwaysTyped, PTL

-----------------------------------------------------------------------------
(* The operator's interrupt *)

\* A reply that was carried out after the interrupt was the last to be called for.
HeedInv ==
    /\ late \in {0, 1}
    /\ late = 1 => interrupted /\ at \notin {"calling", "answering", "recalling", "dispatching"}

LEMMA HeedStep == HeedInv /\ [Next]_vars => HeedInv'
<1> SUFFICES ASSUME HeedInv, [Next]_vars PROVE HeedInv'
  OBVIOUS
<1> USE DEF HeedInv
<1>1. CASE BeginTurn \/ AnswerFromCache \/ Interrupt \/ TurnRaises \/ Watchdog
  BY <1>1 DEF BeginTurn, AnswerFromCache, Interrupt, TurnRaises, Watchdog
<1>2. CASE AnswerDirectly \/ FirstCall \/ SetAside
  BY <1>2 DEF AnswerDirectly, FirstCall, SetAside
<1>3. CASE Dispatch
  BY <1>3 DEF Dispatch
<1>4. CASE Reask
  BY <1>4 DEF Reask, MayCall
<1>5. CASE StopLoop \/ NextCall \/ NoReply \/ LeaveLoop \/ Close
  BY <1>5 DEF StopLoop, NextCall, NoReply, LeaveLoop, Close
<1>6. CASE UNCHANGED vars
  BY <1>6 DEF vars
<1>7. QED
  BY <1>1, <1>2, <1>3, <1>4, <1>5, <1>6 DEF Next, InTurn

\* However many turns are allowed, one reply at most is carried out after Ctrl+C.
THEOREM OneLateReply == Spec => []InterruptHeeded
<1>1. Init => HeedInv
  BY DEF Init, HeedInv
<1>2. HeedInv => InterruptHeeded
  BY DEF HeedInv, InterruptHeeded
<1>3. QED
  BY <1>1, <1>2, HeedStep, PTL DEF Spec

-----------------------------------------------------------------------------
(* The answer is seen *)

\* A reply that stands as the answer has been shown when process_reply returns it, if
\* there is anything to show.
ShownInv ==
    /\ at = "looping" /\ result = "reply" /\ reply \in {"words", "fixed"} => shown
    /\ at = "closing" => ended # "stuck"
    /\ at = "closing" /\ ended = "answer" => result = "reply"
    /\ at = "closing" /\ ended = "answer" /\ reply \in {"words", "fixed"} => shown
    /\ AnswerShown

LEMMA ShownStep == TInv /\ ShownInv /\ [Next]_vars => ShownInv'
<1> SUFFICES ASSUME Types, Flags, ShownInv, [Next]_vars PROVE ShownInv'
  BY DEF TInv
<1> USE DEF ShownInv, AnswerShown
<1>1. CASE BeginTurn \/ AnswerFromCache \/ Interrupt \/ TurnRaises \/ Watchdog
  BY <1>1 DEF BeginTurn, AnswerFromCache, Interrupt, TurnRaises, Watchdog
<1>2. CASE AnswerDirectly \/ FirstCall \/ SetAside
  BY <1>2 DEF AnswerDirectly, FirstCall, SetAside
<1>3. CASE Dispatch
  BY <1>3 DEF Dispatch, Render
<1>4. CASE Reask \/ NextCall \/ NoReply
  BY <1>4 DEF Reask, NextCall, NoReply
<1>5. CASE StopLoop
  BY <1>5 DEF StopLoop
<1>6. CASE LeaveLoop
  BY <1>6 DEF LeaveLoop, Types
<1>7. CASE Close
  <2>1. at' = "watchdog" /\ (ended' \in {"answer", "stuck"} => ended' = "stuck" \/ ended = "answer")
    BY <1>7 DEF Close
  <2>2. CASE result = "none" /\ (repairs > 0 \/ reply = "blank")
    BY <1>7, <2>1, <2>2 DEF Close, Render
  <2>3. CASE ~(result = "none" /\ (repairs > 0 \/ reply = "blank")) /\ ~rendered
    BY <1>7, <2>1, <2>3 DEF Close, Render
  <2>4. CASE ~(result = "none" /\ (repairs > 0 \/ reply = "blank")) /\ rendered
    BY <1>7, <2>1, <2>4 DEF Close
  <2>5. QED
    BY <2>2, <2>3, <2>4
<1>8. CASE UNCHANGED vars
  BY <1>8 DEF vars
<1>9. QED
  BY <1>1, <1>2, <1>3, <1>4, <1>5, <1>6, <1>7, <1>8 DEF Next, InTurn

\* No answer and no giving up is kept from the operator, for every limit on turns.
THEOREM AnswersAreShown == Spec => []AnswerShown
<1>1. Init => ShownInv
  BY DEF Init, ShownInv, AnswerShown
<1>2. ShownInv => AnswerShown
  BY DEF ShownInv
<1>3. QED
  BY <1>1, <1>2, AlwaysTyped, ShownStep, PTL DEF Spec

-----------------------------------------------------------------------------
(* Edits are verified, or the model was told to *)

\* The count of the module, which is reset with the turn, is above 0 only after a
\* nudge of this turn, as long as the turn goes on.
NudgedInv ==
    /\ at \in {"calling", "answering", "dispatching", "looping", "recalling"} /\ attempts > 0
          => nudges > 0
    /\ at = "closing" /\ ended = "answer" /\ unverified => nudges > 0 \/ turns = MaxTurns
    /\ NeverSilentlyUnverified

LEMMA NudgedStep == TInv /\ NudgedInv /\ [Next]_vars => NudgedInv'
<1> SUFFICES ASSUME Types, Counts, NudgedInv, [Next]_vars PROVE NudgedInv'
  BY DEF TInv
<1> USE TurnAssumption DEF NudgedInv, NeverSilentlyUnverified
<1>1. CASE BeginTurn \/ AnswerFromCache \/ Interrupt \/ TurnRaises \/ Watchdog
  BY <1>1 DEF BeginTurn, AnswerFromCache, Interrupt, TurnRaises, Watchdog
<1>2. CASE AnswerDirectly \/ FirstCall \/ SetAside \/ Dispatch
  BY <1>2 DEF AnswerDirectly, FirstCall, SetAside, Dispatch
<1>3. CASE Reask
  <2>1. CASE result = "reply"
    BY <1>3, <2>1 DEF Reask, Counts
  <2>2. CASE result = "none"
    BY <1>3, <2>2 DEF Reask, CountNudge
  <2>3. QED
    BY <2>1, <2>2 DEF Types
<1>4. CASE StopLoop \/ NextCall \/ NoReply
  BY <1>4 DEF StopLoop, NextCall, NoReply
<1>5. CASE LeaveLoop
  BY <1>5 DEF LeaveLoop, GoesOn, NudgeDue, Counts
<1>6. CASE Close
  BY <1>6 DEF Close
<1>7. CASE UNCHANGED vars
  BY <1>7 DEF vars
<1>8. QED
  BY <1>1, <1>2, <1>3, <1>4, <1>5, <1>6, <1>7 DEF Next, InTurn

\* For every limit on nudges that is not 0, however the count is copied around.
THEOREM EditsAreVerified == Spec => []NeverSilentlyUnverified
<1>1. Init => NudgedInv
  BY DEF Init, NudgedInv, NeverSilentlyUnverified
<1>2. NudgedInv => NeverSilentlyUnverified
  BY DEF NudgedInv
<1>3. QED
  BY <1>1, <1>2, AlwaysTyped, NudgedStep, PTL DEF Spec

-----------------------------------------------------------------------------
(* Every turn is finite *)

\* How many steps a turn has left at a place: three for each further call of a model, and
\* one more for an interrupt that has not come.
StepsFrom(place, calls, more) ==
    [main        |-> 0,
     watchdog    |-> 1,
     closing     |-> 2,
     answering   |-> 2,
     recalling   |-> 3 * calls + 2,
     looping     |-> 3 * calls + 3,
     dispatching |-> 3 * calls + 4,
     calling     |-> 3 * calls + 5][place] + more

StepsLeft == StepsFrom(at, MaxTurns - turns, IF interrupted THEN 0 ELSE 1)

LEMMA StepsFromIs ==
    ASSUME NEW calls, NEW more
    PROVE  /\ StepsFrom("main", calls, more) = 0 + more
           /\ StepsFrom("watchdog", calls, more) = 1 + more
           /\ StepsFrom("closing", calls, more) = 2 + more
           /\ StepsFrom("answering", calls, more) = 2 + more
           /\ StepsFrom("recalling", calls, more) = 3 * calls + 2 + more
           /\ StepsFrom("looping", calls, more) = 3 * calls + 3 + more
           /\ StepsFrom("dispatching", calls, more) = 3 * calls + 4 + more
           /\ StepsFrom("calling", calls, more) = 3 * calls + 5 + more
BY DEF StepsFrom

\* What an interrupt, a call and every other step of a turn leave of it.
LEMMA StepsShrink ==
    ASSUME NEW calls \in Nat, NEW more \in {0, 1}
    PROVE  /\ \A place \in {"calling", "answering", "dispatching", "looping", "recalling",
                            "closing", "watchdog"} :
                 /\ StepsFrom("main", calls, more) \in Nat
                 /\ StepsFrom("main", calls, more) < StepsFrom(place, calls, more)
                 /\ StepsFrom(place, calls, 0) \in Nat
                 /\ StepsFrom(place, calls, 0) < StepsFrom(place, calls, 1)
           /\ \A step \in {<<"answering", "watchdog">>, <<"calling", "dispatching">>,
                           <<"dispatching", "looping">>, <<"looping", "recalling">>,
                           <<"looping", "closing">>, <<"closing", "watchdog">>} :
                 /\ StepsFrom(step[2], calls, more) \in Nat
                 /\ StepsFrom(step[2], calls, more) < StepsFrom(step[1], calls, more)
           /\ calls > 0 =>
                 /\ StepsFrom("closing", calls, more) \in Nat
                 /\ StepsFrom("closing", calls, more) < StepsFrom("recalling", calls, more)
                 /\ StepsFrom("dispatching", calls - 1, more) \in Nat
                 /\ StepsFrom("dispatching", calls - 1, more) < StepsFrom("recalling", calls, more)
<1>1. ASSUME NEW place \in {"calling", "answering", "dispatching", "looping", "recalling",
                            "closing", "watchdog"}
      PROVE  /\ StepsFrom("main", calls, more) \in Nat
             /\ StepsFrom("main", calls, more) < StepsFrom(place, calls, more)
  BY StepsFromIs
<1>2. ASSUME NEW place \in {"calling", "answering", "dispatching", "looping", "recalling",
                            "closing", "watchdog"}
      PROVE  /\ StepsFrom(place, calls, 0) \in Nat
             /\ StepsFrom(place, calls, 0) < StepsFrom(place, calls, 1)
  BY StepsFromIs
<1>3. /\ StepsFrom("watchdog", calls, more) \in Nat
      /\ StepsFrom("closing", calls, more) \in Nat
      /\ StepsFrom("looping", calls, more) \in Nat
      /\ StepsFrom("recalling", calls, more) \in Nat
      /\ StepsFrom("dispatching", calls, more) \in Nat
  BY StepsFromIs
<1>4. /\ StepsFrom("watchdog", calls, more) < StepsFrom("closing", calls, more)
      /\ StepsFrom("closing", calls, more) < StepsFrom("looping", calls, more)
      /\ StepsFrom("recalling", calls, more) < StepsFrom("looping", calls, more)
      /\ StepsFrom("looping", calls, more) < StepsFrom("dispatching", calls, more)
      /\ StepsFrom("dispatching", calls, more) < StepsFrom("calling", calls, more)
      /\ StepsFrom("watchdog", calls, more) < StepsFrom("answering", calls, more)
  BY StepsFromIs
<1>5. ASSUME calls > 0
      PROVE  /\ StepsFrom("closing", calls, more) < StepsFrom("recalling", calls, more)
             /\ StepsFrom("dispatching", calls - 1, more) \in Nat
             /\ StepsFrom("dispatching", calls - 1, more) < StepsFrom("recalling", calls, more)
  BY <1>5, StepsFromIs
<1>6. ASSUME NEW step \in {<<"answering", "watchdog">>, <<"calling", "dispatching">>,
                           <<"dispatching", "looping">>, <<"looping", "recalling">>,
                           <<"looping", "closing">>, <<"closing", "watchdog">>}
      PROVE  /\ StepsFrom(step[2], calls, more) \in Nat
             /\ StepsFrom(step[2], calls, more) < StepsFrom(step[1], calls, more)
  BY <1>3, <1>4
<1>7. QED
  BY <1>1, <1>2, <1>3, <1>5, <1>6

LEMMA StepsGoDown ==
    TInv /\ Next /\ at # "main" => StepsLeft' \in Nat /\ StepsLeft' < StepsLeft
<1> SUFFICES ASSUME TInv, Next, at # "main"
             PROVE  StepsLeft' \in Nat /\ StepsLeft' < StepsLeft
  OBVIOUS
<1>1. PICK calls \in Nat : calls = MaxTurns - turns
  BY TurnAssumption DEF TInv, Counts
<1>2. PICK more \in {0, 1} : more = IF interrupted THEN 0 ELSE 1
  OBVIOUS
<1>3. at \in {"calling", "answering", "dispatching", "looping", "recalling", "closing",
              "watchdog"}
  BY DEF TInv, Types
<1>4. StepsLeft = StepsFrom(at, calls, more)
  BY <1>1, <1>2 DEF StepsLeft
<1>5. ASSUME turns' = turns
      PROVE  StepsLeft' = StepsFrom(at', calls, IF interrupted' THEN 0 ELSE 1)
  BY <1>1, <1>5 DEF StepsLeft
<1>6. CASE Interrupt
  <2>1. more = 1 /\ StepsLeft' = StepsFrom(at, calls, 0)
    BY <1>2, <1>5, <1>6 DEF Interrupt
  <2>2. QED
    BY <1>3, <1>4, <2>1, StepsShrink
<1>7. CASE TurnRaises \/ Watchdog
  <2>1. StepsLeft' = StepsFrom("main", calls, more)
    BY <1>2, <1>5, <1>7 DEF TurnRaises, Watchdog
  <2>2. QED
    BY <1>3, <1>4, <2>1, StepsShrink
<1>8. CASE AnswerDirectly \/ FirstCall \/ SetAside \/ Dispatch \/ Reask \/ StopLoop
           \/ LeaveLoop \/ Close
  <2>1. turns' = turns /\ interrupted' = interrupted
        /\ <<at, at'>> \in {<<"answering", "watchdog">>, <<"calling", "dispatching">>,
                            <<"dispatching", "looping">>, <<"looping", "recalling">>,
                            <<"looping", "closing">>, <<"closing", "watchdog">>}
    BY <1>8 DEF AnswerDirectly, FirstCall, SetAside, Dispatch, Reask, StopLoop, LeaveLoop, Close
  <2>2. PICK from, to : from = at /\ to = at'
    OBVIOUS
  <2>3. StepsLeft = StepsFrom(from, calls, more) /\ StepsLeft' = StepsFrom(to, calls, more)
    BY <1>2, <1>4, <1>5, <2>1, <2>2
  <2>4. <<from, to>> \in {<<"answering", "watchdog">>, <<"calling", "dispatching">>,
                          <<"dispatching", "looping">>, <<"looping", "recalling">>,
                          <<"looping", "closing">>, <<"closing", "watchdog">>}
    BY <2>1, <2>2
  <2>5. QED
    BY <2>3, <2>4, StepsShrink
<1>9. CASE NoReply \/ NextCall
  <2>1. at = "recalling" /\ calls > 0 /\ more = IF interrupted' THEN 0 ELSE 1
    <3>1. at = "recalling" /\ interrupted' = interrupted
      BY <1>9 DEF NoReply, NextCall
    <3>2. turns < MaxTurns /\ turns \in Nat /\ MaxTurns \in Nat
      BY <3>1, TurnAssumption DEF TInv, Counts
    <3>3. QED
      BY <1>1, <1>2, <3>1, <3>2
  <2>2. CASE NoReply
    <3>1. StepsLeft' = StepsFrom("closing", calls, more)
      BY <1>5, <2>1, <2>2 DEF NoReply
    <3>2. QED
      BY <1>4, <2>1, <3>1, StepsShrink
  <2>3. CASE NextCall
    <3>1. MaxTurns - turns' = calls - 1
      BY <1>1, <2>3, TurnAssumption DEF NextCall, TInv, Counts
    <3>2. StepsLeft' = StepsFrom("dispatching", calls - 1, more)
      BY <2>1, <2>3, <3>1 DEF NextCall, StepsLeft
    <3>3. QED
      BY <1>4, <2>1, <3>2, StepsShrink
  <2>4. QED
    BY <1>9, <2>2, <2>3
<1>10. CASE BeginTurn \/ AnswerFromCache
  BY <1>10 DEF BeginTurn, AnswerFromCache
<1>11. QED
  BY <1>6, <1>7, <1>8, <1>9, <1>10 DEF Next, InTurn

\* Whatever the models say and however often a reply is sent back, every step of a turn
\* leaves less of it: it takes at most 3 * MaxTurns + 6 steps (handle).
THEOREM TurnsAreFinite ==
    Spec => [][at # "main" => StepsLeft' \in Nat /\ StepsLeft' < StepsLeft]_vars
<1>1. TInv /\ [Next]_vars
         => [at # "main" => StepsLeft' \in Nat /\ StepsLeft' < StepsLeft]_vars
  BY StepsGoDown
<1>2. QED
  BY <1>1, AlwaysTyped, PTL DEF Spec

-----------------------------------------------------------------------------
(* process_reply: the order of the kinds *)

LEMMA KindsAre ==
    Kinds = {"mcp", "read", "create", "edit", "run", "runterm", "visual", "search",
             "task", "send",
             "browser", "subagent", "screenshot"}
BY DEF Kinds, Rank

\* MCP calls come first, then READs, then files; no two kinds share a place.
LEMMA RankFacts ==
    ASSUME NEW k \in Kinds, NEW l \in Kinds
    PROVE  /\ Rank[k] \in Nat
           /\ Rank[k] = Rank[l] => k = l
           /\ k = "mcp" => Rank[k] = 1
           /\ k = "read" => Rank[k] = 2
           /\ k \in Files => Rank[k] \in {3, 4}
           /\ k \notin {"mcp", "read"} \cup Files => Rank[k] > 4
BY KindsAre DEF Rank, Files

\* Nothing comes before itself, nor two directives before one another.
LEMMA BeforeIsStrict ==
    ASSUME NEW dirs \in Seq(Directive), IsInjective(dirs),
           NEW d \in Directive, NEW e \in Directive, Before(dirs, d, e)
    PROVE  d # e /\ ~Before(dirs, e, d)
<1>1. d.kind \in Kinds /\ e.kind \in Kinds
  BY DEF Directive
<1>2. Rank[d.kind] \in Nat /\ Rank[e.kind] \in Nat
  BY <1>1, RankFacts
<1>3. CASE Rank[d.kind] < Rank[e.kind]
  BY <1>2, <1>3 DEF Before
<1>4. CASE \E i, j \in DOMAIN dirs : i < j /\ dirs[i] = d /\ dirs[j] = e
  <2>1. PICK i, j \in DOMAIN dirs : i < j /\ dirs[i] = d /\ dirs[j] = e
    BY <1>4
  <2>2. \A m, n \in DOMAIN dirs : dirs[m] = dirs[n] => m = n
    BY DEF IsInjective
  <2>3. DOMAIN dirs \subseteq Nat
    OBVIOUS
  <2>4. d # e
    BY <2>1, <2>2, <2>3
  <2>5. ~\E m, n \in DOMAIN dirs : m < n /\ dirs[m] = e /\ dirs[n] = d
    BY <2>1, <2>2, <2>3
  <2>6. CASE d.kind = e.kind
    BY <1>2, <2>4, <2>5, <2>6 DEF Before
  <2>7. CASE d.kind # e.kind
    BY <1>2, <1>3, <2>7 DEF Before
  <2>8. QED
    BY <2>6, <2>7
<1>5. QED
  BY <1>3, <1>4 DEF Before

LEMMA BeforeByKind ==
    ASSUME NEW dirs, NEW d \in Directive, NEW e \in Directive
    PROVE  /\ d.kind = "read" /\ e.kind \notin {"mcp", "read"} => Before(dirs, d, e)
           /\ e.kind = "read" /\ Before(dirs, d, e) => d.kind \in {"mcp", "read"}
           /\ e.kind = "mcp" /\ Before(dirs, d, e) => d.kind = "mcp"
<1>1. d.kind \in Kinds /\ e.kind \in Kinds
  BY DEF Directive
<1>2. Rank[d.kind] \in Nat /\ Rank[e.kind] \in Nat
  BY <1>1, RankFacts
<1>3. ASSUME d.kind = "read", e.kind \notin {"mcp", "read"}
      PROVE  Before(dirs, d, e)
  <2>1. Rank[d.kind] = 2
    BY <1>1, <1>3, RankFacts
  <2>2. Rank[e.kind] > 2
    BY <1>1, <1>2, <1>3, RankFacts
  <2>3. QED
    BY <2>1, <2>2, <1>2 DEF Before
<1>4. ASSUME e.kind = "read", Before(dirs, d, e)
      PROVE  d.kind \in {"mcp", "read"}
  <2>1. Rank[e.kind] = 2
    BY <1>1, <1>4, RankFacts
  <2>2. Rank[d.kind] <= 2
    BY <2>1, <1>2, <1>4 DEF Before
  <2>3. QED
    BY <2>2, <1>1, <1>2, RankFacts
<1>5. ASSUME e.kind = "mcp", Before(dirs, d, e)
      PROVE  d.kind = "mcp"
  <2>1. Rank[e.kind] = 1
    BY <1>1, <1>5, RankFacts
  <2>2. Rank[d.kind] <= 1
    BY <2>1, <1>2, <1>5 DEF Before
  <2>3. QED
    BY <2>2, <1>1, <1>2, RankFacts
<1>6. QED
  BY <1>3, <1>4, <1>5

-----------------------------------------------------------------------------
(* process_reply: the inductive invariant *)

USE DEF slots

\* The directives are those of one reply, each once.
OfOneReply ==
    /\ given.dirs \in Seq(Directive) /\ IsInjective(given.dirs)
    /\ passed \subseteq Directive

\* What comes after something that is still to be carried out is so itself, and
\* READs are carried out together.
InTurnOfKinds ==
    /\ stage # "idle" => \A d \in todo, e \in passed : Before(given.dirs, d, e) => e \in todo
    /\ stage = "acting" =>
          \A d \in todo, e \in passed : d.kind = "read" /\ e.kind = "read" => e \in todo

\* How far process_reply has come.
Places ==
    /\ stage = "idle" => todo = {} /\ feedback = {}
    /\ stage = "gate" =>
          /\ todo = passed /\ feedback = {} /\ told = {}
          /\ \A d \in AllDirectives : fate[d] \in {"absent", "waiting"}
    /\ stage = "calls" => feedback = {} /\ \A d \in passed : d.kind # "mcp" => d \in todo
    /\ stage = "acting" => \A d \in todo : d.kind # "mcp"

\* What lies behind process_reply while it goes on: READs were made if edits follow,
\* a file is among the results or has not come off, and everything else is among the
\* results or gave an exit code.
Behind ==
    /\ feedback \subseteq {d \in passed \ todo : d.kind \notin {"mcp", "read"}}
    /\ stage = "acting" =>
          \A d \in passed \ todo :
              /\ d.kind = "read" => fate[d] = "done" /\ Of({"edit"}) # {}
              /\ d.kind \in Files => d \in feedback \/ fate[d] \in Bad
              /\ d.kind \notin {"mcp", "read"} \cup Files => d \in feedback \/ fate[d] = "answered"

DInv == DispatchTypeOK /\ OfOneReply /\ InTurnOfKinds /\ Places /\ Behind

LEMMA ReplyOf ==
    ASSUME NEW r \in Replies
    PROVE  /\ r \in Reply /\ r.dirs \in Seq(Directive) /\ IsInjective(r.dirs)
           /\ Range(r.dirs) \subseteq Directive /\ Range(r.dirs) \subseteq AllDirectives
<1>1. r \in Reply /\ IsInjective(r.dirs)
  BY ReplyAssumption
<1>2. r.dirs \in Seq(Directive)
  BY <1>1 DEF Reply
<1>3. Range(r.dirs) \subseteq Directive
  BY <1>2 DEF Range
<1>4. QED
  BY <1>1, <1>2, <1>3 DEF AllDirectives

LEMMA DirectivesAre == AllDirectives \subseteq Directive
BY ReplyOf DEF AllDirectives

\* The next one to carry out has nothing before it that is still to be carried out.
LEMMA FirstFacts ==
    ASSUME DInv, stage # "idle", NEW d \in todo, First(d)
    PROVE  /\ d \in passed /\ d \in AllDirectives /\ d \in Directive /\ fate[d] = "waiting"
           /\ \A e \in passed : Before(given.dirs, d, e) => e \in todo
           /\ \A e \in passed : Before(given.dirs, e, d) => e \notin todo
           /\ \A e \in todo \ {d}, x \in passed : Before(given.dirs, e, x) => x \in todo \ {d}
<1>1. /\ d \in passed /\ d \in AllDirectives /\ d \in Directive /\ fate[d] = "waiting"
      /\ todo \subseteq passed /\ passed \subseteq Directive
      /\ given.dirs \in Seq(Directive) /\ IsInjective(given.dirs)
  BY DirectivesAre DEF DInv, DispatchTypeOK, OfOneReply
<1>2. \A e \in todo, x \in passed : Before(given.dirs, e, x) => x \in todo
  BY DEF DInv, InTurnOfKinds
<1>3. \A e \in todo \ {d} : Before(given.dirs, d, e)
  BY DEF First
<1>4. ASSUME NEW e \in passed, Before(given.dirs, e, d)
      PROVE  e \notin todo
  <2>1. e \in Directive /\ e # d /\ ~Before(given.dirs, d, e)
    BY <1>1, <1>4, BeforeIsStrict
  <2>2. QED
    BY <2>1, <1>3
<1>5. ASSUME NEW e \in todo \ {d}, NEW x \in passed, Before(given.dirs, e, x)
      PROVE  x \in todo \ {d}
  <2>1. x \in todo
    BY <1>2, <1>5
  <2>2. e \in Directive /\ ~Before(given.dirs, e, d)
    BY <1>1, <1>3, BeforeIsStrict
  <2>3. QED
    BY <2>1, <2>2, <1>5
<1>6. QED
  BY <1>1, <1>2, <1>4, <1>5

LEMMA DispatchTyped == DispatchInit => DInv
<1> SUFFICES ASSUME DispatchInit PROVE DInv
  OBVIOUS
<1>1. given \in Reply /\ given.dirs = <<>>
  BY DEF DispatchInit, Reply
<1>2. DispatchTypeOK
  BY <1>1 DEF DispatchInit, DispatchTypeOK, Fates
<1>3. OfOneReply
  BY <1>1 DEF DispatchInit, OfOneReply, IsInjective
<1>4. InTurnOfKinds /\ Places /\ Behind
  BY DEF DispatchInit, InTurnOfKinds, Places, Behind
<1>5. QED
  BY <1>2, <1>3, <1>4 DEF DInv

-----------------------------------------------------------------------------
(* process_reply: every step keeps the invariant *)

SlotsTyped ==
    /\ blocked \in AllDirectives \cup {NoAction, Gate}
    /\ denied \in AllDirectives \cup {NoAction} /\ hook \in AllDirectives \cup {NoAction}

\* A report about one directive, or about all of some.
LEMMA ReportsTyped ==
    /\ \A d \in AllDirectives :
          {Says("done", d), Says("failed", d), Says("refused", d), Says("declined", d),
           Says("flagged", d)} \subseteq Report
    /\ Says("unclear", NoAction) \in Report /\ Says("nothing ran", NoAction) \in Report
    /\ \A ds \in SUBSET AllDirectives :
          {Says("done", d) : d \in ds} \cup {Says("refused", d) : d \in ds} \subseteq Report
<1>1. ASSUME NEW d \in AllDirectives,
             NEW w \in {"done", "failed", "refused", "declined", "flagged"}
      PROVE  Says(w, d) \in Report
  BY DEF Report, Says
<1>2. Says("unclear", NoAction) \in Report /\ Says("nothing ran", NoAction) \in Report
  BY DEF Report, Says
<1>3. ASSUME NEW ds \in SUBSET AllDirectives
      PROVE  {Says("done", d) : d \in ds} \cup {Says("refused", d) : d \in ds} \subseteq Report
  BY <1>1
<1>4. QED
  BY <1>1, <1>2, <1>3

\* The end of process_reply leaves nothing to be carried out.
LEMMA ReturnKeeps ==
    ASSUME DInv, NEW value \in {"none", "reply"}, NEW reports \in SUBSET Report,
           Return(value, reports), given' = given, passed' \subseteq passed,
           fate' \in [AllDirectives -> Fates], SlotsTyped', fresh' \in BOOLEAN
    PROVE  DInv'
<1>1. DispatchTypeOK'
  BY DEF DInv, DispatchTypeOK, Return, SlotsTyped
<1>2. OfOneReply'
  BY DEF DInv, OfOneReply
<1>3. (InTurnOfKinds /\ Places /\ Behind)'
  BY DEF Return, InTurnOfKinds, Places, Behind
<1>4. QED
  BY <1>1, <1>2, <1>3 DEF DInv

\* The next directive gets its outcome, and process_reply goes on.
LEMMA SettledKeeps ==
    ASSUME DInv, NEW d \in todo, First(d), NEW outcome \in Refused \cup Carried,
           \/ stage = "calls" /\ d.kind = "mcp" /\ feedback' = feedback
           \/ /\ stage = "acting" /\ d.kind # "read"
              /\ feedback' = IF outcome = "done" THEN feedback \cup {d} ELSE feedback
              /\ d.kind \in Files => outcome \in Bad \cup {"done"}
              /\ d.kind \notin Files => outcome \in {"done", "answered"},
           fate' = [fate EXCEPT ![d] = outcome], todo' = todo \ {d},
           SlotsTyped', told' \subseteq Report,
           UNCHANGED <<stage, given, passed, returned, fresh>>
    PROVE  DInv'
<1>1. /\ d \in passed /\ d \in AllDirectives /\ d \in Directive /\ fate[d] = "waiting"
      /\ \A e \in todo \ {d}, x \in passed : Before(given.dirs, e, x) => x \in todo \ {d}
  BY FirstFacts DEF DInv, DispatchTypeOK
<1>2. DispatchTypeOK'
  <2>1. fate' \in [AllDirectives -> Fates]
    BY <1>1 DEF DInv, DispatchTypeOK, Fates
  <2>2. \A e \in todo' : fate'[e] = "waiting"
    BY <1>1 DEF DInv, DispatchTypeOK
  <2>3. feedback' \subseteq {e \in AllDirectives : fate'[e] = "done"}
    BY <1>1 DEF DInv, DispatchTypeOK
  <2>4. QED
    BY <2>1, <2>2, <2>3 DEF DInv, DispatchTypeOK, SlotsTyped
<1>3. OfOneReply'
  BY DEF DInv, OfOneReply
<1>4. InTurnOfKinds'
  <2>1. stage' # "idle" =>
           \A e \in todo', x \in passed' : Before(given'.dirs, e, x) => x \in todo'
    BY <1>1
  <2>2. stage' = "acting" =>
           \A e \in todo', x \in passed' : e.kind = "read" /\ x.kind = "read" => x \in todo'
    BY <1>1 DEF DInv, InTurnOfKinds
  <2>3. QED
    BY <2>1, <2>2 DEF InTurnOfKinds
<1>5. Places'
  BY <1>1 DEF DInv, Places
<1>6. Behind'
  <2>1. feedback' \subseteq {e \in passed' \ todo' : e.kind \notin {"mcp", "read"}}
    BY <1>1 DEF DInv, Behind, Places
  <2>2. ASSUME stage' = "acting", NEW e \in passed' \ todo'
        PROVE  /\ e.kind = "read" => fate'[e] = "done" /\ Of({"edit"})' # {}
               /\ e.kind \in Files => e \in feedback' \/ fate'[e] \in Bad
               /\ e.kind \notin {"mcp", "read"} \cup Files =>
                     e \in feedback' \/ fate'[e] = "answered"
    <3>1. CASE e = d
      BY <1>1, <2>2, <3>1 DEF DInv, DispatchTypeOK, Files, Places
    <3>2. CASE e # d
      <4>1. e \in passed \ todo /\ fate'[e] = fate[e] /\ feedback \subseteq feedback'
        BY <3>2, <2>2 DEF DInv, DispatchTypeOK
      <4>2. Of({"edit"})' = Of({"edit"})
        BY DEF Of
      <4>3. QED
        BY <4>1, <4>2, <2>2 DEF DInv, Behind
    <3>3. QED
      BY <3>1, <3>2
  <2>3. QED
    BY <2>1, <2>2 DEF Behind
<1>7. QED
  BY <1>2, <1>3, <1>4, <1>5, <1>6 DEF DInv

LEMMA ReceiveKeeps ==
    ASSUME DInv, NEW r \in Replies, Receive(r)
    PROVE  DInv'
<1>1. /\ r \in Reply /\ r.dirs \in Seq(Directive) /\ IsInjective(r.dirs)
      /\ Range(r.dirs) \subseteq Directive /\ Range(r.dirs) \subseteq AllDirectives
  BY ReplyOf
<1>2. DispatchTypeOK'
  BY <1>1 DEF DInv, DispatchTypeOK, Receive, Fates
<1>3. OfOneReply'
  BY <1>1 DEF OfOneReply, Receive
<1>4. (InTurnOfKinds /\ Places /\ Behind)'
  BY <1>1 DEF Receive, InTurnOfKinds, Places, Behind
<1>5. QED
  BY <1>2, <1>3, <1>4 DEF DInv

LEMMA GateKeeps ==
    ASSUME DInv, ValidationGate
    PROVE  DInv'
<1> DEFINE invalid == {d \in todo : d.kind \in Gated /\ ~d.valid}
           reports == {Says("refused", d) : d \in invalid}
<1>1. /\ stage = "gate" /\ todo = passed /\ todo \subseteq AllDirectives
      /\ feedback = {} /\ invalid \subseteq todo
      /\ passed' = passed \ invalid /\ given' = given
      /\ fate' = [d \in AllDirectives |-> IF d \in invalid THEN "refused" ELSE fate[d]]
  BY DEF ValidationGate, DInv, Places, DispatchTypeOK
<1>2. fate' \in [AllDirectives -> Fates]
  BY <1>1 DEF DInv, DispatchTypeOK, Fates, Refused
<1>3. SlotsTyped' /\ fresh' \in BOOLEAN
  BY DEF ValidationGate, DInv, DispatchTypeOK, SlotsTyped
<1>4. reports \in SUBSET Report
  BY <1>1, ReportsTyped
<1>5. CASE Return("none", reports)
  <2>1. passed' \subseteq passed
    BY <1>1
  <2>2. QED
    BY <1>1, <1>2, <1>3, <1>4, <1>5, <2>1, ReturnKeeps
<1>6. CASE /\ stage' = "calls" /\ todo' = todo \ invalid
           /\ told' = told \cup reports
           /\ UNCHANGED <<feedback, returned>>
  <2>1. DispatchTypeOK'
    BY <1>1, <1>2, <1>3, <1>4, <1>6 DEF DInv, DispatchTypeOK, SlotsTyped
  <2>2. OfOneReply'
    BY <1>1 DEF DInv, OfOneReply
  <2>3. InTurnOfKinds' /\ Places'
    BY <1>1, <1>6 DEF InTurnOfKinds, Places
  <2>4. Behind'
    BY <1>1, <1>6 DEF Behind
  <2>5. QED
    BY <2>1, <2>2, <2>3, <2>4 DEF DInv
<1>7. QED
  BY <1>5, <1>6 DEF ValidationGate

LEMMA ActingIsTyped ==
    ASSUME DInv
    PROVE  /\ SlotsTyped /\ fate \in [AllDirectives -> Fates] /\ told \subseteq Report
           /\ fresh \in BOOLEAN /\ todo \subseteq passed /\ passed \subseteq AllDirectives
           /\ feedback \subseteq AllDirectives
BY DEF DInv, DispatchTypeOK, SlotsTyped

LEMMA McpKeeps ==
    ASSUME DInv, McpCall
    PROVE  DInv'
<1>1. PICK d \in todo : \E outcome \in {"done", "failed"} :
           /\ First(d) /\ d.kind = "mcp"
           /\ fate' = [fate EXCEPT ![d] = outcome]
           /\ told' = told \cup {Says(outcome, d)}
           /\ todo' = todo \ {d}
  BY DEF McpCall
<1>2. PICK outcome \in {"done", "failed"} :
           /\ First(d) /\ d.kind = "mcp"
           /\ fate' = [fate EXCEPT ![d] = outcome]
           /\ told' = told \cup {Says(outcome, d)}
           /\ todo' = todo \ {d}
  BY <1>1
<1>3. stage = "calls" /\ UNCHANGED <<stage, given, passed, feedback, slots, returned, fresh>>
  BY DEF McpCall
<1>4. d \in AllDirectives
  BY ActingIsTyped
<1>5. Says(outcome, d) \in Report
  BY <1>4, ReportsTyped
<1>6. SlotsTyped' /\ told' \subseteq Report
  BY <1>2, <1>3, <1>5, ActingIsTyped DEF SlotsTyped
<1>7. outcome \in Refused \cup Carried
  BY DEF Carried
<1>8. QED
  BY <1>2, <1>3, <1>6, <1>7, SettledKeeps

LEMMA StallKeeps ==
    ASSUME DInv, StallCheck
    PROVE  DInv'
<1>1. stage = "calls" /\ (\A d \in todo : d.kind # "mcp")
      /\ UNCHANGED <<given, passed, fate, slots, fresh>>
  BY DEF StallCheck
<1>2. SlotsTyped' /\ fate' \in [AllDirectives -> Fates] /\ fresh' \in BOOLEAN
  BY <1>1, ActingIsTyped DEF SlotsTyped
<1>3. CASE Return("none", {})
  <2>1. {} \in SUBSET Report /\ passed' \subseteq passed
    BY <1>1
  <2>2. QED
    BY <1>1, <1>2, <1>3, <2>1, ReturnKeeps
<1>4. CASE stage' = "acting" /\ UNCHANGED <<todo, feedback, returned, told>>
  <2>1. DispatchTypeOK' /\ OfOneReply'
    BY <1>1, <1>4 DEF DInv, DispatchTypeOK, OfOneReply
  <2>2. InTurnOfKinds'
    BY <1>1, <1>4 DEF DInv, InTurnOfKinds, Places
  <2>3. Places'
    BY <1>1, <1>4 DEF Places
  <2>4. Behind'
    <3>1. \A d \in passed \ todo : d.kind = "mcp"
      BY <1>1 DEF DInv, Places
    <3>2. feedback' \subseteq {d \in passed' \ todo' : d.kind \notin {"mcp", "read"}}
      BY <1>1, <1>4 DEF DInv, Behind
    <3>3. QED
      BY <1>1, <1>4, <3>1, <3>2 DEF Behind, Files
  <2>5. QED
    BY <2>1, <2>2, <2>3, <2>4 DEF DInv
<1>5. QED
  BY <1>3, <1>4 DEF StallCheck

\* What the READs came to.
ReadOutcome(got, fenced) ==
    [d \in Of({"read"}) |-> IF d \in got THEN "done"
                            ELSE IF d \in fenced THEN "refused" ELSE "failed"]
ReadReports(got, fenced) == {Says(ReadOutcome(got, fenced)[d], d) : d \in Of({"read"})}

\* The step of Read for what was got and what the fence kept.
ReadStep(got, fenced) ==
    /\ fate' = [d \in AllDirectives |->
                   IF d \in Of({"read"}) THEN ReadOutcome(got, fenced)[d] ELSE fate[d]]
    /\ IF fenced = {} THEN UNCHANGED blocked ELSE blocked' \in fenced
    /\ IF got = Of({"read"}) /\ Of({"edit"}) # {}
       THEN /\ todo' = todo \ Of({"read"})
            /\ told' = told \cup ReadReports(got, fenced)
            /\ UNCHANGED <<stage, feedback, returned>>
       ELSE Return("none", ReadReports(got, fenced))

LEMMA ReadSteps ==
    ASSUME Read
    PROVE  /\ stage = "acting" /\ UNCHANGED <<given, passed, denied, hook, fresh>>
           /\ \E d \in todo : First(d) /\ d.kind = "read"
           /\ \E got \in SUBSET Of({"read"}) :
                 \E fenced \in SUBSET (Of({"read"}) \ got) : ReadStep(got, fenced)
BY DEF Read, ReadStep, ReadOutcome, ReadReports, AtKind

LEMMA ReadKeeps ==
    ASSUME DInv, Read
    PROVE  DInv'
<1>1. /\ stage = "acting" /\ UNCHANGED <<given, passed, denied, hook, fresh>>
      /\ \E d \in todo : First(d) /\ d.kind = "read"
  BY ReadSteps
<1>2. PICK got \in SUBSET Of({"read"}) :
         \E fenced \in SUBSET (Of({"read"}) \ got) : ReadStep(got, fenced)
  BY ReadSteps
<1>3. PICK fenced \in SUBSET (Of({"read"}) \ got) : ReadStep(got, fenced)
  BY <1>2
<1>4. Of({"read"}) \subseteq passed /\ Of({"read"}) \subseteq AllDirectives
  BY ActingIsTyped DEF Of
<1>5. \A d \in Of({"read"}) : ReadOutcome(got, fenced)[d] \in {"done", "refused", "failed"}
  BY DEF ReadOutcome
<1>6. fate' \in [AllDirectives -> Fates]
  BY <1>3, <1>5, ActingIsTyped DEF ReadStep, Fates, Refused, Carried
<1>7. ReadReports(got, fenced) \in SUBSET Report
  BY <1>4, <1>5, ReportsTyped DEF ReadReports
<1>8. SlotsTyped' /\ fresh' \in BOOLEAN
  BY <1>1, <1>3, <1>4, ActingIsTyped DEF ReadStep, SlotsTyped
<1>9. CASE Return("none", ReadReports(got, fenced))
  <2>1. passed' \subseteq passed
    BY <1>1
  <2>2. QED
    BY <1>1, <1>6, <1>7, <1>8, <1>9, <2>1, ReturnKeeps
<1>10. CASE /\ got = Of({"read"}) /\ Of({"edit"}) # {}
            /\ todo' = todo \ Of({"read"})
            /\ told' = told \cup ReadReports(got, fenced)
            /\ UNCHANGED <<stage, feedback, returned>>
  <2> DEFINE reads == Of({"read"})
  <2>1. \A d \in reads : fate'[d] = "done"
    BY <1>3, <1>4, <1>10 DEF ReadStep, ReadOutcome
  <2>2. \A d \in AllDirectives \ reads : fate'[d] = fate[d]
    BY <1>3 DEF ReadStep
  <2>3. \A d \in passed : d \in reads <=> d.kind = "read"
    BY DEF Of
  <2>4. todo \subseteq passed /\ passed \subseteq AllDirectives /\ passed \subseteq Directive
    BY ActingIsTyped DEF DInv, OfOneReply
  <2>5. DispatchTypeOK'
    <3>1. \A d \in todo' : fate'[d] = "waiting"
      BY <1>10, <2>2, <2>4 DEF DInv, DispatchTypeOK
    <3>2. feedback' \subseteq {d \in AllDirectives : fate'[d] = "done"}
      BY <1>10, <2>1, <2>2 DEF DInv, DispatchTypeOK
    <3>3. QED
      BY <1>1, <1>6, <1>7, <1>8, <1>10, <3>1, <3>2 DEF DInv, DispatchTypeOK, SlotsTyped
  <2>6. OfOneReply'
    BY <1>1 DEF DInv, OfOneReply
  <2>7. InTurnOfKinds'
    <3>1. ASSUME NEW d \in todo', NEW e \in passed, Before(given.dirs, d, e)
          PROVE  e \in todo'
      <4>1. d \in todo /\ d \in passed /\ d \in Directive /\ e \in Directive
        BY <1>10, <2>4
      <4>2. d.kind \notin {"mcp", "read"}
        BY <1>1, <1>10, <4>1, <2>3 DEF DInv, Places
      <4>3. e.kind # "read"
        BY <3>1, <4>1, <4>2, BeforeByKind
      <4>4. e \in todo
        BY <1>1, <3>1, <4>1 DEF DInv, InTurnOfKinds
      <4>5. QED
        BY <4>3, <4>4, <2>3, <1>10
    <3>2. \A d \in todo' : d.kind # "read"
      BY <1>10, <2>3, <2>4
    <3>3. QED
      BY <1>1, <3>1, <3>2 DEF InTurnOfKinds
  <2>8. Places'
    BY <1>1, <1>10 DEF DInv, Places
  <2>9. Behind'
    <3>1. feedback' \subseteq {d \in passed' \ todo' : d.kind \notin {"mcp", "read"}}
      BY <1>1, <1>10 DEF DInv, Behind
    <3>2. Of({"edit"})' # {}
      BY <1>1, <1>10 DEF Of
    <3>3. ASSUME NEW d \in passed' \ todo', d.kind # "read"
          PROVE  d \in passed \ todo /\ fate'[d] = fate[d]
      BY <1>1, <1>10, <2>2, <2>3, <2>4, <3>3
    <3>4. \A d \in passed' \ todo' : d.kind = "read" => fate'[d] = "done" /\ Of({"edit"})' # {}
      BY <1>1, <2>1, <2>3, <3>2
    <3>5. \A d \in passed' \ todo' :
             /\ d.kind \in Files => d \in feedback' \/ fate'[d] \in Bad
             /\ d.kind \notin {"mcp", "read"} \cup Files =>
                    d \in feedback' \/ fate'[d] = "answered"
      BY <1>1, <1>10, <3>3 DEF DInv, Behind, Files
    <3>6. QED
      BY <3>1, <3>4, <3>5 DEF Behind
  <2>10. QED
    BY <2>5, <2>6, <2>7, <2>8, <2>9 DEF DInv
<1>11. QED
  BY <1>3, <1>9, <1>10 DEF ReadStep

LEMMA FileDoneKeeps ==
    ASSUME DInv, NEW d \in todo, AtKind(d, Files), NEW outcome \in Bad \cup {"done"}, NEW noted,
           FileDone(d, outcome, noted)
    PROVE  DInv'
<1>1. /\ stage = "acting" /\ First(d) /\ d.kind # "read"
      /\ d \in AllDirectives /\ outcome \in Refused \cup Carried
  BY ActingIsTyped DEF AtKind, Files, Bad, Carried
<1>2. SlotsTyped' /\ told' \subseteq Report
  BY <1>1, ActingIsTyped DEF FileDone, SlotsTyped
<1>3. /\ d.kind \in Files
      /\ fate' = [fate EXCEPT ![d] = outcome] /\ todo' = todo \ {d}
      /\ feedback' = IF outcome = "done" THEN feedback \cup {d} ELSE feedback
      /\ UNCHANGED <<stage, given, passed, returned, fresh>>
  BY DEF FileDone, AtKind
<1>4. QED
  BY <1>1, <1>2, <1>3, SettledKeeps

LEMMA SucceedsKeeps ==
    ASSUME DInv, NEW d \in todo, NEW kinds, Ready(d, kinds), kinds \cap ({"read"} \cup Files) = {},
           NEW outcome \in {"done", "answered"}, Succeeds(d, outcome)
    PROVE  DInv'
<1>1. /\ stage = "acting" /\ First(d) /\ d.kind \notin {"read"} \cup Files
      /\ outcome \in Refused \cup Carried
  BY DEF Ready, AtKind, Carried
<1>2. SlotsTyped' /\ told' \subseteq Report
  BY ActingIsTyped DEF Succeeds, SlotsTyped
<1>3. /\ fate' = [fate EXCEPT ![d] = outcome] /\ todo' = todo \ {d}
      /\ feedback' = IF outcome = "done" THEN feedback \cup {d} ELSE feedback
      /\ UNCHANGED <<stage, given, passed, returned, fresh>>
  BY DEF Succeeds
<1>4. QED
  BY <1>1, <1>2, <1>3, SettledKeeps

LEMMA StopsKeeps ==
    ASSUME DInv, NEW d \in todo, NEW outcome \in Fates, NEW noted,
           Stops(d, outcome, noted)
    PROVE  DInv'
<1> DEFINE slot == IF "blocked" \in noted THEN d ELSE blocked
           report == IF slot = NoAction THEN Says("failed", d) ELSE Says("refused", Named(slot, d))
<1>1. d \in AllDirectives /\ fate' = [fate EXCEPT ![d] = outcome] /\ Return("none", {report})
      /\ UNCHANGED <<given, passed, fresh>>
  BY ActingIsTyped DEF Stops
<1>2. fate' \in [AllDirectives -> Fates] /\ SlotsTyped' /\ fresh' \in BOOLEAN
  BY <1>1, ActingIsTyped DEF Stops, SlotsTyped
<1>3. slot \in AllDirectives \cup {NoAction, Gate}
  BY <1>1, ActingIsTyped DEF SlotsTyped
<1>4. slot # NoAction => Named(slot, d) \in AllDirectives
  BY <1>1, <1>3 DEF Named
<1>5. {report} \in SUBSET Report
  BY <1>1, <1>4, ReportsTyped
<1>6. passed' \subseteq passed
  BY <1>1
<1>7. QED
  BY <1>1, <1>2, <1>5, <1>6, ReturnKeeps

LEMMA ActionKeeps ==
    ASSUME DInv, WriteFile \/ RunCommand \/ SearchOrTask \/ Send \/ Browse
    PROVE  DInv'
<1>0. {"failed", "refused", "flagged", "declined", "diverted"} \subseteq Bad
      /\ Bad \subseteq Fates
  BY DEF Bad, Refused, Fates, Carried
<1>1. CASE WriteFile
  <2>1. PICK d \in todo : AtKind(d, Files) /\
            \/ FileDone(d, "done", {}) \/ FileDone(d, "failed", {})
            \/ FileDone(d, "refused", {"blocked"}) \/ FileDone(d, "refused", {})
            \/ FileDone(d, "refused", {"hook"}) \/ FileDone(d, "flagged", {"hook"})
            \/ FileDone(d, "declined", {"denied"})
    BY <1>1 DEF WriteFile
  <2>2. QED
    BY <1>0, <2>1, FileDoneKeeps
<1>2. CASE RunCommand
  <2>1. PICK d \in todo : Ready(d, Commands) /\
            \/ Succeeds(d, "done") \/ Succeeds(d, "answered")
            \/ Stops(d, "failed", {}) \/ Stops(d, "refused", {"blocked"})
            \/ Stops(d, "refused", {"blocked", "hook"})
            \/ Stops(d, "declined", {"blocked", "denied"}) \/ Stops(d, "diverted", {})
    BY <1>2 DEF RunCommand
  <2>2. Commands \cap ({"read"} \cup Files) = {}
    BY DEF Commands, Files
  <2>3. QED
    BY <1>0, <2>1, <2>2, SucceedsKeeps, StopsKeeps
<1>3. CASE SearchOrTask
  <2>1. PICK d \in todo : Ready(d, {"search", "task"}) /\ Succeeds(d, "done")
    BY <1>3 DEF SearchOrTask
  <2>2. {"search", "task"} \cap ({"read"} \cup Files) = {}
    BY DEF Files
  <2>3. QED
    BY <2>1, <2>2, SucceedsKeeps
<1>4. CASE Send
  <2>1. PICK d \in todo : Ready(d, {"send"}) /\
            (Succeeds(d, "done") \/ Stops(d, "failed", {}) \/ Stops(d, "refused", {}))
    BY <1>4 DEF Send
  <2>2. {"send"} \cap ({"read"} \cup Files) = {}
    BY DEF Files
  <2>3. QED
    BY <1>0, <2>1, <2>2, SucceedsKeeps, StopsKeeps
<1>5. CASE Browse
  <2>1. PICK d \in todo : Ready(d, {"browser"}) /\
            \/ Succeeds(d, "done") \/ Stops(d, "failed", {})
            \/ Stops(d, "refused", {"blocked"}) \/ Stops(d, "declined", {"blocked"})
    BY <1>5 DEF Browse
  <2>2. {"browser"} \cap ({"read"} \cup Files) = {}
    BY DEF Files
  <2>3. QED
    BY <1>0, <2>1, <2>2, SucceedsKeeps, StopsKeeps
<1>6. QED
  BY <1>1, <1>2, <1>3, <1>4, <1>5

\* What FilesFailed tells.
FileReports ==
    IF denied = NoAction /\ hook = NoAction THEN {Says("unclear", NoAction)}
    ELSE {r \in {Says("declined", denied), Says("flagged", hook)} : r.about # NoAction}

LEMMA FileReportsTyped ==
    ASSUME SlotsTyped
    PROVE  FileReports \in SUBSET Report
<1>1. denied # NoAction => Says("declined", denied) \in Report
  BY ReportsTyped DEF SlotsTyped
<1>2. hook # NoAction => Says("flagged", hook) \in Report
  BY ReportsTyped DEF SlotsTyped
<1>3. Says("declined", denied).about = denied /\ Says("flagged", hook).about = hook
  BY DEF Says
<1>4. QED
  BY <1>1, <1>2, <1>3, ReportsTyped DEF FileReports

LEMMA EndKeeps ==
    ASSUME DInv, SendBack \/ FilesFailed \/ TellResults \/ Delegate \/ Conclude
    PROVE  DInv'
<1>0. passed' = passed /\ given' = given /\ fresh' = fresh
  BY DEF SendBack, FilesFailed, TellResults, Delegate, Conclude
<1>1. CASE SendBack
  <2>1. PICK d \in todo : fate' = [fate EXCEPT ![d] = "returned"] /\ Return("none", {})
                          /\ UNCHANGED slots
    BY <1>1 DEF SendBack
  <2>2. fate' \in [AllDirectives -> Fates] /\ SlotsTyped' /\ fresh' \in BOOLEAN
    BY <1>0, <2>1, ActingIsTyped DEF SlotsTyped, Fates, Refused
  <2>3. {} \in SUBSET Report
    OBVIOUS
  <2>4. QED
    BY <1>0, <2>1, <2>2, <2>3, ReturnKeeps
<1>2. CASE FilesFailed
  <2>1. Return("none", FileReports) /\ UNCHANGED <<fate, blocked>>
        /\ denied' = NoAction /\ hook' = NoAction
    BY <1>2 DEF FilesFailed, FileReports
  <2>2. FileReports \in SUBSET Report
    BY ActingIsTyped, FileReportsTyped
  <2>3. fate' \in [AllDirectives -> Fates] /\ SlotsTyped' /\ fresh' \in BOOLEAN
    BY <1>0, <2>1, ActingIsTyped DEF SlotsTyped
  <2>4. QED
    BY <1>0, <2>1, <2>2, <2>3, ReturnKeeps
<1>3. CASE TellResults
  <2> DEFINE reports == {Says("done", d) : d \in feedback}
  <2>1. Return("none", reports) /\ UNCHANGED <<fate, slots>>
    BY <1>3 DEF TellResults
  <2>2. reports \in SUBSET Report
    BY ActingIsTyped, ReportsTyped
  <2>3. fate' \in [AllDirectives -> Fates] /\ SlotsTyped' /\ fresh' \in BOOLEAN
    BY <1>0, <2>1, ActingIsTyped DEF SlotsTyped
  <2>4. QED
    BY <1>0, <2>1, <2>2, <2>3, ReturnKeeps
<1>4. CASE Delegate
  <2>1. PICK ds \in SUBSET todo :
           /\ fate' = [d \in AllDirectives |-> IF d \in ds THEN "done" ELSE fate[d]]
           /\ Return("none", {Says("done", d) : d \in ds}) /\ UNCHANGED slots
    BY <1>4 DEF Delegate
  <2>2. {Says("done", d) : d \in ds} \in SUBSET Report
    BY ActingIsTyped, ReportsTyped
  <2>3. fate' \in [AllDirectives -> Fates] /\ SlotsTyped' /\ fresh' \in BOOLEAN
    BY <1>0, <2>1, ActingIsTyped DEF SlotsTyped, Fates, Carried
  <2>4. QED
    BY <1>0, <2>1, <2>2, <2>3, ReturnKeeps
<1>5. CASE Conclude
  <2>1. PICK value \in {"none", "reply"}, reports \in SUBSET {Says("nothing ran", NoAction)} :
           Return(value, reports) /\ UNCHANGED <<fate, slots>>
    BY <1>5 DEF Conclude
  <2>2. reports \in SUBSET Report
    BY ReportsTyped
  <2>3. fate' \in [AllDirectives -> Fates] /\ SlotsTyped' /\ fresh' \in BOOLEAN
    BY <1>0, <2>1, ActingIsTyped DEF SlotsTyped
  <2>4. QED
    BY <1>0, <2>1, <2>2, <2>3, ReturnKeeps
<1>6. QED
  BY <1>1, <1>2, <1>3, <1>4, <1>5

LEMMA DispatchKept == DInv /\ [DispatchNext]_dispatchVars => DInv'
<1> SUFFICES ASSUME DInv, [DispatchNext]_dispatchVars PROVE DInv'
  OBVIOUS
<1>1. CASE UNCHANGED dispatchVars
  BY <1>1 DEF dispatchVars, DInv, DispatchTypeOK, OfOneReply, InTurnOfKinds, Places, Behind, Of
<1>2. QED
  BY <1>1, ReceiveKeeps, GateKeeps, McpKeeps, StallKeeps, ReadKeeps, ActionKeeps, EndKeeps
     DEF DispatchNext

LEMMA DispatchAlways == DispatchSpec => []DInv
BY DispatchTyped, DispatchKept, PTL DEF DispatchSpec

\* Whatever replies come and whatever becomes of their directives, only what passed the
\* gate is carried out, each directive once, and a collected result is of something done.
THEOREM DispatchTypeCorrect == DispatchSpec => []DispatchTypeOK
<1>1. DInv => DispatchTypeOK
  BY DEF DInv
<1>2. QED
  BY <1>1, DispatchAlways, PTL

-----------------------------------------------------------------------------
(* process_reply: every reply is finite *)

\* How many steps process_reply has left at most: one for each directive still to be
\* carried out, and one for each part of it that it has not come to.
ReplyStepsLeft ==
    IF stage = "idle" THEN 0
    ELSE Cardinality(todo) + [gate |-> 3, calls |-> 2, acting |-> 1][stage]

LEMMA RepliesAreFinite == ASSUME NEW r \in Replies PROVE IsFiniteSet(Range(r.dirs))
<1>1. r.dirs \in Seq(Directive)
  BY ReplyOf
<1>2. IsFiniteSet(1 .. Len(r.dirs)) /\ DOMAIN r.dirs = 1 .. Len(r.dirs)
  BY <1>1, FS_Interval
<1>3. r.dirs \in Surjection(1 .. Len(r.dirs), Range(r.dirs))
  BY <1>1, <1>2 DEF Surjection, Range
<1>4. QED
  BY <1>2, <1>3, FS_Surjection

\* What is still to be carried out only shrinks, but for the next reply.
LEMMA TodoShrinks ==
    DInv /\ [DispatchNext]_dispatchVars =>
        todo' \subseteq todo \/ \E r \in Replies : todo' \subseteq Range(r.dirs)
<1> SUFFICES ASSUME DInv, DispatchNext
             PROVE  todo' \subseteq todo \/ \E r \in Replies : todo' \subseteq Range(r.dirs)
  BY DEF dispatchVars
<1>1. CASE \E r \in Replies : Receive(r)
  BY <1>1 DEF Receive
<1>2. CASE ValidationGate \/ McpCall \/ StallCheck
  BY <1>2 DEF ValidationGate, McpCall, StallCheck, Return
<1>3. CASE Read
  BY <1>3, ReadSteps DEF ReadStep, Return
<1>4. CASE WriteFile \/ SendBack \/ FilesFailed
  BY <1>4 DEF WriteFile, FileDone, SendBack, FilesFailed, Return
<1>5. CASE RunCommand \/ SearchOrTask \/ Send \/ Browse
  BY <1>5 DEF RunCommand, SearchOrTask, Send, Browse, Succeeds, Stops, Return
<1>6. CASE TellResults \/ Delegate
  BY <1>6 DEF TellResults, Delegate, Return
<1>7. CASE Conclude
  <2>1. \E value, reports : Return(value, reports)
    BY <1>7 DEF Conclude
  <2>2. QED
    BY <2>1 DEF Return
<1>8. QED
  BY <1>1, <1>2, <1>3, <1>4, <1>5, <1>6, <1>7 DEF DispatchNext

LEMMA TodoIsFinite == DispatchSpec => []IsFiniteSet(todo)
<1>1. DispatchInit => IsFiniteSet(todo)
  BY FS_EmptySet DEF DispatchInit
<1>2. DInv /\ IsFiniteSet(todo) /\ [DispatchNext]_dispatchVars => IsFiniteSet(todo)'
  BY TodoShrinks, RepliesAreFinite, FS_Subset
<1>3. QED
  BY <1>1, <1>2, DispatchAlways, PTL DEF DispatchSpec

\* process_reply goes on to its next part, or is done with a directive at least, or
\* returns.
LEMMA MovesOn ==
    ASSUME DInv, DispatchNext, stage # "idle"
    PROVE  \/ stage' = "idle"
           \/ todo' \subseteq todo /\ stage = "gate" /\ stage' = "calls"
           \/ todo' \subseteq todo /\ stage = "calls" /\ stage' = "acting"
           \/ todo' \subseteq todo /\ stage' = stage /\ todo' # todo
<1>1. CASE \E r \in Replies : Receive(r)
  BY <1>1 DEF Receive
<1>2. CASE ValidationGate \/ McpCall \/ StallCheck
  BY <1>2 DEF ValidationGate, McpCall, StallCheck, Return
<1>3. CASE Read
  <2>1. \E d \in todo : d \in Of({"read"})
    BY <1>3, ReadSteps, ActingIsTyped DEF Of
  <2>2. QED
    BY <1>3, <2>1, ReadSteps DEF ReadStep, Return
<1>4. CASE WriteFile \/ SendBack \/ FilesFailed
  BY <1>4 DEF WriteFile, FileDone, SendBack, FilesFailed, Return
<1>5. CASE RunCommand \/ SearchOrTask \/ Send \/ Browse
  BY <1>5 DEF RunCommand, SearchOrTask, Send, Browse, Succeeds, Stops, Return
<1>6. CASE TellResults \/ Delegate
  BY <1>6 DEF TellResults, Delegate, Return
<1>7. CASE Conclude
  <2>1. \E value, reports : Return(value, reports)
    BY <1>7 DEF Conclude
  <2>2. QED
    BY <2>1 DEF Return
<1>8. QED
  BY <1>1, <1>2, <1>3, <1>4, <1>5, <1>6, <1>7 DEF DispatchNext

LEMMA ReplyStepsGoDown ==
    ASSUME DInv, IsFiniteSet(todo), DispatchNext, stage # "idle"
    PROVE  ReplyStepsLeft' \in Nat /\ ReplyStepsLeft' < ReplyStepsLeft
<1>1. stage \in {"gate", "calls", "acting"}
  BY DEF DInv, DispatchTypeOK
<1>2. PICK n \in Nat : n = Cardinality(todo)
  BY FS_CardinalityType
<1>3. ReplyStepsLeft = n + [gate |-> 3, calls |-> 2, acting |-> 1][stage]
  BY <1>2 DEF ReplyStepsLeft
<1>4. ReplyStepsLeft > 0 /\ ReplyStepsLeft \in Nat
      /\ (stage = "gate" => ReplyStepsLeft = n + 3)
      /\ (stage = "calls" => ReplyStepsLeft = n + 2)
      /\ (stage = "acting" => ReplyStepsLeft = n + 1)
  BY <1>1, <1>3
<1>5. CASE stage' = "idle"
  BY <1>4, <1>5 DEF ReplyStepsLeft
<1>6. CASE stage' # "idle"
  <2>1. todo' \subseteq todo
        /\ \/ stage = "gate" /\ stage' = "calls"
           \/ stage = "calls" /\ stage' = "acting"
           \/ stage' = stage /\ todo' # todo
    BY <1>6, MovesOn
  <2>2. PICK m \in Nat : m = Cardinality(todo') /\ m <= n /\ (m = n => todo' = todo)
    BY <1>2, <2>1, FS_Subset, FS_CardinalityType
  <2>3. stage' \in {"gate", "calls", "acting"}
    BY <1>1, <2>1
  <2>4. ReplyStepsLeft' = m + [gate |-> 3, calls |-> 2, acting |-> 1][stage']
    BY <1>6, <2>2 DEF ReplyStepsLeft
  <2>5. /\ (stage' = "gate" => ReplyStepsLeft' = m + 3)
        /\ (stage' = "calls" => ReplyStepsLeft' = m + 2)
        /\ (stage' = "acting" => ReplyStepsLeft' = m + 1)
    BY <2>4
  <2>6. QED
    BY <1>1, <1>4, <2>1, <2>2, <2>3, <2>5
<1>7. QED
  BY <1>5, <1>6

\* Whatever a reply holds and whatever becomes of it, every step of process_reply leaves
\* less of it: it takes one step for each directive and three more at most.
THEOREM RepliesEnd ==
    DispatchSpec =>
        [][stage # "idle" =>
              ReplyStepsLeft' \in Nat /\ ReplyStepsLeft' < ReplyStepsLeft]_dispatchVars
<1>1. DInv /\ IsFiniteSet(todo) /\ [DispatchNext]_dispatchVars
         => [stage # "idle" =>
               ReplyStepsLeft' \in Nat /\ ReplyStepsLeft' < ReplyStepsLeft]_dispatchVars
  BY ReplyStepsGoDown
<1>2. QED
  BY <1>1, DispatchAlways, TodoIsFinite, PTL DEF DispatchSpec

-----------------------------------------------------------------------------
(* process_reply: nothing is carried out after a failure *)

LEMMA FatesApart ==
    /\ Bad \cap {"absent", "waiting", "done", "answered"} = {}
    /\ Carried \cap {"absent", "waiting", "refused", "declined", "diverted", "returned"} = {}
    /\ {"failed", "refused", "flagged", "declined", "diverted", "returned"} \subseteq Bad
BY DEF Bad, Refused, Carried

\* When all files were written, nothing that lies behind has failed.
LEMMA NothingFailedBehind ==
    ASSUME DInv, stage = "acting", \A f \in Of(Files) : fate[f] = "done",
           NEW x \in passed \ todo, x.kind # "mcp"
    PROVE  fate[x] \notin Bad
<1>1. CASE x.kind = "read"
  BY <1>1, FatesApart DEF DInv, Behind
<1>2. CASE x.kind \in Files
  BY <1>2, FatesApart DEF Of
<1>3. CASE x.kind \notin {"read"} \cup Files
  <2>1. x \in feedback \/ fate[x] = "answered"
    BY <1>3 DEF DInv, Behind
  <2>2. x \in feedback => fate[x] = "done"
    BY DEF DInv, DispatchTypeOK
  <2>3. QED
    BY <2>1, <2>2, FatesApart
<1>4. QED
  BY <1>1, <1>2, <1>3

\* The next directive gets its outcome.
LEMMA OutcomeInOrder ==
    ASSUME DInv, NothingAfterFailure, stage # "idle", NEW d \in todo, First(d), NEW outcome,
           fate' = [fate EXCEPT ![d] = outcome], passed' = passed, given' = given,
           \/ outcome \notin Carried
           \/ d.kind \in {"mcp"} \cup Files
           \/ stage = "acting" /\ \A f \in Of(Files) : fate[f] = "done"
    PROVE  NothingAfterFailure'
<1>1. /\ d \in passed /\ d \in AllDirectives /\ d \in Directive /\ fate[d] = "waiting"
      /\ \A e \in passed : Before(given.dirs, d, e) => e \in todo
      /\ \A e \in passed : Before(given.dirs, e, d) => e \notin todo
  BY FirstFacts
<1>2. fate'[d] = outcome /\ \A e \in passed \ {d} : fate'[e] = fate[e]
  BY <1>1, ActingIsTyped
<1>3. passed \subseteq Directive /\ given.dirs \in Seq(Directive) /\ IsInjective(given.dirs)
  BY DEF DInv, OfOneReply
<1>4. SUFFICES ASSUME NEW x \in passed, NEW e \in passed, Before(given.dirs, x, e),
                      x.kind # "mcp", fate'[x] \in Bad, e.kind \notin Files,
                      ~(x.kind = "read" /\ e.kind = "read")
               PROVE  fate'[e] \notin Carried
  BY DEF NothingAfterFailure
<1>5. CASE x = d
  <2>1. e \in todo /\ e # d
    BY <1>1, <1>3, <1>4, <1>5, BeforeIsStrict
  <2>2. fate'[e] = "waiting"
    BY <1>2, <2>1 DEF DInv, DispatchTypeOK
  <2>3. QED
    BY <2>2, FatesApart
<1>6. CASE x # d /\ e = d
  <2>1. fate[x] \in Bad /\ x \notin todo
    BY <1>1, <1>2, <1>4, <1>6
  <2>2. e.kind # "mcp"
    BY <1>3, <1>4, BeforeByKind
  <2>3. ~(stage = "acting" /\ \A f \in Of(Files) : fate[f] = "done")
    BY <1>4, <2>1, NothingFailedBehind
  <2>4. QED
    BY <1>2, <1>4, <1>6, <2>2, <2>3
<1>7. CASE x # d /\ e # d
  BY <1>2, <1>4, <1>7 DEF NothingAfterFailure
<1>8. QED
  BY <1>5, <1>6, <1>7

LEMMA ReadInOrder ==
    ASSUME DInv, NothingAfterFailure, Read
    PROVE  NothingAfterFailure'
<1>1. PICK d \in todo : First(d) /\ d.kind = "read"
  BY ReadSteps
<1>2. /\ stage = "acting" /\ UNCHANGED <<given, passed>>
      /\ \A e \in passed : e.kind # "read" => fate'[e] = fate[e]
  BY ReadSteps, ActingIsTyped DEF ReadStep, Of
<1>3. /\ d \in Directive /\ \A e \in passed : Before(given.dirs, d, e) => e \in todo
      /\ passed \subseteq Directive
  BY <1>1, <1>2, FirstFacts DEF DInv, OfOneReply
<1>4. SUFFICES ASSUME NEW x \in passed, NEW e \in passed, Before(given.dirs, x, e),
                      x.kind # "mcp", fate'[x] \in Bad, e.kind \notin Files,
                      ~(x.kind = "read" /\ e.kind = "read")
               PROVE  fate'[e] \notin Carried
  BY <1>2 DEF NothingAfterFailure
<1>5. e.kind # "read" /\ e.kind # "mcp"
  BY <1>3, <1>4, BeforeByKind
<1>6. CASE x.kind = "read"
  <2>1. e \in todo
    BY <1>1, <1>3, <1>5, BeforeByKind
  <2>2. fate'[e] = "waiting"
    BY <1>2, <1>5, <2>1 DEF DInv, DispatchTypeOK
  <2>3. QED
    BY <2>2, FatesApart
<1>7. CASE x.kind # "read"
  BY <1>2, <1>4, <1>5, <1>7 DEF NothingAfterFailure
<1>8. QED
  BY <1>6, <1>7

LEMMA DelegateInOrder ==
    ASSUME DInv, NothingAfterFailure, Delegate
    PROVE  NothingAfterFailure'
<1>1. stage = "acting" /\ (\A f \in Of(Files) : fate[f] = "done") /\ UNCHANGED <<given, passed>>
  BY DEF Delegate, NothingElseLeft, FilesAreDone
<1>2. PICK ds \in SUBSET todo :
         fate' = [d \in AllDirectives |-> IF d \in ds THEN "done" ELSE fate[d]]
  BY DEF Delegate
<1>3. SUFFICES ASSUME NEW x \in passed, NEW e \in passed, Before(given.dirs, x, e),
                      x.kind # "mcp", fate'[x] \in Bad, e.kind \notin Files,
                      ~(x.kind = "read" /\ e.kind = "read")
               PROVE  fate'[e] \notin Carried
  BY <1>1 DEF NothingAfterFailure
<1>4. fate'[x] = fate[x] /\ fate[x] \in Bad
  BY <1>2, <1>3, ActingIsTyped, FatesApart
<1>5. x \notin todo
  BY <1>4, FatesApart DEF DInv, DispatchTypeOK
<1>6. QED
  BY <1>1, <1>3, <1>4, <1>5, NothingFailedBehind

LEMMA OrderKept ==
    DInv /\ NothingAfterFailure /\ [DispatchNext]_dispatchVars => NothingAfterFailure'
<1> SUFFICES ASSUME DInv, NothingAfterFailure, [DispatchNext]_dispatchVars
             PROVE  NothingAfterFailure'
  OBVIOUS
<1>1. CASE \E r \in Replies : Receive(r)
  <2>1. \A d \in AllDirectives : fate'[d] \in {"absent", "waiting"}
    BY <1>1 DEF Receive
  <2>2. passed' \subseteq AllDirectives
    BY <1>1, ReplyOf DEF Receive
  <2>3. QED
    BY <2>1, <2>2, FatesApart DEF NothingAfterFailure
<1>2. CASE ValidationGate
  <2>1. \A d \in AllDirectives : fate'[d] \in {"absent", "waiting", "refused"}
    BY <1>2 DEF ValidationGate, DInv, Places
  <2>2. passed' \subseteq AllDirectives
    BY <1>2, ActingIsTyped DEF ValidationGate
  <2>3. QED
    BY <2>1, <2>2, FatesApart DEF NothingAfterFailure
<1>3. CASE McpCall
  <2>1. \E d \in todo : \E outcome :
           First(d) /\ d.kind = "mcp" /\ fate' = [fate EXCEPT ![d] = outcome]
    BY <1>3 DEF McpCall
  <2>2. stage # "idle" /\ passed' = passed /\ given' = given
    BY <1>3 DEF McpCall
  <2>3. QED
    BY <2>1, <2>2, OutcomeInOrder
<1>4. CASE WriteFile
  <2>1. \E d \in todo : \E outcome :
           First(d) /\ d.kind \in Files /\ fate' = [fate EXCEPT ![d] = outcome]
    BY <1>4 DEF WriteFile, FileDone, AtKind
  <2>2. stage # "idle" /\ passed' = passed /\ given' = given
    BY <1>4 DEF WriteFile, FileDone, AtKind
  <2>3. QED
    BY <2>1, <2>2, OutcomeInOrder
<1>5. CASE SendBack
  <2>1. \E d \in todo : First(d) /\ fate' = [fate EXCEPT ![d] = "returned"]
    BY <1>5 DEF SendBack, AtKind
  <2>2. stage # "idle" /\ passed' = passed /\ given' = given
    BY <1>5 DEF SendBack, AtKind
  <2>3. QED
    BY <2>1, <2>2, OutcomeInOrder, FatesApart
<1>6. CASE RunCommand \/ SearchOrTask \/ Send \/ Browse
  <2>1. \E d \in todo : \E outcome :
           First(d) /\ (\A f \in Of(Files) : fate[f] = "done")
           /\ fate' = [fate EXCEPT ![d] = outcome]
    BY <1>6 DEF RunCommand, SearchOrTask, Send, Browse, Ready, AtKind, Succeeds, Stops
  <2>2. stage = "acting" /\ passed' = passed /\ given' = given
    BY <1>6 DEF RunCommand, SearchOrTask, Send, Browse, Ready, AtKind, Succeeds, Stops
  <2>3. QED
    BY <2>1, <2>2, OutcomeInOrder
<1>7. CASE StallCheck \/ FilesFailed \/ TellResults \/ Conclude \/ UNCHANGED dispatchVars
  <2>1. UNCHANGED <<fate, passed, given>>
    BY <1>7 DEF StallCheck, FilesFailed, TellResults, Conclude, dispatchVars
  <2>2. QED
    BY <2>1 DEF NothingAfterFailure
<1>8. QED
  BY <1>1, <1>2, <1>3, <1>4, <1>5, <1>6, <1>7, ReadInOrder, DelegateInOrder DEF DispatchNext

\* For every set of replies, of any length, and every outcome of each directive: what
\* the model built on an earlier step does not happen without that step.
THEOREM FailuresStopTheRest == DispatchSpec => []NothingAfterFailure
<1>1. DispatchInit => NothingAfterFailure
  BY DEF DispatchInit, NothingAfterFailure
<1>2. QED
  BY <1>1, DispatchAlways, OrderKept, PTL DEF DispatchSpec

-----------------------------------------------------------------------------
(* process_reply: what stands as the answer *)

LEMMA CleanKept == DInv /\ AnswerIsClean /\ [DispatchNext]_dispatchVars => AnswerIsClean'
<1> SUFFICES ASSUME DInv, AnswerIsClean, [DispatchNext]_dispatchVars PROVE AnswerIsClean'
  OBVIOUS
<1>1. CASE \E r \in Replies : Receive(r)
  BY <1>1 DEF Receive, AnswerIsClean
<1>2. CASE ValidationGate \/ McpCall \/ StallCheck
  BY <1>2 DEF ValidationGate, McpCall, StallCheck, Return, AnswerIsClean
<1>3. CASE Read
  BY <1>3, ReadSteps DEF ReadStep, Return, AnswerIsClean
<1>4. CASE WriteFile \/ SendBack \/ FilesFailed
  BY <1>4 DEF WriteFile, FileDone, AtKind, SendBack, FilesFailed, Return, AnswerIsClean
<1>5. CASE RunCommand \/ SearchOrTask \/ Send \/ Browse
  BY <1>5 DEF RunCommand, SearchOrTask, Send, Browse, Ready, AtKind, Succeeds, Stops, Return,
              AnswerIsClean
<1>6. CASE TellResults \/ Delegate
  BY <1>6 DEF TellResults, Delegate, Return, AnswerIsClean
<1>7. CASE Conclude
  <2>1. /\ stage = "acting" /\ todo = {} /\ feedback = {}
        /\ \A f \in Of(Files) : fate[f] = "done"
        /\ UNCHANGED <<passed, fate>>
    BY <1>7 DEF Conclude, NothingElseLeft, FilesAreDone
  <2>2. Of(Files) = {}
    BY <2>1, FatesApart DEF DInv, Behind, Of
  <2>3. Of({"edit"}) = {}
    BY <2>2 DEF Of, Files
  <2>4. \A d \in passed : d.kind # "mcp" => fate[d] = "answered"
    BY <2>1, <2>2, <2>3 DEF DInv, Behind, Of
  <2>5. QED
    BY <2>1, <2>4 DEF AnswerIsClean, Of
<1>8. CASE UNCHANGED dispatchVars
  BY <1>8 DEF dispatchVars, AnswerIsClean, Of
<1>9. QED
  BY <1>1, <1>2, <1>3, <1>4, <1>5, <1>6, <1>7, <1>8 DEF DispatchNext

\* For every reply and every outcome: the turn ends with a reply only when none of its
\* directives was refused, failed or changed anything.  This is what TurnLoop assumes
\* of process_reply.
THEOREM AnswersAreClean == DispatchSpec => []AnswerIsClean
<1>1. DispatchInit => AnswerIsClean
  BY DEF DispatchInit, AnswerIsClean
<1>2. QED
  BY <1>1, DispatchAlways, CleanKept, PTL DEF DispatchSpec

-----------------------------------------------------------------------------
(* process_reply: what the model is told *)

\* What was done has been told, or is among the results, or something did not come
\* off.
Accounted ==
    (\A d \in AllDirectives : fate[d] \notin Bad) =>
        \A d \in AllDirectives : fate[d] = "done" => Says("done", d) \in told \/ d \in feedback

\* The next directive gets its outcome, and what was done is told or collected.
LEMMA OutcomeAccounted ==
    ASSUME DInv, Accounted, NEW d \in todo, First(d), stage # "idle", NEW outcome,
           fate' = [fate EXCEPT ![d] = outcome],
           \/ outcome \in Bad
           \/ /\ told \subseteq told' /\ feedback \subseteq feedback'
              /\ outcome = "done" => d \in feedback' \/ Says("done", d) \in told'
    PROVE  Accounted'
<1>1. d \in AllDirectives /\ fate[d] = "waiting"
  BY FirstFacts
<1>2. fate'[d] = outcome /\ \A e \in AllDirectives \ {d} : fate'[e] = fate[e]
  BY <1>1, ActingIsTyped
<1>3. CASE outcome \in Bad
  BY <1>1, <1>2, <1>3 DEF Accounted
<1>4. CASE /\ told \subseteq told' /\ feedback \subseteq feedback'
           /\ outcome = "done" => d \in feedback' \/ Says("done", d) \in told'
  <2>1. SUFFICES ASSUME \A e \in AllDirectives : fate'[e] \notin Bad,
                        NEW e \in AllDirectives, fate'[e] = "done"
                 PROVE  Says("done", e) \in told' \/ e \in feedback'
    BY DEF Accounted
  <2>2. \A x \in AllDirectives : fate[x] \notin Bad
    BY <1>1, <1>2, <2>1, FatesApart
  <2>3. CASE e = d
    BY <1>2, <1>4, <2>1, <2>3
  <2>4. CASE e # d
    <3>1. fate[e] = "done"
      BY <1>2, <2>1, <2>4
    <3>2. Says("done", e) \in told \/ e \in feedback
      BY <2>2, <3>1 DEF Accounted
    <3>3. QED
      BY <1>4, <3>2
  <2>5. QED
    BY <2>3, <2>4
<1>5. QED
  BY <1>3, <1>4

\* READs are made before anything is collected.
LEMMA NothingCollectedBeforeReads ==
    ASSUME DInv, stage = "acting", NEW d \in todo, d.kind = "read"
    PROVE  feedback = {}
<1>1. SUFFICES ASSUME NEW f \in feedback PROVE FALSE
  OBVIOUS
<1>2. f \in passed \ todo /\ f.kind \notin {"mcp", "read"}
  BY DEF DInv, Behind
<1>3. f \in Directive /\ d \in Directive
  BY <1>2, ActingIsTyped DEF DInv, OfOneReply
<1>4. Before(given.dirs, d, f)
  BY <1>2, <1>3, BeforeByKind
<1>5. QED
  BY <1>2, <1>4 DEF DInv, InTurnOfKinds

LEMMA ReadAccounted ==
    ASSUME DInv, Accounted, Read
    PROVE  Accounted'
<1>1. /\ stage = "acting" /\ \E d \in todo : First(d) /\ d.kind = "read"
  BY ReadSteps
<1>2. PICK got \in SUBSET Of({"read"}) :
         \E fenced \in SUBSET (Of({"read"}) \ got) : ReadStep(got, fenced)
  BY ReadSteps
<1>3. PICK fenced \in SUBSET (Of({"read"}) \ got) : ReadStep(got, fenced)
  BY <1>2
<1>4. feedback = {}
  BY <1>1, NothingCollectedBeforeReads
<1>5. told' = told \cup ReadReports(got, fenced)
  BY <1>3 DEF ReadStep, Return
<1>6. Of({"read"}) \subseteq todo /\ Of({"read"}) \subseteq AllDirectives
  BY <1>1, ActingIsTyped DEF DInv, InTurnOfKinds, Of
<1>7. \A d \in Of({"read"}) : fate'[d] = ReadOutcome(got, fenced)[d]
  BY <1>3, <1>6 DEF ReadStep
<1>8. \A d \in AllDirectives \ Of({"read"}) : fate'[d] = fate[d]
  BY <1>3 DEF ReadStep
<1>9. SUFFICES ASSUME \A e \in AllDirectives : fate'[e] \notin Bad,
                      NEW e \in AllDirectives, fate'[e] = "done"
               PROVE  Says("done", e) \in told'
  BY DEF Accounted
<1>10. CASE e \in Of({"read"})
  BY <1>5, <1>7, <1>9, <1>10 DEF ReadReports
<1>11. CASE e \notin Of({"read"})
  <2>1. \A x \in AllDirectives : fate[x] \notin Bad
    BY <1>6, <1>8, <1>9, FatesApart DEF DInv, DispatchTypeOK
  <2>2. QED
    BY <1>4, <1>5, <1>8, <1>9, <1>11, <2>1 DEF Accounted
<1>12. QED
  BY <1>10, <1>11

LEMMA DelegateAccounted ==
    ASSUME DInv, Accounted, Delegate
    PROVE  Accounted'
<1>1. feedback = {}
  BY DEF Delegate
<1>2. PICK ds \in SUBSET todo :
         /\ fate' = [d \in AllDirectives |-> IF d \in ds THEN "done" ELSE fate[d]]
         /\ told' = told \cup {Says("done", d) : d \in ds}
  BY DEF Delegate, Return
<1>3. SUFFICES ASSUME \A e \in AllDirectives : fate'[e] \notin Bad,
                      NEW e \in AllDirectives, fate'[e] = "done"
               PROVE  Says("done", e) \in told'
  BY DEF Accounted
<1>4. \A d \in ds : fate[d] = "waiting"
  BY DEF DInv, DispatchTypeOK
<1>5. \A x \in AllDirectives : fate[x] \notin Bad
  BY <1>2, <1>3, <1>4, FatesApart
<1>6. CASE e \in ds
  BY <1>2, <1>6
<1>7. CASE e \notin ds
  BY <1>1, <1>2, <1>3, <1>5, <1>7 DEF Accounted
<1>8. QED
  BY <1>6, <1>7

LEMMA AccountKept == DInv /\ Accounted /\ [DispatchNext]_dispatchVars => Accounted'
<1> SUFFICES ASSUME DInv, Accounted, [DispatchNext]_dispatchVars PROVE Accounted'
  OBVIOUS
<1>1. CASE \E r \in Replies : Receive(r)
  <2>1. \A d \in AllDirectives : fate'[d] \in {"absent", "waiting"}
    BY <1>1 DEF Receive
  <2>2. QED
    BY <2>1 DEF Accounted
<1>2. CASE ValidationGate
  <2>1. \A d \in AllDirectives : fate'[d] \in {"absent", "waiting", "refused"}
    BY <1>2 DEF ValidationGate, DInv, Places
  <2>2. QED
    BY <2>1 DEF Accounted
<1>3. CASE McpCall
  <2>1. \E d \in todo : \E outcome :
           /\ First(d) /\ fate' = [fate EXCEPT ![d] = outcome]
           /\ told' = told \cup {Says(outcome, d)} /\ feedback' = feedback
    BY <1>3 DEF McpCall
  <2>2. stage # "idle"
    BY <1>3 DEF McpCall
  <2>3. QED
    BY <2>1, <2>2, OutcomeAccounted
<1>4. CASE WriteFile
  <2>1. PICK d \in todo : \E outcome, noted : AtKind(d, Files) /\ FileDone(d, outcome, noted)
    BY <1>4 DEF WriteFile
  <2>2. \E outcome :
           /\ fate' = [fate EXCEPT ![d] = outcome] /\ told' = told
           /\ feedback' = IF outcome = "done" THEN feedback \cup {d} ELSE feedback
    BY <2>1 DEF FileDone
  <2>3. First(d) /\ stage # "idle"
    BY <2>1 DEF AtKind
  <2>4. QED
    BY <2>2, <2>3, OutcomeAccounted
<1>5. CASE SendBack
  <2>1. \E d \in todo : First(d) /\ fate' = [fate EXCEPT ![d] = "returned"]
    BY <1>5 DEF SendBack, AtKind
  <2>2. stage # "idle"
    BY <1>5 DEF SendBack, AtKind
  <2>3. QED
    BY <2>1, <2>2, OutcomeAccounted, FatesApart
<1>6. CASE RunCommand \/ SearchOrTask \/ Send \/ Browse
  <2>1. PICK d \in todo : First(d) /\
           \/ \E outcome : Succeeds(d, outcome)
           \/ \E outcome \in {"failed", "refused", "declined", "diverted"} :
                 \E noted : Stops(d, outcome, noted)
    BY <1>6 DEF RunCommand, SearchOrTask, Send, Browse, Ready, AtKind
  <2>2. stage # "idle"
    BY <1>6 DEF RunCommand, SearchOrTask, Send, Browse, Ready, AtKind
  <2>3. ASSUME NEW outcome, Succeeds(d, outcome)
        PROVE  Accounted'
    <3>1. /\ fate' = [fate EXCEPT ![d] = outcome] /\ told' = told
          /\ feedback' = IF outcome = "done" THEN feedback \cup {d} ELSE feedback
      BY <2>3 DEF Succeeds
    <3>2. QED
      BY <2>1, <2>2, <3>1, OutcomeAccounted
  <2>4. ASSUME NEW outcome \in {"failed", "refused", "declined", "diverted"}, NEW noted,
               Stops(d, outcome, noted)
        PROVE  Accounted'
    <3>1. fate' = [fate EXCEPT ![d] = outcome] /\ outcome \in Bad
      BY <2>4, FatesApart DEF Stops
    <3>2. QED
      BY <2>1, <2>2, <3>1, OutcomeAccounted
  <2>5. QED
    BY <2>1, <2>3, <2>4
<1>7. CASE StallCheck \/ Conclude
  <2>1. feedback = {} /\ told \subseteq told' /\ fate' = fate
    BY <1>7 DEF StallCheck, Conclude, Return, DInv, Places
  <2>2. QED
    BY <2>1 DEF Accounted
<1>8. CASE FilesFailed
  <2>1. \E d \in AllDirectives : fate'[d] \in Bad
    BY <1>8, ActingIsTyped DEF FilesFailed, Of
  <2>2. QED
    BY <2>1 DEF Accounted
<1>9. CASE TellResults
  <2>1. told' = told \cup {Says("done", d) : d \in feedback} /\ fate' = fate
    BY <1>9 DEF TellResults, Return
  <2>2. QED
    BY <2>1 DEF Accounted
<1>10. CASE UNCHANGED dispatchVars
  BY <1>10 DEF dispatchVars, Accounted
<1>11. QED
  BY <1>1, <1>2, <1>3, <1>4, <1>5, <1>6, <1>7, <1>8, <1>9, <1>10, ReadAccounted,
     DelegateAccounted DEF DispatchNext

\* For every reply and every outcome: what was done has been told when process_reply
\* is through, unless another directive did not come off.
THEOREM ChangesAreTold == DispatchSpec => []AccountedFor
<1>1. DispatchInit => Accounted
  BY DEF DispatchInit, Accounted
<1>2. DInv /\ Accounted => AccountedFor
  BY DEF DInv, Places, Accounted, AccountedFor
<1>3. QED
  BY <1>1, <1>2, DispatchAlways, AccountKept, PTL DEF DispatchSpec

-----------------------------------------------------------------------------
(* process_reply: the reports are true *)

\* As long as the slots hold nothing from before, they speak of this reply: the one
\* for blocked actions of a file, whose failure ends the reply.
SlotsAreOwn ==
    fresh /\ stage # "idle" =>
        /\ blocked # NoAction => \E d \in Of(Files) \ todo : fate[d] \in Bad
        /\ denied # NoAction => denied \in AllDirectives \ todo /\ fate[denied] = "declined"
        /\ hook # NoAction => hook \in AllDirectives \ todo /\ fate[hook] \in {"flagged", "refused"}

\* While process_reply goes on, a report is about a directive that lies behind it.
ReportsAreFinal ==
    fresh /\ stage # "idle" =>
        \A r \in told : r.says \in {"done", "failed", "refused"} /\ r.about \in AllDirectives \ todo

TruthInv == SlotsAreOwn /\ ReportsAreFinal /\ TrueWhenFresh

\* A report about what lies behind stays true whatever becomes of the rest.
LEMMA OldReportsTrue ==
    ASSUME DInv, TruthInv, fresh, stage # "idle",
           \A d \in AllDirectives \ todo : fate'[d] = fate[d]
    PROVE  \A r \in told : Truth(r)'
<1>1. TAKE r \in told
<1>2. /\ r.says \in {"done", "failed", "refused"} /\ r.about \in AllDirectives \ todo
      /\ Truth(r)
  BY DEF TruthInv, ReportsAreFinal, TrueWhenFresh
<1>3. fate'[r.about] = fate[r.about]
  BY <1>2
<1>4. QED
  BY <1>2, <1>3 DEF Truth

\* process_reply goes on: what is in the slots lies behind.
LEMMA SlotsStayOwn ==
    ASSUME DInv, SlotsAreOwn, fresh, stage # "idle", NEW d \in todo, First(d),
           NEW outcome, NEW noted,
           fate' = [fate EXCEPT ![d] = outcome], todo' = todo \ {d}, passed' = passed,
           blocked' = IF "blocked" \in noted THEN d ELSE blocked,
           denied'  = IF "denied" \in noted THEN d ELSE denied,
           hook'    = IF "hook" \in noted THEN d ELSE hook,
           "blocked" \in noted => outcome = "refused" /\ d.kind \in Files,
           "denied" \in noted => outcome = "declined",
           "hook" \in noted => outcome \in {"flagged", "refused"}
    PROVE  SlotsAreOwn'
<1>1. d \in passed /\ d \in AllDirectives /\ d \notin todo'
  BY FirstFacts
<1>2. fate'[d] = outcome /\ \A e \in AllDirectives \ {d} : fate'[e] = fate[e]
  BY <1>1, ActingIsTyped
<1>3. /\ blocked # NoAction => \E e \in Of(Files) \ todo : fate[e] \in Bad
      /\ denied # NoAction => denied \in AllDirectives \ todo /\ fate[denied] = "declined"
      /\ hook # NoAction => hook \in AllDirectives \ todo /\ fate[hook] \in {"flagged", "refused"}
  BY DEF SlotsAreOwn
<1>4. blocked' # NoAction => \E e \in Of(Files)' \ todo' : fate'[e] \in Bad
  <2>1. CASE "blocked" \in noted
    <3>1. d \in Of(Files)' \ todo' /\ fate'[d] \in Bad
      BY <1>1, <1>2, <2>1, FatesApart DEF Of
    <3>2. QED
      BY <3>1
  <2>2. CASE "blocked" \notin noted
    <3>1. \A e \in Of(Files) \ todo : e \in Of(Files)' \ todo' /\ fate'[e] = fate[e]
      BY <1>2, ActingIsTyped DEF Of
    <3>2. QED
      BY <1>3, <2>2, <3>1
  <2>3. QED
    BY <2>1, <2>2
<1>5. denied' # NoAction => denied' \in AllDirectives \ todo' /\ fate'[denied'] = "declined"
  BY <1>1, <1>2, <1>3
<1>6. hook' # NoAction => hook' \in AllDirectives \ todo' /\ fate'[hook'] \in {"flagged", "refused"}
  BY <1>1, <1>2, <1>3
<1>7. QED
  BY <1>4, <1>5, <1>6 DEF SlotsAreOwn

LEMMA McpTrue ==
    ASSUME DInv, TruthInv, McpCall
    PROVE  TruthInv'
<1>1. PICK d \in todo, outcome \in {"done", "failed"} :
           /\ First(d) /\ d.kind = "mcp" /\ fate' = [fate EXCEPT ![d] = outcome]
           /\ told' = told \cup {Says(outcome, d)} /\ todo' = todo \ {d}
  BY DEF McpCall
<1>2. stage = "calls" /\ UNCHANGED <<stage, given, passed, feedback, slots, returned, fresh>>
  BY DEF McpCall
<1>3. CASE ~fresh
  BY <1>2, <1>3 DEF TruthInv, SlotsAreOwn, ReportsAreFinal, TrueWhenFresh
<1>4. CASE fresh
  <2>1. d \in AllDirectives /\ fate'[d] = outcome
        /\ \A e \in AllDirectives \ todo : fate'[e] = fate[e]
    BY <1>1, ActingIsTyped
  <2>2. SlotsAreOwn'
    <3>1. blocked # NoAction => \E e \in Of(Files) \ todo : fate[e] \in Bad
      BY <1>2, <1>4 DEF TruthInv, SlotsAreOwn
    <3>2. /\ denied # NoAction => denied \in AllDirectives \ todo /\ fate[denied] = "declined"
          /\ hook # NoAction =>
                 hook \in AllDirectives \ todo /\ fate[hook] \in {"flagged", "refused"}
      BY <1>2, <1>4 DEF TruthInv, SlotsAreOwn
    <3>3. \A e \in Of(Files) \ todo : e \in Of(Files)' \ todo' /\ fate'[e] = fate[e]
      BY <1>1, <1>2, <2>1, ActingIsTyped DEF Of
    <3>4. todo' \subseteq todo
      BY <1>1
    <3>5. QED
      BY <1>2, <2>1, <3>1, <3>2, <3>3, <3>4 DEF SlotsAreOwn
  <2>3. ReportsAreFinal'
    <3>1. Says(outcome, d).says = outcome /\ Says(outcome, d).about = d
      BY DEF Says
    <3>2. QED
      BY <1>1, <1>2, <2>1, <3>1 DEF TruthInv, ReportsAreFinal
  <2>4. Truth(Says(outcome, d))'
    BY <2>1, <1>1 DEF Says, Truth
  <2>5. \A r \in told : Truth(r)'
    BY <1>2, <1>4, <2>1, OldReportsTrue
  <2>6. QED
    BY <1>1, <2>2, <2>3, <2>4, <2>5 DEF TruthInv, TrueWhenFresh
<1>5. QED
  BY <1>3, <1>4

\* A directive was carried out, or a file was tried, and process_reply goes on.
LEMMA StepTrue ==
    ASSUME DInv, TruthInv, stage = "acting", NEW d \in todo, First(d), NEW outcome, NEW noted,
           FileDone(d, outcome, noted) \/ (Succeeds(d, outcome) /\ noted = {}),
           "blocked" \in noted => outcome = "refused" /\ d.kind \in Files,
           "denied" \in noted => outcome = "declined",
           "hook" \in noted => outcome \in {"flagged", "refused"}
    PROVE  TruthInv'
<1>1. /\ fate' = [fate EXCEPT ![d] = outcome] /\ todo' = todo \ {d}
      /\ UNCHANGED <<stage, given, passed, told, fresh>>
      /\ blocked' = IF "blocked" \in noted THEN d ELSE blocked
      /\ denied'  = IF "denied" \in noted THEN d ELSE denied
      /\ hook'    = IF "hook" \in noted THEN d ELSE hook
  BY DEF FileDone, Succeeds
<1>2. CASE ~fresh
  BY <1>1, <1>2 DEF TruthInv, SlotsAreOwn, ReportsAreFinal, TrueWhenFresh
<1>3. CASE fresh
  <2>1. \A e \in AllDirectives \ todo : fate'[e] = fate[e]
    BY <1>1, ActingIsTyped
  <2>2. SlotsAreOwn
    BY DEF TruthInv
  <2>3. SlotsAreOwn'
    BY <1>1, <1>3, <2>2, SlotsStayOwn
  <2>4. ReportsAreFinal'
    BY <1>1, <1>3 DEF TruthInv, ReportsAreFinal
  <2>5. \A r \in told : Truth(r)'
    BY <1>3, <2>1, OldReportsTrue
  <2>6. QED
    BY <1>1, <2>3, <2>4, <2>5 DEF TruthInv, TrueWhenFresh
<1>4. QED
  BY <1>2, <1>3

LEMMA SucceedsTrue ==
    ASSUME DInv, TruthInv, stage = "acting", NEW d \in todo, First(d), NEW outcome,
           Succeeds(d, outcome)
    PROVE  TruthInv'
<1>1. PICK noted : noted = {}
  OBVIOUS
<1>2. "blocked" \notin noted /\ "denied" \notin noted /\ "hook" \notin noted
  BY <1>1
<1>3. QED
  BY <1>1, <1>2, StepTrue

\* process_reply returns: the old reports stay true, and the new ones are.
LEMMA ReturnTrue ==
    ASSUME DInv, TruthInv, stage # "idle", NEW value, NEW reports, Return(value, reports),
           fresh' = fresh, \A d \in AllDirectives \ todo : fate'[d] = fate[d],
           fresh => \A r \in reports : Truth(r)'
    PROVE  TruthInv'
<1>1. stage' = "idle" /\ told' = told \cup reports
  BY DEF Return
<1>2. SlotsAreOwn' /\ ReportsAreFinal'
  BY <1>1 DEF SlotsAreOwn, ReportsAreFinal
<1>3. fresh => \A r \in told : Truth(r)'
  BY OldReportsTrue
<1>4. TrueWhenFresh'
  BY <1>1, <1>3 DEF TrueWhenFresh
<1>5. QED
  BY <1>2, <1>4 DEF TruthInv

\* The report of a directive that ends the reply: a refused command is in the blocked
\* slot, and as the files were all written nothing else is.
LEMMA StopsTrue ==
    ASSUME DInv, TruthInv, NEW kinds, kinds \cap ({"read"} \cup Files) = {},
           NEW d \in todo, Ready(d, kinds), NEW outcome, NEW noted, Stops(d, outcome, noted),
           IF "blocked" \in noted THEN outcome \in {"refused", "declined"}
           ELSE outcome \in {"failed", "diverted"} \/ (d.kind = "send" /\ outcome = "refused")
    PROVE  TruthInv'
<1>0. PICK report :
         report = IF "blocked" \notin noted /\ blocked = NoAction THEN Says("failed", d)
                  ELSE Says("refused", Named(IF "blocked" \in noted THEN d ELSE blocked, d))
  OBVIOUS
<1>1. /\ stage = "acting" /\ (\A f \in Of(Files) : fate[f] = "done")
      /\ d.kind \notin {"read"} \cup Files
  BY DEF Ready, AtKind
<1>2. /\ fate' = [fate EXCEPT ![d] = outcome] /\ fresh' = fresh
  BY DEF Stops
<1>3. d \in AllDirectives /\ fate'[d] = outcome
      /\ \A e \in AllDirectives \ todo : fate'[e] = fate[e]
  BY <1>2, ActingIsTyped
<1>4. d # NoAction /\ d # Gate
  BY <1>3, DirectivesAre, ReplyAssumption
<1>5. Return("none", {report})
  <2>1. CASE "blocked" \in noted
    BY <1>0, <1>4, <2>1 DEF Stops
  <2>2. CASE "blocked" \notin noted
    BY <1>0, <2>2 DEF Stops
  <2>3. QED
    BY <2>1, <2>2
<1>6. fresh => Truth(report)'
  <2>1. CASE "blocked" \in noted
    <3>1. report = Says("refused", d)
      BY <1>0, <1>1, <1>4, <2>1 DEF Named
    <3>2. QED
      BY <1>3, <2>1, <3>1 DEF Truth, Says
  <2>2. CASE "blocked" \notin noted /\ fresh
    <3>1. blocked = NoAction
      <4>1. \A f \in Of(Files) : fate[f] \notin Bad
        BY <1>1, FatesApart
      <4>2. QED
        BY <1>1, <2>2, <4>1 DEF TruthInv, SlotsAreOwn
    <3>2. report = Says("failed", d)
      BY <1>0, <2>2, <3>1
    <3>3. QED
      BY <1>3, <2>2, <3>2 DEF Truth, Says
  <2>3. QED
    BY <2>1, <2>2
<1>7. QED
  BY <1>1, <1>2, <1>3, <1>5, <1>6, ReturnTrue

LEMMA ActionTrue ==
    ASSUME DInv, TruthInv, WriteFile \/ RunCommand \/ SearchOrTask \/ Send \/ Browse
    PROVE  TruthInv'
<1>1. CASE WriteFile
  <2>1. PICK d \in todo : AtKind(d, Files) /\
            \/ FileDone(d, "done", {}) \/ FileDone(d, "failed", {})
            \/ FileDone(d, "refused", {"blocked"}) \/ FileDone(d, "refused", {})
            \/ FileDone(d, "refused", {"hook"}) \/ FileDone(d, "flagged", {"hook"})
            \/ FileDone(d, "declined", {"denied"})
    BY <1>1 DEF WriteFile
  <2>2. stage = "acting" /\ First(d) /\ d.kind \in Files
    BY <2>1 DEF AtKind
  <2>3. CASE FileDone(d, "done", {}) \/ FileDone(d, "failed", {}) \/ FileDone(d, "refused", {})
    BY <2>2, <2>3, StepTrue
  <2>4. CASE FileDone(d, "refused", {"blocked"})
    BY <2>2, <2>4, StepTrue
  <2>5. CASE FileDone(d, "refused", {"hook"}) \/ FileDone(d, "flagged", {"hook"})
    BY <2>2, <2>5, StepTrue
  <2>6. CASE FileDone(d, "declined", {"denied"})
    BY <2>2, <2>6, StepTrue
  <2>7. QED
    BY <2>1, <2>3, <2>4, <2>5, <2>6
<1>2. CASE RunCommand
  <2>1. PICK d \in todo : Ready(d, Commands) /\
            \/ Succeeds(d, "done") \/ Succeeds(d, "answered")
            \/ Stops(d, "failed", {}) \/ Stops(d, "refused", {"blocked"})
            \/ Stops(d, "refused", {"blocked", "hook"})
            \/ Stops(d, "declined", {"blocked", "denied"}) \/ Stops(d, "diverted", {})
    BY <1>2 DEF RunCommand
  <2>2. Commands \cap ({"read"} \cup Files) = {} /\ stage = "acting" /\ First(d)
    BY <2>1 DEF Commands, Files, Ready, AtKind
  <2>3. CASE Succeeds(d, "done") \/ Succeeds(d, "answered")
    BY <2>2, <2>3, SucceedsTrue
  <2>4. QED
    BY <2>1, <2>2, <2>3, StopsTrue
<1>3. CASE SearchOrTask
  <2>1. PICK d \in todo : Ready(d, {"search", "task"}) /\ Succeeds(d, "done")
    BY <1>3 DEF SearchOrTask
  <2>2. stage = "acting" /\ First(d) /\ Succeeds(d, "done")
    BY <2>1 DEF Ready, AtKind
  <2>3. QED
    BY <2>2, SucceedsTrue
<1>4. CASE Send
  <2>1. PICK d \in todo : Ready(d, {"send"}) /\
            (Succeeds(d, "done") \/ Stops(d, "failed", {}) \/ Stops(d, "refused", {}))
    BY <1>4 DEF Send
  <2>2. {"send"} \cap ({"read"} \cup Files) = {} /\ stage = "acting" /\ First(d)
        /\ d.kind = "send"
    BY <2>1 DEF Files, Ready, AtKind
  <2>3. CASE Succeeds(d, "done")
    BY <2>2, <2>3, SucceedsTrue
  <2>4. QED
    BY <2>1, <2>2, <2>3, StopsTrue
<1>5. CASE Browse
  <2>1. PICK d \in todo : Ready(d, {"browser"}) /\
            \/ Succeeds(d, "done") \/ Stops(d, "failed", {})
            \/ Stops(d, "refused", {"blocked"}) \/ Stops(d, "declined", {"blocked"})
    BY <1>5 DEF Browse
  <2>2. {"browser"} \cap ({"read"} \cup Files) = {} /\ stage = "acting" /\ First(d)
    BY <2>1 DEF Files, Ready, AtKind
  <2>3. CASE Succeeds(d, "done")
    BY <2>2, <2>3, SucceedsTrue
  <2>4. QED
    BY <2>1, <2>2, <2>3, StopsTrue
<1>6. QED
  BY <1>1, <1>2, <1>3, <1>4, <1>5

LEMMA ReadTrue ==
    ASSUME DInv, TruthInv, Read
    PROVE  TruthInv'
<1>1. /\ stage = "acting" /\ UNCHANGED <<given, passed, denied, hook, fresh>>
      /\ \E d \in todo : First(d) /\ d.kind = "read"
  BY ReadSteps
<1>2. PICK got \in SUBSET Of({"read"}) :
         \E fenced \in SUBSET (Of({"read"}) \ got) : ReadStep(got, fenced)
  BY ReadSteps
<1>3. PICK fenced \in SUBSET (Of({"read"}) \ got) : ReadStep(got, fenced)
  BY <1>2
<1>4. Of({"read"}) \subseteq todo /\ Of({"read"}) \subseteq AllDirectives
  BY <1>1, ActingIsTyped DEF DInv, InTurnOfKinds, Of
<1>5. \A d \in AllDirectives \ todo : fate'[d] = fate[d]
  BY <1>3, <1>4 DEF ReadStep
<1>6. \A r \in ReadReports(got, fenced) :
         /\ r.says \in {"done", "failed", "refused"} /\ r.about \in Of({"read"}) /\ Truth(r)'
  <2>1. TAKE r \in ReadReports(got, fenced)
  <2>2. PICK d \in Of({"read"}) : r = Says(ReadOutcome(got, fenced)[d], d)
    BY DEF ReadReports
  <2>3. r.says = ReadOutcome(got, fenced)[d] /\ r.about = d
    BY <2>2 DEF Says
  <2>4. fate'[d] = ReadOutcome(got, fenced)[d]
    BY <1>3, <1>4, <2>2 DEF ReadStep
  <2>5. ReadOutcome(got, fenced)[d] \in {"done", "failed", "refused"}
    BY <2>2 DEF ReadOutcome
  <2>6. QED
    BY <2>2, <2>3, <2>4, <2>5 DEF Truth
<1>7. CASE Return("none", ReadReports(got, fenced))
  BY <1>1, <1>5, <1>6, <1>7, ReturnTrue
<1>8. CASE /\ got = Of({"read"}) /\ Of({"edit"}) # {}
           /\ todo' = todo \ Of({"read"})
           /\ told' = told \cup ReadReports(got, fenced)
           /\ UNCHANGED <<stage, feedback, returned>>
  <2>1. CASE ~fresh
    BY <1>1, <2>1 DEF TruthInv, SlotsAreOwn, ReportsAreFinal, TrueWhenFresh
  <2>2. CASE fresh
    <3>1. blocked' = blocked
      BY <1>3, <1>8 DEF ReadStep
    <3>2. SlotsAreOwn'
      <4>1. \A e \in Of(Files) \ todo : e \in Of(Files)' \ todo' /\ fate'[e] = fate[e]
        BY <1>1, <1>5, <1>8, ActingIsTyped DEF Of
      <4>2. /\ blocked # NoAction => \E e \in Of(Files) \ todo : fate[e] \in Bad
            /\ denied # NoAction => denied \in AllDirectives \ todo /\ fate[denied] = "declined"
            /\ hook # NoAction =>
                   hook \in AllDirectives \ todo /\ fate[hook] \in {"flagged", "refused"}
        BY <1>1, <2>2 DEF TruthInv, SlotsAreOwn
      <4>3. blocked' # NoAction => \E e \in Of(Files)' \ todo' : fate'[e] \in Bad
        BY <3>1, <4>1, <4>2
      <4>4. denied' # NoAction => denied' \in AllDirectives \ todo' /\ fate'[denied'] = "declined"
        BY <1>1, <1>5, <1>8, <4>2
      <4>5. hook' # NoAction =>
                hook' \in AllDirectives \ todo' /\ fate'[hook'] \in {"flagged", "refused"}
        BY <1>1, <1>5, <1>8, <4>2
      <4>6. QED
        BY <4>3, <4>4, <4>5 DEF SlotsAreOwn
    <3>3. ReportsAreFinal'
      BY <1>1, <1>4, <1>6, <1>8, <2>2 DEF TruthInv, ReportsAreFinal
    <3>4. TrueWhenFresh'
      <4>1. \A r \in told : Truth(r)'
        BY <1>1, <1>5, <2>2, OldReportsTrue
      <4>2. QED
        BY <1>6, <1>8, <4>1 DEF TrueWhenFresh
    <3>5. QED
      BY <3>2, <3>3, <3>4 DEF TruthInv
  <2>3. QED
    BY <2>1, <2>2
<1>9. QED
  BY <1>3, <1>7, <1>8 DEF ReadStep

LEMMA GateTrue ==
    ASSUME DInv, TruthInv, ValidationGate
    PROVE  TruthInv'
<1> DEFINE invalid == {d \in todo : d.kind \in Gated /\ ~d.valid}
<1>1. CASE invalid # {}
  <2>1. ~fresh'
    BY <1>1 DEF ValidationGate
  <2>2. QED
    BY <2>1 DEF TruthInv, SlotsAreOwn, ReportsAreFinal, TrueWhenFresh
<1>2. CASE invalid = {}
  <2>1. /\ stage' = "calls" /\ todo' = todo /\ passed' = passed
        /\ UNCHANGED <<given, blocked, denied, hook>>
        /\ told' = told /\ fresh' = fresh
    <3> DEFINE reports == {Says("refused", d) : d \in invalid}
    <3>1. reports = {} /\ todo \ invalid = todo /\ passed \ invalid = passed
      BY <1>2
    <3>2. stage' = "calls" /\ todo' = todo \ invalid /\ told' = told \cup reports
      BY <1>2 DEF ValidationGate
    <3>3. /\ passed' = passed \ invalid /\ UNCHANGED <<given, denied, hook>>
          /\ blocked' = blocked
      BY <1>2 DEF ValidationGate
    <3>4. fresh' = fresh
      BY <1>2, ActingIsTyped DEF ValidationGate
    <3> HIDE DEF invalid, reports
    <3>5. told' = told
      BY <3>1, <3>2
    <3>6. QED
      BY <3>1, <3>2, <3>3, <3>4, <3>5
  <2>2. stage = "gate" /\ told = {}
    BY DEF ValidationGate, DInv, Places
  <2>3. \A d \in AllDirectives : fate'[d] = fate[d]
    BY <1>2 DEF ValidationGate
  <2>4. SlotsAreOwn'
    <3>1. \A e \in Of(Files) \ todo : e \in Of(Files)' \ todo' /\ fate'[e] = fate[e]
      BY <2>1, <2>3, ActingIsTyped DEF Of
    <3>2. QED
      BY <2>1, <2>2, <2>3, <3>1 DEF TruthInv, SlotsAreOwn
  <2>5. QED
    BY <2>1, <2>2, <2>4 DEF TruthInv, ReportsAreFinal, TrueWhenFresh
<1>3. QED
  BY <1>1, <1>2

LEMMA EndTrue ==
    ASSUME DInv, TruthInv, SendBack \/ FilesFailed \/ TellResults \/ Delegate \/ Conclude
    PROVE  TruthInv'
<1>0. stage = "acting" /\ fresh' = fresh /\ passed' = passed
  BY DEF SendBack, FilesFailed, TellResults, Delegate, Conclude, AtKind, NothingElseLeft,
         FilesAreDone
<1>1. CASE SendBack
  <2>1. PICK d \in todo : fate' = [fate EXCEPT ![d] = "returned"] /\ Return("none", {})
    BY <1>1 DEF SendBack
  <2>2. QED
    BY <1>0, <2>1, ActingIsTyped, ReturnTrue
<1>2. CASE FilesFailed
  <2>1. Return("none", FileReports) /\ fate' = fate
    BY <1>2 DEF FilesFailed, FileReports
  <2>2. ASSUME fresh, NEW r \in FileReports
        PROVE  Truth(r)'
    <3>1. \E d \in Of(Files) : fate[d] \in Bad
      BY <1>2 DEF FilesFailed
    <3>2. /\ denied # NoAction => fate[denied] = "declined"
          /\ hook # NoAction => fate[hook] \in {"flagged", "refused"}
      BY <1>0, <2>2 DEF TruthInv, SlotsAreOwn
    <3>3. \/ r.says = "unclear"
          \/ r.says = "declined" /\ r.about = denied /\ denied # NoAction
          \/ r.says = "flagged" /\ r.about = hook /\ hook # NoAction
      BY <2>2 DEF FileReports, Says
    <3>4. CASE r.says = "unclear"
      BY <1>0, <2>1, <3>1, <3>4 DEF Truth, Of
    <3>5. CASE r.says = "declined" /\ r.about = denied /\ denied # NoAction
      BY <2>1, <3>2, <3>5 DEF Truth
    <3>6. CASE r.says = "flagged" /\ r.about = hook /\ hook # NoAction
      BY <2>1, <3>2, <3>6 DEF Truth
    <3>7. QED
      BY <3>3, <3>4, <3>5, <3>6
  <2>3. QED
    BY <1>0, <2>1, <2>2, ReturnTrue
<1>3. CASE TellResults
  <2> DEFINE reports == {Says("done", d) : d \in feedback}
  <2>1. Return("none", reports) /\ fate' = fate
    BY <1>3 DEF TellResults
  <2>2. \A r \in reports : Truth(r)'
    BY <2>1 DEF Truth, Says, DInv, DispatchTypeOK
  <2>3. QED
    BY <1>0, <2>1, <2>2, ReturnTrue
<1>4. CASE Delegate
  <2>1. PICK ds \in SUBSET todo :
           /\ fate' = [d \in AllDirectives |-> IF d \in ds THEN "done" ELSE fate[d]]
           /\ Return("none", {Says("done", d) : d \in ds})
    BY <1>4 DEF Delegate
  <2>2. \A r \in {Says("done", d) : d \in ds} : Truth(r)'
    BY <2>1, ActingIsTyped DEF Truth, Says
  <2>3. \A d \in AllDirectives \ todo : fate'[d] = fate[d]
    BY <2>1
  <2>4. QED
    BY <1>0, <2>1, <2>2, <2>3, ReturnTrue
<1>5. CASE Conclude
  <2>1. CASE Return("reply", {})
    <3>1. fate' = fate
      BY <1>5 DEF Conclude
    <3>2. QED
      BY <1>0, <2>1, <3>1, ReturnTrue
  <2>2. CASE /\ Return("none", {Says("nothing ran", NoAction)})
             /\ \A d \in AllDirectives : fate[d] # "absent" => d.kind = "mcp"
    <3>1. fate' = fate
      BY <1>5 DEF Conclude
    <3>2. Truth(Says("nothing ran", NoAction))'
      BY <2>2, <3>1 DEF Truth, Says, Carried
    <3>3. QED
      BY <1>0, <2>2, <3>1, <3>2, ReturnTrue
  <2>3. QED
    BY <1>5, <2>1, <2>2 DEF Conclude
<1>6. QED
  BY <1>1, <1>2, <1>3, <1>4, <1>5

LEMMA TruthKept == DInv /\ TruthInv /\ [DispatchNext]_dispatchVars => TruthInv'
<1> SUFFICES ASSUME DInv, TruthInv, [DispatchNext]_dispatchVars PROVE TruthInv'
  OBVIOUS
<1>1. CASE \E r \in Replies : Receive(r)
  <2>1. told' = {} /\ UNCHANGED slots
    BY <1>1 DEF Receive
  <2>2. fresh' => blocked' = NoAction /\ denied' = NoAction /\ hook' = NoAction
    BY <1>1 DEF Receive
  <2>3. QED
    BY <2>1, <2>2 DEF TruthInv, SlotsAreOwn, ReportsAreFinal, TrueWhenFresh
<1>2. CASE StallCheck
  <2>1. stage = "calls" /\ UNCHANGED <<given, passed, fate, slots, fresh>>
    BY <1>2 DEF StallCheck
  <2>2. CASE Return("none", {})
    BY <2>1, <2>2, ReturnTrue
  <2>3. CASE stage' = "acting" /\ UNCHANGED <<todo, feedback, returned, told>>
    BY <2>1, <2>3 DEF TruthInv, SlotsAreOwn, ReportsAreFinal, TrueWhenFresh, Truth, Of
  <2>4. QED
    BY <1>2, <2>2, <2>3 DEF StallCheck
<1>3. CASE UNCHANGED dispatchVars
  BY <1>3 DEF dispatchVars, TruthInv, SlotsAreOwn, ReportsAreFinal, TrueWhenFresh, Truth, Of
<1>4. QED
  BY <1>1, <1>2, <1>3, GateTrue, McpTrue, ReadTrue, ActionTrue, EndTrue DEF DispatchNext

\* For every set of replies, one after another, and every outcome: when the slots were
\* empty as a reply came and the gate took nothing out, what the model is told is true.
THEOREM FreshReportsAreTrue == DispatchSpec => []TrueWhenFresh
<1>1. DispatchInit => TruthInv
  BY DEF DispatchInit, TruthInv, SlotsAreOwn, ReportsAreFinal, TrueWhenFresh
<1>2. TruthInv => TrueWhenFresh
  BY DEF TruthInv
<1>3. QED
  BY <1>1, <1>2, DispatchAlways, TruthKept, PTL DEF DispatchSpec
=============================================================================
