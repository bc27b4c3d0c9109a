------------------------------ MODULE TurnLoop ------------------------------
(***************************************************************************)
(* A turn of the assistant (orchestration.py, handle) and the main loop    *)
(* around it (master_ai.py, main).  A turn calls a model, carries out the  *)
(* directives of its reply and calls again as long as process_reply asks   *)
(* for it; the watchdog behind it may begin the next turn by itself.       *)
(*                                                                         *)
(* process_reply is one step here, with the results ReplyDispatch allows:  *)
(* a reply that changed a file or ran a command never stands as the        *)
(* answer.  What the models say, which route a request takes, how full     *)
(* the context is and what the operator answers is open.                   *)
(***************************************************************************)
EXTENDS Naturals, FiniteSetsExt

CONSTANTS
    MaxTurns,    \* MAX_CONTINUATION_TURNS
    MaxNudges,   \* _VERIFY_STOP_MAX_ATTEMPTS
    MaxStreak    \* AUTO_NUDGE_MAX

ASSUME TurnAssumption == MaxTurns \in Nat /\ MaxNudges \in Nat \ {0} /\ MaxStreak \in Nat

VARIABLES
    at,          \* where the main loop is
    route,       \* "cloud" (and web) or "local" (and vision)
    reply,       \* the last reply: words, nothing but directives, blank, or a fixed text
    result,      \* what process_reply returned
    turns,       \* continuation_turns
    repairs,     \* _repair_turns_seen
    repairing,   \* does the history end with a directive repair
    unverified,  \* code was edited in this turn and not verified since
    attempts,    \* _VERIFY_STOP_ATTEMPTS
    attemptsRead, \* the copy that handle() made of it
    rendered,    \* _LAST_TURN_RENDERED
    interrupted, \* _INTERRUPT_EVENT
    note,        \* PENDING_USER_NOTE: none, by the operator or automatic
    streak,      \* AUTO_NUDGE_STREAK
    \* The rest is history.
    nudges,      \* verification nudges of this turn
    shown,       \* has the operator seen this reply
    seen,        \* has the operator seen any words in this turn
    late,        \* model replies carried out after the interrupt of this turn
    unattended,  \* turns in a row that no human began
    ended        \* how the turn ended

loopVars == <<turns, repairs, repairing, attempts, attemptsRead, nudges>>
mainVars == <<note, streak, unattended>>
display == <<rendered, shown, seen>>
vars == <<at, route, reply, result, loopVars, unverified, display, interrupted, mainVars,
          late, ended>>

ReplyForms == {"words", "directives", "blank", "fixed"}

Endings == {"open", "direct", "answer", "full", "interrupted", "limit", "stuck", "mute"}

\* After a restart that resumes from notes the first turn is an automatic one.
Init ==
    /\ at = "main" /\ route = "cloud" /\ reply = "fixed" /\ result = "reply"
    /\ turns = 0 /\ repairs = 0 /\ repairing = FALSE
    /\ unverified = FALSE /\ attempts = 0 /\ attemptsRead = 0
    /\ rendered = FALSE /\ shown = FALSE /\ seen = FALSE /\ interrupted = FALSE
    /\ note \in {"none", "auto"} /\ streak = 0
    /\ nudges = 0 /\ late = 0 /\ unattended = 0 /\ ended = "open"

-----------------------------------------------------------------------------
(* The main loop *)

\* The next request: a pending note, or else what the operator types.  handle()
\* copies the count of nudges first, then resets it with the rest of the turn.
BeginTurn ==
    /\ at = "main"
    /\ unattended' = IF note = "auto" THEN unattended + 1 ELSE 0
    /\ note' = "none"
    /\ route' \in {"cloud", "local"}
    /\ attemptsRead' = attempts /\ attempts' = 0
    /\ unverified' = FALSE /\ interrupted' = FALSE
    /\ rendered' = FALSE /\ shown' = FALSE /\ seen' = FALSE
    /\ turns' = 0 /\ repairs' = 0 /\ repairing' = FALSE /\ nudges' = 0 /\ late' = 0
    /\ reply' = "fixed" /\ result' = "none" /\ ended' = "open"
    /\ at' \in {"calling", "answering"}
    /\ UNCHANGED streak

\* A request answered from the cache does not get as far as handle().
AnswerFromCache ==
    /\ at = "main"
    /\ unattended' = IF note = "auto" THEN unattended + 1 ELSE 0
    /\ note' = "none"
    /\ UNCHANGED <<at, route, reply, result, loopVars, unverified, display, interrupted,
                   streak, late, ended>>

\* Ctrl+C while a turn is going on; at the prompt it leaves the event alone.
Interrupt ==
    /\ at \notin {"main", "watchdog"} /\ ~interrupted
    /\ interrupted' = TRUE
    /\ UNCHANGED <<at, route, reply, result, loopVars, unverified, display, mainVars, late, ended>>

\* An exception ends the turn and skips the watchdog.
TurnRaises ==
    /\ at \notin {"main", "watchdog"}
    /\ at' = "main"
    /\ UNCHANGED <<route, reply, result, loopVars, unverified, display, interrupted, mainVars,
                   late, ended>>

Leashed == streak < MaxStreak

\* Unless the reply asks the operator something, open tasks begin another turn, up
\* to MaxStreak times in a row.
Watchdog ==
    /\ at = "watchdog" /\ at' = "main"
    /\ IF reply = "blank"
       THEN UNCHANGED <<streak, note>>
       ELSE \/ streak' = 0 /\ UNCHANGED note
            \/ Leashed /\ streak' = streak + 1 /\ note' = "auto"
    /\ UNCHANGED <<route, reply, result, loopVars, unverified, display, interrupted,
                   unattended, late, ended>>

-----------------------------------------------------------------------------
(* The first call *)

\* Faulty variant: rendering leaves the flag alone.
RenderUnflagged == shown' = (reply' # "blank") /\ seen' = (seen \/ reply' # "blank")
                   /\ UNCHANGED rendered

\* The flag and what the operator has really seen, when the current reply is put on
\* the screen or not.
Render == rendered' = TRUE /\ shown' = (reply' # "blank") /\ seen' = (seen \/ reply' # "blank")

\* Many requests are answered without a model; some of these run a directive, which
\* may wait at a prompt, and what came of it is not looked at.
AnswerDirectly ==
    /\ at = "answering" /\ at' = "watchdog" /\ ended' = "direct"
    /\ unverified' \in BOOLEAN /\ reply' \in {"fixed", "blank"}
    /\ UNCHANGED <<route, result, loopVars, display, interrupted, mainVars, late>>

\* A local reply is shown as it comes, a cloud reply by process_reply.
Arrives ==
    IF route = "local" /\ reply' # "fixed" THEN Render
    ELSE shown' = FALSE /\ UNCHANGED <<rendered, seen>>

\* The first call always gives a reply, for want of one a fixed text.
FirstCall ==
    /\ at = "calling" /\ at' = "dispatching"
    /\ reply' \in ReplyForms /\ Arrives
    /\ UNCHANGED <<route, result, loopVars, unverified, interrupted, mainVars, late, ended>>

\* The first reply was a skill, whose result the model has to put into words, or it
\* gives itself away as made up: it is not carried out.
SetAside ==
    /\ at = "dispatching" /\ turns = 0
    /\ result' = "none" /\ at' = "looping"
    /\ repairing' \in BOOLEAN
    /\ UNCHANGED <<route, reply, turns, repairs, attempts, attemptsRead, nudges, unverified,
                   display, interrupted, mainVars, late, ended>>

\* process_reply.  A reply that is sent back at once is not shown; else its words
\* are.  Only a reply that is sent on has changed anything, and a command may have
\* been put off by a note of the operator.
Dispatch ==
    /\ at = "dispatching" /\ at' = "looping"
    /\ late' = IF interrupted /\ reply # "fixed" THEN late + 1 ELSE late
    /\ UNCHANGED reply
    /\ \/ /\ result' = "reply" /\ repairing' = FALSE
          /\ IF reply = "directives" \/ shown THEN UNCHANGED display ELSE Render
          /\ UNCHANGED <<unverified, note>>
       \/ /\ result' = "none" /\ repairing' \in BOOLEAN
          /\ UNCHANGED display \/ (reply # "directives" /\ Render)
          /\ IF reply \in {"words", "directives"}
             THEN unverified' \in BOOLEAN /\ note' \in {note, "operator"}
             ELSE UNCHANGED <<unverified, note>>
    /\ UNCHANGED <<route, turns, repairs, attempts, attemptsRead, nudges, interrupted,
                   streak, unattended, ended>>
-----------------------------------------------------------------------------
(* The continuation loop *)

\* Faulty variant: nudges are due by the copy of the count.
NudgeDueByCopy == unverified /\ attemptsRead < MaxNudges

\* _verify_on_stop_nudge, by the count in its module.
NudgeDue == unverified /\ attempts < MaxNudges

GoesOn == (result = "none" \/ NudgeDue) /\ turns < MaxTurns

\* A nudge sets the count from the copy.  (It is only ever compared with MaxNudges,
\* so it is cut off above it.)
CountNudge ==
    attempts' = IF result = "reply" THEN Min({attemptsRead + 1, MaxNudges + 1}) ELSE attempts

\* Faulty variant: the loop does not look at the event.
MayCallAlways == TRUE

MayCall == ~interrupted

\* The head of the loop, up to its next call.
Reask ==
    /\ at = "looping" /\ GoesOn /\ MayCall
    /\ at' = "recalling"
    /\ CountNudge
    /\ nudges' = IF result = "reply" THEN nudges + 1 ELSE nudges
    /\ repairs' = IF result = "none" /\ repairing THEN repairs + 1 ELSE repairs
    /\ result' = "none"
    /\ UNCHANGED <<route, reply, turns, repairing, attemptsRead, unverified, display,
                   interrupted, mainVars, late, ended>>

\* The context is full, or the operator has interrupted: the last reply stands as
\* the answer, even when a nudge was due.
StopLoop ==
    /\ at = "looping" /\ GoesOn
    /\ at' = "closing" /\ result' = "reply"
    /\ ended' \in {"full"} \cup (IF interrupted THEN {"interrupted"} ELSE {})
    /\ CountNudge
    /\ UNCHANGED <<route, reply, turns, repairs, repairing, attemptsRead, nudges, unverified,
                   display, interrupted, mainVars, late>>

\* A call within the loop.  After an interrupt a reply that takes more than the
\* second until the next look at the event is dropped; a cloud route has a fixed
\* text then.
NextCall ==
    /\ at = "recalling" /\ at' = "dispatching"
    /\ reply' \in IF route = "cloud" THEN ReplyForms ELSE ReplyForms \ {"fixed"}
    /\ Arrives
    /\ turns' = turns + 1
    /\ UNCHANGED <<route, result, repairs, repairing, attempts, attemptsRead, nudges, unverified,
                   interrupted, mainVars, late, ended>>


\* A local model that stays mute twice ends the loop.
NoReply ==
    /\ at = "recalling" /\ route = "local"
    /\ at' = "closing" /\ ended' = "mute"
    /\ UNCHANGED <<route, reply, result, loopVars, unverified, display, interrupted, mainVars, late>>

\* The loop is over by its condition.
LeaveLoop ==
    /\ at = "looping" /\ ~GoesOn
    /\ at' = "closing"
    /\ ended' = IF result = "none" THEN "limit" ELSE "answer"
    /\ UNCHANGED <<route, reply, result, loopVars, unverified, display, interrupted, mainVars, late>>

\* Faulty variant: the fixed text is not shown once something was.
CloseQuietly ==
    LET stuck == result = "none" /\ (repairs > 0 \/ reply = "blank")
    IN  /\ at = "closing" /\ at' = "watchdog"
        /\ reply' = IF stuck \/ (~rendered /\ reply = "blank") THEN "fixed" ELSE reply
        /\ IF ~rendered THEN Render ELSE shown' = (shown /\ ~stuck) /\ UNCHANGED <<rendered, seen>>
        /\ ended' = IF stuck THEN "stuck" ELSE ended
        /\ UNCHANGED <<route, result, loopVars, unverified, interrupted, mainVars, late>>

\* Without a result the turn closes with a fixed text after repairs or a blank
\* reply.  Else the last reply is shown, or a text instead of a blank one, if
\* nothing was rendered in this turn.
Close ==
    LET stuck == result = "none" /\ (repairs > 0 \/ reply = "blank")
    IN  /\ at = "closing" /\ at' = "watchdog"
        /\ reply' = IF stuck \/ (~rendered /\ reply = "blank") THEN "fixed" ELSE reply
        /\ IF stuck \/ ~rendered THEN Render ELSE UNCHANGED display
        /\ ended' = IF stuck THEN "stuck" ELSE ended
        /\ UNCHANGED <<route, result, loopVars, unverified, interrupted, mainVars, late>>

\* Every call has a hard timeout, and the loop goes on by itself.
InTurn == FirstCall \/ Reask \/ StopLoop \/ NextCall \/ NoReply \/ LeaveLoop \/ Close

Next == BeginTurn \/ AnswerFromCache \/ Interrupt \/ TurnRaises \/ Watchdog
        \/ AnswerDirectly \/ SetAside \/ Dispatch \/ InTurn

\* Nothing is assumed of a turn that carries out a reply: it may ask the operator to
\* confirm a command, and the prompt waits for him as long as it takes.
Spec == Init /\ [][Next]_vars /\ WF_vars(InTurn) /\ WF_vars(Watchdog)
-----------------------------------------------------------------------------
(* Properties *)

\* Every variable has its type; the flag says no less than what was seen, and turns that
\* no human began come in a row of at most MaxStreak, and one more after a restart.
TypeOK ==
    /\ at \in {"main", "calling", "answering", "dispatching", "looping", "recalling", "closing",
               "watchdog"}
    /\ route \in {"cloud", "local"} /\ reply \in ReplyForms /\ result \in {"none", "reply"}
    /\ turns \in 0 .. MaxTurns /\ repairs \in 0 .. MaxTurns /\ nudges \in 0 .. MaxTurns
    /\ repairing \in BOOLEAN /\ unverified \in BOOLEAN /\ interrupted \in BOOLEAN
    /\ attempts \in 0 .. (MaxNudges + 1) /\ attemptsRead \in 0 .. (MaxNudges + 1)
    /\ rendered \in BOOLEAN /\ shown \in BOOLEAN /\ seen \in BOOLEAN
    /\ (shown => seen) /\ (seen => rendered)
    /\ note \in {"none", "operator", "auto"} /\ streak \in 0 .. MaxStreak
    /\ late \in Nat /\ unattended \in 0 .. (MaxStreak + 1) /\ ended \in Endings

\* When the loop ends with an answer, and when it gives up, the operator has seen
\* that text, however many replies were sent back before it.  (Not so when the
\* final reply is blank or holds nothing but directives.)
AnswerShown ==
    at = "watchdog" /\ ended \in {"answer", "stuck"} /\ reply \in {"words", "fixed"} => shown

\* After Ctrl+C at most one more reply of a model is carried out: the one whose call
\* was under way, or came back within a second.
InterruptHeeded == late <= 1

\* A turn that edited code and did not verify it never just ends with the answer:
\* the model was told to verify at least once, or there was no turn left to tell it.
NeverSilentlyUnverified ==
    at = "watchdog" /\ ended = "answer" /\ unverified => nudges > 0 \/ turns = MaxTurns

\* The turn carries something out and may be at a prompt.
MayPrompt == at \in {"answering", "dispatching"}

\* The operator answers each prompt sooner or later, and each command ends.
OperatorAnswers == MayPrompt ~> ~MayPrompt


\* master_ai.py:12421 on the verification nudge: "bounded by
\* _VERIFY_STOP_MAX_ATTEMPTS so it can never loop forever".
NudgesBounded == nudges <= MaxNudges

=============================================================================
