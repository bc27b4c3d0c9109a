----------------------------- MODULE SessionSave -----------------------------
(***************************************************************************)
(* Saving and resuming a session (session_store.py, runtime_state.py and   *)
(* the REPL of master_ai.py).  A session has one transcript and one        *)
(* snapshot of the runtime beside it; both are rewritten by threads, one   *)
(* for every turn, and by the main thread before it restarts or leaves.    *)
(* A restart begins a new session; the snapshot of an old one may be       *)
(* restored into it.                                                       *)
(*                                                                         *)
(* The turns are numbered, through all sessions, and a list of messages    *)
(* stands for the newest turn in it, 0 if it has none.                     *)
(***************************************************************************)
EXTENDS Naturals, FiniteSets

CONSTANTS
    Background,    \* the daemon threads that save after a turn
    Main,          \* the main thread, when it saves by itself
    NoThread,
    Approvals,     \* actions that are queued for approval
    MaxTurns,      \* bound: turns of all sessions
    MaxSessions,   \* bound: processes, one session each
    MaxResumes     \* bound: restored snapshots

ASSUME SessionAssumption ==
    /\ Main \notin Background /\ NoThread \notin Background \cup {Main}
    /\ MaxTurns \in Nat /\ MaxSessions \in Nat \ {0} /\ MaxResumes \in Nat

Threads == Background \cup {Main}
Sessions == 1 .. MaxSessions
Idle == [at |-> "off", copy |-> 0]

VARIABLES
    session,   \* SESSION_TS
    turns,     \* turns so far
    empty,     \* history holds no turn
    exitCopy,  \* the newest turn of GLOBAL_HISTORY, which the exit handlers save
    detached,  \* history is another list than GLOBAL_HISTORY
    plan,      \* PENDING_PLAN_TEXT is set
    main,      \* what the main thread is at
    saver,     \* each thread's save_session: where it is, and its copy
    lock,      \* _SAVE_LOCK
    snap,      \* the state that a thread has collected
    chat,      \* <ts>.chat of each session: the newest turn in it
    state,     \* <ts>.state.json of each session
    pend,      \* how often an action is PENDING in the approval queue
    decided,   \* history: how often it was approved or rejected
    wanted,    \* history: the newest turn a save of this session was asked for
    overlap,   \* history: two saves of this session were under way at once
    failed,    \* history: a write of this session failed
    cut,       \* history: sessions whose last snapshot was not written: it failed, or
               \* the process ended before
    resumes    \* history: restored snapshots

talk == <<turns, empty, exitCopy, detached>>
saving == <<saver, lock, snap>>
files == <<chat, state>>
queue == <<pend, decided>>
history == <<wanted, overlap, failed, cut, resumes>>
vars == <<session, talk, plan, main, saving, files, queue, history>>

NoState == [turn |-> 0, plan |-> FALSE, pend |-> [a \in Approvals |-> 0]]

Init ==
    /\ session = 1 /\ turns = 0 /\ empty = TRUE /\ exitCopy = 0 /\ detached = FALSE
    /\ plan = FALSE /\ main = "prompt"
    /\ saver = [t \in Threads |-> Idle] /\ lock = NoThread
    /\ snap = [t \in Threads |-> NoState]
    /\ chat = [s \in Sessions |-> 0] /\ state = [s \in Sessions |-> NoState]
    /\ pend = [a \in Approvals |-> 0] /\ decided = [a \in Approvals |-> 0]
    /\ wanted = 0 /\ overlap = FALSE /\ failed = FALSE /\ cut = {} /\ resumes = 0

Active == {t \in Threads : saver[t].at # "off"}
Live == IF empty THEN 0 ELSE turns
-----------------------------------------------------------------------------
(* save_session, one thread *)

\* A thread begins a save of a list: of one without a turn nothing is saved.
StartSave(t, copy) ==
    IF copy = 0 THEN UNCHANGED <<saver, overlap>>
    ELSE /\ saver' = [saver EXCEPT ![t] = [at |-> "ready", copy |-> copy]]
         /\ overlap' = (overlap \/ Active # {})

\* A list is to be saved (history).
Want(newest) == wanted' = IF newest = 0 THEN wanted ELSE newest

\* Faulty variant: nobody waits for the lock.
AcquireUnlocked(t) ==
    /\ saver[t].at = "ready"
    /\ lock' = t /\ saver' = [saver EXCEPT ![t].at = "write"]
    /\ UNCHANGED <<session, talk, plan, main, snap, files, queue, history>>

Acquire(t) ==
    /\ saver[t].at = "ready" /\ lock = NoThread
    /\ lock' = t /\ saver' = [saver EXCEPT ![t].at = "write"]
    /\ UNCHANGED <<session, talk, plan, main, snap, files, queue, history>>

\* The transcript is written to a temporary file that takes its place.
WriteChat(t) ==
    /\ saver[t].at = "write"
    /\ chat' = [chat EXCEPT ![session] = saver[t].copy]
    /\ saver' = [saver EXCEPT ![t].at = "collect"]
    /\ UNCHANGED <<session, talk, plan, main, lock, snap, state, queue, history>>

\* An error ends the save (bound: one write fails in a session); a reload that fails to
\* save writes no flag either.
ChatFails(t) ==
    /\ saver[t].at = "write" /\ ~failed
    /\ saver' = [saver EXCEPT ![t] = Idle] /\ lock' = NoThread /\ failed' = TRUE
    /\ main' = IF t = Main /\ main = "reload" THEN "new" ELSE main
    /\ UNCHANGED <<session, talk, plan, snap, files, queue, wanted, overlap, cut, resumes>>

\* Faulty variant: collect_state's defaults are not replaced by what is live.
CollectDefaults(t) ==
    /\ saver[t].at = "collect"
    /\ snap' = [snap EXCEPT ![t] = [turn |-> turns, plan |-> FALSE, pend |-> pend]]
    /\ saver' = [saver EXCEPT ![t].at = "state"]
    /\ UNCHANGED <<session, talk, plan, main, lock, files, queue, history>>

\* What is live now, not what was when the save began.
Collect(t) ==
    /\ saver[t].at = "collect"
    /\ snap' = [snap EXCEPT ![t] = [turn |-> turns, plan |-> plan, pend |-> pend]]
    /\ saver' = [saver EXCEPT ![t].at = "state"]
    /\ UNCHANGED <<session, talk, plan, main, lock, files, queue, history>>

\* The snapshot may fail to be written; the save goes on.
WriteState(t) ==
    /\ saver[t].at = "state"
    /\ \/ state' = [state EXCEPT ![session] = snap[t]] /\ cut' = cut \ {session} /\ UNCHANGED failed
       \/ ~failed /\ failed' = TRUE /\ cut' = cut \cup {session} /\ UNCHANGED state
    /\ lock' = NoThread /\ saver' = [saver EXCEPT ![t].at = "summary"]
    /\ snap' = [snap EXCEPT ![t] = NoState]
    /\ UNCHANGED <<session, talk, plan, main, chat, queue, wanted, overlap, resumes>>

\* A model summarises the session; a save of the main thread waits for it.
Summarize(t) ==
    /\ saver[t].at = "summary"
    /\ saver' = [saver EXCEPT ![t] = Idle]
    /\ UNCHANGED <<session, talk, plan, main, lock, snap, files, queue, history>>

Save(t) ==
    Acquire(t) \/ WriteChat(t) \/ ChatFails(t) \/ Collect(t) \/ WriteState(t) \/ Summarize(t)
-----------------------------------------------------------------------------
(* The REPL *)

Prompting == main = "prompt"

\* Faulty variant: the copy is made before the turn is in the history.
AutoSaveBefore == \E t \in Background : saver[t].at = "off" /\ StartSave(t, Live)

\* _request_auto_save: a thread of its own saves a copy of the history.
AutoSave ==
    \E t \in Background : saver[t].at = "off" /\ StartSave(t, turns')

\* One more turn is in the history, which may not be the exit handlers' list any more.
Grow ==
    /\ turns < MaxTurns /\ turns' = turns + 1 /\ empty' = FALSE
    /\ exitCopy' = IF detached THEN exitCopy ELSE turns'
    /\ UNCHANGED detached

Turn ==
    /\ Prompting /\ Grow /\ AutoSave /\ Want(turns')
    /\ UNCHANGED <<session, plan, main, lock, snap, files, queue, failed, cut, resumes>>

\* `clear approved` and its like bind history to a list of its own.
Clear ==
    /\ Prompting /\ ~empty
    /\ empty' = TRUE /\ detached' = TRUE /\ UNCHANGED <<turns, exitCopy>>
    /\ UNCHANGED <<session, plan, main, saving, files, queue, history>>

\* The planning turn is taken out of the history again, and nothing is saved.
ShowPlan ==
    /\ Prompting /\ ~plan
    /\ plan' = TRUE
    /\ UNCHANGED <<session, talk, main, saving, files, queue, history>>

\* The plan is discarded, or carried out in a turn; neither asks for a save.
ClosePlan ==
    /\ Prompting /\ plan
    /\ plan' = FALSE
    /\ Grow \/ UNCHANGED talk
    /\ UNCHANGED <<session, main, saving, files, queue, history>>

\* The main thread saves before it goes on: with the prompt, a restart or the end.
SaveFor(next) ==
    /\ Prompting
    /\ main' = next /\ StartSave(Main, Live) /\ Want(Live)
    /\ UNCHANGED <<session, talk, plan, lock, snap, files, queue, failed, cut, resumes>>

BackToPrompt ==
    /\ main = "save" /\ saver[Main].at = "off"
    /\ main' = "prompt"
    /\ UNCHANGED <<session, talk, plan, saving, files, queue, history>>

\* The handler registered for every exit saves GLOBAL_HISTORY.
AtExit ==
    /\ main = "quit" /\ saver[Main].at = "off"
    /\ main' = "exit" /\ StartSave(Main, exitCopy) /\ Want(exitCopy)
    /\ UNCHANGED <<session, talk, plan, lock, snap, files, queue, failed, cut, resumes>>

\* restore_pending_approvals: every approval of the snapshot is queued once more.
Requeue(st) == [a \in Approvals |-> pend[a] + st.pend[a]]

\* _restore_structured_state; a plan in the snapshot is set, one that is not in it
\* is left alone.
Restore(st, planBefore) ==
    /\ resumes < MaxResumes /\ resumes' = resumes + 1
    /\ pend' = Requeue(st) /\ plan' = (planBefore \/ st.plan)

\* `sessions resume`: the old transcript is a turn of this session.
Resume(s) ==
    /\ Prompting /\ s < session /\ chat[s] > 0
    /\ Grow /\ AutoSave /\ Want(turns') /\ Restore(state[s], plan)
    /\ UNCHANGED <<session, main, lock, snap, files, decided, failed, cut>>

\* A new process has an empty history, and the threads of the old one are gone.
NewProcess ==
    /\ session < MaxSessions /\ session' = session + 1
    /\ empty' = TRUE /\ exitCopy' = 0 /\ detached' = FALSE
    /\ main' = "prompt" /\ saver' = [t \in Threads |-> Idle] /\ lock' = NoThread
    /\ snap' = [t \in Threads |-> NoState]
    /\ wanted' = 0 /\ overlap' = FALSE /\ failed' = FALSE
    /\ cut' = cut \cup {s \in {session} : \E t \in Threads : saver[t].at \in {"collect", "state"}}
    /\ UNCHANGED <<turns, files, decided>>

\* Save and refresh, or a reload of changed code: the flag names the transcript, and
\* the next process restores what is beside it.
Restart ==
    /\ main \in {"refresh", "reload"} /\ saver[Main].at = "off"
    /\ NewProcess
    /\ IF state[session] = NoState THEN UNCHANGED <<pend, resumes>> /\ plan' = FALSE
       ELSE Restore(state[session], FALSE)

\* `new` and quitting leave no flag, whether the save of an exit is over or not; a
\* crash does not wait for anything.
Leave ==
    /\ \/ main = "new" /\ saver[Main].at = "off"
       \/ main = "exit"
    /\ NewProcess /\ plan' = FALSE /\ UNCHANGED <<pend, resumes>>

Crash == NewProcess /\ plan' = FALSE /\ UNCHANGED <<pend, resumes>>

\* The approval queue is shared by all processes (ApprovalQueue has its details).
Ask(a) ==
    /\ pend[a] = 0 /\ decided[a] = 0
    /\ pend' = [pend EXCEPT ![a] = 1]
    /\ UNCHANGED <<session, talk, plan, main, saving, files, decided, history>>

Decide(a) ==
    /\ pend[a] > 0
    /\ pend' = [pend EXCEPT ![a] = @ - 1] /\ decided' = [decided EXCEPT ![a] = @ + 1]
    /\ UNCHANGED <<session, talk, plan, main, saving, files, history>>

Next ==
    \/ \E t \in Threads : Save(t)
    \/ Turn \/ Clear \/ ShowPlan \/ ClosePlan
    \/ \E next \in {"save", "refresh", "reload", "new", "quit"} : SaveFor(next)
    \/ BackToPrompt \/ AtExit \/ Restart \/ Leave \/ Crash
    \/ \E s \in Sessions : Resume(s)
    \/ \E a \in Approvals : Ask(a) \/ Decide(a)

Spec == Init /\ [][Next]_vars
-----------------------------------------------------------------------------
(* Properties *)

Stages == {"off", "ready", "write", "collect", "state", "summary"}

\* Every variable has its type, and the lock is with the thread that writes.
TypeOK ==
    /\ session \in Sessions /\ turns \in 0 .. MaxTurns /\ exitCopy \in 0 .. turns
    /\ empty \in BOOLEAN /\ detached \in BOOLEAN /\ plan \in BOOLEAN
    /\ main \in {"prompt", "save", "refresh", "reload", "new", "quit", "exit"}
    /\ saver \in [Threads -> [at : Stages, copy : 0 .. MaxTurns]]
    /\ \A t \in Threads : saver[t].at \in {"write", "collect", "state"} <=> lock = t
    /\ chat \in [Sessions -> 0 .. MaxTurns]
    /\ \A st \in {snap[t] : t \in Threads} \cup {state[s] : s \in Sessions} :
           st \in [turn : 0 .. MaxTurns, plan : BOOLEAN, pend : [Approvals -> Nat]]
    /\ pend \in [Approvals -> Nat] /\ decided \in [Approvals -> Nat]
    /\ wanted \in 0 .. turns /\ overlap \in BOOLEAN /\ failed \in BOOLEAN
    /\ cut \subseteq Sessions /\ resumes \in 0 .. MaxResumes

\* When no save is under way, the transcript is the one the last save was asked for,
\* unless two saves overlapped or a write failed.
SettledIsNewest == Active = {} /\ ~overlap /\ ~failed => chat[session] = wanted

\* A snapshot is not older than the transcript it lies beside, however the threads
\* interleave: only a save in between its two writes, or a process that ended there,
\* or a failed write leaves a snapshot that lags behind.
SnapshotNotOlder ==
    \A s \in Sessions :
        chat[s] > state[s].turn =>
            \/ s \in cut
            \/ s = session /\ \E t \in Threads : saver[t].at \in {"collect", "state"}

\* A refresh or a reload takes a waiting plan with it, and revives none that was
\* settled, if there was a history to save and the writes succeeded.
RefreshKeepsPlan == [][Restart /\ ~empty /\ ~failed => plan' = plan]_vars

\* runtime_state.py:85 says that "the restore path re-reads the authoritative queue":
\* what is in the queue, or was decided, is not queued another time.
NoneTwice == \A a \in Approvals : pend[a] + decided[a] <= 1

=============================================================================
