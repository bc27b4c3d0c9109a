-------------------------- MODULE SessionSaveProofs --------------------------
(***************************************************************************)
(* Proofs about saving a session, for any number of threads, turns,        *)
(* sessions and restored snapshots.                                        *)
(***************************************************************************)
EXTENDS SessionSave, TLAPS

USE DEF talk, saving, files, queue, history

-----------------------------------------------------------------------------
(* Type correctness *)

Held == {"write", "collect", "state"}
SaverType == [at : Stages, copy : 0 .. MaxTurns]
StateType == [turn : 0 .. MaxTurns, plan : BOOLEAN, pend : [Approvals -> Nat]]

\* The numbers of sessions and turns.
Numbers ==
    /\ session \in Sessions /\ turns \in 0 .. MaxTurns /\ exitCopy \in 0 .. turns
    /\ wanted \in 0 .. turns /\ resumes \in 0 .. MaxResumes

\* What the main thread is at, and the flags.
Modes ==
    /\ empty \in BOOLEAN /\ detached \in BOOLEAN /\ plan \in BOOLEAN
    /\ main \in {"prompt", "save", "refresh", "reload", "new", "quit", "exit"}
    /\ overlap \in BOOLEAN /\ failed \in BOOLEAN
    /\ cut \subseteq Sessions

Plain == Numbers /\ Modes

\* The threads: while the prompt is open the main thread saves nothing.
Savers ==
    /\ saver \in [Threads -> SaverType]
    /\ \A t \in Threads : saver[t].at \in Held <=> lock = t
    /\ main = "prompt" => saver[Main].at = "off"

Stored ==
    /\ chat \in [Sessions -> 0 .. MaxTurns]
    /\ snap \in [Threads -> StateType] /\ state \in [Sessions -> StateType]
    /\ pend \in [Approvals -> Nat] /\ decided \in [Approvals -> Nat]

TInv == Plain /\ Savers /\ Stored

LEMMA TypeParts == TInv => TypeOK
BY DEF TInv, Plain, Numbers, Modes, Savers, Stored, TypeOK, Held, SaverType, StateType

LEMMA Idling == Idle \in SaverType /\ NoState \in StateType /\ Main \in Threads
BY SessionAssumption DEF Idle, SaverType, Stages, NoState, StateType, Threads

LEMMA InitTyped == Init => TInv
<1> SUFFICES ASSUME Init PROVE TInv
  OBVIOUS
<1>1. Plain
  <2>1. Numbers
    BY SessionAssumption DEF Init, Numbers, Sessions
  <2>2. Modes
    BY DEF Init, Modes
  <2>3. QED
    BY <2>1, <2>2 DEF Plain, Numbers, Modes
<1>2. Savers
  BY SessionAssumption, Idling DEF Init, Savers, Idle, Held, Threads
<1>3. Stored
  BY SessionAssumption, Idling DEF Init, Stored
<1>4. QED
  BY <1>1, <1>2, <1>3 DEF TInv

\* A save that begins holds no lock.
LEMMA StartSavers ==
    ASSUME Savers, NEW t \in Threads, saver[t].at = "off", NEW copy \in 0 .. MaxTurns,
           StartSave(t, copy), UNCHANGED lock
    PROVE  /\ saver' \in [Threads -> SaverType]
           /\ \A u \in Threads : saver'[u].at \in Held <=> lock' = u
           /\ \A u \in Threads \ {t} : saver'[u] = saver[u]
BY DEF Savers, StartSave, SaverType, Stages, Held

LEMMA GrowPlain ==
    ASSUME Plain, Grow
    PROVE  turns' \in 1 .. MaxTurns /\ turns' = turns + 1
           /\ exitCopy' \in 0 .. turns' /\ empty' = FALSE /\ detached' \in BOOLEAN
BY SessionAssumption DEF Plain, Numbers, Modes, Grow

\* One more turn, that is to be saved, or is not.
LEMMA GrownPlain ==
    ASSUME Plain, Grow, Want(turns') \/ UNCHANGED wanted, session' = session, main' = main,
           failed' = failed, cut' = cut, plan' \in BOOLEAN, overlap' \in BOOLEAN,
           resumes' \in 0 .. MaxResumes \/ resumes' = resumes
    PROVE  Plain'
<1>1. wanted' = turns' \/ wanted' = wanted
  BY DEF Want
<1>2. Numbers'
  BY <1>1, GrowPlain, SessionAssumption DEF Plain, Numbers
<1>3. empty' \in BOOLEAN
  BY GrowPlain
<1>4. Modes'
  BY <1>3, GrowPlain DEF Plain, Modes
<1>5. QED
  BY <1>2, <1>4 DEF Plain, Numbers, Modes

LEMMA RestorePlain ==
    ASSUME Plain, Stored, NEW s \in Sessions, NEW b \in BOOLEAN, Restore(state[s], b)
    PROVE  resumes' \in 0 .. MaxResumes /\ plan' \in BOOLEAN /\ pend' \in [Approvals -> Nat]
<1>1. state[s] \in StateType
  BY DEF Stored
<1>2. pend' \in [Approvals -> Nat]
  BY <1>1 DEF Restore, Requeue, Stored, StateType
<1>3. plan' \in BOOLEAN
  BY <1>1 DEF Restore, StateType
<1>4. resumes' \in 0 .. MaxResumes
  BY SessionAssumption DEF Restore, Plain, Numbers, Modes
<1>5. QED
  BY <1>2, <1>3, <1>4

\* The steps of a thread.
LEMMA SaveType == ASSUME TInv, NEW t \in Threads, Save(t) PROVE TInv'
<1> USE DEF TInv
<1>1. CASE Acquire(t)
  <2>1. Savers'
    BY <1>1, SessionAssumption DEF Acquire, Savers, SaverType, Stages, Held, Threads
  <2>2. QED
    BY <1>1, <2>1 DEF Acquire, Plain, Numbers, Modes, Stored
<1>2. CASE WriteChat(t)
  <2>1. Savers'
    BY <1>2 DEF WriteChat, Savers, SaverType, Stages, Held
  <2>2. chat' \in [Sessions -> 0 .. MaxTurns]
    BY <1>2 DEF WriteChat, Stored, Savers, SaverType
  <2>3. QED
    BY <1>2, <2>1, <2>2 DEF WriteChat, Plain, Numbers, Modes, Stored
<1>3. CASE ChatFails(t)
  <2>1. saver' = [saver EXCEPT ![t] = Idle] /\ lock' = NoThread /\ main' \in {"new", main}
    BY <1>3 DEF ChatFails
  <2>2. saver[t].at = "write" /\ lock = t
    BY <1>3 DEF ChatFails, Savers, Held
  <2>3. Savers'
    BY <2>1, <2>2, SessionAssumption, Idling DEF Savers, Held, Idle, Threads
  <2>4. QED
    BY <1>3, <2>1, <2>3 DEF ChatFails, Plain, Numbers, Modes, Stored
<1>4. CASE Collect(t)
  <2>1. Savers'
    BY <1>4 DEF Collect, Savers, SaverType, Stages, Held
  <2>2. [turn |-> turns, plan |-> plan, pend |-> pend] \in StateType
    BY DEF Plain, Numbers, Modes, Stored, StateType
  <2>3. snap' \in [Threads -> StateType]
    BY <1>4, <2>2 DEF Collect, Stored
  <2>4. QED
    BY <1>4, <2>1, <2>3 DEF Collect, Plain, Numbers, Modes, Stored
<1>5. CASE WriteState(t)
  <2>1. saver[t].at = "state" /\ lock = t /\ lock' = NoThread
    BY <1>5 DEF WriteState, Savers, Held
  <2>2. saver' = [saver EXCEPT ![t].at = "summary"]
    BY <1>5 DEF WriteState
  <2>3. Savers'
    BY <1>5, <2>1, <2>2, SessionAssumption DEF WriteState, Savers, SaverType, Stages, Held, Threads
  <2>4. Stored'
    BY <1>5, Idling DEF WriteState, Stored
  <2>5. cut' \subseteq Sessions /\ failed' \in BOOLEAN
    BY <1>5 DEF WriteState, Plain, Numbers, Modes
  <2>6. QED
    BY <1>5, <2>3, <2>4, <2>5 DEF WriteState, Plain, Numbers, Modes
<1>6. CASE Summarize(t)
  <2>1. saver[t].at = "summary" /\ saver' = [saver EXCEPT ![t] = Idle] /\ UNCHANGED <<lock, main>>
    BY <1>6 DEF Summarize
  <2>2. Savers'
    BY <2>1, Idling DEF Savers, Held, Idle
  <2>3. QED
    BY <1>6, <2>2 DEF Summarize, Plain, Numbers, Modes, Stored
<1>7. QED
  BY <1>1, <1>2, <1>3, <1>4, <1>5, <1>6 DEF Save

\* Whatever the main thread is at, a save it begins, at the prompt or before its
\* process ends, finds its own last one over.
LEMMA MainSaves ==
    ASSUME TInv, saver[Main].at = "off",
           NEW next \in {"save", "refresh", "reload", "new", "quit", "exit"}, main' = next,
           NEW copy \in 0 .. turns, StartSave(Main, copy), Want(copy), UNCHANGED lock
    PROVE  Savers' /\ wanted' \in 0 .. turns /\ overlap' \in BOOLEAN
<1>1. copy \in 0 .. MaxTurns
  BY SessionAssumption DEF TInv, Plain, Numbers, Modes
<1>2. Savers'
  BY <1>1, Idling, StartSavers DEF TInv, Savers
<1>3. wanted' \in 0 .. turns /\ overlap' \in BOOLEAN
  BY DEF Want, StartSave, TInv, Plain, Numbers, Modes
<1>4. QED
  BY <1>2, <1>3

LEMMA AutoSaved ==
    ASSUME TInv, AutoSave, turns' \in 1 .. MaxTurns, main' = main, UNCHANGED lock
    PROVE  Savers' /\ overlap' \in BOOLEAN
<1>1. PICK t \in Background : saver[t].at = "off" /\ StartSave(t, turns')
  BY DEF AutoSave
<1>2. t \in Threads /\ t # Main
  BY <1>1, SessionAssumption DEF Threads
<1>3. Savers'
  BY <1>1, <1>2, Idling, StartSavers DEF TInv, Savers
<1>4. overlap' \in BOOLEAN
  BY <1>1 DEF StartSave, TInv, Plain, Numbers, Modes
<1>5. QED
  BY <1>3, <1>4

\* The next process: nothing is under way in it.
LEMMA NewTyped ==
    ASSUME TInv, NewProcess, resumes' \in 0 .. MaxResumes, plan' \in BOOLEAN,
           pend' \in [Approvals -> Nat]
    PROVE  TInv'
<1>1. Savers'
  BY SessionAssumption, Idling DEF NewProcess, Savers, Held, Idle, Threads
<1>2. Numbers'
  BY SessionAssumption DEF NewProcess, TInv, Plain, Numbers, Sessions
<1>3. Modes'
  <2>1. cut' \subseteq Sessions
    BY DEF NewProcess, TInv, Plain, Numbers, Modes
  <2>2. QED
    BY <2>1 DEF NewProcess, Modes
<1>4. Stored'
  BY Idling DEF NewProcess, TInv, Stored
<1>5. QED
  BY <1>1, <1>2, <1>3, <1>4 DEF TInv, Plain, Numbers, Modes

LEMMA TypeStep == TInv /\ [Next]_vars => TInv'
<1> SUFFICES ASSUME TInv, [Next]_vars PROVE TInv'
  OBVIOUS
<1>p. Plain /\ Savers /\ Stored
  BY DEF TInv
<1>1. CASE \E t \in Threads : Save(t)
  BY <1>1, SaveType
<1>2. CASE Turn
  <2>1. Savers' /\ overlap' \in BOOLEAN
    BY <1>2, <1>p, GrowPlain, AutoSaved DEF Turn
  <2>2. Grow /\ Want(turns') /\ UNCHANGED <<session, plan, main, failed, cut, resumes>>
    BY <1>2 DEF Turn
  <2>3. plan' \in BOOLEAN
    BY <1>p, <2>2 DEF Plain, Modes
  <2>4. Plain'
    BY <1>p, <2>1, <2>2, <2>3, GrownPlain
  <2>5. QED
    BY <1>2, <1>p, <2>1, <2>4 DEF Turn, Stored, TInv
<1>3. CASE Clear
  BY <1>3, <1>p DEF Clear, Plain, Numbers, Modes, Savers, Stored, TInv
<1>4. CASE ShowPlan
  BY <1>4, <1>p DEF ShowPlan, Plain, Numbers, Modes, Savers, Stored, TInv
<1>5. CASE ClosePlan
  <2>1. Plain'
    <3>1. CASE Grow
      <4>1. plan' \in BOOLEAN /\ UNCHANGED <<session, main, wanted, overlap, failed, cut, resumes>>
        BY <1>5 DEF ClosePlan
      <4>2. overlap' \in BOOLEAN
        BY <4>1, <1>p DEF Plain, Modes
      <4>3. QED
        BY <1>p, <3>1, <4>1, <4>2, GrownPlain
    <3>2. CASE UNCHANGED talk
      BY <1>5, <1>p, <3>2 DEF ClosePlan, Plain, Numbers, Modes
    <3>3. QED
      BY <1>5, <3>1, <3>2 DEF ClosePlan
  <2>2. QED
    BY <1>5, <1>p, <2>1 DEF ClosePlan, Savers, Stored, TInv
<1>6. CASE \E next \in {"save", "refresh", "reload", "new", "quit"} : SaveFor(next)
  <2>1. PICK next \in {"save", "refresh", "reload", "new", "quit"} : SaveFor(next)
    BY <1>6
  <2>2. saver[Main].at = "off" /\ Live \in 0 .. turns
    BY <2>1, <1>p DEF SaveFor, Prompting, Savers, Live, Plain, Numbers, Modes
  <2>3. Savers' /\ wanted' \in 0 .. turns /\ overlap' \in BOOLEAN
    BY <2>1, <2>2, MainSaves DEF SaveFor
  <2>4. QED
    BY <2>1, <2>3, <1>p DEF SaveFor, Plain, Numbers, Modes, Stored, TInv
<1>7. CASE BackToPrompt
  BY <1>7, <1>p DEF BackToPrompt, Plain, Numbers, Modes, Savers, Stored, TInv
<1>8. CASE AtExit
  <2>1. exitCopy \in 0 .. turns
    BY <1>p DEF Plain, Numbers, Modes
  <2>2. Savers' /\ wanted' \in 0 .. turns /\ overlap' \in BOOLEAN
    BY <1>8, <2>1, MainSaves DEF AtExit
  <2>3. QED
    BY <1>8, <2>2, <1>p DEF AtExit, Plain, Numbers, Modes, Stored, TInv
<1>9. CASE Restart
  <2>1. NewProcess
    BY <1>9 DEF Restart
  <2>2. session \in Sessions
    BY <1>p DEF Plain, Numbers, Modes
  <2>3. resumes' \in 0 .. MaxResumes /\ plan' \in BOOLEAN /\ pend' \in [Approvals -> Nat]
    <3>1. CASE state[session] = NoState
      BY <1>9, <3>1, <1>p DEF Restart, Plain, Numbers, Modes, Stored
    <3>2. CASE state[session] # NoState
      BY <1>9, <2>2, <3>2, <1>p, RestorePlain DEF Restart
    <3>3. QED
      BY <3>1, <3>2
  <2>4. QED
    BY <1>p, <2>1, <2>3, NewTyped
<1>10. CASE Leave \/ Crash
  <2>1. NewProcess /\ plan' = FALSE /\ UNCHANGED <<pend, resumes>>
    BY <1>10 DEF Leave, Crash
  <2>2. resumes' \in 0 .. MaxResumes /\ plan' \in BOOLEAN /\ pend' \in [Approvals -> Nat]
    BY <1>p, <2>1 DEF Plain, Numbers, Stored
  <2>3. QED
    BY <1>p, <2>1, <2>2, NewTyped
<1>11. CASE \E s \in Sessions : Resume(s)
  <2>1. PICK s \in Sessions : Resume(s)
    BY <1>11
  <2>2. Savers' /\ overlap' \in BOOLEAN
    BY <2>1, <1>p, GrowPlain, AutoSaved DEF Resume
  <2>3. Grow /\ Want(turns') /\ UNCHANGED <<session, main, failed, cut>>
    BY <2>1 DEF Resume
  <2>4. resumes' \in 0 .. MaxResumes /\ plan' \in BOOLEAN /\ pend' \in [Approvals -> Nat]
    BY <2>1, <1>p, RestorePlain DEF Resume, Plain, Numbers, Modes
  <2>5. Plain'
    BY <1>p, <2>2, <2>3, <2>4, GrownPlain
  <2>6. QED
    BY <2>1, <1>p, <2>2, <2>4, <2>5 DEF Resume, Stored, TInv
<1>12. CASE \E a \in Approvals : Ask(a) \/ Decide(a)
  <2>1. pend' \in [Approvals -> Nat] /\ decided' \in [Approvals -> Nat]
    BY <1>12, <1>p DEF Ask, Decide, Stored
  <2>2. QED
    BY <1>12, <2>1, <1>p DEF Ask, Decide, Plain, Numbers, Modes, Savers, Stored, TInv
<1>13. CASE UNCHANGED vars
  BY <1>13, <1>p DEF vars, Plain, Numbers, Modes, Savers, Stored, TInv
<1>14. QED
  BY <1>1, <1>2, <1>3, <1>4, <1>5, <1>6, <1>7, <1>8, <1>9, <1>10, <1>11, <1>12, <1>13 DEF Next

LEMMA AlwaysTyped == Spec => []TInv
BY InitTyped, TypeStep, PTL DEF Spec

\* The lock is with the one thread that writes, for any number of them, and every
\* list and snapshot is of turns that there were.
THEOREM TypeCorrect == Spec => []TypeOK
BY AlwaysTyped, TypeParts, PTL

-----------------------------------------------------------------------------
(* The kinds of steps, for what is saved *)

\* A save begins, of a list that holds no turn to come.
Begins ==
    /\ \E t \in Threads : \E copy \in 0 .. turns' :
           saver[t].at = "off" /\ StartSave(t, copy) /\ Want(copy)
    /\ UNCHANGED <<session, lock, snap, files, failed, cut>> /\ turns' >= turns

\* The step has nothing to do with saving.
Elsewhere ==
    UNCHANGED <<session, saving, files, wanted, overlap, failed, cut>> /\ turns' >= turns

LEMMA Kinds ==
    ASSUME TInv, [Next]_vars
    PROVE  (\E t \in Threads : Save(t)) \/ Begins \/ NewProcess \/ Elsewhere
<1>p. Plain /\ Savers /\ turns \in Nat /\ turns' \in Nat
  <2>1. TInv'
    BY TypeStep
  <2>2. QED
    BY <2>1, SessionAssumption DEF TInv, Plain, Numbers
<1>1. CASE \E t \in Threads : Save(t)
  BY <1>1
<1>2. CASE Turn \/ \E s \in Sessions : Resume(s)
  <2>1. Grow /\ AutoSave /\ Want(turns')
        /\ UNCHANGED <<session, lock, snap, files, failed, cut>>
    BY <1>2 DEF Turn, Resume
  <2>2. PICK t \in Background : saver[t].at = "off" /\ StartSave(t, turns')
    BY <2>1 DEF AutoSave
  <2>3. t \in Threads /\ turns' \in 0 .. turns' /\ turns' >= turns
    BY <1>p, <2>1 DEF Threads, Grow
  <2>4. QED
    BY <2>1, <2>2, <2>3 DEF Begins
<1>3. CASE \E next \in {"save", "refresh", "reload", "new", "quit"} : SaveFor(next)
  <2>1. saver[Main].at = "off" /\ Live \in 0 .. turns /\ turns' = turns
    BY <1>3, <1>p DEF SaveFor, Prompting, Savers, Live
  <2>2. StartSave(Main, Live) /\ Want(Live)
        /\ UNCHANGED <<session, lock, snap, files, failed, cut>>
    BY <1>3 DEF SaveFor
  <2>3. QED
    BY <1>p, <2>1, <2>2, Idling DEF Begins
<1>4. CASE AtExit
  <2>1. saver[Main].at = "off" /\ exitCopy \in 0 .. turns /\ turns' = turns
    BY <1>4, <1>p DEF AtExit, Plain, Numbers
  <2>2. StartSave(Main, exitCopy) /\ Want(exitCopy)
        /\ UNCHANGED <<session, lock, snap, files, failed, cut>>
    BY <1>4 DEF AtExit
  <2>3. QED
    BY <1>p, <2>1, <2>2, Idling DEF Begins
<1>5. CASE Restart \/ Leave \/ Crash
  BY <1>5 DEF Restart, Leave, Crash
<1>6. CASE ClosePlan
  BY <1>6, <1>p DEF ClosePlan, Grow, Elsewhere
<1>7. CASE Clear \/ ShowPlan \/ BackToPrompt \/ \E a \in Approvals : Ask(a) \/ Decide(a)
  BY <1>7, <1>p DEF Clear, ShowPlan, BackToPrompt, Ask, Decide, Elsewhere
<1>8. CASE UNCHANGED vars
  BY <1>8, <1>p DEF vars, Elsewhere
<1>9. QED
  BY <1>1, <1>2, <1>3, <1>4, <1>5, <1>6, <1>7, <1>8 DEF Next

\* What a save does to the thread itself and to the others.
LEMMA BeginsSaver ==
    ASSUME TInv, NEW t \in Threads, NEW copy \in 0 .. turns', saver[t].at = "off",
           StartSave(t, copy)
    PROVE  \/ copy = 0 /\ saver' = saver
           \/ /\ copy # 0 /\ saver'[t].at = "ready" /\ saver'[t].copy = copy
              /\ \A u \in Threads \ {t} : saver'[u] = saver[u]
              /\ overlap' = (overlap \/ Active # {})
BY DEF StartSave, TInv, Savers

-----------------------------------------------------------------------------
(* A snapshot is not older than its transcript *)

\* A snapshot on its way to the file was collected after the transcript was written,
\* by the thread that has the lock.
SnapInv ==
    /\ \A t \in Threads : saver[t].copy <= turns
    /\ \A s \in Sessions : chat[s] <= turns /\ (s > session => chat[s] = 0)
    /\ \A t \in Threads : saver[t].at = "state" => snap[t].turn >= chat[session]
    /\ SnapshotNotOlder

\* The session has a thread between its two writes.
Between == \E t \in Threads : saver[t].at \in {"collect", "state"}

LEMMA SnapSave ==
    ASSUME TInv, TInv', SnapInv, NEW t \in Threads, Save(t)
    PROVE  SnapInv'
<1>1. /\ turns \in Nat /\ session \in Sessions /\ cut \subseteq Sessions
      /\ saver \in [Threads -> SaverType] /\ chat \in [Sessions -> Nat]
      /\ snap \in [Threads -> StateType] /\ state \in [Sessions -> StateType]
      /\ \A u \in Threads : saver[u].at \in Held <=> lock = u
  BY SessionAssumption DEF TInv, Plain, Numbers, Modes, Savers, Stored
<1>2. Sessions \subseteq Nat /\ \A st \in StateType : st.turn \in Nat
  BY SessionAssumption DEF Sessions, StateType
<1> USE DEF SnapInv, SnapshotNotOlder
<1>3. CASE Acquire(t)
  BY <1>1, <1>2, <1>3 DEF Acquire, SaverType
<1>4. CASE WriteChat(t)
  <2>1. saver[t].at = "write" /\ lock = t /\ UNCHANGED <<turns, session, snap, state, cut>>
        /\ chat' = [chat EXCEPT ![session] = saver[t].copy]
        /\ saver' = [saver EXCEPT ![t].at = "collect"]
    BY <1>1, <1>4 DEF WriteChat, Held
  <2>2. \A u \in Threads : saver'[u].at # "state" /\ saver'[u].copy = saver[u].copy
    BY <1>1, <2>1 DEF Held, SaverType
  <2>3. saver'[t].at = "collect"
    BY <1>1, <2>1 DEF SaverType
  <2>4. QED
    BY <1>1, <1>2, <2>1, <2>2, <2>3
<1>5. CASE ChatFails(t)
  <2>1. saver[t].at = "write" /\ saver' = [saver EXCEPT ![t] = Idle]
        /\ UNCHANGED <<turns, session, snap, chat, state, cut>>
    BY <1>5 DEF ChatFails
  <2>2. QED
    BY <1>1, <1>2, <2>1 DEF Idle
<1>6. CASE Collect(t)
  <2>1. saver[t].at = "collect" /\ UNCHANGED <<turns, session, chat, state, cut>>
        /\ snap' = [snap EXCEPT ![t] = [turn |-> turns, plan |-> plan, pend |-> pend]]
        /\ saver' = [saver EXCEPT ![t].at = "state"]
    BY <1>6 DEF Collect
  <2>2. /\ snap'[t].turn = turns /\ saver'[t].at = "state"
        /\ \A u \in Threads : saver'[u].copy = saver[u].copy
        /\ \A u \in Threads \ {t} : saver'[u] = saver[u] /\ snap'[u] = snap[u]
    BY <1>1, <2>1 DEF SaverType
  <2>3. QED
    BY <1>1, <1>2, <2>1, <2>2
<1>7. CASE WriteState(t)
  <2>1. saver[t].at = "state" /\ lock = t /\ UNCHANGED <<turns, session, chat>>
        /\ snap' = [snap EXCEPT ![t] = NoState]
        /\ saver' = [saver EXCEPT ![t].at = "summary"]
    BY <1>1, <1>7 DEF WriteState, Held
  <2>2. \A u \in Threads : saver'[u].at # "state" /\ saver'[u].copy = saver[u].copy
    BY <1>1, <2>1 DEF Held, SaverType
  <2>3. \A u \in Threads \ {t} : saver[u].at \notin {"collect", "state"}
    BY <1>1, <2>1 DEF Held
  <2>4. CASE state' = [state EXCEPT ![session] = snap[t]] /\ cut' = cut \ {session}
    <3>1. state'[session].turn >= chat[session]
      BY <1>1, <2>1, <2>4
    <3>2. ASSUME NEW s \in Sessions, s # session PROVE state'[s] = state[s]
      BY <1>1, <2>4, <3>2
    <3>3. QED
      BY <1>1, <1>2, <2>1, <2>2, <2>3, <2>4, <3>1, <3>2
  <2>5. CASE cut' = cut \cup {session} /\ UNCHANGED state
    BY <1>1, <1>2, <2>1, <2>2, <2>5
  <2>6. QED
    BY <1>7, <2>4, <2>5 DEF WriteState
<1>8. CASE Summarize(t)
  <2>1. saver[t].at = "summary" /\ saver' = [saver EXCEPT ![t] = Idle]
        /\ UNCHANGED <<turns, session, snap, chat, state, cut>>
    BY <1>8 DEF Summarize
  <2>2. QED
    BY <1>1, <1>2, <2>1 DEF Idle
<1>9. QED
  BY <1>3, <1>4, <1>5, <1>6, <1>7, <1>8 DEF Save

LEMMA SnapStep == TInv /\ SnapInv /\ [Next]_vars => SnapInv'
<1> SUFFICES ASSUME TInv, SnapInv, [Next]_vars PROVE SnapInv'
  OBVIOUS
<1>1. TInv'
  BY TypeStep
<1>2. /\ turns \in Nat /\ turns' \in Nat /\ session \in Sessions /\ chat \in [Sessions -> Nat]
      /\ \A s \in Sessions : state[s].turn \in Nat
      /\ \A u \in Threads : saver[u].copy \in Nat
  BY <1>1, SessionAssumption
     DEF TInv, Plain, Numbers, Savers, SaverType, Stored, StateType
<1>3. Sessions \subseteq Nat
  BY DEF Sessions
<1>4. CASE \E t \in Threads : Save(t)
  BY <1>1, <1>4, SnapSave
<1>5. CASE Begins
  <2>1. PICK t \in Threads, copy \in 0 .. turns' : saver[t].at = "off" /\ StartSave(t, copy)
    BY <1>5 DEF Begins
  <2>2. \A u \in Threads : \/ saver'[u] = saver[u]
                           \/ u = t /\ saver'[u].at = "ready" /\ saver'[u].copy = copy
    BY <2>1, BeginsSaver
  <2>3. UNCHANGED <<session, snap, chat, state, cut>> /\ turns' >= turns
    BY <1>5 DEF Begins
  <2>4. \A u \in Threads : saver'[u].copy <= turns'
    BY <1>2, <2>1, <2>2, <2>3 DEF SnapInv
  <2>5. QED
    BY <1>2, <1>3, <2>1, <2>2, <2>3, <2>4 DEF SnapInv, SnapshotNotOlder
<1>6. CASE NewProcess
  <2>1. /\ session' = session + 1 /\ UNCHANGED <<turns, chat, state>>
        /\ \A u \in Threads : saver'[u] = Idle
        /\ cut \subseteq cut' /\ (Between => session \in cut')
    BY <1>6 DEF NewProcess, Between
  <2>2. \A u \in Threads : saver'[u].copy = 0 /\ saver'[u].at = "off"
    BY <2>1 DEF Idle
  <2>3. ASSUME NEW s \in Sessions, chat[s] > state[s].turn PROVE s \in cut'
    <3>1. s \in cut \/ (s = session /\ Between)
      BY <2>3 DEF SnapInv, SnapshotNotOlder, Between
    <3>2. QED
      BY <2>1, <3>1
  <2>4. QED
    BY <1>2, <1>3, <2>1, <2>2, <2>3 DEF SnapInv, SnapshotNotOlder
<1>7. CASE Elsewhere
  BY <1>2, <1>3, <1>7 DEF Elsewhere, SnapInv, SnapshotNotOlder
<1>8. QED
  BY <1>4, <1>5, <1>6, <1>7, Kinds

\* No interleaving of savers leaves an old snapshot beside a newer transcript, for
\* any number of threads and sessions.
THEOREM SnapshotsKeepUp == Spec => []SnapshotNotOlder
<1>1. Init => SnapInv
  <2> SUFFICES ASSUME Init PROVE SnapInv
    OBVIOUS
  <2>1. \A t \in Threads : saver[t].copy = 0 /\ saver[t].at = "off"
    BY DEF Init, Idle
  <2>2. turns = 0 /\ \A s \in Sessions : chat[s] = 0 /\ state[s].turn = 0
    BY DEF Init, NoState
  <2>3. QED
    BY <2>1, <2>2 DEF SnapInv, SnapshotNotOlder
<1>2. SnapInv => SnapshotNotOlder
  BY DEF SnapInv
<1>3. QED
  BY <1>1, <1>2, AlwaysTyped, SnapStep, PTL DEF Spec

-----------------------------------------------------------------------------
(* The transcript is the newest *)

\* A session whose saves do not overlap and do not fail.
Smooth == ~overlap /\ ~failed

\* One thread saves at a time then, and what it has still to write is wanted.
SettleInv ==
    /\ \A s \in Sessions : s > session => chat[s] = 0
    /\ Smooth =>
          /\ \A t, u \in Active : t = u
          /\ \A t \in Threads : saver[t].at \in {"ready", "write"} => saver[t].copy = wanted
          /\ \/ chat[session] = wanted
             \/ \E t \in Threads : saver[t].at \in {"ready", "write"}

LEMMA SettleSave ==
    ASSUME TInv, SettleInv, NEW t \in Threads, Save(t)
    PROVE  SettleInv'
<1>1. /\ session \in Sessions /\ saver \in [Threads -> SaverType] /\ chat \in [Sessions -> Nat]
      /\ Sessions \subseteq Nat
  BY SessionAssumption DEF TInv, Plain, Numbers, Savers, Stored, Sessions
<1> USE DEF SettleInv, Smooth, Active
<1>2. CASE Acquire(t)
  BY <1>1, <1>2 DEF Acquire, SaverType
<1>3. CASE WriteChat(t)
  <2>1. saver[t].at = "write" /\ UNCHANGED <<session, wanted, overlap, failed>>
        /\ chat' = [chat EXCEPT ![session] = saver[t].copy]
        /\ saver' = [saver EXCEPT ![t].at = "collect"]
    BY <1>3 DEF WriteChat
  <2>2. saver'[t].at = "collect" /\ \A u \in Threads \ {t} : saver'[u] = saver[u]
    BY <1>1, <2>1 DEF SaverType
  <2>3. chat'[session] = saver[t].copy
    BY <1>1, <2>1
  <2>4. QED
    BY <1>1, <2>1, <2>2, <2>3
<1>4. CASE ChatFails(t)
  BY <1>1, <1>4 DEF ChatFails
<1>5. CASE Collect(t) \/ WriteState(t) \/ Summarize(t)
  <2>1. saver[t].at \in {"collect", "state", "summary"}
        /\ UNCHANGED <<session, wanted, overlap, chat>> /\ (~failed' => ~failed)
        /\ (saver' = [saver EXCEPT ![t] = Idle] \/ saver' = [saver EXCEPT ![t].at = "state"]
            \/ saver' = [saver EXCEPT ![t].at = "summary"])
    BY <1>5 DEF Collect, WriteState, Summarize
  <2>2. saver'[t].at \in {"off", "state", "summary"}
        /\ \A u \in Threads \ {t} : saver'[u] = saver[u]
    BY <1>1, <2>1 DEF SaverType, Idle
  <2>3. QED
    BY <1>1, <2>1, <2>2
<1>6. QED
  BY <1>2, <1>3, <1>4, <1>5 DEF Save

LEMMA SettleStep == TInv /\ SettleInv /\ [Next]_vars => SettleInv'
<1> SUFFICES ASSUME TInv, SettleInv, [Next]_vars PROVE SettleInv'
  OBVIOUS
<1>1. session \in Sessions /\ Sessions \subseteq Nat /\ turns' \in Nat
  <2>1. TInv'
    BY TypeStep
  <2>2. QED
    BY <2>1, SessionAssumption DEF TInv, Plain, Numbers, Sessions
<1>2. CASE \E t \in Threads : Save(t)
  BY <1>2, SettleSave
<1>3. CASE Begins
  <2>1. PICK t \in Threads, copy \in 0 .. turns' :
            saver[t].at = "off" /\ StartSave(t, copy) /\ Want(copy)
    BY <1>3 DEF Begins
  <2>2. UNCHANGED <<session, chat, failed>>
    BY <1>3 DEF Begins
  <2>3. CASE copy = 0
    BY <2>1, <2>2, <2>3 DEF StartSave, Want, SettleInv, Smooth, Active
  <2>4. CASE copy > 0
    <3>1. /\ saver'[t].at = "ready" /\ saver'[t].copy = copy /\ wanted' = copy
          /\ \A u \in Threads \ {t} : saver'[u] = saver[u]
          /\ overlap' = (overlap \/ Active # {})
      BY <1>1, <2>1, <2>4, BeginsSaver DEF Want
    <3>2. Smooth' => Active = {}
      BY <2>2, <3>1 DEF Smooth
    <3>3. Active = {} => \A u \in Threads \ {t} : saver'[u].at = "off"
      BY <3>1 DEF Active
    <3>4. QED
      BY <2>1, <2>2, <3>1, <3>2, <3>3 DEF SettleInv, Active
  <2>5. QED
    BY <1>1, <2>1, <2>3, <2>4
<1>4. CASE NewProcess
  <2>1. session' = session + 1 /\ session' \in Sessions /\ UNCHANGED chat /\ wanted' = 0
        /\ \A u \in Threads : saver'[u] = Idle
    BY <1>1, <1>4, SessionAssumption DEF NewProcess, Sessions
  <2>2. \A u \in Threads : saver'[u].at = "off"
    BY <2>1 DEF Idle
  <2>3. QED
    BY <1>1, <2>1, <2>2 DEF SettleInv, Active
<1>5. CASE Elsewhere
  BY <1>5 DEF Elsewhere, SettleInv, Smooth, Active
<1>6. QED
  BY <1>2, <1>3, <1>4, <1>5, Kinds

\* For any number of threads: without an overlap or a failure the last save asked for
\* is the one on disk.
THEOREM SettledTranscripts == Spec => []SettledIsNewest
<1>1. Init => SettleInv
  <2> SUFFICES ASSUME Init PROVE SettleInv
    OBVIOUS
  <2>1. \A t \in Threads : saver[t].at = "off"
    BY DEF Init, Idle
  <2>2. wanted = 0 /\ \A s \in Sessions : chat[s] = 0
    BY DEF Init
  <2>3. session \in Sessions
    BY SessionAssumption DEF Init, Sessions
  <2>4. QED
    BY <2>1, <2>2, <2>3 DEF SettleInv, Active
<1>2. SettleInv => SettledIsNewest
  BY DEF SettleInv, SettledIsNewest, Smooth, Active
<1>3. QED
  BY <1>1, <1>2, AlwaysTyped, SettleStep, PTL DEF Spec

-----------------------------------------------------------------------------
(* A waiting plan survives a refresh *)

\* The main thread is about to restart with a history to save, and nothing failed.
Restarting == main \in {"refresh", "reload"} /\ ~empty /\ ~failed

\* Its save takes the plan with it, and so does the save of another thread that
\* collects the state after it.
RefreshInv ==
    /\ ~empty => turns > 0
    /\ Restarting =>
          /\ saver[Main].at = "state" => snap[Main].plan = plan /\ snap[Main].turn > 0
          /\ saver[Main].at \in {"summary", "off"} =>
                /\ state[session].plan = plan /\ state[session].turn > 0
                /\ \A t \in Threads :
                       saver[t].at = "state" => snap[t].plan = plan /\ snap[t].turn > 0

LEMMA RefreshSave ==
    ASSUME TInv, RefreshInv, NEW t \in Threads, Save(t)
    PROVE  RefreshInv'
<1>1. /\ session \in Sessions /\ saver \in [Threads -> SaverType]
      /\ snap \in [Threads -> StateType] /\ state \in [Sessions -> StateType]
      /\ \A u \in Threads : saver[u].at \in Held <=> lock = u
  BY DEF TInv, Plain, Numbers, Savers, Stored
<1>2. Main \in Threads
  BY Idling
<1> USE DEF RefreshInv, Restarting
<1>3. CASE Acquire(t)
  BY <1>1, <1>2, <1>3 DEF Acquire, SaverType
<1>4. CASE WriteChat(t)
  BY <1>1, <1>2, <1>4 DEF WriteChat, SaverType
<1>5. CASE ChatFails(t)
  BY <1>5 DEF ChatFails
<1>6. CASE Collect(t)
  <2>1. /\ saver[t].at = "collect" /\ UNCHANGED <<turns, empty, session, plan, main, failed, state>>
        /\ snap' = [snap EXCEPT ![t] = [turn |-> turns, plan |-> plan, pend |-> pend]]
        /\ saver' = [saver EXCEPT ![t].at = "state"]
    BY <1>6 DEF Collect
  <2>2. /\ snap'[t].turn = turns /\ snap'[t].plan = plan /\ saver'[t].at = "state"
        /\ \A u \in Threads \ {t} : saver'[u] = saver[u] /\ snap'[u] = snap[u]
    BY <1>1, <2>1 DEF SaverType
  <2>3. QED
    BY <1>2, <2>1, <2>2
<1>7. CASE WriteState(t)
  <2>1. /\ saver[t].at = "state" /\ UNCHANGED <<turns, empty, session, plan, main>>
        /\ (~failed' => ~failed /\ state' = [state EXCEPT ![session] = snap[t]])
        /\ saver' = [saver EXCEPT ![t].at = "summary"] /\ snap' = [snap EXCEPT ![t] = NoState]
    BY <1>7 DEF WriteState
  <2>2. /\ saver'[t].at = "summary"
        /\ \A u \in Threads \ {t} : saver'[u] = saver[u] /\ snap'[u] = snap[u]
        /\ \A u \in Threads \ {t} : saver[u].at # "state"
    BY <1>1, <2>1 DEF SaverType, Held
  <2>3. ~failed' => state'[session] = snap[t]
    BY <1>1, <2>1
  <2>4. QED
    BY <1>2, <2>1, <2>2, <2>3
<1>8. CASE Summarize(t)
  <2>1. /\ saver[t].at = "summary" /\ saver' = [saver EXCEPT ![t] = Idle]
        /\ UNCHANGED <<turns, empty, session, plan, main, failed, state, snap>>
    BY <1>8 DEF Summarize
  <2>2. saver'[t].at = "off" /\ \A u \in Threads \ {t} : saver'[u] = saver[u]
    BY <1>1, <2>1 DEF Idle
  <2>3. QED
    BY <1>2, <2>1, <2>2
<1>9. QED
  BY <1>3, <1>4, <1>5, <1>6, <1>7, <1>8 DEF Save

LEMMA RefreshStep == TInv /\ RefreshInv /\ [Next]_vars => RefreshInv'
<1> SUFFICES ASSUME TInv, RefreshInv, [Next]_vars PROVE RefreshInv'
  OBVIOUS
<1>1. turns \in Nat /\ saver \in [Threads -> SaverType] /\ Main \in Threads
  BY Idling, SessionAssumption DEF TInv, Plain, Numbers, Savers
<1> USE DEF RefreshInv, Restarting
<1>2. CASE \E t \in Threads : Save(t)
  BY <1>2, RefreshSave
<1>3. CASE Turn \/ \E s \in Sessions : Resume(s)
  BY <1>1, <1>3 DEF Turn, Resume, Prompting, Grow
<1>4. CASE ClosePlan
  BY <1>1, <1>4 DEF ClosePlan, Prompting, Grow
<1>5. CASE Clear \/ ShowPlan \/ BackToPrompt
  BY <1>5 DEF Clear, ShowPlan, BackToPrompt, Prompting
<1>6. CASE \E next \in {"save", "refresh", "reload", "new", "quit"} : SaveFor(next)
  <2>1. UNCHANGED <<empty, turns, failed>> /\ StartSave(Main, Live)
    BY <1>6 DEF SaveFor
  <2>2. ~empty => Live # 0
    BY <1>1 DEF Live
  <2>3. ~empty => saver'[Main].at = "ready"
    BY <1>1, <2>1, <2>2 DEF StartSave
  <2>4. QED
    BY <2>1, <2>3
<1>7. CASE AtExit
  BY <1>7 DEF AtExit
<1>8. CASE Restart \/ Leave \/ Crash
  <2>1. empty' = TRUE
    BY <1>8 DEF Restart, Leave, Crash, NewProcess
  <2>2. QED
    BY <2>1
<1>9. CASE \E a \in Approvals : Ask(a) \/ Decide(a)
  BY <1>9 DEF Ask, Decide
<1>10. CASE UNCHANGED vars
  BY <1>10 DEF vars
<1>11. QED
  BY <1>2, <1>3, <1>4, <1>5, <1>6, <1>7, <1>8, <1>9, <1>10 DEF Next

\* However other threads save meanwhile, a refresh keeps the plan as it is.
THEOREM PlansSurviveRefresh == Spec => RefreshKeepsPlan
<1>1. Init => RefreshInv
  BY DEF Init, RefreshInv, Restarting
<1>2. TInv /\ RefreshInv /\ [Next]_vars => [Restart /\ ~empty /\ ~failed => plan' = plan]_vars
  <2> SUFFICES ASSUME TInv, RefreshInv, Restart, ~empty, ~failed PROVE plan' = plan
    OBVIOUS
  <2>1. main \in {"refresh", "reload"} /\ saver[Main].at = "off"
    BY DEF Restart
  <2>2. state[session].plan = plan /\ state[session].turn > 0
    BY <2>1 DEF RefreshInv, Restarting
  <2>3. state[session] # NoState
    BY <2>2 DEF NoState
  <2>4. plan' = (FALSE \/ state[session].plan)
    BY <2>3 DEF Restart, Restore
  <2>5. plan \in BOOLEAN
    BY DEF TInv, Plain, Modes
  <2>6. QED
    BY <2>2, <2>4, <2>5
<1>3. QED
  BY <1>1, <1>2, AlwaysTyped, RefreshStep, PTL DEF Spec, RefreshKeepsPlan
=============================================================================
