-------------------------- MODULE CleanApplyProofs --------------------------
(***************************************************************************)
(* Proofs about moving files to quarantine, for any number of runners,     *)
(* files and actions.                                                      *)
(***************************************************************************)
EXTENDS CleanApply, FiniteSetTheorems, SequenceTheorems, TLAPS

-----------------------------------------------------------------------------
(* Type correctness *)

Places == {"idle", "apply", "move", "record", "undo"}

RunnersOK ==
    /\ pc \in [Runners -> Places]
    /\ todo \in [Runners -> Seq(Action) \cup Seq(UndoRecord)]
    /\ \A r \in Runners :
          /\ pc[r] = "undo" => todo[r] \in Seq(UndoRecord)
          /\ pc[r] # "undo" => todo[r] \in Seq(Action)
          /\ pc[r] \in {"move", "record"} => todo[r] # <<>> /\ dest[r] \in Slots
          /\ pc[r] = "idle" => todo[r] = <<>>
          /\ pc[r] # "idle" => on[r] \in Runs
    /\ on \in [Runners -> Runs \cup {NoRun}]
    /\ dest \in [Runners -> Slots \cup {NoPath}]
    /\ approved \in [Runners -> BOOLEAN]

FilesOK ==
    /\ fs \in [Paths -> Files \cup {NoFile}]
    /\ journal \in [Runs -> Seq(UndoRecord)] /\ torn \in [Runs -> BOOLEAN]
    /\ origin \in [Files -> Sources \cup {NoPath}]

HistoryOK ==
    /\ lost \subseteq Files /\ removed \subseteq Files
    /\ overlap \in BOOLEAN /\ crossed \in BOOLEAN
    /\ passes \in 0 .. MaxPasses /\ crashes \in 0 .. MaxCrashes

\* No file is at two paths.
Injective ==
    \A p, q \in Paths : fs[p] # NoFile /\ fs[p] = fs[q] => p = q

TInv == RunnersOK /\ FilesOK /\ HistoryOK

LEMMA TypeHolds == TInv => TypeOK
BY DEF TInv, RunnersOK, FilesOK, HistoryOK, TypeOK, Places

LEMMA PathsDisjoint ==
    /\ \A s \in Sources : s \in Paths /\ s \in Files /\ s \notin Slots
    /\ \A p \in Slots : p \in Paths /\ p \notin Sources
    /\ NoPath \notin Paths /\ NoFile \notin Files
BY CleanAssumption, PathAssumption DEF Paths, Files

LEMMA InitType == Init => TInv /\ Injective
<1> SUFFICES ASSUME Init PROVE TInv /\ Injective
  OBVIOUS
<1>1. <<>> \in Seq(Action) /\ <<>> \in Seq(UndoRecord)
  OBVIOUS
<1>2. RunnersOK
  BY <1>1 DEF Init, RunnersOK, Places
<1>3. FilesOK
  BY <1>1, PathsDisjoint DEF Init, FilesOK
<1>4. HistoryOK
  <2>1. 0 \in 0 .. MaxPasses /\ 0 \in 0 .. MaxCrashes
    BY CleanAssumption
  <2>2. QED
    BY <2>1 DEF Init, HistoryOK
<1>5. Injective
  BY PathsDisjoint DEF Init, Injective
<1>6. QED
  BY <1>2, <1>3, <1>4, <1>5 DEF TInv

\* The head of a list that is not empty, and what is left of it.
LEMMA HeadAndTail ==
    ASSUME NEW S, NEW s \in Seq(S), s # <<>>
    PROVE  Head(s) \in S /\ Tail(s) \in Seq(S)
OBVIOUS

LEMMA ReverseType == ASSUME NEW S, NEW s \in Seq(S) PROVE Reverse(s) \in Seq(S)
<1>1. Len(s) \in Nat /\ \A i \in 1 .. Len(s) : Len(s) - i + 1 \in 1 .. Len(s)
  OBVIOUS
<1>2. \A i \in 1 .. Len(s) : s[Len(s) - i + 1] \in S
  BY <1>1
<1>3. Reverse(s) \in [1 .. Len(s) -> S]
  BY <1>2 DEF Reverse
<1>4. QED
  BY <1>1, <1>3

\* A move takes the file from one path to another, and nothing else changes.
LEMMA Moving ==
    ASSUME TInv, Injective, NEW a \in Paths, NEW b \in Paths, a # b, fs[a] # NoFile, MoveFile(a, b)
    PROVE  /\ fs' \in [Paths -> Files \cup {NoFile}] /\ Injective'
           /\ fs'[a] = NoFile /\ fs'[b] = fs[a] /\ fs[a] \in Files
           /\ \A p \in Paths : p # a /\ p # b => fs'[p] = fs[p]
           /\ \A p \in Paths : p # b => fs'[p] # fs[a]
           /\ lost' \subseteq Files
<1>1. fs \in [Paths -> Files \cup {NoFile}] /\ lost \subseteq Files
  BY DEF TInv, FilesOK, HistoryOK
<1>2. /\ fs'[a] = NoFile /\ fs'[b] = fs[a] /\ fs[a] \in Files
      /\ \A p \in Paths : p # a /\ p # b => fs'[p] = fs[p]
      /\ fs' \in [Paths -> Files \cup {NoFile}]
  BY <1>1 DEF MoveFile
<1>3. \A p \in Paths : p # b => fs'[p] # fs[a]
  BY <1>2 DEF Injective
<1>4. Injective'
  <2> SUFFICES ASSUME NEW p \in Paths, NEW q \in Paths, fs'[p] # NoFile, fs'[p] = fs'[q]
               PROVE  p = q
    BY DEF Injective
  <2>1. CASE p = b \/ q = b
    BY <1>2, <1>3, <2>1
  <2>2. CASE p # b /\ q # b
    BY <1>2, <2>2 DEF Injective
  <2>3. QED
    BY <2>1, <2>2
<1>5. lost' \subseteq Files
  BY <1>1 DEF MoveFile
<1>6. QED
  BY <1>2, <1>3, <1>4, <1>5

\* A runner goes on to another place with another list.
LEMMA RunnerGoes ==
    ASSUME TInv, NEW r \in Runners, NEW place \in Places, NEW list,
           pc' = [pc EXCEPT ![r] = place], todo' = [todo EXCEPT ![r] = list], dest' = dest,
           approved' \in [Runners -> BOOLEAN], NEW u \in Runs \cup {NoRun},
           on' = [on EXCEPT ![r] = u], place # "idle" => u \in Runs,
           list \in IF place = "undo" THEN Seq(UndoRecord) ELSE Seq(Action),
           place = "idle" => list = <<>>, place \notin {"move", "record"}
    PROVE  RunnersOK'
<1>1. /\ pc' \in [Runners -> Places] /\ pc'[r] = place
      /\ todo' \in [Runners -> Seq(Action) \cup Seq(UndoRecord)] /\ todo'[r] = list
      /\ on' \in [Runners -> Runs \cup {NoRun}] /\ on'[r] = u
      /\ \A q \in Runners \ {r} : pc'[q] = pc[q] /\ todo'[q] = todo[q] /\ on'[q] = on[q]
  BY DEF TInv, RunnersOK
<1>2. QED
  BY <1>1 DEF TInv, RunnersOK

LEMMA AdvanceOK ==
    ASSUME TInv, NEW r \in Runners, NEW place \in {"apply", "undo"}, Advance(r, place),
           todo[r] # <<>>, dest' = dest, pc[r] = "undo" <=> place = "undo"
    PROVE  RunnersOK'
<1>1. Tail(todo[r]) \in IF place = "undo" THEN Seq(UndoRecord) ELSE Seq(Action)
  BY HeadAndTail DEF TInv, RunnersOK
<1>2. place \in Places /\ place \notin {"idle", "move", "record"}
  BY DEF Places
<1>3. approved' \in [Runners -> BOOLEAN]
  BY DEF Advance, TInv, RunnersOK
<1>4. on[r] \in Runs /\ on' = [on EXCEPT ![r] = on[r]]
  <2>1. pc[r] # "idle"
    BY DEF TInv, RunnersOK
  <2>2. QED
    BY <2>1 DEF Advance, TInv, RunnersOK
<1>5. QED
  BY <1>1, <1>2, <1>3, <1>4, RunnerGoes DEF Advance

LEMMA StopOK ==
    ASSUME TInv, NEW r \in Runners, Stop(r), dest' = dest
    PROVE  RunnersOK'
<1>1. "idle" \in Places /\ <<>> \in Seq(Action)
  BY DEF Places
<1>2. approved' \in [Runners -> BOOLEAN]
  BY DEF Stop, TInv, RunnersOK
<1>3. QED
  BY <1>1, <1>2, RunnerGoes DEF Stop

LEMMA BeginOK ==
    ASSUME TInv, NEW r \in Runners, NEW u \in Runs, NEW place \in {"apply", "undo"}, NEW list,
           NEW approve \in BOOLEAN, Begin(r, u, place, list, approve),
           list \in IF place = "undo" THEN Seq(UndoRecord) ELSE Seq(Action)
    PROVE  TInv'
<1>1. place \in Places /\ place \notin {"idle", "move", "record"}
  BY DEF Places
<1>2. approved' \in [Runners -> BOOLEAN]
  BY DEF Begin, TInv, RunnersOK
<1>3. RunnersOK'
  BY <1>1, <1>2, RunnerGoes DEF Begin
<1>4. passes' \in 0 .. MaxPasses /\ overlap' \in BOOLEAN
  BY CleanAssumption DEF Begin, TInv, HistoryOK
<1>5. HistoryOK'
  BY <1>4 DEF Begin, TInv, HistoryOK
<1>6. FilesOK'
  BY DEF Begin, TInv, FilesOK
<1>7. QED
  BY <1>3, <1>5, <1>6 DEF TInv

LEMMA TypeStep == TInv /\ Injective /\ [Next]_vars => TInv' /\ Injective'
<1> SUFFICES ASSUME TInv, Injective, [Next]_vars PROVE TInv' /\ Injective'
  OBVIOUS
<1> USE DEF history
\* A step that moves no file.
<1>s. ASSUME UNCHANGED <<fs, journal, torn, history>>, RunnersOK'
      PROVE  TInv' /\ Injective'
  BY <1>s DEF TInv, FilesOK, HistoryOK, Injective
<1>1. ASSUME NEW r \in Runners, NEW u \in Runs, StartApply(r, u) PROVE TInv' /\ Injective'
  <2>1. PICK approve \in BOOLEAN : Begin(r, u, "apply", Actions[u], approve)
    BY <1>1 DEF StartApply
  <2>2. TInv'
    BY <2>1, BeginOK, CleanAssumption
  <2>3. QED
    BY <2>1, <2>2 DEF Begin, Injective
<1>2. ASSUME NEW r \in Runners, Skip(r) PROVE TInv' /\ Injective'
  <2>1. RunnersOK'
    BY <1>2, AdvanceOK DEF Skip
  <2>2. QED
    BY <1>s, <1>2, <2>1 DEF Skip
<1>3. ASSUME NEW r \in Runners, Choose(r) PROVE TInv' /\ Injective'
  <2>1. PICK n \in 1 .. MaxSlot + 1 : dest' = [dest EXCEPT ![r] = <<Head(todo[r]).base, n>>]
    BY <1>3 DEF Choose
  <2>2. Head(todo[r]) \in Action
    BY <1>3, HeadAndTail DEF Choose, TInv, RunnersOK
  <2>3. <<Head(todo[r]).base, n>> \in Slots
    BY <2>2 DEF Action, Slots
  <2>4. dest' \in [Runners -> Slots \cup {NoPath}] /\ dest'[r] \in Slots
        /\ \A q \in Runners \ {r} : dest'[q] = dest[q]
    BY <2>1, <2>3 DEF TInv, RunnersOK
  <2>5. /\ pc[r] = "apply" /\ todo[r] # <<>> /\ pc' = [pc EXCEPT ![r] = "move"]
        /\ UNCHANGED <<on, todo, approved>> /\ "move" \in Places
    BY <1>3 DEF Choose, Places
  <2>6. /\ pc' \in [Runners -> Places] /\ pc'[r] = "move"
        /\ \A q \in Runners \ {r} : pc'[q] = pc[q]
    BY <2>5 DEF TInv, RunnersOK
  <2>7. RunnersOK'
    BY <2>4, <2>5, <2>6 DEF TInv, RunnersOK
  <2>8. QED
    BY <1>s, <1>3, <2>7 DEF Choose
<1>4. ASSUME NEW r \in Runners, Move(r) PROVE TInv' /\ Injective'
  <2> DEFINE source == Head(todo[r]).source
  <2>1. /\ pc[r] = "move" /\ todo[r] # <<>> /\ dest[r] \in Slots /\ todo[r] \in Seq(Action)
        /\ fs[source] # NoFile
    BY <1>4 DEF Move, TInv, RunnersOK
  <2>2. source \in Sources
    <3>1. Head(todo[r]) \in Action
      BY <2>1, HeadAndTail
    <3>2. QED
      BY <3>1 DEF Action
  <2>3. source \in Paths /\ dest[r] \in Paths /\ source # dest[r]
    BY <2>1, <2>2, PathsDisjoint
  <2>4. MoveFile(source, dest[r])
    BY <1>4 DEF Move
  <2>5. origin' = [origin EXCEPT ![fs[source]] = source]
    BY <1>4 DEF Move
  <2> HIDE DEF source
  <2>6. /\ fs' \in [Paths -> Files \cup {NoFile}] /\ Injective' /\ lost' \subseteq Files
        /\ fs[source] \in Files
    BY <2>1, <2>3, <2>4, Moving
  <2>7. FilesOK'
    BY <1>4, <2>2, <2>5, <2>6 DEF Move, TInv, FilesOK
  <2>8. HistoryOK'
    BY <1>4, <2>6 DEF Move, Crosses, TInv, HistoryOK
  <2>9. RunnersOK'
    <3>1. /\ pc' = [pc EXCEPT ![r] = "record"] /\ UNCHANGED <<on, todo, dest, approved>>
          /\ "record" \in Places
      BY <1>4 DEF Move, Places
    <3>2. /\ pc' \in [Runners -> Places] /\ pc'[r] = "record"
          /\ \A q \in Runners \ {r} : pc'[q] = pc[q]
      BY <3>1 DEF TInv, RunnersOK
    <3>3. QED
      BY <2>1, <3>1, <3>2 DEF TInv, RunnersOK
  <2>10. QED
    BY <2>6, <2>7, <2>8, <2>9 DEF TInv
<1>5. ASSUME NEW r \in Runners, MoveFails(r) PROVE TInv' /\ Injective'
  <2>1. RunnersOK'
    BY <1>5, AdvanceOK DEF MoveFails, TInv, RunnersOK
  <2>2. QED
    BY <1>s, <1>5, <2>1 DEF MoveFails
<1>6. ASSUME NEW r \in Runners, Record(r) PROVE TInv' /\ Injective'
  <2>1. /\ pc[r] = "record" /\ todo[r] # <<>> /\ dest[r] \in Slots /\ todo[r] \in Seq(Action)
    BY <1>6 DEF Record, TInv, RunnersOK
  <2>2. RunnersOK'
    BY <1>6, <2>1, AdvanceOK DEF Record
  <2>3. NewRecord(r) \in UndoRecord
    <3>1. Head(todo[r]) \in Action
      BY <2>1, HeadAndTail
    <3>2. Head(todo[r]).source \in Sources
      BY <3>1 DEF Action
    <3>3. QED
      BY <2>1, <3>2 DEF NewRecord, UndoRecord
  <2>4. journal' \in [Runs -> Seq(UndoRecord)]
    <3>1. on[r] \in Runs
      BY <2>1 DEF TInv, RunnersOK
    <3>2. Append(journal[on[r]], NewRecord(r)) \in Seq(UndoRecord)
      BY <2>3, <3>1 DEF TInv, FilesOK
    <3>3. QED
      BY <1>6, <3>2 DEF Record, TInv, FilesOK
  <2>5. FilesOK'
    BY <1>6, <2>4 DEF Record, TInv, FilesOK
  <2>6. HistoryOK' /\ Injective'
    BY <1>6 DEF Record, TInv, HistoryOK, Injective
  <2>7. QED
    BY <2>2, <2>5, <2>6 DEF TInv
<1>7. ASSUME NEW r \in Runners, NEW u \in Runs, StartUndo(r, u) PROVE TInv' /\ Injective'
  <2>1. Reverse(journal[u]) \in Seq(UndoRecord)
    BY ReverseType DEF TInv, FilesOK
  <2>2. TInv'
    BY <1>7, <2>1, BeginOK DEF StartUndo
  <2>3. QED
    BY <1>7, <2>2 DEF StartUndo, Begin, Injective
<1>8. ASSUME NEW r \in Runners, UndoMove(r) PROVE TInv' /\ Injective'
  <2> DEFINE from == Head(todo[r]).from
             to == Head(todo[r]).to
  <2>1. /\ pc[r] = "undo" /\ todo[r] # <<>> /\ todo[r] \in Seq(UndoRecord) /\ fs[from] # NoFile
    BY <1>8 DEF UndoMove, TInv, RunnersOK
  <2>2. from \in Slots /\ to \in Sources
    <3>1. Head(todo[r]) \in UndoRecord
      BY <2>1, HeadAndTail
    <3>2. QED
      BY <3>1 DEF UndoRecord
  <2>3. from \in Paths /\ to \in Paths /\ from # to
    BY <2>2, PathsDisjoint
  <2>4. MoveFile(from, to)
    BY <1>8 DEF UndoMove
  <2> HIDE DEF from, to
  <2>5. fs' \in [Paths -> Files \cup {NoFile}] /\ Injective' /\ lost' \subseteq Files
    BY <2>1, <2>3, <2>4, Moving
  <2>6. FilesOK' /\ HistoryOK'
    BY <1>8, <2>5 DEF UndoMove, TInv, FilesOK, HistoryOK
  <2>7. RunnersOK'
    BY <1>8, <2>1, AdvanceOK DEF UndoMove
  <2>8. QED
    BY <2>5, <2>6, <2>7 DEF TInv
<1>9. ASSUME NEW r \in Runners, UndoRaises(r) \/ End(r) PROVE TInv' /\ Injective'
  <2>1. RunnersOK'
    BY <1>9, StopOK DEF UndoRaises, End
  <2>2. QED
    BY <1>s, <1>9, <2>1 DEF UndoRaises, End
<1>10. ASSUME NEW r \in Runners, Crash(r) PROVE TInv' /\ Injective'
  <2>1. RunnersOK'
    BY <1>10, StopOK DEF Crash
  <2>2. crashes' \in 0 .. MaxCrashes
    BY <1>10, CleanAssumption DEF Crash, TInv, HistoryOK
  <2>3. HistoryOK'
    BY <1>10, <2>2 DEF Crash, TInv, HistoryOK
  <2>4. torn' \in [Runs -> BOOLEAN]
    BY <1>10 DEF Crash, TInv, FilesOK
  <2>5. FilesOK' /\ Injective'
    BY <1>10, <2>4 DEF Crash, TInv, FilesOK, Injective
  <2>6. QED
    BY <2>1, <2>3, <2>5 DEF TInv
<1>11. ASSUME NEW p \in Paths, UserCreates(p) PROVE TInv' /\ Injective'
  <2>1. PICK f \in Fresh : f \notin Present(fs) /\ fs' = [fs EXCEPT ![p] = f]
    BY <1>11 DEF UserCreates
  <2>2. f \in Files
    BY DEF Files
  <2>3. FilesOK'
    BY <1>11, <2>1, <2>2 DEF UserCreates, TInv, FilesOK
  <2>4. \A q \in Paths : fs[q] # f
    BY <2>1, <2>2, PathsDisjoint DEF Present
  <2>5. Injective'
    BY <2>1, <2>2, <2>4 DEF TInv, FilesOK, Injective
  <2>6. RunnersOK' /\ HistoryOK'
    BY <1>11 DEF UserCreates, TInv, RunnersOK, HistoryOK
  <2>7. QED
    BY <2>3, <2>5, <2>6 DEF TInv
<1>12. ASSUME NEW p \in Paths, UserRemoves(p) PROVE TInv' /\ Injective'
  <2>1. fs[p] \in Files /\ fs' = [fs EXCEPT ![p] = NoFile] /\ removed' = removed \cup {fs[p]}
    BY <1>12 DEF UserRemoves, TInv, FilesOK
  <2>2. FilesOK' /\ HistoryOK'
    BY <1>12, <2>1 DEF UserRemoves, TInv, FilesOK, HistoryOK
  <2>3. Injective'
    BY <2>1 DEF TInv, FilesOK, Injective
  <2>4. RunnersOK'
    BY <1>12 DEF UserRemoves, TInv, RunnersOK
  <2>5. QED
    BY <2>2, <2>3, <2>4 DEF TInv
<1>13. CASE UNCHANGED vars
  BY <1>13 DEF vars, TInv, RunnersOK, FilesOK, HistoryOK, Injective
<1>14. QED
  BY <1>1, <1>2, <1>3, <1>4, <1>5, <1>6, <1>7, <1>8, <1>9, <1>10, <1>11, <1>12, <1>13 DEF Next

LEMMA TypeInvariant == Spec => [](TInv /\ Injective)
BY InitType, TypeStep, PTL DEF Spec

\* Every reachable state is well typed: a runner that has chosen a name, or moved a file,
\* still has the action at the head of its list.
THEOREM TypeCorrect == Spec => []TypeOK
BY TypeInvariant, TypeHolds, PTL

\* No file is ever in two places, however many runners apply and undo at once.
THEOREM NoCopies == Spec => []Injective
BY TypeInvariant, PTL

\* A file that was ever moved is somewhere, or was replaced or removed: a new file of the
\* user was never moved.
Met ==
    \A f \in Files : origin[f] # NoPath =>
        f \in lost \cup removed \/ \E p \in Paths : fs[p] = f

LEMMA MetMove ==
    ASSUME TInv, Injective, Met, NEW a \in Paths, NEW b \in Paths, a # b, fs[a] # NoFile,
           MoveFile(a, b), removed' = removed,
           \A f \in Files : f # fs[a] => origin'[f] = origin[f]
    PROVE  Met'
<1>1. /\ fs'[b] = fs[a] /\ \A p \in Paths : p # a /\ p # b => fs'[p] = fs[p]
  BY Moving
<1>2. lost' = lost \cup ({fs[b]} \ {NoFile})
  BY DEF MoveFile
<1> SUFFICES ASSUME NEW f \in Files, origin'[f] # NoPath
             PROVE  f \in lost' \cup removed' \/ \E p \in Paths : fs'[p] = f
  BY DEF Met
<1>3. CASE f = fs[a]
  BY <1>1, <1>3
<1>4. CASE f # fs[a]
  <2>1. f \in lost \cup removed \/ \E p \in Paths : fs[p] = f
    BY <1>4 DEF Met
  <2>2. ASSUME NEW p \in Paths, fs[p] = f
        PROVE  f \in lost' \/ fs'[p] = f
    <3>1. p # a /\ f # NoFile
      BY <1>4, <2>2, PathsDisjoint
    <3>2. QED
      BY <1>1, <1>2, <2>2, <3>1
  <2>3. QED
    BY <1>2, <2>1, <2>2
<1>5. QED
  BY <1>3, <1>4

LEMMA MetStep == TInv /\ Injective /\ Met /\ [Next]_vars => Met'
<1> SUFFICES ASSUME TInv, Injective, Met, [Next]_vars PROVE Met'
  OBVIOUS
<1> USE DEF history
<1>s. ASSUME UNCHANGED <<fs, origin, lost, removed>> PROVE Met'
  BY <1>s DEF Met
<1>1. ASSUME NEW r \in Runners, NEW u \in Runs, StartApply(r, u) \/ StartUndo(r, u) PROVE Met'
  BY <1>1, <1>s DEF StartApply, StartUndo, Begin
<1>2. ASSUME NEW r \in Runners,
             \/ Skip(r) \/ Choose(r) \/ MoveFails(r) \/ Record(r)
             \/ UndoRaises(r) \/ End(r) \/ Crash(r)
      PROVE  Met'
  BY <1>2, <1>s DEF Skip, Choose, MoveFails, Record, UndoRaises, End, Crash
<1>3. ASSUME NEW r \in Runners, Move(r) PROVE Met'
  <2>1. /\ pc[r] = "move" /\ todo[r] # <<>> /\ dest[r] \in Slots /\ todo[r] \in Seq(Action)
        /\ fs[Head(todo[r]).source] # NoFile /\ MoveFile(Head(todo[r]).source, dest[r])
        /\ origin' = [origin EXCEPT ![fs[Head(todo[r]).source]] = Head(todo[r]).source]
        /\ removed' = removed
    BY <1>3 DEF Move, TInv, RunnersOK
  <2>2. PICK source : source = Head(todo[r]).source
    OBVIOUS
  <2>3. source \in Sources
    <3>1. Head(todo[r]) \in Action
      BY <2>1, HeadAndTail
    <3>2. QED
      BY <2>2, <3>1 DEF Action
  <2>4. source \in Paths /\ dest[r] \in Paths /\ source # dest[r]
    BY <2>1, <2>3, PathsDisjoint
  <2>5. \A f \in Files : f # fs[source] => origin'[f] = origin[f]
    BY <2>1, <2>2 DEF TInv, FilesOK
  <2>6. QED
    BY <2>1, <2>2, <2>4, <2>5, MetMove
<1>4. ASSUME NEW r \in Runners, UndoMove(r) PROVE Met'
  <2>1. /\ pc[r] = "undo" /\ todo[r] # <<>> /\ todo[r] \in Seq(UndoRecord)
        /\ fs[Head(todo[r]).from] # NoFile /\ MoveFile(Head(todo[r]).from, Head(todo[r]).to)
        /\ origin' = origin /\ removed' = removed
    BY <1>4 DEF UndoMove, TInv, RunnersOK
  <2>2. PICK from, to : from = Head(todo[r]).from /\ to = Head(todo[r]).to
    OBVIOUS
  <2>3. from \in Slots /\ to \in Sources
    <3>1. Head(todo[r]) \in UndoRecord
      BY <2>1, HeadAndTail
    <3>2. QED
      BY <2>2, <3>1 DEF UndoRecord
  <2>4. from \in Paths /\ to \in Paths /\ from # to
    BY <2>3, PathsDisjoint
  <2>5. QED
    BY <2>1, <2>2, <2>4, MetMove
<1>5. ASSUME NEW p \in Paths, UserCreates(p) PROVE Met'
  <2>1. PICK f : fs' = [fs EXCEPT ![p] = f]
    BY <1>5 DEF UserCreates
  <2>2. fs[p] = NoFile /\ UNCHANGED <<origin, lost, removed>>
    BY <1>5 DEF UserCreates
  <2>3. \A q \in Paths : fs[q] # NoFile => fs'[q] = fs[q]
    BY <2>1, <2>2 DEF TInv, FilesOK
  <2>4. QED
    BY <2>2, <2>3, PathsDisjoint DEF Met
<1>6. ASSUME NEW p \in Paths, UserRemoves(p) PROVE Met'
  <2>1. /\ fs' = [fs EXCEPT ![p] = NoFile] /\ removed' = removed \cup {fs[p]}
        /\ UNCHANGED <<origin, lost>>
    BY <1>6 DEF UserRemoves
  <2>2. \A q \in Paths : q # p => fs'[q] = fs[q]
    BY <2>1 DEF TInv, FilesOK
  <2>3. QED
    BY <2>1, <2>2 DEF Met
<1>7. CASE UNCHANGED vars
  BY <1>7, <1>s DEF vars
<1>8. QED
  BY <1>1, <1>2, <1>3, <1>4, <1>5, <1>6, <1>7 DEF Next

LEMMA MetInvariant == Spec => []Met
<1>1. Init => Met
  BY DEF Init, Met
<1>2. QED
  BY <1>1, TypeInvariant, MetStep, PTL DEF Spec

-----------------------------------------------------------------------------
(* The way home *)

\* The runners that hold a file they have moved and are about to record, and these files.
Carriers ==
    {r \in InHand : fs[dest[r]] # NoFile /\ origin[fs[dest[r]]] = Head(todo[r]).source}
HandFiles == {fs[dest[r]] : r \in Carriers}

\* The stranded files that nobody is about to record.
Forgotten == Stranded \ HandFiles

\* The runs whose next record will be lost.
TornRuns == {u \in Runs : torn[u]}

TrailInv ==
    /\ IsFiniteSet(Forgotten)
    /\ Cardinality(Forgotten) + Cardinality(TornRuns) <= 2 * crashes

LEMMA AtMost ==
    ASSUME NEW S, NEW T, IsFiniteSet(S), T \subseteq S
    PROVE  IsFiniteSet(T) /\ Cardinality(T) \in Nat /\ Cardinality(S) \in Nat
           /\ Cardinality(T) <= Cardinality(S)
BY FS_Subset, FS_CardinalityType

LEMMA AtMostOneMore ==
    ASSUME NEW S, NEW T, NEW x, IsFiniteSet(S), T \subseteq S \cup {x}
    PROVE  IsFiniteSet(T) /\ Cardinality(T) \in Nat /\ Cardinality(S) \in Nat
           /\ Cardinality(T) <= Cardinality(S) + 1
<1>1. /\ IsFiniteSet(S \cup {x}) /\ Cardinality(S) \in Nat
      /\ Cardinality(S \cup {x}) <= Cardinality(S) + 1
  <2>1. Cardinality(S) \in Nat
    BY FS_CardinalityType
  <2>2. /\ IsFiniteSet(S \cup {x})
        /\ Cardinality(S \cup {x}) = IF x \in S THEN Cardinality(S) ELSE Cardinality(S) + 1
    BY FS_AddElement
  <2>3. QED
    BY <2>1, <2>2
<1>2. IsFiniteSet(T) /\ Cardinality(T) \in Nat /\ Cardinality(S \cup {x}) \in Nat
      /\ Cardinality(T) <= Cardinality(S \cup {x})
  BY <1>1, AtMost
<1>3. QED
  BY <1>1, <1>2

LEMMA InitTrail == Init => TrailInv
<1> SUFFICES ASSUME Init PROVE TrailInv
  OBVIOUS
<1>1. Forgotten = {}
  BY PathsDisjoint DEF Init, Forgotten, Stranded
<1>2. TornRuns = {} /\ crashes = 0
  BY DEF Init, TornRuns
<1>3. QED
  BY <1>1, <1>2, FS_EmptySet DEF TrailInv

LEMMA TornRunsFinite == IsFiniteSet(TornRuns) /\ Cardinality(TornRuns) \in Nat
<1>1. TornRuns \subseteq Runs
  BY DEF TornRuns
<1>2. QED
  BY <1>1, CleanAssumption, AtMost

\* What is stranded is forgotten or in somebody's hand.
LEMMA TrailImplies == TInv /\ TrailInv => TrailKept
<1> SUFFICES ASSUME TInv, TrailInv PROVE TrailKept
  OBVIOUS
<1>1. IsFiniteSet(InHand) /\ IsFiniteSet(Carriers)
      /\ Cardinality(Carriers) \in Nat /\ Cardinality(InHand) \in Nat
      /\ Cardinality(Carriers) <= Cardinality(InHand)
  <2>1. InHand \subseteq Runners /\ Carriers \subseteq InHand
    BY DEF InHand, Carriers
  <2>2. IsFiniteSet(InHand)
    BY <2>1, CleanAssumption, AtMost
  <2>3. QED
    BY <2>1, <2>2, AtMost
<1>2. IsFiniteSet(HandFiles) /\ Cardinality(HandFiles) <= Cardinality(Carriers)
  <2> DEFINE f == [r \in Carriers |-> fs[dest[r]]]
  <2>1. f \in Surjection(Carriers, HandFiles)
    BY DEF HandFiles, Surjection
  <2> HIDE DEF f
  <2>2. QED
    BY <1>1, <2>1, FS_Surjection
<1>3. Cardinality(HandFiles) \in Nat /\ Cardinality(Forgotten) \in Nat
      /\ Cardinality(Forgotten \cap HandFiles) \in Nat
  <2>1. Forgotten \cap HandFiles \subseteq HandFiles
    OBVIOUS
  <2>2. QED
    BY <1>2, <2>1, FS_CardinalityType, AtMost DEF TrailInv
<1>4. IsFiniteSet(Forgotten \cup HandFiles) /\ Cardinality(Forgotten \cup HandFiles)
         = Cardinality(Forgotten) + Cardinality(HandFiles) - Cardinality(Forgotten \cap HandFiles)
  BY <1>2, FS_Union DEF TrailInv
<1>5. Stranded \subseteq Forgotten \cup HandFiles
  BY DEF Forgotten
<1>6. Cardinality(Stranded) \in Nat
      /\ Cardinality(Stranded) <= Cardinality(Forgotten \cup HandFiles)
  BY <1>4, <1>5, AtMost
<1>7. Cardinality(Forgotten) <= 2 * crashes /\ crashes \in Nat
  <2>1. crashes \in Nat
    BY CleanAssumption DEF TInv, HistoryOK
  <2>2. QED
    BY <1>3, <2>1, TornRunsFinite DEF TrailInv
<1>8. QED
  BY <1>1, <1>2, <1>3, <1>4, <1>6, <1>7 DEF TrailKept

\* A step that forgets no file.
LEMMA Kept ==
    ASSUME TInv, TrailInv, Forgotten' \subseteq Forgotten, TornRuns' \subseteq TornRuns,
           crashes' = crashes
    PROVE  TrailInv'
<1>1. IsFiniteSet(Forgotten') /\ Cardinality(Forgotten') \in Nat /\ Cardinality(Forgotten) \in Nat
      /\ Cardinality(Forgotten') <= Cardinality(Forgotten)
  BY AtMost DEF TrailInv
<1>2. Cardinality(TornRuns') \in Nat /\ Cardinality(TornRuns) \in Nat
      /\ Cardinality(TornRuns') <= Cardinality(TornRuns)
  BY AtMost, TornRunsFinite
<1>3. crashes \in Nat /\ Cardinality(Forgotten) + Cardinality(TornRuns) <= 2 * crashes
  BY CleanAssumption DEF TInv, HistoryOK, TrailInv
<1>4. Cardinality(Forgotten') + Cardinality(TornRuns') <= 2 * crashes'
  BY <1>1, <1>2, <1>3
<1>5. QED
  BY <1>1, <1>4 DEF TrailInv

\* A crash: at most the file in the runner's hand is forgotten, and one line torn.
LEMMA CrashPays ==
    ASSUME TInv, TrailInv, NEW x, Forgotten' \subseteq Forgotten \cup {x},
           NEW u, TornRuns' \subseteq TornRuns \cup {u}, crashes' = crashes + 1
    PROVE  TrailInv'
<1>1. IsFiniteSet(Forgotten') /\ Cardinality(Forgotten') \in Nat /\ Cardinality(Forgotten) \in Nat
      /\ Cardinality(Forgotten') <= Cardinality(Forgotten) + 1
  BY AtMostOneMore DEF TrailInv
<1>2. Cardinality(TornRuns') \in Nat /\ Cardinality(TornRuns) \in Nat
      /\ Cardinality(TornRuns') <= Cardinality(TornRuns) + 1
  BY AtMostOneMore, TornRunsFinite
<1>3. crashes \in Nat /\ Cardinality(Forgotten) + Cardinality(TornRuns) <= 2 * crashes
  BY CleanAssumption DEF TInv, HistoryOK, TrailInv
<1>4. Cardinality(Forgotten') + Cardinality(TornRuns') <= 2 * crashes'
  BY <1>1, <1>2, <1>3
<1>5. QED
  BY <1>1, <1>4 DEF TrailInv

\* The record that completes a partial line is lost, and the line torn no more.
LEMMA LostRecordPays ==
    ASSUME TInv, TrailInv, NEW x, Forgotten' \subseteq Forgotten \cup {x},
           NEW u \in TornRuns, TornRuns' = TornRuns \ {u}, crashes' = crashes
    PROVE  TrailInv'
<1>1. IsFiniteSet(Forgotten') /\ Cardinality(Forgotten') \in Nat /\ Cardinality(Forgotten) \in Nat
      /\ Cardinality(Forgotten') <= Cardinality(Forgotten) + 1
  BY AtMostOneMore DEF TrailInv
<1>2. Cardinality(TornRuns) \in Nat /\ Cardinality(TornRuns') = Cardinality(TornRuns) - 1
  BY TornRunsFinite, FS_RemoveElement
<1>3. crashes \in Nat /\ Cardinality(Forgotten) + Cardinality(TornRuns) <= 2 * crashes
  BY CleanAssumption DEF TInv, HistoryOK, TrailInv
<1>4. Cardinality(Forgotten') + Cardinality(TornRuns') <= 2 * crashes'
  BY <1>1, <1>2, <1>3
<1>5. QED
  BY <1>1, <1>4 DEF TrailInv

LEMMA TrailStep == TInv /\ Injective /\ Met /\ TrailInv /\ [Next]_vars => TrailInv'
<1> SUFFICES ASSUME TInv, Injective, Met, TrailInv, [Next]_vars PROVE TrailInv'
  OBVIOUS
<1> USE DEF history
<1>t. TInv' /\ Injective'
  BY TypeStep
\* A step in which the runners in hand stay as they are, and no file moves.
<1>s. ASSUME UNCHANGED <<fs, journal, origin, crashes, torn>>,
             \A r \in Runners : pc[r] = "record" \/ pc'[r] = "record" =>
                  pc'[r] = pc[r] /\ dest'[r] = dest[r] /\ todo'[r] = todo[r]
      PROVE  TrailInv'
  <2>1. Stranded' = Stranded
    BY <1>s DEF Stranded
  <2>2. Carriers' = Carriers
    BY <1>s DEF Carriers, InHand
  <2>3. HandFiles' = HandFiles
    BY <1>s, <2>2 DEF HandFiles, Carriers, InHand
  <2>4. QED
    BY <1>s, <2>1, <2>3, Kept DEF Forgotten, TornRuns
\* A runner that is not recording.
<1>r. ASSUME UNCHANGED <<fs, journal, origin, crashes, torn, dest>>, NEW r \in Runners,
             pc[r] # "record", NEW place, NEW list, place # "record",
             pc' = [pc EXCEPT ![r] = place], todo' = [todo EXCEPT ![r] = list]
      PROVE  TrailInv'
  BY <1>r, <1>s DEF TInv, RunnersOK
<1>1. ASSUME NEW r \in Runners, NEW u \in Runs, StartApply(r, u) \/ StartUndo(r, u)
      PROVE  TrailInv'
  BY <1>1, <1>r DEF StartApply, StartUndo, Begin
<1>2. ASSUME NEW r \in Runners, Skip(r) \/ MoveFails(r) PROVE TrailInv'
  BY <1>2, <1>r DEF Skip, MoveFails, Advance
<1>3. ASSUME NEW r \in Runners, Choose(r) PROVE TrailInv'
  BY <1>3, <1>s DEF Choose, TInv, RunnersOK
\* A file moves: every other file that lies in quarantine lies where it lay.
<1>m. ASSUME NEW a \in Paths, NEW b \in Paths, a # b, fs[a] # NoFile, MoveFile(a, b),
             UNCHANGED <<journal, crashes, torn, dest>>,
             \A f \in Files : f # fs[a] => origin'[f] = origin[f],
             \A r \in InHand : r \in InHand' /\ todo'[r] = todo[r],
             fs[a] \notin Forgotten'
      PROVE  TrailInv'
  <2>1. /\ \A p \in Paths : p # a /\ p # b => fs'[p] = fs[p]
        /\ fs'[a] = NoFile /\ fs'[b] = fs[a] /\ fs[a] \in Files
    BY <1>m, Moving
  <2>2. ASSUME NEW f \in Forgotten' PROVE f \in Forgotten
    <3>1. f # fs[a] /\ f \in Files /\ f # NoFile
      BY <1>m, <2>2, PathsDisjoint DEF Forgotten, Stranded
    <3>2. PICK p \in Slots :
             /\ fs'[p] = f /\ origin'[f] # NoPath
             /\ ~\E u \in Runs : \E k \in DOMAIN journal'[u] :
                    journal'[u][k] = [from |-> p, to |-> origin'[f]]
      BY <2>2 DEF Forgotten, Stranded
    <3>3. p \in Paths /\ p # a /\ p # b
      BY <2>1, <3>1, <3>2, PathsDisjoint
    <3>4. fs[p] = f /\ origin'[f] = origin[f]
      BY <1>m, <2>1, <3>1, <3>2, <3>3
    <3>5. f \in Stranded
      BY <1>m, <3>1, <3>2, <3>4 DEF Stranded
    <3>6. f \notin HandFiles
      <4>1. SUFFICES ASSUME NEW r \in Carriers, fs[dest[r]] = f PROVE FALSE
        BY DEF HandFiles
      <4>2. r \in InHand /\ r \in Runners /\ dest[r] \in Paths
        BY PathsDisjoint DEF Carriers, InHand, TInv, RunnersOK
      <4>3. dest[r] = p
        BY <3>1, <3>3, <3>4, <4>1, <4>2 DEF Injective
      <4>4. fs'[dest'[r]] = f /\ todo'[r] = todo[r]
        BY <1>m, <3>2, <4>2, <4>3
      <4>5. r \in Carriers'
        BY <1>m, <3>1, <3>4, <4>1, <4>2, <4>4 DEF Carriers
      <4>6. f \in HandFiles'
        BY <4>4, <4>5 DEF HandFiles
      <4>7. QED
        BY <2>2, <4>6 DEF Forgotten
    <3>7. QED
      BY <3>5, <3>6 DEF Forgotten
  <2>3. QED
    BY <1>m, <2>2, Kept DEF TornRuns
<1>4. ASSUME NEW r \in Runners, Move(r) PROVE TrailInv'
  <2> DEFINE source == Head(todo[r]).source
  <2>1. /\ pc[r] = "move" /\ todo[r] # <<>> /\ dest[r] \in Slots /\ todo[r] \in Seq(Action)
        /\ fs[source] # NoFile /\ MoveFile(source, dest[r])
        /\ origin' = [origin EXCEPT ![fs[source]] = source]
        /\ pc' = [pc EXCEPT ![r] = "record"]
        /\ UNCHANGED <<journal, torn, todo, dest, crashes>>
    BY <1>4 DEF Move, TInv, RunnersOK
  <2>2. source \in Sources
    <3>1. Head(todo[r]) \in Action
      BY <2>1, HeadAndTail
    <3>2. QED
      BY <3>1 DEF Action
  <2>3. todo'[r] = todo[r] /\ Head(todo'[r]).source = source
    BY <2>1
  <2> HIDE DEF source
  <2>4. source \in Paths /\ dest[r] \in Paths /\ source # dest[r]
    BY <2>1, <2>2, PathsDisjoint
  <2>5. fs[source] \in Files /\ fs'[dest[r]] = fs[source]
    BY <2>1, <2>4, Moving
  <2>6. \A f \in Files : f # fs[source] => origin'[f] = origin[f]
    BY <2>1 DEF TInv, FilesOK
  <2>7. pc'[r] = "record" /\ \A q \in InHand : q \in InHand'
    BY <2>1 DEF InHand, TInv, RunnersOK
  <2>8. fs[source] \in HandFiles'
    <3>1. origin'[fs[source]] = source
      BY <2>1, <2>5 DEF TInv, FilesOK
    <3>2. r \in Carriers'
      BY <2>1, <2>3, <2>5, <2>7, <3>1 DEF Carriers, InHand
    <3>3. QED
      BY <2>1, <2>5, <3>2 DEF HandFiles
  <2>9. fs[source] \notin Forgotten'
    BY <2>8 DEF Forgotten
  <2>10. QED
    BY <1>m, <2>1, <2>4, <2>6, <2>7, <2>9
\* A runner's hand is empty again: all that can be forgotten is the file in it.
<1>h. ASSUME NEW r \in Runners, UNCHANGED <<fs, origin, dest>>,
             \A u \in Runs : \A k \in DOMAIN journal[u] :
                \E l \in DOMAIN journal'[u] : journal'[u][l] = journal[u][k],
             \A q \in Runners : q # r => pc'[q] = pc[q] /\ todo'[q] = todo[q]
      PROVE  Forgotten' \subseteq Forgotten \cup {fs[dest[r]]}
  <2>1. ASSUME NEW f \in Stranded' PROVE f \in Stranded
    <3>1. PICK p \in Slots :
             /\ fs[p] = f /\ f \in Files /\ origin[f] # NoPath
             /\ ~\E u \in Runs : \E k \in DOMAIN journal'[u] :
                    journal'[u][k] = [from |-> p, to |-> origin[f]]
      BY <1>h, <2>1 DEF Stranded
    <3>2. ASSUME NEW u \in Runs, NEW k \in DOMAIN journal[u]
          PROVE  journal[u][k] # [from |-> p, to |-> origin[f]]
      <4>1. PICK l \in DOMAIN journal'[u] : journal'[u][l] = journal[u][k]
        BY <1>h
      <4>2. QED
        BY <3>1, <4>1
    <3>3. QED
      BY <3>1, <3>2 DEF Stranded
  <2>2. \A q \in Carriers : q # r => q \in Carriers'
    BY <1>h DEF Carriers, InHand
  <2>3. \A f \in HandFiles : f # fs[dest[r]] => f \in HandFiles'
    BY <1>h, <2>2 DEF HandFiles
  <2>4. QED
    BY <2>1, <2>3 DEF Forgotten
<1>5. ASSUME NEW r \in Runners, Record(r) PROVE TrailInv'
  <2>1. PICK u \in Runs : u = on[r]
    BY <1>5 DEF Record, TInv, RunnersOK
  <2>2. /\ pc[r] = "record" /\ dest[r] \in Slots /\ torn' = [torn EXCEPT ![u] = FALSE]
        /\ journal' = IF torn[u] THEN journal
                      ELSE [journal EXCEPT ![u] = Append(@, NewRecord(r))]
        /\ UNCHANGED <<fs, dest, origin, crashes>>
        /\ \A q \in Runners : q # r => pc'[q] = pc[q] /\ todo'[q] = todo[q]
    BY <1>5, <2>1 DEF Record, Advance, TInv, RunnersOK
  <2>3. /\ journal \in [Runs -> Seq(UndoRecord)] /\ torn \in [Runs -> BOOLEAN]
        /\ NewRecord(r) \in UndoRecord
    <3>1. todo[r] # <<>> /\ todo[r] \in Seq(Action)
      BY <2>2 DEF TInv, RunnersOK
    <3>2. Head(todo[r]) \in Action
      BY <3>1, HeadAndTail
    <3>3. Head(todo[r]).source \in Sources
      BY <3>2 DEF Action
    <3>4. QED
      BY <2>2, <3>3 DEF TInv, FilesOK, NewRecord, UndoRecord
  <2>4. TornRuns' = TornRuns \ {u}
    BY <2>2, <2>3 DEF TornRuns
  <2>5. CASE torn[u]
    <3>1. Forgotten' \subseteq Forgotten \cup {fs[dest[r]]}
      BY <1>h, <2>2, <2>5
    <3>2. u \in TornRuns
      BY <2>5 DEF TornRuns
    <3>3. QED
      BY <2>2, <2>4, <3>1, <3>2, LostRecordPays
  <2>6. CASE ~torn[u]
    <3>1. /\ journal'[u] = Append(journal[u], NewRecord(r))
          /\ \A v \in Runs : v # u => journal'[v] = journal[v]
      BY <2>2, <2>3, <2>6
    <3>2. /\ \A k \in DOMAIN journal[u] :
                k \in DOMAIN journal'[u] /\ journal'[u][k] = journal[u][k]
          /\ Len(journal[u]) + 1 \in DOMAIN journal'[u]
          /\ journal'[u][Len(journal[u]) + 1] = NewRecord(r)
      <4>1. journal[u] \in Seq(UndoRecord)
        BY <2>3
      <4>2. QED
        BY <2>3, <3>1, <4>1, AppendProperties
    <3>3. \A v \in Runs : \A k \in DOMAIN journal[v] :
             k \in DOMAIN journal'[v] /\ journal'[v][k] = journal[v][k]
      BY <3>1, <3>2
    <3>4. Forgotten' \subseteq Forgotten \cup {fs[dest[r]]}
      BY <1>h, <2>2, <3>3
    <3>5. ASSUME fs[dest[r]] \in Forgotten' PROVE fs[dest[r]] \in Forgotten
      <4>1. PICK f : f = fs[dest[r]] /\ f \in Forgotten'
        BY <3>5
      <4>2. f \in Stranded' /\ f \notin HandFiles' /\ f \in Files /\ f # NoFile
        BY <4>1, PathsDisjoint DEF Forgotten, Stranded
      <4>3. UNCHANGED <<fs, origin, dest>>
        BY <2>2
      <4>4. PICK p \in Slots :
               /\ fs[p] = f /\ origin[f] # NoPath
               /\ ~\E v \in Runs : \E k \in DOMAIN journal'[v] :
                      journal'[v][k] = [from |-> p, to |-> origin[f]]
        BY <4>2, <4>3 DEF Stranded
      <4>5. f \in Stranded
        <5>1. ASSUME NEW v \in Runs, NEW k \in DOMAIN journal[v]
              PROVE  journal[v][k] # [from |-> p, to |-> origin[f]]
          <6>1. k \in DOMAIN journal'[v] /\ journal'[v][k] = journal[v][k]
            BY <3>3
          <6>2. QED
            BY <4>4, <6>1
        <5>2. QED
          BY <4>2, <4>4, <5>1 DEF Stranded
      <4>6. p = dest[r]
        BY <2>2, <4>1, <4>2, <4>4, PathsDisjoint DEF Injective
      <4>7. origin[f] # Head(todo[r]).source
        BY <3>2, <4>4, <4>6 DEF NewRecord
      <4>8. f \notin HandFiles
        <5>1. SUFFICES ASSUME NEW q \in Carriers, fs[dest[q]] = f PROVE FALSE
          BY DEF HandFiles
        <5>2. q # r /\ q \in Runners /\ pc[q] = "record"
          BY <4>7, <5>1 DEF Carriers, InHand
        <5>3. q \in Carriers'
          BY <2>2, <5>1, <5>2 DEF Carriers, InHand
        <5>4. f \in HandFiles'
          BY <4>3, <5>1, <5>3 DEF HandFiles
        <5>5. QED
          BY <4>2, <5>4
      <4>9. QED
        BY <4>1, <4>5, <4>8 DEF Forgotten
    <3>6. QED
      BY <2>2, <2>4, <3>4, <3>5, Kept
  <2>7. QED
    BY <2>3, <2>5, <2>6
<1>6. ASSUME NEW r \in Runners, UndoMove(r) PROVE TrailInv'
  <2> DEFINE from == Head(todo[r]).from
             to == Head(todo[r]).to
  <2>1. /\ pc[r] = "undo" /\ todo[r] # <<>> /\ todo[r] \in Seq(UndoRecord) /\ fs[from] # NoFile
        /\ MoveFile(from, to) /\ Advance(r, "undo")
        /\ UNCHANGED <<journal, torn, dest, origin, crashes>>
    BY <1>6 DEF UndoMove, TInv, RunnersOK
  <2>2. from \in Slots /\ to \in Sources
    <3>1. Head(todo[r]) \in UndoRecord
      BY <2>1, HeadAndTail
    <3>2. QED
      BY <3>1 DEF UndoRecord
  <2> HIDE DEF from, to
  <2>3. from \in Paths /\ to \in Paths /\ from # to /\ to \notin Slots
    BY <2>2, PathsDisjoint
  <2>4. /\ \A p \in Paths : p # to => fs'[p] # fs[from]
        /\ \A p \in Paths : p # from /\ p # to => fs'[p] = fs[p]
        /\ fs'[from] = NoFile
    BY <2>1, <2>3, Moving
  <2>5. fs[from] \notin Forgotten'
    BY <2>3, <2>4, PathsDisjoint DEF Forgotten, Stranded
  <2>6. \A q \in Runners : pc[q] = "record" => pc'[q] = "record" /\ todo'[q] = todo[q]
    BY <2>1 DEF Advance, TInv, RunnersOK
  <2>7. \A q \in InHand : q \in InHand' /\ todo'[q] = todo[q]
    BY <2>6 DEF InHand
  <2>8. QED
    BY <1>m, <2>1, <2>3, <2>5, <2>7
<1>7. ASSUME NEW r \in Runners, UndoRaises(r) \/ End(r) PROVE TrailInv'
  BY <1>7, <1>r DEF UndoRaises, End, Stop
<1>8. ASSUME NEW r \in Runners, Crash(r) PROVE TrailInv'
  <2>1. /\ crashes' = crashes + 1 /\ UNCHANGED <<fs, origin, dest, journal>>
        /\ \A q \in Runners : q # r => pc'[q] = pc[q] /\ todo'[q] = todo[q]
    BY <1>8 DEF Crash, Stop, TInv, RunnersOK
  <2>2. Forgotten' \subseteq Forgotten \cup {fs[dest[r]]}
    BY <1>h, <2>1
  <2>3. TornRuns' \subseteq TornRuns \cup {on[r]}
    BY <1>8 DEF Crash, TornRuns, TInv, FilesOK
  <2>4. QED
    BY <2>1, <2>2, <2>3, CrashPays
\* Where the user creates a file there was none, and where one is removed there is none.
<1>u. ASSUME NEW p \in Paths, NEW f, fs' = [fs EXCEPT ![p] = f], fs[p] = NoFile \/ f = NoFile,
             f = NoFile \/ (f \in Files /\ origin[f] = NoPath),
             UNCHANGED <<journal, torn, pc, todo, dest, origin, crashes>>
      PROVE  TrailInv'
  <2>1. ASSUME NEW g \in Forgotten' PROVE g \in Forgotten
    <3>1. PICK q \in Slots :
             /\ fs'[q] = g /\ g \in Files /\ origin[g] # NoPath
             /\ ~\E u \in Runs : \E k \in DOMAIN journal[u] :
                    journal[u][k] = [from |-> q, to |-> origin[g]]
      BY <1>u, <2>1 DEF Forgotten, Stranded
    <3>2. q \in Paths /\ q # p /\ fs[q] = g /\ g # NoFile
      BY <1>u, <3>1, PathsDisjoint DEF TInv, FilesOK
    <3>3. g \in Stranded
      BY <3>1, <3>2 DEF Stranded
    <3>4. g \notin HandFiles
      <4>1. SUFFICES ASSUME NEW r \in Carriers, fs[dest[r]] = g PROVE FALSE
        BY DEF HandFiles
      <4>2. dest[r] = q
        BY <3>2, <4>1, PathsDisjoint DEF Carriers, InHand, TInv, RunnersOK, Injective
      <4>3. r \in Carriers'
        BY <1>u, <3>1, <3>2, <4>1, <4>2 DEF Carriers, InHand
      <4>4. QED
        BY <1>u, <2>1, <3>1, <4>2, <4>3 DEF HandFiles, Forgotten
    <3>5. QED
      BY <3>3, <3>4 DEF Forgotten
  <2>2. TornRuns' = TornRuns
    BY <1>u DEF TornRuns
  <2>3. QED
    BY <1>u, <2>1, <2>2, Kept
<1>9. ASSUME NEW p \in Paths, UserCreates(p) PROVE TrailInv'
  <2>1. PICK f \in Fresh : f \notin Present(fs) \cup lost \cup removed
                           /\ fs' = [fs EXCEPT ![p] = f]
    BY <1>9 DEF UserCreates
  <2>2. f \in Files /\ f # NoFile
    BY PathsDisjoint DEF Files
  <2>3. origin[f] = NoPath
    BY <2>1, <2>2 DEF Met, Present
  <2>4. /\ fs[p] = NoFile
        /\ UNCHANGED <<journal, torn, pc, todo, dest, origin, crashes>>
    BY <1>9 DEF UserCreates
  <2>5. QED
    BY <1>u, <2>1, <2>2, <2>3, <2>4
<1>10. ASSUME NEW p \in Paths, UserRemoves(p) PROVE TrailInv'
  BY <1>10, <1>u DEF UserRemoves
<1>11. CASE UNCHANGED vars
  BY <1>11, <1>s DEF vars
<1>12. QED
  BY <1>1, <1>2, <1>3, <1>4, <1>5, <1>6, <1>7, <1>8, <1>9, <1>10, <1>11 DEF Next

\* However many runners apply and undo at once, a crash costs at most two files their way
\* home: all others in quarantine have a record, or a runner about to write it.
THEOREM KeepsTrail == Spec => []TrailKept
<1>1. Spec => []TrailInv
  BY TypeInvariant, MetInvariant, InitTrail, TrailStep, PTL DEF Spec
<1>2. QED
  BY <1>1, TypeInvariant, TrailImplies, PTL

-----------------------------------------------------------------------------
(* Nothing is replaced: the inductive invariant *)

\* A free name of each base, unless there is nothing to move.
RoomLeft ==
    \A base \in Bases :
        \/ \E n \in 1 .. MaxSlot + 1 : fs[<<base, n>>] = NoFile
        \/ \A s \in Sources : fs[s] = NoFile

\* Runners have taken turns and kept to their own paths, and none has died.
Calm == Orderly /\ crashes = 0

\* The records of all runs, numbered, with the one that a runner is about to write.
Note == [run : Runs, at : Nat, from : Slots, to : Sources]
IsRecord(n) ==
    /\ n.at \in DOMAIN journal[n.run]
    /\ n.from = journal[n.run][n.at].from /\ n.to = journal[n.run][n.at].to
IsInHand(n, r) ==
    /\ n.run = on[r] /\ n.at = Len(journal[n.run]) + 1
    /\ n.from = dest[r] /\ n.to = Head(todo[r]).source
Noted == {n \in Note : IsRecord(n) \/ \E r \in InHand : IsInHand(n, r)}

\* One runner works at a time, and at the name it has chosen is at most a new file.
Alone ==
    /\ \A r, q \in Runners : pc[r] # "idle" /\ pc[q] # "idle" => r = q
    /\ \A r \in Runners : pc[r] = "move" => fs[dest[r]] \in Fresh \cup {NoFile}

\* The records of two runs have no path in common.
KeptApart == \A m, n \in Noted : m.from = n.from \/ m.to = n.to => m.run = n.run

\* The newest record of a name leads the file that has it home; a file that the user
\* put in quarantine is in nobody's records.
WayHome ==
    \A p \in Slots : fs[p] # NoFile =>
        \/ fs[p] \in Fresh /\ \A m \in Noted : m.from # p
        \/ \E n \in Noted :
              /\ n.from = p /\ n.to = origin[fs[p]]
              /\ \A m \in Noted : m.from = p => m.at <= n.at

\* An undo pass has a first part of the run's journal before it, and has emptied the
\* names of all newer records.
UndoneSoFar ==
    \A r \in Runners : pc[r] = "undo" =>
        /\ Len(todo[r]) <= Len(journal[on[r]])
        /\ \A i \in 1 .. Len(todo[r]) : todo[r][i] = journal[on[r]][Len(todo[r]) + 1 - i]
        /\ \A p \in Slots : fs[p] # NoFile =>
              \A m \in Noted : m.from = p /\ m.run = on[r] => m.at <= Len(todo[r])

\* At home stands the file that was there first, or a new one; in quarantine the
\* former keeps its origin.
AtHome == \A s \in Sources : fs[s] \in {s, NoFile} \cup Fresh
KeepsOrigin == \A p \in Slots : fs[p] \in Sources => origin[fs[p]] = fs[p]

\* While the first file of a path is at home, nothing in quarantine came from there;
\* once it is in quarantine, whatever else came from there went later in the same run.
NoneBefore == \A s \in Sources, p \in Slots : fs[s] = s /\ fs[p] # NoFile => origin[fs[p]] # s
Later(q, n) == \E m \in Noted : m.from = q /\ m.run = n.run /\ n.at < m.at
FirstAway ==
    \A p, q \in Slots :
        p # q /\ fs[p] \in Sources /\ fs[q] # NoFile /\ origin[fs[q]] = fs[p] =>
            \A n \in Noted : n.from = p => Later(q, n)

\* What was there first is still somewhere.
NoneGone == removed \subseteq Fresh => \A s \in Sources : \E p \in Paths : fs[p] = s

FilesInv ==
    KeptApart /\ WayHome /\ AtHome /\ KeepsOrigin /\ NoneBefore /\ FirstAway /\ NoneGone
NoneTorn == \A u \in Runs : ~torn[u]
CalmInv == NoneTorn /\ Alone /\ UndoneSoFar /\ FilesInv /\ lost \subseteq Fresh
CInv == Calm => CalmInv

LEMMA InitCalm == Init => CInv
<1> SUFFICES ASSUME Init PROVE CalmInv
  BY DEF CInv
<1>1. Alone /\ UndoneSoFar /\ NoneTorn /\ lost \subseteq Fresh
  BY DEF Init, Alone, UndoneSoFar, NoneTorn
<1>2. \A p \in Slots : fs[p] = NoFile
  BY PathsDisjoint DEF Init
<1>3. \A s \in Sources : fs[s] = s
  BY PathsDisjoint DEF Init
<1>4. Noted = {}
  <2>1. InHand = {}
    BY DEF Init, InHand
  <2>2. \A u \in Runs : DOMAIN journal[u] = {}
    BY DEF Init
  <2>3. QED
    BY <2>1, <2>2 DEF Noted, Note, IsRecord
<1>5. KeptApart /\ WayHome /\ AtHome /\ KeepsOrigin /\ NoneBefore /\ FirstAway
  BY <1>2, <1>3, <1>4, CleanAssumption
     DEF KeptApart, WayHome, AtHome, KeepsOrigin, NoneBefore, FirstAway
<1>6. NoneGone
  BY <1>3, PathsDisjoint DEF NoneGone
<1>7. QED
  BY <1>1, <1>5, <1>6 DEF CalmInv, FilesInv

LEMMA JournalType ==
    ASSUME TInv, NEW u \in Runs
    PROVE  /\ journal[u] \in Seq(UndoRecord) /\ Len(journal[u]) \in Nat
           /\ DOMAIN journal[u] = 1 .. Len(journal[u])
           /\ \A k \in 1 .. Len(journal[u]) :
                 /\ journal[u][k] \in UndoRecord
                 /\ journal[u][k].from \in Slots /\ journal[u][k].to \in Sources
<1>1. /\ journal[u] \in Seq(UndoRecord) /\ Len(journal[u]) \in Nat
      /\ DOMAIN journal[u] = 1 .. Len(journal[u])
      /\ \A k \in 1 .. Len(journal[u]) : journal[u][k] \in UndoRecord
  BY DEF TInv, FilesOK
<1>2. QED
  BY <1>1 DEF UndoRecord

\* The numbers of the records.
LEMMA NotedType ==
    ASSUME TInv
    PROVE  /\ \A n \in Noted : /\ n.run \in Runs /\ n.from \in Slots /\ n.to \in Sources
                               /\ n.at \in 1 .. Len(journal[n.run]) + 1
           /\ \A n \in Noted : n.at <= Len(journal[n.run]) => IsRecord(n)
           /\ \A u \in Runs : \A k \in 1 .. Len(journal[u]) :
                 [run |-> u, at |-> k, from |-> journal[u][k].from, to |-> journal[u][k].to]
                    \in Noted
<1>1. ASSUME NEW n \in Noted
      PROVE  /\ n.run \in Runs /\ n.from \in Slots /\ n.to \in Sources
             /\ n.at \in 1 .. Len(journal[n.run]) + 1
             /\ n.at <= Len(journal[n.run]) => IsRecord(n)
  <2>1. n.run \in Runs /\ n.from \in Slots /\ n.to \in Sources /\ n.at \in Nat
    BY DEF Noted, Note
  <2>2. /\ Len(journal[n.run]) \in Nat
        /\ DOMAIN journal[n.run] = 1 .. Len(journal[n.run])
    BY <2>1, JournalType
  <2>3. CASE IsRecord(n)
    BY <2>1, <2>2, <2>3 DEF IsRecord
  <2>4. CASE \E r \in InHand : IsInHand(n, r)
    BY <2>1, <2>2, <2>4 DEF IsInHand
  <2>5. QED
    BY <2>3, <2>4 DEF Noted
<1>2. ASSUME NEW u \in Runs, NEW k \in 1 .. Len(journal[u])
      PROVE  [run |-> u, at |-> k, from |-> journal[u][k].from, to |-> journal[u][k].to]
                \in Noted
  <2>1. /\ Len(journal[u]) \in Nat /\ k \in DOMAIN journal[u] /\ k \in Nat
        /\ journal[u][k].from \in Slots /\ journal[u][k].to \in Sources
    BY JournalType
  <2>2. QED
    BY <2>1 DEF Noted, Note, IsRecord
<1>3. QED
  BY <1>1, <1>2

\* Nobody is recording: the notes are the journals' records.
LEMMA NotedStays ==
    ASSUME journal' = journal,
           \A q \in Runners : pc[q] = "record" \/ pc'[q] = "record" =>
                /\ pc'[q] = pc[q] /\ on'[q] = on[q]
                /\ dest'[q] = dest[q] /\ todo'[q] = todo[q]
    PROVE  Noted' = Noted
<1>1. InHand' = InHand
  BY DEF InHand
<1>2. \A n \in Note : IsRecord(n)' <=> IsRecord(n)
  BY DEF IsRecord
<1>3. \A n \in Note, r \in InHand : IsInHand(n, r)' <=> IsInHand(n, r)
  BY DEF IsInHand, InHand
<1>4. QED
  BY <1>1, <1>2, <1>3 DEF Noted, Note

\* A name in the records is claimed.
LEMMA NotedIsClaimed == ASSUME TInv, NEW n \in Noted PROVE n.from \in Claimed
<1>1. n.run \in Runs /\ n.from \in Slots
  BY NotedType
<1>2. CASE IsRecord(n)
  BY <1>1, <1>2 DEF IsRecord, Claimed
<1>3. CASE \E r \in InHand : IsInHand(n, r)
  BY <1>1, <1>3 DEF IsInHand, Claimed
<1>4. QED
  BY <1>2, <1>3 DEF Noted

\* No file moves.
LEMMA FilesStay ==
    ASSUME FilesInv, UNCHANGED <<fs, origin, removed>>, Noted' = Noted
    PROVE  FilesInv'
BY DEF FilesInv, KeptApart, WayHome, AtHome, KeepsOrigin, NoneBefore, FirstAway, Later, NoneGone

\* Files leave quarantine at most.
LEMMA FilesLeave ==
    ASSUME TInv, FilesInv, Noted' = Noted, origin' = origin,
           \A p \in Slots : fs'[p] \in {fs[p], NoFile}
    PROVE  KeptApart' /\ WayHome' /\ KeepsOrigin' /\ FirstAway'
<1>1. KeptApart' /\ WayHome'
  BY DEF FilesInv, KeptApart, WayHome
<1>2. KeepsOrigin'
  BY CleanAssumption DEF FilesInv, KeepsOrigin
<1>3. FirstAway'
  <2> SUFFICES ASSUME NEW p \in Slots, NEW q \in Slots, p # q, fs'[p] \in Sources,
                      fs'[q] # NoFile, origin'[fs'[q]] = fs'[p], NEW n \in Noted, n.from = p
               PROVE  Later(q, n)
    BY DEF FirstAway, Later
  <2>1. fs'[p] = fs[p] /\ fs'[q] = fs[q]
    BY CleanAssumption
  <2>2. QED
    BY <2>1 DEF FilesInv, FirstAway
<1>4. QED
  BY <1>1, <1>2, <1>3

\* A step of the one runner at work that moves no file and writes no record.
LEMMA QuietStep ==
    ASSUME TInv, CalmInv, UNCHANGED <<fs, origin, lost, removed, journal, torn>>,
           NEW r \in Runners, \A q \in Runners : q # r => pc[q] = "idle" /\ dest'[q] = dest[q],
           NEW place \in {"idle", "apply", "move"}, pc' = [pc EXCEPT ![r] = place],
           pc[r] # "record", place = "move" => fs[dest'[r]] = NoFile
    PROVE  CalmInv'
<1>1. pc'[r] = place /\ \A q \in Runners : q # r => pc'[q] = "idle"
  BY DEF TInv, RunnersOK
<1>2. Noted' = Noted
  BY <1>1, NotedStays
<1>3. FilesInv'
  BY <1>2, FilesStay DEF CalmInv
<1>4. Alone'
  BY <1>1 DEF Alone
<1>5. UndoneSoFar'
  BY <1>1 DEF UndoneSoFar
<1>6. QED
  BY <1>3, <1>4, <1>5 DEF CalmInv, NoneTorn

\* A name chosen while there is room is free.
LEMMA ChosenIsFree ==
    ASSUME TInv, RoomLeft, NEW a \in Action, fs[a.source] # NoFile,
           NEW n \in 1 .. MaxSlot + 1, UniqueDestination(a.base, n)
    PROVE  fs[<<a.base, n>>] = NoFile
<1>1. a.base \in Bases /\ a.source \in Sources
  BY DEF Action
<1>2. PICK m \in 1 .. MaxSlot + 1 : fs[<<a.base, m>>] = NoFile
  BY <1>1 DEF RoomLeft
<1>3. CASE n <= MaxSlot
  BY <1>3 DEF UniqueDestination
<1>4. CASE n = MaxSlot + 1
  <2>1. m = n
    BY <1>2, <1>4, CleanAssumption DEF UniqueDestination
  <2>2. QED
    BY <1>2, <2>1
<1>5. QED
  BY <1>3, <1>4, CleanAssumption

\* The one runner moves a file into quarantine.
LEMMA MoveStep ==
    ASSUME TInv, Injective, CalmInv, NEW r \in Runners, Move(r), ~Crosses(r),
           \A q \in Runners : q # r => pc[q] = "idle"
    PROVE  CalmInv'
<1>1. /\ pc[r] = "move" /\ todo[r] # <<>> /\ dest[r] \in Slots /\ todo[r] \in Seq(Action)
      /\ fs[Head(todo[r]).source] # NoFile /\ MoveFile(Head(todo[r]).source, dest[r])
      /\ origin' = [origin EXCEPT ![fs[Head(todo[r]).source]] = Head(todo[r]).source]
      /\ pc' = [pc EXCEPT ![r] = "record"]
      /\ UNCHANGED <<journal, torn, on, todo, dest, removed>>
  BY DEF Move, TInv, RunnersOK
<1>2. PICK source, d, u, f :
         source = Head(todo[r]).source /\ d = dest[r] /\ u = on[r] /\ f = fs[Head(todo[r]).source]
  OBVIOUS
<1>3. source \in Sources /\ source \in Paths /\ d \in Slots /\ d \in Paths /\ source # d
  <2>1. Head(todo[r]) \in Action
    BY <1>1, HeadAndTail
  <2>2. source \in Sources
    BY <1>2, <2>1 DEF Action
  <2>3. QED
    BY <1>1, <1>2, <2>2, PathsDisjoint
<1>4. u \in Runs /\ Len(journal[u]) \in Nat /\ DOMAIN journal[u] = 1 .. Len(journal[u])
  <2>1. u \in Runs
    BY <1>1, <1>2 DEF TInv, RunnersOK
  <2>2. QED
    BY <2>1, JournalType
<1>5. PICK new \in Note : new = [run |-> u, at |-> Len(journal[u]) + 1, from |-> d, to |-> source]
  <2>1. Len(journal[u]) + 1 \in Nat
    BY <1>4
  <2>2. [run |-> u, at |-> Len(journal[u]) + 1, from |-> d, to |-> source] \in Note
    BY <1>3, <1>4, <2>1 DEF Note
  <2>3. QED
    BY <2>2
<1>6. Noted' = Noted \cup {new}
  <2>1. InHand = {} /\ InHand' = {r}
    BY <1>1 DEF InHand, TInv, RunnersOK
  <2>2. \A n \in Note : IsRecord(n)' <=> IsRecord(n)
    BY <1>1 DEF IsRecord
  <2>3. ASSUME NEW n \in Note PROVE IsInHand(n, r)' <=> n = new
    <3>1. IsInHand(n, r)' <=> /\ n.run = u /\ n.at = Len(journal[n.run]) + 1
                              /\ n.from = d /\ n.to = source
      BY <1>1, <1>2 DEF IsInHand
    <3>2. QED
      BY <1>5, <3>1 DEF Note
  <2>4. \A n : n \in Noted' <=> n \in Note /\ (IsRecord(n)' \/ IsInHand(n, r)')
    BY <2>1 DEF Noted, Note
  <2>5. \A n : n \in Noted <=> n \in Note /\ IsRecord(n)
    BY <2>1 DEF Noted
  <2>6. QED
    BY <2>2, <2>3, <2>4, <2>5
<1>7. /\ \A m \in Noted : /\ m.at \in Nat /\ m.run \in Runs /\ IsRecord(m)
                          /\ m.run = u => m.at <= Len(journal[u])
      /\ new.at = Len(journal[u]) + 1 /\ new.run = u /\ new.from = d /\ new.to = source
  <2>1. InHand = {}
    BY <1>1 DEF InHand
  <2>2. \A m \in Noted : m \in Note /\ IsRecord(m)
    BY <2>1 DEF Noted
  <2>3. QED
    BY <1>4, <1>5, <2>2 DEF Note, IsRecord
\* No record of another run names either path.
<1>8. ASSUME NEW m \in Noted, m.from = d \/ m.to = source PROVE m.run = u
  <2>1. SUFFICES ASSUME m.run # u PROVE FALSE
    OBVIOUS
  <2>2. m.run \in Runs \ {on[r]} /\ m.at \in DOMAIN journal[m.run]
        /\ (journal[m.run][m.at].to = source \/ journal[m.run][m.at].from = d)
    BY <1>2, <1>7, <1>8, <2>1 DEF IsRecord
  <2>3. Crosses(r)
    BY <1>2, <2>2 DEF Crosses
  <2>4. QED
    BY <2>3
<1>9. /\ fs'[source] = NoFile /\ fs'[d] = f /\ f \in Files /\ f # NoFile /\ fs[source] = f
      /\ \A p \in Paths : p # source /\ p # d => fs'[p] = fs[p]
      /\ \A p \in Paths : p # d => fs'[p] # f
      /\ \A p \in Paths : p # source => fs[p] # f
  BY <1>1, <1>2, <1>3, Moving DEF Injective
<1>10. fs[d] \in Fresh \cup {NoFile} /\ lost' \subseteq Fresh
  BY <1>1, <1>2 DEF CalmInv, Alone, MoveFile
<1>11. origin'[f] = source /\ \A g \in Files : g # f => origin'[g] = origin[g]
  BY <1>1, <1>2, <1>3, <1>9 DEF TInv, FilesOK
\* What lay in quarantine lies there still, with its origin.
<1>12. \A p \in Slots : p # d =>
          fs'[p] = fs[p] /\ (fs[p] # NoFile => fs[p] \in Files /\ origin'[fs[p]] = origin[fs[p]])
  BY <1>3, <1>9, <1>11, PathsDisjoint DEF TInv, FilesOK
<1>13. KeptApart'
  BY <1>6, <1>7, <1>8 DEF CalmInv, FilesInv, KeptApart
<1>14. WayHome'
  <2> SUFFICES ASSUME NEW p \in Slots, fs'[p] # NoFile
               PROVE  \/ fs'[p] \in Fresh /\ \A m \in Noted' : m.from # p
                      \/ \E n \in Noted' : /\ n.from = p /\ n.to = origin'[fs'[p]]
                                           /\ \A m \in Noted' : m.from = p => m.at <= n.at
    BY DEF WayHome
  <2>1. CASE p = d
    <3>1. \A m \in Noted' : m.from = p => m.at <= new.at
      BY <1>4, <1>6, <1>7, <1>8, <2>1
    <3>2. QED
      BY <1>6, <1>7, <1>9, <1>11, <2>1, <3>1
  <2>2. CASE p # d
    BY <1>6, <1>7, <1>12, <2>2 DEF CalmInv, FilesInv, WayHome
  <2>3. QED
    BY <2>1, <2>2
<1>15. AtHome'
  <2>1. ASSUME NEW s \in Sources PROVE fs'[s] \in {fs[s], NoFile}
    BY <1>3, <1>9, PathsDisjoint
  <2>2. QED
    BY <2>1 DEF CalmInv, FilesInv, AtHome
<1>16. f \in Sources => f = source
  BY <1>3, <1>9, CleanAssumption DEF CalmInv, FilesInv, AtHome
<1>17. KeepsOrigin'
  BY <1>9, <1>11, <1>12, <1>16, CleanAssumption DEF CalmInv, FilesInv, KeepsOrigin
<1>18. NoneBefore'
  <2> SUFFICES ASSUME NEW s \in Sources, NEW p \in Slots, fs'[s] = s, fs'[p] # NoFile
               PROVE  origin'[fs'[p]] # s
    BY DEF NoneBefore
  <2>1. s # source /\ fs[s] = s
    BY <1>3, <1>9, CleanAssumption, PathsDisjoint
  <2>2. CASE p = d
    BY <1>9, <1>11, <2>1, <2>2
  <2>3. CASE p # d
    BY <1>12, <2>1, <2>3 DEF CalmInv, FilesInv, NoneBefore
  <2>4. QED
    BY <2>2, <2>3
<1>19. FirstAway'
  <2> SUFFICES ASSUME NEW p \in Slots, NEW q \in Slots, p # q, fs'[p] \in Sources,
                      fs'[q] # NoFile, origin'[fs'[q]] = fs'[p], NEW n \in Noted', n.from = p
               PROVE  \E m \in Noted' : m.from = q /\ m.run = n.run /\ n.at < m.at
    BY DEF FirstAway, Later
  <2>1. p # d
    BY <1>3, <1>9, <1>12, <1>16 DEF CalmInv, FilesInv, NoneBefore
  <2>2. n \in Noted /\ fs'[p] = fs[p] /\ fs[p] \in Sources /\ fs[p] # NoFile
    BY <1>6, <1>7, <1>12, <2>1, CleanAssumption
  <2>3. CASE q = d
    <3>1. origin[fs[p]] = fs[p] /\ fs[p] = source
      BY <1>9, <1>11, <2>2, <2>3 DEF CalmInv, FilesInv, KeepsOrigin
    <3>2. PICK m \in Noted : m.from = p /\ m.to = source
      BY <2>2, <3>1, CleanAssumption DEF CalmInv, FilesInv, WayHome
    <3>3. n.run = u
      BY <1>8, <2>2, <3>2 DEF CalmInv, FilesInv, KeptApart
    <3>4. QED
      BY <1>4, <1>6, <1>7, <2>2, <2>3, <3>3
  <2>4. CASE q # d
    <3>1. fs[q] # NoFile /\ origin[fs[q]] = fs[p]
      BY <1>12, <2>2, <2>4
    <3>2. Later(q, n)
      BY <2>2, <3>1 DEF CalmInv, FilesInv, FirstAway
    <3>3. QED
      BY <1>6, <3>2 DEF Later
  <2>5. QED
    BY <2>3, <2>4
<1>20. NoneGone'
  <2> SUFFICES ASSUME removed \subseteq Fresh, NEW s \in Sources PROVE \E p \in Paths : fs'[p] = s
    BY <1>1 DEF NoneGone
  <2>1. PICK p \in Paths : fs[p] = s
    BY DEF CalmInv, FilesInv, NoneGone
  <2>2. CASE p = source
    BY <1>3, <1>9, <2>1, <2>2
  <2>3. CASE p # source
    BY <1>9, <1>10, <2>1, <2>3, CleanAssumption
  <2>4. QED
    BY <2>2, <2>3
<1>21. Alone' /\ UndoneSoFar'
  <2>1. pc'[r] = "record" /\ \A q \in Runners : q # r => pc'[q] = "idle"
    BY <1>1 DEF TInv, RunnersOK
  <2>2. QED
    BY <2>1 DEF Alone, UndoneSoFar
<1>22. NoneTorn'
  BY <1>1 DEF CalmInv, NoneTorn
<1>23. QED
  BY <1>10, <1>13, <1>14, <1>15, <1>17, <1>18, <1>19, <1>20, <1>21, <1>22 DEF CalmInv, FilesInv

\* The record is written: what was noted stays noted.
LEMMA RecordStep ==
    ASSUME TInv, CalmInv, NEW r \in Runners, Record(r),
           \A q \in Runners : q # r => pc[q] = "idle"
    PROVE  CalmInv'
<1>1. PICK u \in Runs : u = on[r]
  BY DEF Record, TInv, RunnersOK
<1>2. /\ pc[r] = "record" /\ todo[r] # <<>> /\ dest[r] \in Slots /\ todo[r] \in Seq(Action)
      /\ journal' = [journal EXCEPT ![u] = Append(@, NewRecord(r))]
      /\ torn' = [torn EXCEPT ![u] = FALSE]
      /\ Advance(r, "apply") /\ UNCHANGED <<fs, dest, origin, lost, removed>>
  BY <1>1 DEF Record, CalmInv, NoneTorn, TInv, RunnersOK, history
<1>3. pc'[r] = "apply" /\ \A q \in Runners : q # r => pc'[q] = "idle"
  BY <1>2 DEF Advance, TInv, RunnersOK
<1>4. Noted' = Noted
  <2>1. InHand = {r} /\ InHand' = {}
    BY <1>2, <1>3 DEF InHand
  <2>2. NewRecord(r) \in UndoRecord
    <3>1. Head(todo[r]) \in Action
      BY <1>2, HeadAndTail
    <3>2. QED
      BY <1>2, <3>1 DEF Action, NewRecord, UndoRecord
  <2>3. /\ DOMAIN journal[u] = 1 .. Len(journal[u]) /\ Len(journal[u]) \in Nat
        /\ DOMAIN journal'[u] = DOMAIN journal[u] \cup {Len(journal[u]) + 1}
        /\ \A k \in DOMAIN journal[u] : journal'[u][k] = journal[u][k]
        /\ journal'[u][Len(journal[u]) + 1] = NewRecord(r)
        /\ \A v \in Runs : v # u => journal'[v] = journal[v]
    <3>1. journal'[u] = Append(journal[u], NewRecord(r))
          /\ \A v \in Runs : v # u => journal'[v] = journal[v]
      BY <1>2 DEF TInv, FilesOK
    <3>2. journal[u] \in Seq(UndoRecord)
      BY JournalType
    <3>3. QED
      BY <2>2, <3>1, <3>2, AppendProperties
  <2>4. NewRecord(r).from = dest[r] /\ NewRecord(r).to = Head(todo[r]).source
    BY DEF NewRecord
  <2>5. ASSUME NEW n \in Note PROVE IsRecord(n)' <=> IsRecord(n) \/ IsInHand(n, r)
    <3>1. CASE n.run = u
      BY <1>1, <2>3, <2>4, <3>1 DEF IsRecord, IsInHand, Note
    <3>2. CASE n.run # u
      BY <1>1, <2>3, <3>2 DEF IsRecord, IsInHand, Note
    <3>3. QED
      BY <3>1, <3>2
  <2>6. \A n : n \in Noted' <=> n \in Note /\ IsRecord(n)'
    BY <2>1 DEF Noted, Note
  <2>7. \A n : n \in Noted <=> n \in Note /\ (IsRecord(n) \/ IsInHand(n, r))
    BY <2>1 DEF Noted
  <2>8. QED
    BY <2>5, <2>6, <2>7
<1>5. FilesInv'
  BY <1>2, <1>4, FilesStay DEF CalmInv
<1>6. Alone' /\ UndoneSoFar'
  BY <1>3 DEF Alone, UndoneSoFar
<1>7. NoneTorn'
  BY <1>2 DEF CalmInv, NoneTorn, TInv, FilesOK
<1>8. QED
  BY <1>2, <1>5, <1>6, <1>7 DEF CalmInv

\* A record of the journal that leads a file home is the newest of its name.
LEMMA NextRecord ==
    ASSUME TInv, CalmInv, NEW r \in Runners, pc[r] = "undo", todo[r] # <<>>,
           fs[Head(todo[r]).from] # NoFile
    PROVE  /\ on[r] \in Runs
           /\ Len(todo[r]) \in 1 .. Len(journal[on[r]])
           /\ Head(todo[r]) = journal[on[r]][Len(todo[r])]
           /\ Head(todo[r]).from \in Slots
           /\ Head(todo[r]).to = origin[fs[Head(todo[r]).from]]
<1>1. todo[r] \in Seq(UndoRecord) /\ todo[r] # <<>> /\ Head(todo[r]) = todo[r][1]
  BY DEF TInv, RunnersOK
<1>2. PICK k, u : k = Len(todo[r]) /\ u = on[r]
  OBVIOUS
<1>3. u \in Runs /\ Len(journal[u]) \in Nat
  <2>1. u \in Runs
    BY <1>2 DEF TInv, RunnersOK
  <2>2. QED
    BY <2>1, JournalType
<1>4. k \in 1 .. Len(journal[u]) /\ Head(todo[r]) = journal[u][k]
  <2>1. k \in Nat \ {0}
    BY <1>1, <1>2
  <2>2. k <= Len(journal[u]) /\ todo[r][1] = journal[u][k + 1 - 1]
    BY <1>2, <2>1 DEF CalmInv, UndoneSoFar
  <2>3. QED
    BY <1>1, <1>3, <2>1, <2>2
<1>5. PICK p : p = Head(todo[r]).from
  OBVIOUS
<1>6. p \in Slots /\ fs[p] # NoFile
  <2>1. Head(todo[r]) \in UndoRecord
    BY <1>1, HeadAndTail
  <2>2. QED
    BY <1>5, <2>1 DEF UndoRecord
<1>7. PICK m \in Noted : m.at = k /\ m.run = u /\ m.from = p /\ m.to = journal[u][k].to
  <2>1. [run |-> u, at |-> k, from |-> journal[u][k].from, to |-> journal[u][k].to] \in Noted
    BY <1>3, <1>4, NotedType
  <2>2. QED
    BY <1>4, <1>5, <2>1
<1>8. PICK n \in Noted : n.from = p /\ n.to = origin[fs[p]]
                         /\ \A l \in Noted : l.from = p => l.at <= n.at
  BY <1>6, <1>7 DEF CalmInv, FilesInv, WayHome
<1>9. n.run = u
  BY <1>7, <1>8 DEF CalmInv, FilesInv, KeptApart
<1>10. n.at <= k
  BY <1>2, <1>6, <1>8, <1>9 DEF CalmInv, UndoneSoFar
<1>11. k <= n.at
  BY <1>7, <1>8
<1>12. n.at = k
  <2>1. n.at \in Nat /\ k \in Nat
    BY <1>4 DEF Noted, Note
  <2>2. QED
    BY <1>10, <1>11, <2>1
<1>13. n.to = journal[u][k].to
  <2>1. IsRecord(n)
    BY <1>3, <1>4, <1>9, <1>12, NotedType
  <2>2. QED
    BY <1>9, <1>12, <2>1 DEF IsRecord
<1>14. QED
  BY <1>2, <1>3, <1>4, <1>5, <1>6, <1>8, <1>13

\* The one runner moves a file home: what stood there is no more than a new file.
LEMMA UndoStep ==
    ASSUME TInv, Injective, CalmInv, NEW r \in Runners, UndoMove(r),
           \A q \in Runners : q # r => pc[q] = "idle"
    PROVE  CalmInv'
<1>1. /\ pc[r] = "undo" /\ todo[r] # <<>> /\ todo[r] \in Seq(UndoRecord)
      /\ fs[Head(todo[r]).from] # NoFile
      /\ MoveFile(Head(todo[r]).from, Head(todo[r]).to)
      /\ todo' = [todo EXCEPT ![r] = Tail(@)] /\ pc' = [pc EXCEPT ![r] = "undo"]
      /\ UNCHANGED <<journal, torn, on, dest, origin, removed>>
  BY DEF UndoMove, Advance, TInv, RunnersOK
<1>2. PICK from, to, k, u : /\ from = Head(todo[r]).from /\ to = Head(todo[r]).to
                            /\ k = Len(todo[r]) /\ u = on[r]
  OBVIOUS
<1>3. /\ u \in Runs /\ k \in 1 .. Len(journal[u]) /\ Len(journal[u]) \in Nat
      /\ from = journal[u][k].from /\ to = journal[u][k].to
      /\ from \in Slots /\ to = origin[fs[from]]
  BY <1>1, <1>2, NextRecord, JournalType
<1>4. to \in Sources /\ from \in Paths /\ to \in Paths /\ from # to
  <2>1. Head(todo[r]) \in UndoRecord
    BY <1>1, HeadAndTail
  <2>2. to \in Sources
    BY <1>2, <2>1 DEF UndoRecord
  <2>3. QED
    BY <1>3, <2>2, PathsDisjoint
<1>5. PICK f : f = fs[from]
  OBVIOUS
<1>6. /\ fs'[from] = NoFile /\ fs'[to] = f /\ f \in Files /\ f # NoFile /\ origin[f] = to
      /\ \A p \in Paths : p # from /\ p # to => fs'[p] = fs[p]
  BY <1>1, <1>2, <1>3, <1>4, <1>5, Moving
<1>7. \A p \in Slots : fs'[p] = IF p = from THEN NoFile ELSE fs[p]
  BY <1>4, <1>6, PathsDisjoint
<1>8. fs[to] \in {NoFile} \cup Fresh
  BY <1>3, <1>4, <1>5, <1>6 DEF CalmInv, FilesInv, AtHome, NoneBefore
<1>9. lost' \subseteq Fresh
  BY <1>1, <1>2, <1>8 DEF MoveFile, CalmInv
<1>10. pc'[r] = "undo" /\ \A q \in Runners : q # r => pc'[q] = "idle"
  BY <1>1 DEF TInv, RunnersOK
<1>11. Noted' = Noted
  BY <1>1, <1>10, NotedStays
\* All that was moved after f has been moved back.
<1>12. \A p \in Slots, m \in Noted : fs[p] # NoFile /\ m.from = p /\ m.run = u => m.at <= k
  BY <1>1, <1>2 DEF CalmInv, UndoneSoFar
<1>13. KeptApart' /\ WayHome' /\ KeepsOrigin' /\ FirstAway'
  BY <1>1, <1>7, <1>11, FilesLeave DEF CalmInv
<1>14. AtHome'
  <2> SUFFICES ASSUME NEW s \in Sources PROVE fs'[s] \in {s, NoFile} \cup Fresh
    BY DEF AtHome
  <2>1. CASE s = to
    BY <1>3, <1>5, <1>6, <2>1 DEF CalmInv, FilesInv, KeepsOrigin, Files
  <2>2. CASE s # to
    BY <1>3, <1>6, <2>2, PathsDisjoint DEF CalmInv, FilesInv, AtHome
  <2>3. QED
    BY <2>1, <2>2
<1>15. NoneBefore'
  <2> SUFFICES ASSUME NEW s \in Sources, NEW p \in Slots, fs'[s] = s, fs'[p] # NoFile,
                      origin[fs'[p]] = s
               PROVE  FALSE
    BY <1>1 DEF NoneBefore
  <2>1. p # from /\ fs'[p] = fs[p]
    BY <1>7
  <2>2. CASE s = to
    <3>1. PICK n \in Noted : n.at = k /\ n.from = from /\ n.run = u
      BY <1>3, NotedType
    <3>2. Later(p, n)
      BY <1>3, <1>5, <1>6, <2>1, <2>2, <3>1 DEF CalmInv, FilesInv, FirstAway
    <3>3. PICK m \in Noted : m.from = p /\ m.run = u /\ k < m.at
      BY <3>1, <3>2 DEF Later
    <3>4. m.at <= k /\ m.at \in Nat
      BY <1>12, <2>1, <3>3 DEF Noted, Note
    <3>5. QED
      BY <1>3, <3>3, <3>4
  <2>3. CASE s # to
    BY <1>3, <1>6, <2>1, <2>3, PathsDisjoint DEF CalmInv, FilesInv, NoneBefore
  <2>4. QED
    BY <2>2, <2>3
<1>16. NoneGone'
  <2> SUFFICES ASSUME removed \subseteq Fresh, NEW s \in Sources
               PROVE  \E p \in Paths : fs'[p] = s
    BY <1>1 DEF NoneGone
  <2>1. PICK p \in Paths : fs[p] = s
    BY DEF CalmInv, FilesInv, NoneGone
  <2>2. p # to
    BY <1>8, <2>1, CleanAssumption
  <2>3. QED
    BY <1>4, <1>5, <1>6, <2>1, <2>2
<1>17. UndoneSoFar'
  <2>1. todo'[r] = Tail(todo[r])
    BY <1>1 DEF TInv, RunnersOK
  <2>2. /\ Len(todo'[r]) = k - 1
        /\ \A i \in 1 .. k - 1 : todo'[r][i] = todo[r][i + 1]
    <3>1. /\ Len(Tail(todo[r])) = Len(todo[r]) - 1
          /\ \A i \in 1 .. Len(Tail(todo[r])) : Tail(todo[r])[i] = todo[r][i + 1]
      BY <1>1, HeadTailProperties
    <3>2. QED
      BY <1>2, <2>1, <3>1
  <2>3. \A i \in 1 .. k : todo[r][i] = journal[u][k + 1 - i]
    BY <1>1, <1>2 DEF CalmInv, UndoneSoFar
  <2>4. \A i \in 1 .. k - 1 : todo'[r][i] = journal[u][k - i]
    <3> SUFFICES ASSUME NEW i \in 1 .. k - 1 PROVE todo'[r][i] = journal[u][k - i]
      OBVIOUS
    <3>1. i + 1 \in 1 .. k /\ k + 1 - (i + 1) = k - i
      BY <1>3
    <3>2. QED
      BY <2>2, <2>3, <3>1
  <2>5. ASSUME NEW p \in Slots, fs'[p] # NoFile, NEW m \in Noted, m.from = p, m.run = u
        PROVE  m.at <= k - 1
    <3>1. p # from /\ m.at <= k /\ m.at \in Nat
      BY <1>7, <1>12, <2>5 DEF Noted, Note
    <3>2. m.at # k
      <4>1. m.at = k => IsRecord(m)
        BY <1>3, <2>5, NotedType
      <4>2. QED
        BY <1>3, <2>5, <3>1, <4>1 DEF IsRecord
    <3>3. QED
      BY <1>3, <3>1, <3>2
  <2>6. /\ Len(todo'[r]) <= Len(journal'[on'[r]])
        /\ \A i \in 1 .. Len(todo'[r]) : todo'[r][i] = journal'[on'[r]][Len(todo'[r]) + 1 - i]
    <3>1. PICK n : n = Len(todo'[r])
      OBVIOUS
    <3>2. n = k - 1 /\ n <= Len(journal[u]) /\ \A i \in 1 .. n : n + 1 - i = k - i
      BY <1>3, <2>2, <3>1
    <3>3. \A i \in 1 .. n : todo'[r][i] = journal[u][n + 1 - i]
      BY <2>4, <3>2
    <3>4. journal'[on'[r]] = journal[u]
      BY <1>1, <1>2
    <3>5. QED
      BY <3>1, <3>2, <3>3, <3>4
  <2>7. \A q \in Runners : pc'[q] = "undo" => q = r
    BY <1>10
  <2>8. \A p \in Slots : fs'[p] # NoFile =>
           \A m \in Noted' : m.from = p /\ m.run = on'[r] => m.at <= Len(todo'[r])
    BY <1>1, <1>2, <1>11, <2>2, <2>5
  <2>9. QED
    BY <2>6, <2>7, <2>8 DEF UndoneSoFar
<1>18. Alone'
  BY <1>10 DEF Alone
<1>19. NoneTorn'
  BY <1>1 DEF CalmInv, NoneTorn
<1>20. QED
  BY <1>9, <1>13, <1>14, <1>15, <1>16, <1>17, <1>18, <1>19 DEF CalmInv, FilesInv

LEMMA StartUndoStep ==
    ASSUME TInv, CalmInv, NEW r \in Runners, NEW u \in Runs, StartUndo(r, u),
           \A q \in Runners : q # r => pc[q] = "idle"
    PROVE  CalmInv'
<1>1. /\ pc[r] = "idle" /\ todo' = [todo EXCEPT ![r] = Reverse(journal[u])]
      /\ pc' = [pc EXCEPT ![r] = "undo"] /\ on' = [on EXCEPT ![r] = u]
      /\ UNCHANGED <<fs, journal, torn, dest, origin, lost, removed>>
  BY DEF StartUndo, Begin
<1>2. pc'[r] = "undo" /\ \A q \in Runners : q # r => pc'[q] = "idle"
  BY <1>1 DEF TInv, RunnersOK
<1>3. Noted' = Noted
  BY <1>1, <1>2, NotedStays
<1>4. FilesInv'
  BY <1>1, <1>3, FilesStay DEF CalmInv
<1>5. Alone'
  BY <1>2 DEF Alone
<1>6. UndoneSoFar'
  <2>1. todo'[r] = Reverse(journal[u]) /\ on'[r] = u /\ journal' = journal
    BY <1>1 DEF TInv, RunnersOK
  <2>2. Len(journal[u]) \in Nat /\ DOMAIN journal[u] = 1 .. Len(journal[u])
    BY JournalType
  <2>3. PICK n : n = Len(journal[u])
    OBVIOUS
  <2>4. /\ Len(todo'[r]) = n /\ \A i \in 1 .. n : todo'[r][i] = journal[u][n + 1 - i]
    <3>1. \A i \in 1 .. n : n - i + 1 = n + 1 - i
      BY <2>2, <2>3
    <3>2. QED
      BY <2>1, <2>2, <2>3, <3>1 DEF Reverse
  <2>5. \A m \in Noted : m.run = u => m.at <= n
    <3>1. InHand = {}
      BY <1>1 DEF InHand
    <3>2. QED
      BY <2>2, <2>3, <3>1 DEF Noted, Note, IsRecord
  <2>6. \A q \in Runners : pc'[q] = "undo" => q = r
    BY <1>2
  <2>7. Len(todo'[r]) <= Len(journal'[on'[r]])
        /\ \A i \in 1 .. Len(todo'[r]) : todo'[r][i] = journal'[on'[r]][Len(todo'[r]) + 1 - i]
    BY <2>1, <2>2, <2>3, <2>4
  <2>8. \A m \in Noted' : m.run = on'[r] => m.at <= Len(todo'[r])
    BY <1>3, <2>1, <2>4, <2>5
  <2>9. QED
    BY <2>6, <2>7, <2>8 DEF UndoneSoFar
<1>7. QED
  BY <1>1, <1>4, <1>5, <1>6 DEF CalmInv, NoneTorn

\* The user puts a new file where none was, in no name of the records, or takes one away.
LEMMA UserStep ==
    ASSUME TInv, CalmInv, NEW p \in Paths, NEW f \in Fresh \cup {NoFile},
           fs' = [fs EXCEPT ![p] = f],
           f # NoFile => /\ fs[p] = NoFile /\ p \notin Claimed /\ origin[f] = NoPath
                         /\ removed' = removed,
           f = NoFile => removed' = removed \cup {fs[p]},
           UNCHANGED <<journal, torn, pc, on, todo, dest, origin, lost>>
    PROVE  CalmInv'
<1>1. fs'[p] = f /\ \A q \in Paths : q # p => fs'[q] = fs[q]
  BY DEF TInv, FilesOK
<1>2. Noted' = Noted
  BY NotedStays
<1>3. \A q \in Slots : \/ fs'[q] \in {fs[q], NoFile}
                       \/ /\ fs'[q] \in Fresh /\ origin[fs'[q]] = NoPath
                          /\ \A m \in Noted : m.from # q
  BY <1>1, NotedIsClaimed, PathsDisjoint
<1>4. KeptApart' /\ WayHome'
  BY <1>2, <1>3 DEF CalmInv, FilesInv, KeptApart, WayHome
<1>5. KeepsOrigin'
  BY <1>3, CleanAssumption DEF CalmInv, FilesInv, KeepsOrigin
<1>6. FirstAway'
  <2> SUFFICES ASSUME NEW a \in Slots, NEW b \in Slots, a # b, fs'[a] \in Sources,
                      fs'[b] # NoFile, origin[fs'[b]] = fs'[a], NEW n \in Noted, n.from = a
               PROVE  Later(b, n)
    BY <1>2 DEF FirstAway, Later
  <2>1. fs'[a] = fs[a] /\ fs'[b] = fs[b]
    BY <1>3, CleanAssumption, PathsDisjoint
  <2>2. QED
    BY <2>1 DEF CalmInv, FilesInv, FirstAway
<1>7. \A s \in Sources : fs'[s] \in {fs[s], NoFile} \cup Fresh
  BY <1>1, PathsDisjoint
<1>8. AtHome'
  BY <1>7 DEF CalmInv, FilesInv, AtHome
<1>9. NoneBefore'
  <2> SUFFICES ASSUME NEW s \in Sources, NEW q \in Slots, fs'[s] = s, fs'[q] # NoFile
               PROVE  origin[fs'[q]] # s
    BY DEF NoneBefore
  <2>1. fs[s] = s
    BY <1>1, CleanAssumption, PathsDisjoint
  <2>2. fs'[q] = fs[q] \/ origin[fs'[q]] = NoPath
    BY <1>3
  <2>3. QED
    BY <2>1, <2>2, PathsDisjoint DEF CalmInv, FilesInv, NoneBefore
<1>10. NoneGone'
  <2> SUFFICES ASSUME removed' \subseteq Fresh, NEW s \in Sources
               PROVE  \E q \in Paths : fs'[q] = s
    BY DEF NoneGone
  <2>1. removed \subseteq Fresh
    OBVIOUS
  <2>2. PICK q \in Paths : fs[q] = s
    BY <2>1 DEF CalmInv, FilesInv, NoneGone
  <2>3. q # p
    BY <2>2, CleanAssumption
  <2>4. QED
    BY <1>1, <2>2, <2>3
<1>11. Alone'
  <2>1. \A r \in Runners : pc[r] = "move" => dest[r] \in Slots
    BY DEF TInv, RunnersOK
  <2>2. QED
    BY <1>3, <2>1 DEF CalmInv, Alone
<1>12. UndoneSoFar'
  BY <1>2, <1>3 DEF CalmInv, UndoneSoFar
<1>13. QED
  BY <1>4, <1>5, <1>6, <1>8, <1>9, <1>10, <1>11, <1>12 DEF CalmInv, FilesInv, NoneTorn

LEMMA CalmStep == TInv /\ Injective /\ Met /\ RoomLeft /\ CInv /\ [Next]_vars => CInv'
<1> SUFFICES ASSUME TInv, Injective, Met, RoomLeft, CInv, [Next]_vars, Calm' PROVE CalmInv'
  BY DEF CInv
<1> USE DEF history
<1>0. ASSUME UNCHANGED <<overlap, crashes>>, crossed => crossed' PROVE CalmInv
  BY <1>0 DEF Calm, Orderly, CInv
\* Who is in a pass is alone in it.
<1>a. ASSUME CalmInv, NEW r \in Runners, pc[r] # "idle"
      PROVE  \A q \in Runners : q # r => pc[q] = "idle"
  BY <1>a DEF CalmInv, Alone
<1>b. ASSUME NEW r \in Runners, NEW u, NEW place, NEW list, NEW approve,
             Begin(r, u, place, list, approve)
      PROVE  CalmInv /\ \A q \in Runners : q # r => pc[q] = "idle"
  BY <1>b DEF Begin, Calm, Orderly, CInv
<1>1. ASSUME NEW r \in Runners, NEW u \in Runs, StartApply(r, u) PROVE CalmInv'
  <2>1. PICK approve \in BOOLEAN : Begin(r, u, "apply", Actions[u], approve)
    BY <1>1 DEF StartApply
  <2>2. CalmInv /\ \A q \in Runners : q # r => pc[q] = "idle"
    BY <1>b, <2>1
  <2>3. pc[r] # "record" /\ pc' = [pc EXCEPT ![r] = "apply"]
        /\ UNCHANGED <<fs, origin, lost, removed, journal, torn, dest>>
    BY <2>1 DEF Begin
  <2>4. QED
    BY <2>2, <2>3, QuietStep
<1>2. ASSUME NEW r \in Runners, Skip(r) \/ MoveFails(r) \/ UndoRaises(r) \/ End(r)
      PROVE  CalmInv'
  <2>1. /\ pc[r] \in {"apply", "move", "undo"}
        /\ \E place \in {"idle", "apply"} : pc' = [pc EXCEPT ![r] = place]
        /\ UNCHANGED <<fs, origin, lost, removed, journal, torn, dest, overlap, crashes, crossed>>
    BY <1>2 DEF Skip, MoveFails, UndoRaises, End, Advance, Stop
  <2>2. CalmInv /\ \A q \in Runners : q # r => pc[q] = "idle"
    BY <1>0, <1>a, <2>1
  <2>3. QED
    BY <2>1, <2>2, QuietStep
<1>3. ASSUME NEW r \in Runners, Choose(r) PROVE CalmInv'
  <2>1. /\ pc[r] = "apply" /\ todo[r] # <<>> /\ ~Skipped(r, Head(todo[r]))
        /\ pc' = [pc EXCEPT ![r] = "move"]
        /\ UNCHANGED <<fs, origin, lost, removed, journal, torn, overlap, crashes, crossed>>
    BY <1>3 DEF Choose
  <2>2. CalmInv /\ \A q \in Runners : q # r => pc[q] = "idle"
    BY <1>0, <1>a, <2>1
  <2>3. Head(todo[r]) \in Action
    BY <2>1, HeadAndTail DEF TInv, RunnersOK
  <2>4. PICK n \in 1 .. MaxSlot + 1 : /\ UniqueDestination(Head(todo[r]).base, n)
                                      /\ dest' = [dest EXCEPT ![r] = <<Head(todo[r]).base, n>>]
    BY <1>3 DEF Choose
  <2>5. fs[<<Head(todo[r]).base, n>>] = NoFile
    BY <2>1, <2>3, <2>4, ChosenIsFree DEF Skipped
  <2>6. fs[dest'[r]] = NoFile /\ \A q \in Runners : q # r => dest'[q] = dest[q]
    BY <2>4, <2>5 DEF TInv, RunnersOK
  <2>7. QED
    BY <2>1, <2>2, <2>6, QuietStep
<1>4. ASSUME NEW r \in Runners, Move(r) PROVE CalmInv'
  <2>1. crossed' = (crossed \/ Crosses(r)) /\ UNCHANGED <<overlap, crashes>> /\ pc[r] # "idle"
    BY <1>4 DEF Move
  <2>2. ~Crosses(r)
    BY <2>1 DEF Calm, Orderly
  <2>3. CalmInv /\ \A q \in Runners : q # r => pc[q] = "idle"
    BY <1>0, <1>a, <2>1
  <2>4. QED
    BY <1>4, <2>2, <2>3, MoveStep
<1>5. ASSUME NEW r \in Runners, Record(r) PROVE CalmInv'
  <2>1. CalmInv /\ \A q \in Runners : q # r => pc[q] = "idle"
    BY <1>0, <1>5, <1>a DEF Record
  <2>2. QED
    BY <1>5, <2>1, RecordStep
<1>6. ASSUME NEW r \in Runners, NEW u \in Runs, StartUndo(r, u) PROVE CalmInv'
  <2>1. CalmInv /\ \A q \in Runners : q # r => pc[q] = "idle"
    BY <1>6, <1>b DEF StartUndo
  <2>2. QED
    BY <1>6, <2>1, StartUndoStep
<1>7. ASSUME NEW r \in Runners, UndoMove(r) PROVE CalmInv'
  <2>1. CalmInv /\ \A q \in Runners : q # r => pc[q] = "idle"
    BY <1>0, <1>7, <1>a DEF UndoMove
  <2>2. QED
    BY <1>7, <2>1, UndoStep
<1>8. ASSUME NEW r \in Runners, Crash(r) PROVE CalmInv'
  <2>1. crashes \in Nat /\ crashes' = crashes + 1 /\ crashes' = 0
    BY <1>8, CleanAssumption DEF Crash, Calm, TInv, HistoryOK
  <2>2. QED
    BY <2>1
<1>9. ASSUME NEW p \in Paths, UserCreates(p) PROVE CalmInv'
  <2>1. PICK f \in Fresh : f \notin Present(fs) \cup lost \cup removed
                           /\ fs' = [fs EXCEPT ![p] = f]
    BY <1>9 DEF UserCreates
  <2>2. f # NoFile /\ f \in Files
    BY PathsDisjoint DEF Files
  <2>3. origin[f] = NoPath
    BY <2>1, <2>2 DEF Met, Present
  <2>4. /\ fs[p] = NoFile /\ removed' = removed /\ crossed' = (crossed \/ p \in Claimed)
        /\ UNCHANGED <<journal, torn, pc, on, todo, dest, origin, lost, overlap, crashes>>
    BY <1>9 DEF UserCreates
  <2>5. p \notin Claimed
    BY <2>4 DEF Calm, Orderly
  <2>6. CalmInv
    BY <1>0, <2>4
  <2>7. QED
    BY <2>1, <2>2, <2>3, <2>4, <2>5, <2>6, UserStep
<1>10. ASSUME NEW p \in Paths, UserRemoves(p) PROVE CalmInv'
  <2>1. /\ fs' = [fs EXCEPT ![p] = NoFile] /\ removed' = removed \cup {fs[p]}
        /\ UNCHANGED <<journal, torn, pc, on, todo, dest, origin, lost>>
        /\ UNCHANGED <<overlap, crashes, crossed>>
    BY <1>10 DEF UserRemoves
  <2>2. CalmInv
    BY <1>0, <2>1
  <2>3. QED
    BY <2>1, <2>2, UserStep
<1>11. CASE UNCHANGED vars
  <2>1. CalmInv /\ UNCHANGED <<fs, journal, torn, pc, on, todo, dest, origin, lost, removed>>
    BY <1>0, <1>11 DEF vars
  <2>2. Noted' = Noted
    BY <2>1, NotedStays
  <2>3. FilesInv'
    BY <2>1, <2>2, FilesStay DEF CalmInv
  <2>4. QED
    BY <2>1, <2>2, <2>3 DEF CalmInv, Alone, UndoneSoFar, NoneTorn
<1>12. QED
  BY <1>1, <1>2, <1>3, <1>4, <1>5, <1>6, <1>7, <1>8, <1>9, <1>10, <1>11 DEF Next

LEMMA CalmInvariant == Spec /\ []RoomLeft => []CInv
BY TypeInvariant, MetInvariant, InitCalm, CalmStep, PTL DEF Spec

\* As long as each base has a free name in quarantine, runners that take turns, keep to
\* paths no other run or user has used and do not die replace no file but one the user
\* created since (apply_actions, LocalFsAdapter.undo).
THEOREM NothingIsReplaced == Spec /\ []RoomLeft => []NothingReplaced
<1>1. CInv => NothingReplaced
  BY DEF CInv, Calm, CalmInv, NothingReplaced
<1>2. QED
  BY <1>1, CalmInvariant, PTL

\* At the end of an undo pass every first file of the run's records is at home.
LEMMA AllHome ==
    ASSUME TInv, CInv, Calm, removed \subseteq Fresh, NEW r \in Runners, pc[r] = "undo",
           todo[r] = <<>>, NEW k \in DOMAIN journal[on[r]]
    PROVE  fs[journal[on[r]][k].to] = journal[on[r]][k].to
<1>1. CalmInv /\ Len(todo[r]) = 0
  BY DEF CInv
<1>2. PICK u \in Runs : u = on[r]
  BY DEF TInv, RunnersOK
<1>3. PICK s \in Sources : s = journal[u][k].to
  BY <1>2, JournalType
<1>4. PICK n \in Noted : n.run = u /\ n.to = s
  BY <1>2, <1>3, JournalType, NotedType
<1>5. PICK p \in Paths : fs[p] = s
  BY <1>1 DEF CalmInv, FilesInv, NoneGone
<1>6. ASSUME p \in Slots PROVE FALSE
  <2>1. fs[p] # NoFile /\ fs[p] \notin Fresh /\ origin[fs[p]] = s
    BY <1>1, <1>5, <1>6, CleanAssumption DEF CalmInv, FilesInv, KeepsOrigin
  <2>2. PICK m \in Noted : m.from = p /\ m.to = s
    BY <1>1, <1>6, <2>1 DEF CalmInv, FilesInv, WayHome
  <2>3. m.run = u
    BY <1>1, <1>4, <2>2 DEF CalmInv, FilesInv, KeptApart
  <2>4. m.at <= 0
    BY <1>1, <1>2, <1>6, <2>1, <2>2, <2>3 DEF CalmInv, UndoneSoFar
  <2>5. m.at \in 1 .. Len(journal[u]) + 1
    BY <2>3, NotedType
  <2>6. QED
    BY <2>4, <2>5
<1>7. p \in Sources
  BY <1>6 DEF Paths
<1>8. QED
  BY <1>1, <1>2, <1>3, <1>5, <1>7, CleanAssumption DEF CalmInv, FilesInv, AtHome

\* Under the same condition, an undo pass that works through its list leaves every file
\* the run was about where it was before the first apply (cmd_undo).
THEOREM UndoBringsBack == Spec /\ []RoomLeft => UndoRestores
<1> DEFINE Restored ==
        \A r \in Runners :
            /\ pc[r] = "undo" /\ todo[r] = <<>> /\ pc'[r] = "idle"
            /\ Orderly /\ crashes' = 0 /\ removed \subseteq Fresh
            => \A k \in DOMAIN journal[on[r]] :
                  fs[journal[on[r]][k].to] = journal[on[r]][k].to
<1>1. TInv /\ CInv /\ [Next]_vars => Restored
  <2> SUFFICES ASSUME TInv, CInv, [Next]_vars, NEW r \in Runners,
                      pc[r] = "undo", todo[r] = <<>>, Orderly, crashes' = 0,
                      removed \subseteq Fresh, NEW k \in DOMAIN journal[on[r]]
               PROVE  fs[journal[on[r]][k].to] = journal[on[r]][k].to
    OBVIOUS
  <2>1. crashes' = crashes \/ crashes' = crashes + 1
    BY DEF Next, vars, history, StartApply, StartUndo, Begin, Skip, Choose, Move, MoveFails,
           Record, UndoMove, UndoRaises, End, Crash, UserCreates, UserRemoves
  <2>2. crashes = 0
    <3>1. crashes \in Nat
      BY CleanAssumption DEF TInv, HistoryOK
    <3>2. QED
      BY <2>1, <3>1
  <2>3. QED
    BY <2>2, AllHome DEF Calm
<1>2. TInv /\ CInv /\ [Next]_vars => [Restored]_vars
  BY <1>1
<1>3. Spec => [][Next]_vars
  BY PTL DEF Spec
<1>4. Spec /\ []RoomLeft => [][Restored]_vars
  BY <1>2, <1>3, TypeInvariant, CalmInvariant, PTL
<1>5. QED
  BY <1>4 DEF UndoRestores

\* There is a free name as long as there are no more files than names of one base:
\* ten thousand in _unique_destination.
THEOREM NamesSuffice ==
    ASSUME IsFiniteSet(Files), Cardinality(Files) <= MaxSlot + 1
    PROVE  Spec => []RoomLeft
<1>1. ASSUME TInv, Injective PROVE RoomLeft
  <2> SUFFICES ASSUME NEW base \in Bases, \A n \in 1 .. MaxSlot + 1 : fs[<<base, n>>] # NoFile,
                      NEW s \in Sources, fs[s] # NoFile
               PROVE  FALSE
    BY DEF RoomLeft
  <2> DEFINE place == [n \in 0 .. MaxSlot + 1 |-> IF n = 0 THEN s ELSE <<base, n>>]
             file == [n \in 0 .. MaxSlot + 1 |-> fs[place[n]]]
  <2>1. \A n \in 0 .. MaxSlot + 1 : n # 0 => place[n] \in Slots /\ place[n] = <<base, n>>
    BY CleanAssumption DEF Slots
  <2>2. place[0] = s
    BY CleanAssumption
  <2>3. \A n \in 0 .. MaxSlot + 1 : place[n] \in Paths /\ fs[place[n]] # NoFile
    <3> SUFFICES ASSUME NEW n \in 0 .. MaxSlot + 1
                 PROVE  place[n] \in Paths /\ fs[place[n]] # NoFile
      OBVIOUS
    <3>1. CASE n = 0
      BY <2>2, <3>1, PathsDisjoint
    <3>2. CASE n # 0
      BY <2>1, <3>2, PathsDisjoint, CleanAssumption
    <3>3. QED
      BY <3>1, <3>2
  <2>4. \A m, n \in 0 .. MaxSlot + 1 : place[m] = place[n] => m = n
    <3> SUFFICES ASSUME NEW m \in 0 .. MaxSlot + 1, NEW n \in 0 .. MaxSlot + 1,
                        place[m] = place[n]
                 PROVE  m = n
      OBVIOUS
    <3>1. CASE m = 0 \/ n = 0
      BY <2>1, <2>2, <3>1, PathsDisjoint
    <3>2. CASE m # 0 /\ n # 0
      BY <2>1, <3>2
    <3>3. QED
      BY <3>1, <3>2
  <2> HIDE DEF place
  <2>5. \A n \in 0 .. MaxSlot + 1 : file[n] = fs[place[n]] /\ fs[place[n]] \in Files
    <3>1. \A p \in Paths : fs[p] # NoFile => fs[p] \in Files
      BY <1>1 DEF TInv, FilesOK
    <3>2. QED
      BY <2>3, <3>1
  <2>6. \A m, n \in 0 .. MaxSlot + 1 : file[m] = file[n] => m = n
    BY <1>1, <2>3, <2>4, <2>5 DEF Injective
  <2>7. file \in Injection(0 .. MaxSlot + 1, Files)
    <3>1. file \in [0 .. MaxSlot + 1 -> Files]
      BY <2>5
    <3> HIDE DEF file
    <3>2. QED
      BY <2>6, <3>1 DEF Injection, IsInjective
  <2> HIDE DEF file
  <2>8. Cardinality(0 .. MaxSlot + 1) <= Cardinality(Files)
    BY <2>7, FS_Injection
  <2>9. MaxSlot \in Nat /\ Cardinality(0 .. MaxSlot + 1) = MaxSlot + 2
    <3>1. MaxSlot \in Nat /\ 0 \in Int /\ MaxSlot + 1 \in Int /\ ~(0 > MaxSlot + 1)
      BY CleanAssumption
    <3>2. Cardinality(0 .. MaxSlot + 1) = (MaxSlot + 1) - 0 + 1
      BY <3>1, FS_Interval
    <3>3. QED
      BY <3>1, <3>2
  <2>10. QED
    BY <2>8, <2>9, FS_CardinalityType
<1>2. QED
  BY <1>1, TypeInvariant, PTL
=============================================================================
