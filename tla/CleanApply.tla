----------------------------- MODULE CleanApply -----------------------------
(***************************************************************************)
(* Moving files to quarantine and back (sensei_clean: apply.py, policy.py, *)
(* adapters/local_fs.py, and the commands of sensei_clean_cli.py and       *)
(* sensei_clean_web.py).  An apply pass works through the actions of a     *)
(* run: it checks each, finds a free name for it in quarantine, moves the  *)
(* file and appends an undo record to the run's journal.  An undo pass     *)
(* reads the run's whole journal and moves every file back, newest record  *)
(* first.  Each run has a journal of its own, but all runs and the user    *)
(* share one quarantine: no destination names the run.  The command line   *)
(* and each request of the web page are runners of their own; nothing      *)
(* keeps two of them from working at once, on one run or on two, and each  *)
(* may die at any moment.  The user goes on creating and removing files    *)
(* meanwhile, in quarantine too; a file that a forgotten run left there is *)
(* one of these.                                                           *)
(*                                                                         *)
(* Home and quarantine are on one file system, so a move is one rename,    *)
(* which replaces a file of the same name.  A file is what it contains: a  *)
(* member of Sources stands for what stood there before the first apply.   *)
(***************************************************************************)
EXTENDS Naturals, FiniteSets, SequencesExt

CONSTANTS
    Runners,    \* processes and threads that apply or undo a run
    Runs,       \* the run directories
    Sources,    \* the paths whose files the runs' actions move
    Bases,      \* base names in quarantine
    Actions,    \* actions.jsonl of each run
    Fresh,      \* files the user may create: a bound on their number
    MaxSlot,    \* the last numeric suffix _unique_destination tries (9999)
    MaxPasses,  \* bound: apply and undo passes
    MaxRemoved, \* bound: files the user removes
    MaxCrashes, \* bound
    NoFile, NoPath, NoRun

\* permitted: policy.can_apply and the adapter's can_apply let it pass.
Action == [source : Sources, base : Bases, monitored : BOOLEAN, permitted : BOOLEAN]

ASSUME CleanAssumption ==
    /\ IsFiniteSet(Runners)
    /\ IsFiniteSet(Runs) /\ NoRun \notin Runs
    /\ DOMAIN Actions = Runs /\ \A u \in Runs : Actions[u] \in Seq(Action)
    /\ Sources \cap Fresh = {} /\ NoFile \notin Sources \cup Fresh
    /\ MaxSlot \in Nat \ {0}
    /\ MaxPasses \in Nat /\ MaxRemoved \in Nat /\ MaxCrashes \in Nat

\* Slot n of a base name: the name itself, "name (2)", ..., and past MaxSlot the
\* hash-suffixed name of last resort.
Slots == Bases \X (1 .. MaxSlot + 1)
Paths == Sources \cup Slots
Files == Sources \cup Fresh
UndoRecord == [from : Slots, to : Sources]

ASSUME PathAssumption == Sources \cap Slots = {} /\ NoPath \notin Paths

VARIABLES
    fs,       \* the file at each path
    journal,  \* the readable records of each run's undo.jsonl
    torn,     \* does it end in a partial line
    pc,       \* where each runner is
    on,       \* the run it works on
    todo,     \* the actions or records a runner has before it
    approved, \* does a runner apply the monitored lane too
    dest,     \* the quarantine path a runner has chosen
    \* The rest is history, which no guard but a bound reads.
    origin,   \* the source a file was last moved from
    lost,     \* files a move replaced
    removed,  \* files the user removed
    overlap,  \* have two runners been in a pass at once
    crossed,  \* has a path that a run's record names been used by another run,
              \* or a name of quarantine by the user
    passes, crashes

history == <<origin, lost, removed, overlap, crossed, passes, crashes>>
vars == <<fs, journal, torn, pc, on, todo, approved, dest, history>>

Init ==
    /\ fs = [p \in Paths |-> IF p \in Sources THEN p ELSE NoFile]
    /\ journal = [u \in Runs |-> <<>>] /\ torn = [u \in Runs |-> FALSE]
    /\ pc = [r \in Runners |-> "idle"] /\ on = [r \in Runners |-> NoRun]
    /\ todo = [r \in Runners |-> <<>>] /\ approved = [r \in Runners |-> FALSE]
    /\ dest = [r \in Runners |-> NoPath]
    /\ origin = [f \in Files |-> NoPath]
    /\ lost = {} /\ removed = {} /\ overlap = FALSE /\ crossed = FALSE
    /\ passes = 0 /\ crashes = 0

Present(files) == {files[p] : p \in Paths} \ {NoFile}

\* shutil.move: a file at the destination is replaced.
MoveFile(from, to) ==
    /\ fs' = [fs EXCEPT ![from] = NoFile, ![to] = fs[from]]
    /\ lost' = lost \cup ({fs[to]} \ {NoFile})

\* A runner enters a pass over s, a list of run u.
Begin(r, u, place, s, approve) ==
    /\ pc[r] = "idle"
    /\ passes < MaxPasses /\ passes' = passes + 1
    /\ pc' = [pc EXCEPT ![r] = place] /\ on' = [on EXCEPT ![r] = u]
    /\ todo' = [todo EXCEPT ![r] = s]
    /\ approved' = [approved EXCEPT ![r] = approve]
    /\ overlap' = (overlap \/ \E q \in Runners \ {r} : pc[q] # "idle")
    /\ UNCHANGED <<fs, journal, torn, dest, origin, lost, removed, crossed, crashes>>

\* The runner is done with the head of its list.
Advance(r, place) ==
    /\ pc' = [pc EXCEPT ![r] = place]
    /\ todo' = [todo EXCEPT ![r] = Tail(@)]
    /\ UNCHANGED <<on, approved>>

-----------------------------------------------------------------------------
(* Applying *)

\* cmd_apply, which takes the monitored lane only when it is approved.
StartApply(r, u) == \E approve \in BOOLEAN : Begin(r, u, "apply", Actions[u], approve)

\* The action is left out, or apply_actions refuses it, or its source is missing.
Skipped(r, a) ==
    \/ a.monitored /\ ~approved[r]
    \/ ~a.permitted
    \/ fs[a.source] = NoFile

Skip(r) ==
    /\ pc[r] = "apply" /\ todo[r] # <<>>
    /\ Skipped(r, Head(todo[r]))
    /\ Advance(r, "apply")
    /\ UNCHANGED <<fs, journal, torn, dest, history>>

\* Faulty variant: the planned destination is taken as it is.
PlannedDestination(base, n) == n = 1

\* _unique_destination: the first free name, or the name of last resort.
UniqueDestination(base, n) ==
    /\ \A m \in 1 .. n - 1 : fs[<<base, m>>] # NoFile
    /\ n <= MaxSlot => fs[<<base, n>>] = NoFile

Choose(r) ==
    LET base == Head(todo[r]).base
    IN  /\ pc[r] = "apply" /\ todo[r] # <<>>
        /\ ~Skipped(r, Head(todo[r]))
        /\ \E n \in 1 .. MaxSlot + 1 :
              UniqueDestination(base, n) /\ dest' = [dest EXCEPT ![r] = <<base, n>>]
        /\ pc' = [pc EXCEPT ![r] = "move"]
        /\ UNCHANGED <<fs, journal, torn, on, todo, approved, history>>

\* Does a record of another run name the source or the destination?
Crosses(r) ==
    \E u \in Runs \ {on[r]} : \E k \in DOMAIN journal[u] :
        journal[u][k].to = Head(todo[r]).source \/ journal[u][k].from = dest[r]

\* The file is moved ...
Move(r) ==
    LET source == Head(todo[r]).source
    IN  /\ pc[r] = "move"
        /\ fs[source] # NoFile
        /\ MoveFile(source, dest[r])
        /\ origin' = [origin EXCEPT ![fs[source]] = source]
        /\ pc' = [pc EXCEPT ![r] = "record"]
        /\ crossed' = (crossed \/ Crosses(r))
        /\ UNCHANGED <<journal, torn, on, todo, approved, dest>>
        /\ UNCHANGED <<removed, overlap, passes, crashes>>

\* ... or is gone by now, and the action fails.
MoveFails(r) ==
    /\ pc[r] = "move"
    /\ fs[Head(todo[r]).source] = NoFile
    /\ Advance(r, "apply")
    /\ UNCHANGED <<fs, journal, torn, dest, history>>

\* Faulty variant: the record says where the file went, not how to get it back.
ForwardRecord(r) == [from |-> Head(todo[r]).source, to |-> dest[r]]

\* Faulty variant: the record names the planned destination.
PlannedRecord(r) == [from |-> <<Head(todo[r]).base, 1>>, to |-> Head(todo[r]).source]

\* LocalFsAdapter.apply: the record names the destination the file really has.
NewRecord(r) == [from |-> dest[r], to |-> Head(todo[r]).source]

\* The record is written and synced. After a partial line it completes that line
\* instead, and no reader can parse either.
Record(r) ==
    /\ pc[r] = "record"
    /\ journal' = IF torn[on[r]] THEN journal
                  ELSE [journal EXCEPT ![on[r]] = Append(@, NewRecord(r))]
    /\ torn' = [torn EXCEPT ![on[r]] = FALSE]
    /\ Advance(r, "apply")
    /\ UNCHANGED <<fs, dest, history>>

-----------------------------------------------------------------------------
(* Undoing *)

\* Faulty variant: the records are taken in the order of the journal.
StartUndoOldestFirst(r, u) ==
    journal[u] # <<>> /\ Begin(r, u, "undo", journal[u], FALSE)

\* cmd_undo: all records, newest first; the journal itself is left as it is.
StartUndo(r, u) == journal[u] # <<>> /\ Begin(r, u, "undo", Reverse(journal[u]), FALSE)

UndoMove(r) ==
    /\ pc[r] = "undo" /\ todo[r] # <<>>
    /\ fs[Head(todo[r]).from] # NoFile
    /\ MoveFile(Head(todo[r]).from, Head(todo[r]).to)
    /\ Advance(r, "undo")
    /\ UNCHANGED <<journal, torn, dest, origin, removed, overlap, crossed, passes, crashes>>

\* The runner is idle again.
Stop(r) ==
    /\ pc' = [pc EXCEPT ![r] = "idle"] /\ on' = [on EXCEPT ![r] = NoRun]
    /\ todo' = [todo EXCEPT ![r] = <<>>]
    /\ approved' = [approved EXCEPT ![r] = FALSE]

\* LocalFsAdapter.undo raises when the file is not where the record says, and
\* nothing catches it: the older records are not reached.
UndoRaises(r) ==
    /\ pc[r] = "undo" /\ todo[r] # <<>>
    /\ fs[Head(todo[r]).from] = NoFile
    /\ Stop(r)
    /\ UNCHANGED <<fs, journal, torn, dest, history>>

\* A pass has worked through its list.
End(r) ==
    /\ pc[r] \in {"apply", "undo"} /\ todo[r] = <<>>
    /\ Stop(r)
    /\ UNCHANGED <<fs, journal, torn, dest, history>>

-----------------------------------------------------------------------------
(* Around the runners *)

\* A runner dies, perhaps in the middle of the line it is writing.
Crash(r) ==
    /\ pc[r] # "idle"
    /\ crashes < MaxCrashes /\ crashes' = crashes + 1
    /\ Stop(r)
    /\ \/ torn' = torn
       \/ pc[r] = "record" /\ torn' = [torn EXCEPT ![on[r]] = TRUE]
    /\ UNCHANGED <<fs, journal, dest, origin, lost, removed, overlap, crossed, passes>>

InHand == {r \in Runners : pc[r] = "record"}

\* The names of quarantine in a run's records and in those about to be written.
Claimed ==
    {p \in Slots : \/ \E u \in Runs : \E k \in DOMAIN journal[u] : journal[u][k].from = p
                  \/ \E r \in InHand : dest[r] = p}

\* The user saves a new file where there is none, at home or in quarantine.
UserCreates(p) ==
    /\ fs[p] = NoFile
    /\ \E f \in Fresh \ (Present(fs) \cup lost \cup removed) : fs' = [fs EXCEPT ![p] = f]
    /\ crossed' = (crossed \/ p \in Claimed)
    /\ UNCHANGED <<journal, torn, pc, on, todo, approved, dest>>
    /\ UNCHANGED <<origin, lost, removed, overlap, passes, crashes>>

\* The user removes a file at home, or from quarantine for good.
UserRemoves(p) ==
    /\ fs[p] # NoFile
    /\ Cardinality(removed) < MaxRemoved
    /\ removed' = removed \cup {fs[p]}
    /\ fs' = [fs EXCEPT ![p] = NoFile]
    /\ UNCHANGED <<journal, torn, pc, on, todo, approved, dest>>
    /\ UNCHANGED <<origin, lost, overlap, crossed, passes, crashes>>

Next ==
    \/ \E r \in Runners :
          \/ \E u \in Runs : StartApply(r, u) \/ StartUndo(r, u)
          \/ Skip(r) \/ Choose(r) \/ Move(r) \/ MoveFails(r) \/ Record(r)
          \/ UndoMove(r) \/ UndoRaises(r) \/ End(r) \/ Crash(r)
    \/ \E p \in Paths : UserCreates(p) \/ UserRemoves(p)

Spec == Init /\ [][Next]_vars

-----------------------------------------------------------------------------
(* Properties *)

\* Every variable holds a value of its type, and a runner in the middle of an
\* action has that action at the head of its list.
TypeOK ==
    /\ fs \in [Paths -> Files \cup {NoFile}]
    /\ journal \in [Runs -> Seq(UndoRecord)] /\ torn \in [Runs -> BOOLEAN]
    /\ pc \in [Runners -> {"idle", "apply", "move", "record", "undo"}]
    /\ on \in [Runners -> Runs \cup {NoRun}]
    /\ \A r \in Runners :
          /\ todo[r] \in IF pc[r] = "undo" THEN Seq(UndoRecord) ELSE Seq(Action)
          /\ pc[r] \in {"move", "record"} => todo[r] # <<>> /\ dest[r] \in Slots
          /\ IF pc[r] = "idle" THEN todo[r] = <<>> ELSE on[r] \in Runs
    /\ approved \in [Runners -> BOOLEAN]
    /\ dest \in [Runners -> Slots \cup {NoPath}]
    /\ origin \in [Files -> Sources \cup {NoPath}]
    /\ lost \subseteq Files /\ removed \subseteq Files
    /\ overlap \in BOOLEAN /\ crossed \in BOOLEAN
    /\ passes \in 0 .. MaxPasses /\ crashes \in 0 .. MaxCrashes

\* The files that were moved to where they lie in quarantine, and that no record of
\* any run leads home.
Stranded ==
    {f \in Files : \E p \in Slots :
        /\ fs[p] = f /\ origin[f] # NoPath
        /\ ~\E u \in Runs : \E k \in DOMAIN journal[u] :
               journal[u][k] = [from |-> p, to |-> origin[f]]}

\* With any number of runners at once, a crash costs at most two files their way
\* back: the one moved and not recorded, and the one whose record completes the
\* partial line (apply_actions, load_undo_records).
TrailKept == Cardinality(Stranded) <= 2 * crashes + Cardinality(InHand)

\* Runners take turns, and no path of a run's records has been used by anyone else.
Orderly == ~overlap /\ ~crossed

\* In an orderly history without a crash no file is ever replaced by another, except
\* one that the user created since (by the undo of an older one).
NothingReplaced == Orderly /\ crashes = 0 => lost \subseteq Fresh

\* In an orderly history without a crash, an undo pass that works through its list
\* leaves every file the run was about where it was before the first apply, whatever
\* the user has created since, unless the user has removed one of the old files.
UndoRestores ==
    [][\A r \in Runners :
          /\ pc[r] = "undo" /\ todo[r] = <<>> /\ pc'[r] = "idle"
          /\ Orderly /\ crashes' = 0 /\ removed \subseteq Fresh
          => \A k \in DOMAIN journal[on[r]] :
                fs[journal[on[r]][k].to] = journal[on[r]][k].to]_vars

=============================================================================
