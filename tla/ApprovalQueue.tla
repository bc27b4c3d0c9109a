--------------------------- MODULE ApprovalQueue ---------------------------
(***************************************************************************)
(* The approval queue of approval_queue.py: agents append the actions they *)
(* want to take to one JSON-lines file, reviewers approve or reject them   *)
(* and an approved entry's handler runs.  Agents and reviewers are         *)
(* separate processes (a cron job, the REPL, the command line) that share  *)
(* nothing but files, and the code takes no lock: every read, open, write  *)
(* of a part and rename is a step of its own here.                         *)
(*                                                                         *)
(* Granularity: reading a file, and rewriting the view, is one step.  What *)
(* is written to the store and to the temporary file goes out in parts, so *)
(* that a file may end in the middle of a line; a line that is cut, or     *)
(* mixed with another, cannot be parsed and is skipped by every reader (a  *)
(* line cut just before its line break counts as cut).  A file is the      *)
(* lines that can be parsed.                                               *)
(*                                                                         *)
(* An id is a time stamp and a suffix, 0 for the bare stamp and            *)
(* MaxSuffix + 1 for the shared "-xx".  Stamps are not ordered: the code   *)
(* takes them from the local wall clock, which may step back.              *)
(***************************************************************************)
EXTENDS Naturals, FiniteSets, Sequences

CONSTANTS
    Agents,      \* processes that call queue()
    Reviewers,   \* processes that call approve() and reject()
    Uids,        \* one per call of queue(): what the entry asks for
    Stamps,      \* seconds in which calls happen
    MaxSuffix,   \* the last numeric suffix _next_id tries (99 in the code)
    MaxCommands, \* bound: reviewers' commands
    MaxCrashes,  \* bound: processes killed in the middle of a call
    NoId, NoFile, NoEntry

ASSUME ApprovalAssumption ==
    /\ Agents \cap Reviewers = {}
    /\ MaxSuffix \in Nat /\ MaxCommands \in Nat /\ MaxCrashes \in Nat
    /\ {"whole", "cut"} \cap (Agents \cup Reviewers) = {}
    /\ NoId \notin Stamps \X (0 .. MaxSuffix + 1)

VARIABLES
    file,     \* .pending_actions.jsonl, the canonical store
    tmp,      \* .pending_actions.jsonl.tmp, one name for every writer
    ends,     \* how a file ends: whole, cut off in a line, or in what a process is writing
    handle,   \* the file that a process writes: a rename may have taken it to the store's
              \* place, or put another file in its own
    view,     \* pending_actions.md, as the entries it was rendered from
    pc,       \* where each process is
    snap,     \* the entries a process read last
    cur,      \* the entry a process is queueing or deciding
    want,     \* the decision a reviewer is carrying out
    todo,     \* the entries an "approve all" still has to visit
    \* The rest is history, which no guard reads.
    idOf,     \* the id each queue() call chose
    runs,     \* how often each entry's handler was invoked
    ran,      \* the ids for which a handler returned normally
    acked,    \* the entries whose queue() call has returned
    split,    \* an agent wrote a line while another was in the middle of its own
    met,      \* which kinds of process have been in a call at the same time
    commands, crashes

history == <<idOf, runs, ran, acked, split, met, commands, crashes>>
vars == <<file, tmp, ends, handle, view, pc, snap, cur, want, todo, history>>

-----------------------------------------------------------------------------
Procs == Agents \cup Reviewers
Ids == Stamps \X (0 .. MaxSuffix + 1)
Terminal == {"RAN", "REJECTED", "FAILED", "APPROVED_NO_HANDLER"}
Status == {"PENDING"} \cup Terminal
Entry == [uid : Uids, id : Ids, status : Status]
Key == [uid : Uids, id : Ids]
Store == Seq(Entry)

ASSUME NoFileAssumption == NoFile \notin Store

Kind(p) == IF p \in Agents THEN "agent" ELSE "reviewer"

\* The kinds that are in a call together once p enters one.
Meets(p) == {{Kind(p), Kind(q)} : q \in {q \in Procs \ {p} : pc[q] # "idle"}}

Init ==
    /\ file = <<>> /\ tmp = NoFile /\ view = <<>>
    /\ ends = [f \in {"store", "tmp"} |-> "whole"]
    /\ handle = [p \in Procs |-> "none"]
    /\ pc = [p \in Procs |-> "idle"]
    /\ snap = [p \in Procs |-> <<>>]
    /\ cur = [p \in Procs |-> NoEntry]
    /\ want = [r \in Reviewers |-> "approve"]
    /\ todo = [r \in Reviewers |-> <<>>]
    /\ idOf = [u \in Uids |-> NoId]
    /\ runs = [u \in Uids |-> 0]
    /\ ran = {} /\ acked = {} /\ split = FALSE /\ met = {} /\ commands = 0 /\ crashes = 0

-----------------------------------------------------------------------------
(* queue() *)

\* Faulty variant: the suffix is never bumped.
SuffixAlwaysBare(taken, now, n) == n = 0

\* n is the suffix _next_id picks: the first free one, else the shared "-xx".
NextSuffix(taken, now, n) ==
    /\ \A m \in 0 .. MaxSuffix : m < n => <<now, m>> \in taken
    /\ n <= MaxSuffix => <<now, n>> \notin taken

\* queue(): read the ids in use and choose the new entry's.
QueueRead(a) ==
    /\ pc[a] = "idle"
    /\ \E u \in Uids, now \in Stamps, n \in 0 .. MaxSuffix + 1 :
          /\ idOf[u] = NoId
          /\ NextSuffix({file[k].id : k \in DOMAIN file}, now, n)
          /\ cur' = [cur EXCEPT ![a] = [uid |-> u, id |-> <<now, n>>]]
          /\ idOf' = [idOf EXCEPT ![u] = <<now, n>>]
    /\ pc' = [pc EXCEPT ![a] = "append"]
    /\ met' = met \cup Meets(a)
    /\ UNCHANGED <<file, tmp, ends, handle, view, snap, want, todo,
                   runs, ran, acked, split, commands, crashes>>

NewEntry(a) == [uid |-> cur[a].uid, id |-> cur[a].id, status |-> "PENDING"]

\* Agent a writes to the store while another is in the middle of its line.
Splits(a) == split \/ \E b \in Agents \ {a} : pc[b] = "rest" /\ handle[b] = "store"

\* queue(): open the store to append, and perhaps get a part of the line out.
AppendOpen(a) ==
    /\ pc[a] = "append"
    /\ handle' = [handle EXCEPT ![a] = "store"]
    /\ \/ pc' = [pc EXCEPT ![a] = "write"] /\ UNCHANGED <<ends, split>>
       \/ /\ pc' = [pc EXCEPT ![a] = "rest"]
          /\ ends' = [ends EXCEPT !["store"] = IF @ = "whole" THEN a ELSE "cut"]
          /\ split' = Splits(a)
    /\ UNCHANGED <<file, tmp, view, snap, cur, want, todo,
                   idOf, runs, ran, acked, met, commands, crashes>>

\* The end of the store at which the line that a completes can be read.
FitEnd(a) == IF pc[a] = "rest" THEN a ELSE "whole"

\* Faulty variant: the file is opened with "w".
QueueAppendTruncating(a) ==
    /\ pc[a] \in {"write", "rest"}
    /\ file' = <<NewEntry(a)>>
    /\ pc' = [pc EXCEPT ![a] = "renderRead"]
    /\ ends' = [ends EXCEPT !["store"] = "whole"]
    /\ handle' = [handle EXCEPT ![a] = "none"]
    /\ UNCHANGED <<tmp, view, snap, cur, want, todo, history>>

\* The rest of the PENDING line goes to the end of what the file holds by now, if it is
\* the store still.
QueueAppend(a) ==
    /\ pc[a] \in {"write", "rest"}
    /\ IF handle[a] = "store"
       THEN /\ file' = IF ends["store"] = FitEnd(a) THEN Append(file, NewEntry(a)) ELSE file
            /\ ends' = [ends EXCEPT !["store"] = "whole"] /\ split' = Splits(a)
       ELSE UNCHANGED <<file, ends, split>>
    /\ pc' = [pc EXCEPT ![a] = "renderRead"] /\ handle' = [handle EXCEPT ![a] = "none"]
    /\ UNCHANGED <<tmp, view, snap, cur, want, todo,
                   idOf, runs, ran, acked, met, commands, crashes>>

-----------------------------------------------------------------------------
(* approve() and reject() *)

\* A reviewer names one entry, whatever its status, or approves them all: "all"
\* lists the file once and visits the entries listed as pending.
Command(r) ==
    /\ pc[r] = "idle"
    /\ \E w \in {"approve", "reject"} : want' = [want EXCEPT ![r] = w]
    /\ \/ \E k \in DOMAIN file :
             todo' = [todo EXCEPT ![r] = <<[file[k] EXCEPT !.status = "PENDING"]>>]
       \/ want'[r] = "approve" /\ todo' = [todo EXCEPT ![r] = file]
    /\ todo'[r] # <<>>
    /\ commands < MaxCommands /\ commands' = commands + 1
    /\ pc' = [pc EXCEPT ![r] = "get"]
    /\ met' = met \cup Meets(r)
    /\ UNCHANGED <<file, tmp, ends, handle, view, snap, cur, idOf, runs, ran, acked,
                   split, crashes>>

\* file[k] is the entry get(i) returns: the first with that id.
IsFirst(k, i) == file[k].id = i /\ \A j \in 1 .. k - 1 : file[j].id # i

\* Done with an entry: on to the next one of an "approve all", or return.
Proceed(r) ==
    /\ pc' = [pc EXCEPT ![r] = IF todo'[r] = <<>> THEN "idle" ELSE "get"]
    /\ cur' = [cur EXCEPT ![r] = NoEntry]
    /\ want' = [want EXCEPT ![r] = "approve"]

\* The entry get() found is taken on: reject marks it; approve runs the handler
\* if this process has one for its type (each process loads its own set, and a
\* failed import only warns) and marks it APPROVED_NO_HANDLER otherwise.
TakeOn(r, k) ==
    /\ cur' = [cur EXCEPT ![r] = [uid |-> file[k].uid, id |-> file[k].id]]
    /\ \/ /\ want[r] = "approve"
          /\ pc' = [pc EXCEPT ![r] = "handler"]
          /\ want' = want
       \/ /\ want[r] = "approve"
          /\ pc' = [pc EXCEPT ![r] = "update"]
          /\ want' = [want EXCEPT ![r] = "APPROVED_NO_HANDLER"]
       \/ /\ want[r] = "reject"
          /\ pc' = [pc EXCEPT ![r] = "update"]
          /\ want' = [want EXCEPT ![r] = "REJECTED"]

\* Faulty variant: the status check is dropped.
NeverPendingCheck(e) == TRUE

\* approve() and reject() give up on an entry that has been decided already.
StillPending(e) == e.status = "PENDING"

\* approve()/reject() up to the early returns: re-read the file, find the first
\* entry with the id, and give up unless it is there and still pending.
Get(r) ==
    /\ pc[r] = "get"
    /\ todo' = [todo EXCEPT ![r] = Tail(todo[r])]
    /\ LET open == {k \in DOMAIN file : /\ IsFirst(k, Head(todo[r]).id)
                                        /\ StillPending(file[k])}
       IN  IF Head(todo[r]).status = "PENDING" /\ open # {}
           THEN \E k \in open : TakeOn(r, k)
           ELSE Proceed(r)
    /\ UNCHANGED <<file, tmp, ends, handle, view, snap, history>>

\* Faulty variant: a handler that raised is recorded like one that returned.
HandlerFailureAsRan(r) ==
    /\ pc[r] = "handler"
    /\ runs' = [runs EXCEPT ![cur[r].uid] = @ + 1]
    /\ \E ok \in BOOLEAN : ran' = IF ok THEN ran \cup {cur[r].id} ELSE ran
    /\ want' = [want EXCEPT ![r] = "RAN"]
    /\ pc' = [pc EXCEPT ![r] = "update"]
    /\ UNCHANGED <<file, tmp, ends, handle, view, snap, cur, todo, idOf, acked, split,
                   met, commands, crashes>>

\* The handler acts on the system and returns, or raises.
Handler(r) ==
    /\ pc[r] = "handler"
    /\ runs' = [runs EXCEPT ![cur[r].uid] = @ + 1]
    /\ \/ /\ ran' = ran \cup {cur[r].id}
          /\ want' = [want EXCEPT ![r] = "RAN"]
       \/ /\ ran' = ran
          /\ want' = [want EXCEPT ![r] = "FAILED"]
    /\ pc' = [pc EXCEPT ![r] = "update"]
    /\ UNCHANGED <<file, tmp, ends, handle, view, snap, cur, todo, idOf, acked, split,
                   met, commands, crashes>>

\* Faulty variant: the id is not compared.
MarkedAll(f, i, status) ==
    [k \in DOMAIN f |-> [f[k] EXCEPT !.status = status]]

\* _update(): every entry with the id gets the status.
Marked(f, i, status) ==
    [k \in DOMAIN f |-> IF f[k].id = i THEN [f[k] EXCEPT !.status = status] ELSE f[k]]

\* _update(): the file is read afresh.
UpdateRead(r) ==
    /\ pc[r] = "update"
    /\ snap' = [snap EXCEPT ![r] = Marked(file, cur[r].id, want[r])]
    /\ pc' = [pc EXCEPT ![r] = "openTmp"]
    /\ UNCHANGED <<file, tmp, ends, handle, view, cur, want, todo, history>>

\* _write_all(): the temporary file is opened, and emptied, ...
OpenTmp(r) ==
    /\ pc[r] = "openTmp"
    /\ tmp' = <<>> /\ ends' = [ends EXCEPT !["tmp"] = r]
    /\ handle' = [handle EXCEPT ![r] = "tmp"]
    /\ pc' = [pc EXCEPT ![r] = "writeTmp"]
    /\ UNCHANGED <<file, view, snap, cur, want, todo, history>>

\* The first p lines of a file, or all if it has fewer.
UpTo(f, p) == SubSeq(f, 1, IF p < Len(f) THEN p ELSE Len(f))

\* The lines of a file up to where this process was, then those that it still had to
\* write, then what lies behind them; a line where two meet may be broken.
Spliced(old, lines, p, j, k) ==
    UpTo(old, p) \o SubSeq(lines, p + j, Len(lines)) \o SubSeq(old, Len(lines) + k, Len(old))

\* What may be read in a file that another process has emptied or written to meanwhile,
\* lines taken as equally long.
Mixed(old, lines) ==
    {Spliced(old, lines, p, j, k) : p \in 0 .. Len(lines), j \in 1 .. 2, k \in 1 .. 2}

\* Reviewer r has written the first n lines of its list.
Put(r, n, end) ==
    LET f == handle[r]
        old == IF f = "tmp" THEN tmp ELSE file
    IN  IF f = "gone" THEN UNCHANGED <<file, tmp, ends>>
        ELSE \E new \in IF ends[f] = r THEN {SubSeq(snap[r], 1, n)}
                        ELSE Mixed(old, SubSeq(snap[r], 1, n)) :
                /\ IF f = "tmp" THEN tmp' = new /\ UNCHANGED file
                                ELSE file' = new /\ UNCHANGED tmp
                /\ \E e \in IF ends[f] = r THEN {end} ELSE {"whole", "cut"} :
                       ends' = [ends EXCEPT ![f] = e]

\* ... lines go out as the buffer fills, ...
FlushPart(r) ==
    /\ pc[r] = "writeTmp"
    /\ \E n \in 0 .. Len(snap[r]) - 1 : Put(r, n, r)
    /\ UNCHANGED <<handle, view, pc, snap, cur, want, todo, history>>

\* ... and all of them by the time it is closed; ...
WriteTmp(r) ==
    /\ pc[r] = "writeTmp"
    /\ Put(r, Len(snap[r]), "whole")
    /\ handle' = [handle EXCEPT ![r] = "none"]
    /\ snap' = [snap EXCEPT ![r] = <<>>]
    /\ pc' = [pc EXCEPT ![r] = "rename"]
    /\ UNCHANGED <<view, cur, want, todo, history>>

\* The temporary file takes the store's place under the processes that have one open.
Moved(h) ==
    [p \in Procs |-> CASE h[p] = "tmp" -> "store" [] h[p] = "store" -> "gone" [] OTHER -> h[p]]

\* Faulty variant: the rename never fails.
RenameBlindly(r) ==
    /\ pc[r] = "rename"
    /\ file' = tmp /\ tmp' = NoFile
    /\ ends' = [ends EXCEPT !["store"] = ends["tmp"], !["tmp"] = "whole"]
    /\ handle' = Moved(handle)
    /\ pc' = [pc EXCEPT ![r] = "renderRead"]
    /\ UNCHANGED <<view, snap, cur, want, todo, history>>

\* ... then it, whoever has written to it, replaces the store.
Rename(r) ==
    /\ pc[r] = "rename"
    /\ tmp # NoFile
    /\ file' = tmp /\ tmp' = NoFile
    /\ ends' = [ends EXCEPT !["store"] = ends["tmp"], !["tmp"] = "whole"]
    /\ handle' = Moved(handle)
    /\ pc' = [pc EXCEPT ![r] = "renderRead"]
    /\ UNCHANGED <<view, snap, cur, want, todo, history>>

\* Another writer has renamed the shared temporary file away: replace() raises.
\* approve()'s except clause then records FAILED for a handler that returned;
\* anywhere else the error ends the command.
RenameMissing(r) ==
    /\ pc[r] = "rename"
    /\ tmp = NoFile
    /\ IF want[r] = "RAN"
       THEN /\ want' = [want EXCEPT ![r] = "FAILED"]
            /\ pc' = [pc EXCEPT ![r] = "update"]
            /\ UNCHANGED <<cur, todo>>
       ELSE /\ todo' = [todo EXCEPT ![r] = <<>>]
            /\ Proceed(r)
    /\ UNCHANGED <<file, tmp, ends, handle, view, snap, history>>

-----------------------------------------------------------------------------
(* render_md(), the last thing queue() and _update() do *)

RenderRead(p) ==
    /\ pc[p] = "renderRead"
    /\ snap' = [snap EXCEPT ![p] = file]
    /\ pc' = [pc EXCEPT ![p] = "renderWrite"]
    /\ UNCHANGED <<file, tmp, ends, handle, view, cur, want, todo, history>>

RenderWrite(p) ==
    /\ pc[p] = "renderWrite"
    /\ view' = snap[p]
    /\ snap' = [snap EXCEPT ![p] = <<>>]
    /\ UNCHANGED <<file, tmp, ends, handle, todo, idOf, runs, ran, split, met,
                   commands, crashes>>
    /\ \/ /\ p \in Agents
          /\ pc' = [pc EXCEPT ![p] = "idle"]
          /\ cur' = [cur EXCEPT ![p] = NoEntry]
          /\ acked' = acked \cup {cur[p].uid}
          /\ UNCHANGED want
       \/ p \in Reviewers /\ UNCHANGED acked /\ Proceed(p)

\* The command `render`: the same, on its own.
Render(r) ==
    /\ pc[r] = "idle"
    /\ commands < MaxCommands /\ commands' = commands + 1
    /\ pc' = [pc EXCEPT ![r] = "renderRead"]
    /\ met' = met \cup Meets(r)
    /\ UNCHANGED <<file, tmp, ends, handle, view, snap, cur, want, todo, idOf, runs,
                   ran, acked, split, crashes>>

-----------------------------------------------------------------------------
\* A process dies in the middle of a call; what it wrote stays, the rest is lost.
Crash(p) ==
    /\ pc[p] # "idle"
    /\ crashes < MaxCrashes
    /\ crashes' = crashes + 1
    /\ pc' = [pc EXCEPT ![p] = "idle"]
    /\ snap' = [snap EXCEPT ![p] = <<>>]
    /\ cur' = [cur EXCEPT ![p] = NoEntry]
    /\ want' = [r \in Reviewers |-> IF r = p THEN "approve" ELSE want[r]]
    /\ todo' = [r \in Reviewers |-> IF r = p THEN <<>> ELSE todo[r]]
    /\ ends' = [f \in {"store", "tmp"} |-> IF ends[f] = p THEN "cut" ELSE ends[f]]
    /\ handle' = [handle EXCEPT ![p] = "none"]
    /\ UNCHANGED <<file, tmp, view, idOf, runs, ran, acked, split, met, commands>>

AgentNext(a) == QueueRead(a) \/ AppendOpen(a) \/ QueueAppend(a)

ReviewerNext(r) ==
    \/ Command(r) \/ Get(r) \/ Handler(r) \/ Render(r)
    \/ UpdateRead(r) \/ OpenTmp(r) \/ FlushPart(r) \/ WriteTmp(r)
    \/ Rename(r) \/ RenameMissing(r)

Next ==
    \/ \E a \in Agents : AgentNext(a)
    \/ \E r \in Reviewers : ReviewerNext(r)
    \/ \E p \in Procs : RenderRead(p) \/ RenderWrite(p) \/ Crash(p)

Spec == Init /\ [][Next]_vars

-----------------------------------------------------------------------------
(* Properties *)

AgentPc == {"idle", "append", "write", "rest", "renderRead", "renderWrite"}
ReviewerPc == {"idle", "get", "handler", "update", "openTmp", "writeTmp", "rename",
               "renderRead", "renderWrite"}

\* Every variable holds a value of its type.
TypeOK ==
    /\ file \in Store /\ tmp \in Store \cup {NoFile} /\ view \in Store
    /\ ends \in [{"store", "tmp"} -> {"whole", "cut"} \cup Procs]
    /\ handle \in [Procs -> {"none", "store", "tmp", "gone"}]
    /\ pc \in [Procs -> AgentPc \cup ReviewerPc]
    /\ \A a \in Agents : pc[a] \in AgentPc
    /\ \A r \in Reviewers : pc[r] \in ReviewerPc
    /\ snap \in [Procs -> Store]
    /\ cur \in [Procs -> Key \cup {NoEntry}]
    /\ want \in [Reviewers -> {"approve", "reject"} \cup Terminal]
    /\ todo \in [Reviewers -> Store]
    /\ idOf \in [Uids -> Ids \cup {NoId}]
    /\ runs \in [Uids -> Nat]
    /\ ran \subseteq Ids /\ acked \subseteq Uids /\ split \in BOOLEAN
    /\ met \subseteq SUBSET {"agent", "reviewer"}
    /\ commands \in 0 .. MaxCommands /\ crashes \in 0 .. MaxCrashes

\* Whatever overlaps and crashes, an entry the store or the human view shows as
\* RAN has an id for which a handler really returned: no approval is reported
\* as carried out when the handler was missing, raised or never started
\* (approve(), and every copy _update and render_md make of the list).
RanIsTrue ==
    \A f \in {file, view} : \A k \in DOMAIN f : f[k].status = "RAN" => f[k].id \in ran

\* As long as no two reviewers have been in a call at once, an entry's handler
\* runs at most once, and once more for each process killed in mid-call
\* (between the handler and the _update that records it).
HandlerOncePerCrash ==
    {"reviewer"} \notin met => \A u \in Uids : runs[u] <= 1 + crashes

\* As long as no two reviewers have been in a call at once, no step takes an
\* entry of the store from one decision to another or back to PENDING,
\* however many agents append meanwhile.
DecisionsStick ==
    [][{"reviewer"} \notin met' =>
         \A k \in DOMAIN file : file[k].status # "PENDING" =>
            \E j \in DOMAIN file' : file'[j] = file[k]]_vars

\* As long as no two reviewers, and no agent and reviewer, have been in a call at once
\* and no agent has written into another's line, each process killed in mid-call costs
\* one request at most of those whose queue() call returned (the next line is glued to
\* the one that it left cut); the others are in the store, decided or not.
NoLostEntry ==
    ~split /\ {"agent", "reviewer"} \notin met /\ {"reviewer"} \notin met =>
        Cardinality({u \in acked : \A k \in DOMAIN file : file[k].uid # u}) <= crashes

=============================================================================
