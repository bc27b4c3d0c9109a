------------------------ MODULE ApprovalQueueProofs ------------------------
(***************************************************************************)
(* Proofs about the approval queue, for every set of agents, reviewers and *)
(* requests.                                                               *)
(***************************************************************************)
EXTENDS ApprovalQueue, SequenceTheorems, FiniteSetTheorems, TLAPS

-----------------------------------------------------------------------------
(* Lemmas about the operators *)

\* _update keeps the list's length and its entries' uids and ids, and changes
\* the status of the entries with the given id only.
LEMMA MarkedProperties ==
    ASSUME NEW f \in Store, NEW i, NEW s \in Status
    PROVE  /\ Marked(f, i, s) \in Store
           /\ DOMAIN Marked(f, i, s) = DOMAIN f
           /\ \A k \in DOMAIN f :
                 /\ Marked(f, i, s)[k].uid = f[k].uid
                 /\ Marked(f, i, s)[k].id = f[k].id
                 /\ Marked(f, i, s)[k].status = IF f[k].id = i THEN s ELSE f[k].status
<1>1. \A k \in DOMAIN f : f[k] \in Entry
  BY DEF Store
<1>2. \A k \in DOMAIN f : Marked(f, i, s)[k] \in Entry
  BY <1>1 DEF Marked, Entry, Status
<1>3. Marked(f, i, s) \in [1 .. Len(f) -> Entry]
  BY <1>2, LenProperties DEF Marked, Store
<1>4. Len(f) \in Nat
  BY LenProperties DEF Store
<1>5. Marked(f, i, s) \in Store
  BY <1>3, <1>4, SeqDef DEF Store
<1>6. QED
  BY <1>1, <1>5 DEF Marked, Entry

LEMMA StoreEntries ==
    ASSUME NEW f \in Store, NEW k \in DOMAIN f
    PROVE  /\ f[k] \in Entry
           /\ [uid |-> f[k].uid, id |-> f[k].id] \in Key
           /\ f[k].uid \in Uids /\ f[k].id \in Ids /\ f[k].status \in Status
<1>1. f[k] \in Entry
  BY DEF Store
<1>2. QED
  BY <1>1 DEF Entry, Key

LEMMA AppendStore ==
    ASSUME NEW f \in Store, NEW e \in Entry
    PROVE  /\ Append(f, e) \in Store
           /\ \A k \in DOMAIN Append(f, e) :
                 \/ k \in DOMAIN f /\ Append(f, e)[k] = f[k]
                 \/ Append(f, e)[k] = e
BY AppendProperties, LenProperties DEF Store

Elements(f) == {f[k] : k \in DOMAIN f}

\* A part of a list holds entries of the list.
LEMMA PartOfStore ==
    ASSUME NEW f \in Store, NEW m \in Nat \ {0}, NEW n \in 0 .. Len(f)
    PROVE  SubSeq(f, m, n) \in Store /\ Elements(SubSeq(f, m, n)) \subseteq Elements(f)
<1> DEFINE g == SubSeq(f, m, n)
<1>1. f \in Seq(Entry) /\ Len(f) \in Nat /\ DOMAIN f = 1 .. Len(f) /\ n \in Int /\ m \in Int
  BY LenProperties DEF Store
<1>2. \A i \in m .. n : i \in DOMAIN f /\ f[i] \in Entry
  BY <1>1
<1>3. /\ g \in Seq(Entry) /\ Len(g) = IF m <= n THEN n - m + 1 ELSE 0
      /\ \A i \in 1 .. n - m + 1 : g[i] = f[m + i - 1]
  BY <1>1, <1>2, SubSeqProperties
<1>4. DOMAIN g = 1 .. Len(g)
  BY <1>3, LenProperties
<1> HIDE DEF g
<1>5. ASSUME NEW k \in DOMAIN g PROVE g[k] \in Elements(f)
  <2>1. k \in 1 .. n - m + 1 /\ m + k - 1 \in m .. n
    BY <1>1, <1>3, <1>4
  <2>2. QED
    BY <1>2, <1>3, <2>1 DEF Elements
<1>6. Elements(g) \subseteq Elements(f)
  BY <1>5 DEF Elements
<1>7. QED
  BY <1>3, <1>6 DEF g, Store

LEMMA JoinedStore ==
    ASSUME NEW f \in Store, NEW g \in Store
    PROVE  f \o g \in Store /\ Elements(f \o g) \subseteq Elements(f) \cup Elements(g)
<1> DEFINE h == f \o g
<1>1. /\ h \in Seq(Entry) /\ Len(h) = Len(f) + Len(g) /\ Len(f) \in Nat /\ Len(g) \in Nat
      /\ \A i \in 1 .. Len(f) + Len(g) : h[i] = IF i <= Len(f) THEN f[i] ELSE g[i - Len(f)]
      /\ DOMAIN f = 1 .. Len(f) /\ DOMAIN g = 1 .. Len(g)
  BY ConcatProperties, LenProperties DEF Store
<1>2. DOMAIN h = 1 .. Len(h)
  BY <1>1, LenProperties
<1> HIDE DEF h
<1>3. ASSUME NEW k \in DOMAIN h PROVE h[k] \in Elements(f) \cup Elements(g)
  <2>1. CASE k <= Len(f)
    <3>1. k \in DOMAIN f /\ h[k] = f[k]
      BY <1>1, <1>2, <2>1
    <3>2. QED
      BY <3>1 DEF Elements
  <2>2. CASE ~(k <= Len(f))
    <3>1. k - Len(f) \in DOMAIN g /\ h[k] = g[k - Len(f)]
      BY <1>1, <1>2, <2>2
    <3>2. QED
      BY <3>1 DEF Elements
  <2>3. QED
    BY <2>1, <2>2
<1>4. Elements(h) \subseteq Elements(f) \cup Elements(g)
  BY <1>3 DEF Elements
<1>5. QED
  BY <1>1, <1>4 DEF h, Store

\* However two processes' writes mix, what can be read was written by one of them.
LEMMA MixedStore ==
    ASSUME NEW old \in Store, NEW lines \in Store, NEW new \in Mixed(old, lines)
    PROVE  new \in Store /\ Elements(new) \subseteq Elements(old) \cup Elements(lines)
<1>1. Len(old) \in Nat /\ Len(lines) \in Nat
  BY LenProperties DEF Store
<1>2. PICK p \in 0 .. Len(lines), j \in 1 .. 2, k \in 1 .. 2 : new = Spliced(old, lines, p, j, k)
  BY DEF Mixed
<1> DEFINE i == IF p < Len(old) THEN p ELSE Len(old)
           a == SubSeq(old, 1, i)
           b == SubSeq(lines, p + j, Len(lines))
           c == SubSeq(old, Len(lines) + k, Len(old))
<1>3. /\ 1 \in Nat \ {0} /\ i \in 0 .. Len(old)
      /\ p + j \in Nat \ {0} /\ Len(lines) \in 0 .. Len(lines)
      /\ Len(lines) + k \in Nat \ {0} /\ Len(old) \in 0 .. Len(old)
  BY <1>1
<1> HIDE DEF i
<1>4. a \in Store /\ Elements(a) \subseteq Elements(old)
  BY <1>3, PartOfStore
<1>5. b \in Store /\ Elements(b) \subseteq Elements(lines)
  BY <1>3, PartOfStore
<1>6. c \in Store /\ Elements(c) \subseteq Elements(old)
  BY <1>3, PartOfStore
<1>7. new = (a \o b) \o c
  BY <1>2 DEF i, UpTo, Spliced
<1> HIDE DEF a, b, c
<1>8. a \o b \in Store /\ Elements(a \o b) \subseteq Elements(a) \cup Elements(b)
  BY <1>4, <1>5, JoinedStore
<1>9. new \in Store /\ Elements(new) \subseteq Elements(a \o b) \cup Elements(c)
  BY <1>6, <1>7, <1>8, JoinedStore
<1>10. QED
  BY <1>4, <1>5, <1>6, <1>8, <1>9

-----------------------------------------------------------------------------
(* Type correctness *)

\* An agent in a call is at an entry; so is a reviewer between get and render.
AtEntry(p) ==
    /\ pc[p] \notin {"idle", "get"}
    /\ p \in Reviewers => pc[p] \notin {"renderRead", "renderWrite"}

\* What the control state tells of the local variables.
ControlOK ==
    /\ \A p \in Procs : AtEntry(p) => cur[p] \in Key
    /\ \A r \in Reviewers :
          /\ pc[r] = "get" => todo[r] # <<>>
          /\ pc[r] \in {"update", "openTmp", "writeTmp", "rename"} => want[r] \in Terminal
          /\ pc[r] = "handler" => want[r] = "approve"
          /\ pc[r] = "writeTmp" => handle[r] # "none"
    /\ \A p \in Procs : handle[p] = "tmp" => tmp # NoFile

TInv == TypeOK /\ ControlOK

LEMMA ProcsDistinct ==
    /\ \A a \in Agents : a \in Procs /\ a \notin Reviewers
    /\ \A r \in Reviewers : r \in Procs /\ r \notin Agents
    /\ \A p \in Procs : p \in Agents \/ p \in Reviewers
BY ApprovalAssumption DEF Procs

\* What a reviewer's write makes of the files.
LEMMA PutProperties ==
    ASSUME TInv, NEW r \in Reviewers, pc[r] = "writeTmp", NEW n \in 0 .. Len(snap[r]),
           NEW end \in {"whole", r}, Put(r, n, end)
    PROVE  /\ file' \in Store /\ Elements(file') \subseteq Elements(file) \cup Elements(snap[r])
           /\ tmp' \in Store \cup {NoFile} /\ (tmp = NoFile <=> tmp' = NoFile)
           /\ tmp' # NoFile => Elements(tmp') \subseteq Elements(tmp) \cup Elements(snap[r])
           /\ ends' \in [{"store", "tmp"} -> {"whole", "cut"} \cup Procs]
<1> USE ProcsDistinct
<1>1. /\ file \in Store /\ tmp \in Store \cup {NoFile} /\ snap[r] \in Store
      /\ ends \in [{"store", "tmp"} -> {"whole", "cut"} \cup Procs]
      /\ handle[r] \in {"store", "tmp", "gone"} /\ (handle[r] = "tmp" => tmp # NoFile)
  BY DEF TInv, TypeOK, ControlOK
<1> DEFINE lines == SubSeq(snap[r], 1, n)
           old == IF handle[r] = "tmp" THEN tmp ELSE file
<1>2. lines \in Store /\ Elements(lines) \subseteq Elements(snap[r])
  BY <1>1, PartOfStore
<1>3. CASE handle[r] = "gone"
  BY <1>1, <1>3 DEF Put
<1>4. CASE handle[r] # "gone"
  <2>1. PICK new \in IF ends[handle[r]] = r THEN {lines} ELSE Mixed(old, lines) :
           /\ IF handle[r] = "tmp" THEN tmp' = new /\ UNCHANGED file
                                   ELSE file' = new /\ UNCHANGED tmp
           /\ \E e \in IF ends[handle[r]] = r THEN {end} ELSE {"whole", "cut"} :
                  ends' = [ends EXCEPT ![handle[r]] = e]
    BY <1>4 DEF Put
  <2>2. old \in Store
    BY <1>1
  <2> HIDE DEF lines
  <2>3. new \in Store /\ Elements(new) \subseteq Elements(old) \cup Elements(snap[r])
    BY <1>2, <2>1, <2>2, MixedStore
  <2>4. ends' \in [{"store", "tmp"} -> {"whole", "cut"} \cup Procs]
    BY <1>1, <1>4, <2>1
  <2>5. CASE handle[r] = "tmp"
    BY <1>1, <2>1, <2>3, <2>4, <2>5, NoFileAssumption
  <2>6. CASE handle[r] # "tmp"
    BY <1>1, <2>1, <2>3, <2>4, <2>6, NoFileAssumption
  <2>7. QED
    BY <2>5, <2>6
<1>5. QED
  BY <1>3, <1>4

LEMMA WriteProperties ==
    ASSUME TInv, NEW r \in Reviewers, FlushPart(r) \/ WriteTmp(r)
    PROVE  /\ file' \in Store /\ Elements(file') \subseteq Elements(file) \cup Elements(snap[r])
           /\ tmp' \in Store \cup {NoFile} /\ (tmp = NoFile <=> tmp' = NoFile)
           /\ tmp' # NoFile => Elements(tmp') \subseteq Elements(tmp) \cup Elements(snap[r])
           /\ ends' \in [{"store", "tmp"} -> {"whole", "cut"} \cup Procs]
<1>1. pc[r] = "writeTmp" /\ Len(snap[r]) \in Nat
  BY ProcsDistinct, LenProperties DEF TInv, TypeOK, Store, FlushPart, WriteTmp
<1>2. PICK n \in 0 .. Len(snap[r]), end \in {"whole", r} : Put(r, n, end)
  BY <1>1 DEF FlushPart, WriteTmp
<1>3. QED
  BY <1>1, <1>2, PutProperties

LEMMA InitType == Init => TInv
<1> SUFFICES ASSUME Init PROVE TInv
  OBVIOUS
<1> USE DEF Init
<1>1. <<>> \in Store
  BY EmptySeq DEF Store
<1>0. /\ ends \in [{"store", "tmp"} -> {"whole", "cut"} \cup Procs]
      /\ handle \in [Procs -> {"none", "store", "tmp", "gone"}]
      /\ split \in BOOLEAN /\ acked \subseteq Uids /\ ran \subseteq Ids
  OBVIOUS
<1>p. /\ pc \in [Procs -> AgentPc \cup ReviewerPc]
      /\ \A a \in Agents : pc[a] \in AgentPc
      /\ \A r \in Reviewers : pc[r] \in ReviewerPc
      /\ cur \in [Procs -> Key \cup {NoEntry}] /\ idOf \in [Uids -> Ids \cup {NoId}]
      /\ runs \in [Uids -> Nat]
  BY ProcsDistinct DEF AgentPc, ReviewerPc
<1>f. /\ file \in Store /\ tmp \in Store \cup {NoFile} /\ view \in Store
      /\ snap \in [Procs -> Store] /\ todo \in [Reviewers -> Store]
      /\ want \in [Reviewers -> {"approve", "reject"} \cup Terminal]
      /\ met \subseteq SUBSET {"agent", "reviewer"}
      /\ commands \in 0 .. MaxCommands /\ crashes \in 0 .. MaxCrashes
  BY <1>1, ApprovalAssumption
<1>2. TypeOK
  BY <1>0, <1>f, <1>p DEF TypeOK
<1>3. ControlOK
  BY DEF ControlOK, AtEntry, Procs
<1>4. QED
  BY <1>2, <1>3 DEF TInv

LEMMA TypeStep == TInv /\ [Next]_vars => TInv'
<1> SUFFICES ASSUME TInv, [Next]_vars PROVE TInv'
  OBVIOUS
<1> USE ProcsDistinct DEF TInv, history
<1>e. <<>> \in Store
  BY EmptySeq DEF Store
<1>m. \A p \in Procs : met \cup Meets(p) \subseteq SUBSET {"agent", "reviewer"}
  <2>1. ASSUME NEW p \in Procs, NEW x \in Meets(p) PROVE x \subseteq {"agent", "reviewer"}
    BY <2>1 DEF Meets, Kind
  <2>2. QED
    BY <2>1 DEF TypeOK
<1>1. ASSUME NEW a \in Agents, QueueRead(a) PROVE TInv'
  <2>1. PICK u \in Uids, now \in Stamps, n \in 0 .. MaxSuffix + 1 :
           /\ cur' = [cur EXCEPT ![a] = [uid |-> u, id |-> <<now, n>>]]
           /\ idOf' = [idOf EXCEPT ![u] = <<now, n>>]
    BY <1>1 DEF QueueRead
  <2>2. <<now, n>> \in Ids
    BY DEF Ids
  <2>3. [uid |-> u, id |-> <<now, n>>] \in Key
    BY <2>2 DEF Key
  <2>4. TypeOK'
    BY <1>1, <1>m, <2>1, <2>2, <2>3 DEF QueueRead, TypeOK, AgentPc, ReviewerPc
  <2>5. ControlOK'
    BY <1>1, <2>1, <2>3 DEF QueueRead, TypeOK, ControlOK, AtEntry
  <2>6. QED
    BY <2>4, <2>5
<1>2. ASSUME NEW a \in Agents, QueueAppend(a) PROVE TInv'
  <2>1. NewEntry(a) \in Entry
    BY <1>2 DEF QueueAppend, ControlOK, AtEntry, NewEntry, Entry, Key, Status
  <2>a. file' = file \/ file' = Append(file, NewEntry(a))
    BY <1>2 DEF QueueAppend
  <2>b. file \in Store
    BY DEF TypeOK
  <2>c. Append(file, NewEntry(a)) \in Store
    BY <2>1, <2>b, AppendStore
  <2>2. file' \in Store
    BY <2>a, <2>b, <2>c
  <2>3. ends' \in [{"store", "tmp"} -> {"whole", "cut"} \cup Procs] /\ split' \in BOOLEAN
    BY <1>2 DEF QueueAppend, Splits, TypeOK
  <2>4. TypeOK'
    BY <1>2, <2>2, <2>3 DEF QueueAppend, TypeOK, AgentPc, ReviewerPc
  <2>5. ControlOK'
    BY <1>2 DEF QueueAppend, TypeOK, ControlOK, AtEntry
  <2>6. QED
    BY <2>4, <2>5
<1>2a. ASSUME NEW a \in Agents, AppendOpen(a) PROVE TInv'
  <2>1. ends' \in [{"store", "tmp"} -> {"whole", "cut"} \cup Procs] /\ split' \in BOOLEAN
    BY <1>2a DEF AppendOpen, Splits, TypeOK
  <2>2. pc' = [pc EXCEPT ![a] = "write"] \/ pc' = [pc EXCEPT ![a] = "rest"]
    BY <1>2a DEF AppendOpen
  <2>3. TypeOK'
    BY <1>2a, <2>1, <2>2 DEF AppendOpen, TypeOK, AgentPc, ReviewerPc
  <2>4. ControlOK'
    BY <1>2a, <2>2 DEF AppendOpen, TypeOK, ControlOK, AtEntry
  <2>5. QED
    BY <2>3, <2>4
<1>3. ASSUME NEW r \in Reviewers, Command(r) PROVE TInv'
  <2>1. \A k \in DOMAIN file : <<[file[k] EXCEPT !.status = "PENDING"]>> \in Store
    <3>1. ASSUME NEW k \in DOMAIN file PROVE [file[k] EXCEPT !.status = "PENDING"] \in Entry
      <4>1. file[k] \in Entry
        BY DEF TypeOK, Store
      <4>2. QED
        BY <4>1 DEF Entry, Status
    <3>2. QED
      BY <3>1 DEF Store
  <2>2. todo' \in [Reviewers -> Store]
    BY <1>3, <2>1 DEF Command, TypeOK
  <2>0. want' \in [Reviewers -> {"approve", "reject"} \cup Terminal]
    BY <1>3 DEF Command, TypeOK
  <2>c. commands' \in 0 .. MaxCommands
    BY <1>3, ApprovalAssumption DEF Command, TypeOK
  <2>3. TypeOK'
    BY <1>3, <1>m, <2>0, <2>c, <2>2 DEF Command, TypeOK, AgentPc, ReviewerPc
  <2>4. ControlOK'
    BY <1>3 DEF Command, TypeOK, ControlOK, AtEntry
  <2>5. QED
    BY <2>3, <2>4
<1>4. ASSUME NEW r \in Reviewers, Get(r) PROVE TInv'
  <2>1. Tail(todo[r]) \in Store
    BY <1>4, HeadTailProperties DEF Get, TypeOK, ControlOK, AtEntry, Store
  <2>2. todo' \in [Reviewers -> Store]
    BY <1>4, <2>1 DEF Get, TypeOK
  <2>3. CASE Proceed(r)
    <3>1. TypeOK'
      BY <1>4, <2>2, <2>3 DEF Get, Proceed, TypeOK, AgentPc, ReviewerPc
    <3>2. ControlOK'
      BY <1>4, <2>2, <2>3 DEF Get, Proceed, TypeOK, ControlOK, AtEntry
    <3>3. QED
      BY <3>1, <3>2
  <2>4. ASSUME NEW k \in DOMAIN file, TakeOn(r, k) PROVE TInv'
    <3>1. [uid |-> file[k].uid, id |-> file[k].id] \in Key
      BY StoreEntries DEF TypeOK
    <3>2. TypeOK'
      BY <1>4, <2>2, <2>4, <3>1 DEF Get, TakeOn, TypeOK, AgentPc, ReviewerPc, Terminal
    <3>3. ControlOK'
      BY <1>4, <2>2, <2>4, <3>1 DEF Get, TakeOn, TypeOK, ControlOK, AtEntry, Terminal
    <3>4. QED
      BY <3>2, <3>3
  <2>5. QED
    BY <1>4, <2>3, <2>4 DEF Get
<1>5. ASSUME NEW r \in Reviewers, Handler(r) PROVE TInv'
  <2>1. cur[r].uid \in Uids /\ cur[r].id \in Ids
    BY <1>5 DEF Handler, ControlOK, AtEntry, Key
  <2>2. TypeOK'
    BY <1>5, <2>1 DEF Handler, TypeOK, AgentPc, ReviewerPc, Terminal
  <2>3. ControlOK'
    BY <1>5 DEF Handler, TypeOK, ControlOK, AtEntry, Terminal
  <2>4. QED
    BY <2>2, <2>3
<1>6. ASSUME NEW r \in Reviewers, UpdateRead(r) PROVE TInv'
  <2>1. Marked(file, cur[r].id, want[r]) \in Store
    BY <1>6, MarkedProperties DEF UpdateRead, ControlOK, AtEntry, TypeOK, Status
  <2>2. TypeOK'
    BY <1>6, <2>1 DEF UpdateRead, TypeOK, AgentPc, ReviewerPc
  <2>3. ControlOK'
    BY <1>6 DEF UpdateRead, TypeOK, ControlOK, AtEntry
  <2>4. QED
    BY <2>2, <2>3
<1>7. ASSUME NEW r \in Reviewers, OpenTmp(r) PROVE TInv'
  <2>1. TypeOK'
    BY <1>7, <1>e DEF OpenTmp, TypeOK, AgentPc, ReviewerPc
  <2>2. ControlOK'
    BY <1>7, <1>e, NoFileAssumption DEF OpenTmp, TypeOK, ControlOK, AtEntry
  <2>3. QED
    BY <2>1, <2>2
<1>7a. ASSUME NEW r \in Reviewers, FlushPart(r) PROVE TInv'
  <2>1. TypeOK'
    BY <1>7a, WriteProperties DEF FlushPart, TypeOK
  <2>2. ControlOK'
    BY <1>7a, WriteProperties DEF FlushPart, ControlOK, AtEntry
  <2>3. QED
    BY <2>1, <2>2
<1>7b. ASSUME NEW r \in Reviewers, WriteTmp(r) PROVE TInv'
  <2>1. TypeOK'
    BY <1>7b, <1>e, WriteProperties DEF WriteTmp, TypeOK, AgentPc, ReviewerPc
  <2>a. /\ UNCHANGED <<cur, want, todo>> /\ (tmp = NoFile <=> tmp' = NoFile)
        /\ \A p \in Procs : handle'[p] = handle[p] \/ handle'[p] = "none"
        /\ \A p \in Procs \ {r} : pc'[p] = pc[p] /\ handle'[p] = handle[p]
        /\ pc[r] = "writeTmp" /\ pc'[r] = "rename"
    BY <1>7b, WriteProperties DEF WriteTmp, TypeOK
  <2>2. ControlOK'
    BY <2>a DEF ControlOK, AtEntry
  <2>3. QED
    BY <2>1, <2>2
<1>8. ASSUME NEW r \in Reviewers, Rename(r) PROVE TInv'
  <2>1. /\ handle' \in [Procs -> {"none", "store", "tmp", "gone"}]
        /\ \A p \in Procs : handle'[p] # "tmp" /\ (handle[p] # "none" => handle'[p] # "none")
    BY <1>8 DEF Rename, Moved, TypeOK
  <2>2. ends' \in [{"store", "tmp"} -> {"whole", "cut"} \cup Procs]
    BY <1>8 DEF Rename, TypeOK
  <2>3. TypeOK'
    BY <1>8, <2>1, <2>2 DEF Rename, TypeOK, AgentPc, ReviewerPc
  <2>4. ControlOK'
    BY <1>8, <2>1 DEF Rename, TypeOK, ControlOK, AtEntry
  <2>5. QED
    BY <2>3, <2>4
<1>9. ASSUME NEW r \in Reviewers, RenameMissing(r) PROVE TInv'
  <2>1. CASE want[r] = "RAN"
    <3>1. TypeOK'
      BY <1>9, <2>1 DEF RenameMissing, TypeOK, AgentPc, ReviewerPc, Terminal
    <3>2. \A p \in Procs : AtEntry(p)' => AtEntry(p)
      BY <1>9, <2>1 DEF RenameMissing, TypeOK, AtEntry
    <3>3. ControlOK'
      BY <1>9, <2>1, <3>2 DEF RenameMissing, TypeOK, ControlOK, Terminal
    <3>4. QED
      BY <3>1, <3>3
  <2>2. CASE want[r] # "RAN"
    <3>0. /\ Proceed(r) /\ todo' = [todo EXCEPT ![r] = <<>>]
          /\ UNCHANGED <<file, tmp, ends, handle, view, snap, history>>
      BY <1>9, <2>2 DEF RenameMissing
    <3>1. TypeOK'
      BY <1>e, <3>0 DEF Proceed, TypeOK, AgentPc, ReviewerPc
    <3>2. \A p \in Procs : AtEntry(p)' => AtEntry(p)
      BY <1>9, <2>2 DEF RenameMissing, Proceed, TypeOK, AtEntry
    <3>3. \A p \in Procs : AtEntry(p)' => cur'[p] \in Key
      BY <1>9, <2>2, <3>2 DEF RenameMissing, Proceed, TypeOK, ControlOK, AtEntry
    <3>4. ASSUME NEW q \in Reviewers
          PROVE  /\ pc'[q] = "get" => todo'[q] # <<>>
                 /\ pc'[q] \in {"update", "openTmp", "writeTmp", "rename"} => want'[q] \in Terminal
                 /\ pc'[q] = "handler" => want'[q] = "approve"
                 /\ pc'[q] = "writeTmp" => handle'[q] # "none"
      BY <1>9, <2>2, <3>4 DEF RenameMissing, Proceed, TypeOK, ControlOK
    <3>5. ControlOK'
      BY <1>9, <3>3, <3>4 DEF RenameMissing, ControlOK, AtEntry
    <3>6. QED
      BY <3>1, <3>5
  <2>3. QED
    BY <2>1, <2>2
<1>10. ASSUME NEW p \in Procs, RenderRead(p) PROVE TInv'
  <2>1. TypeOK'
    BY <1>10 DEF RenderRead, TypeOK, AgentPc, ReviewerPc
  <2>2. ControlOK'
    BY <1>10 DEF RenderRead, TypeOK, ControlOK, AtEntry
  <2>3. QED
    BY <2>1, <2>2
<1>11. ASSUME NEW p \in Procs, RenderWrite(p) PROVE TInv'
  <2>1. CASE p \in Agents
    <3>1. cur[p].uid \in Uids
      BY <1>11, <2>1 DEF RenderWrite, ControlOK, AtEntry, Key
    <3>2. TypeOK'
      BY <1>11, <1>e, <2>1, <3>1 DEF RenderWrite, TypeOK, AgentPc, ReviewerPc
    <3>3. ControlOK'
      BY <1>11, <2>1 DEF RenderWrite, TypeOK, ControlOK, AtEntry
    <3>4. QED
      BY <3>2, <3>3
  <2>2. CASE p \in Reviewers
    <3>0. /\ Proceed(p) /\ view' = snap[p] /\ snap' = [snap EXCEPT ![p] = <<>>]
          /\ UNCHANGED <<file, tmp, ends, handle, todo, idOf, runs, ran, acked, split, met,
                         commands, crashes>>
      BY <1>11, <2>2 DEF RenderWrite
    <3>1. TypeOK'
      BY <1>e, <2>2, <3>0 DEF Proceed, TypeOK, AgentPc, ReviewerPc
    <3>2. /\ UNCHANGED <<tmp, handle, todo>>
          /\ \A q \in Procs \ {p} : pc'[q] = pc[q] /\ cur'[q] = cur[q]
          /\ \A q \in Reviewers \ {p} : want'[q] = want[q]
          /\ pc'[p] = IF todo[p] = <<>> THEN "idle" ELSE "get"
      BY <2>2, <3>0 DEF Proceed, TypeOK
    <3>3. ControlOK'
      BY <2>2, <3>2 DEF ControlOK, AtEntry
    <3>4. QED
      BY <3>1, <3>3
  <2>3. QED
    BY <2>1, <2>2
<1>12. ASSUME NEW p \in Procs, Crash(p) PROVE TInv'
  <2>1. crashes' \in 0 .. MaxCrashes
    BY <1>12, ApprovalAssumption DEF Crash, TypeOK
  <2>a. ends' \in [{"store", "tmp"} -> {"whole", "cut"} \cup Procs]
    BY <1>12 DEF Crash, TypeOK
  <2>2. TypeOK'
    BY <1>12, <1>e, <2>1, <2>a DEF Crash, TypeOK, AgentPc, ReviewerPc
  <2>3. ControlOK'
    BY <1>12 DEF Crash, TypeOK, ControlOK, AtEntry
  <2>4. QED
    BY <2>2, <2>3
<1>13. ASSUME NEW r \in Reviewers, Render(r) PROVE TInv'
  <2>1. commands' \in 0 .. MaxCommands
    BY <1>13, ApprovalAssumption DEF Render, TypeOK
  <2>2. TypeOK'
    BY <1>13, <1>m, <2>1 DEF Render, TypeOK, AgentPc, ReviewerPc
  <2>3. ControlOK'
    BY <1>13 DEF Render, TypeOK, ControlOK, AtEntry
  <2>4. QED
    BY <2>2, <2>3
<1>14. CASE UNCHANGED vars
  BY <1>14 DEF vars, TypeOK, AgentPc, ReviewerPc, ControlOK, AtEntry
<1>15. QED
  BY <1>1, <1>2, <1>2a, <1>3, <1>4, <1>5, <1>6, <1>7, <1>7a, <1>7b, <1>8, <1>9, <1>10, <1>11,
     <1>12, <1>13, <1>14
     DEF Next, AgentNext, ReviewerNext

\* Every reachable state of the queue is well typed.
THEOREM TypeCorrect == Spec => []TypeOK
<1>1. Spec => []TInv
  BY InitType, TypeStep, PTL DEF Spec
<1>2. TInv => TypeOK
  BY DEF TInv
<1>3. QED
  BY <1>1, <1>2, PTL

-----------------------------------------------------------------------------
(* A RAN entry is the record of a handler that returned *)

RanOK(f) == \A k \in DOMAIN f : f[k].status = "RAN" => f[k].id \in ran

\* RanIsTrue, strengthened to every copy of the list on its way to the store
\* or the view, and to the decision that is about to be recorded.
RInv ==
    /\ RanOK(file) /\ RanOK(view)
    /\ tmp # NoFile => RanOK(tmp)
    /\ \A p \in Procs : RanOK(snap[p])
    /\ \A r \in Reviewers : pc[r] = "update" /\ want[r] = "RAN" => cur[r].id \in ran

LEMMA InitRan == Init => RInv
BY DEF Init, RInv, RanOK

LEMMA RanStep == TInv /\ RInv /\ [Next]_vars => RInv'
<1> SUFFICES ASSUME TInv, RInv, [Next]_vars PROVE RInv'
  OBVIOUS
<1> USE ProcsDistinct DEF RInv, history
<1>1. ASSUME NEW a \in Agents, QueueRead(a) PROVE RInv'
  BY <1>1 DEF QueueRead, TInv, TypeOK, RanOK
<1>2. ASSUME NEW a \in Agents, QueueAppend(a) PROVE RInv'
  <2>1. NewEntry(a) \in Entry /\ NewEntry(a).status = "PENDING"
    BY <1>2 DEF QueueAppend, TInv, ControlOK, AtEntry, NewEntry, Entry, Key, Status
  <2>2. file' = file \/ file' = Append(file, NewEntry(a))
    BY <1>2 DEF QueueAppend
  <2>3. ran' = ran
    BY <1>2 DEF QueueAppend
  <2>a. file \in Store /\ RanOK(file)
    BY DEF TInv, TypeOK
  <2>4. RanOK(file')
    BY <2>1, <2>2, <2>3, <2>a, AppendStore DEF RanOK
  <2>5. QED
    BY <1>2, <2>4 DEF QueueAppend, TInv, TypeOK, RanOK
<1>2a. ASSUME NEW a \in Agents, AppendOpen(a) PROVE RInv'
  <2>1. \A r \in Reviewers : pc'[r] = pc[r]
    BY <1>2a DEF AppendOpen, TInv, TypeOK
  <2>2. QED
    BY <1>2a, <2>1 DEF AppendOpen, RanOK
<1>3. ASSUME NEW r \in Reviewers, Command(r) PROVE RInv'
  BY <1>3 DEF Command, TInv, TypeOK, RanOK
<1>4. ASSUME NEW r \in Reviewers, Get(r) PROVE RInv'
  <2>1. UNCHANGED <<file, tmp, view, snap, ran>>
    BY <1>4 DEF Get
  <2>2. pc'[r] = "update" => want'[r] # "RAN"
    <3>1. CASE Proceed(r)
      BY <3>1 DEF Proceed, TInv, TypeOK
    <3>2. ASSUME NEW k \in DOMAIN file, TakeOn(r, k) PROVE pc'[r] = "update" => want'[r] # "RAN"
      BY <3>2 DEF TakeOn, TInv, TypeOK
    <3>3. QED
      BY <1>4, <3>1, <3>2 DEF Get
  <2>3. \A s \in Reviewers : s # r => pc'[s] = pc[s] /\ want'[s] = want[s] /\ cur'[s] = cur[s]
    BY <1>4 DEF Get, Proceed, TakeOn, TInv, TypeOK
  <2>4. QED
    BY <2>1, <2>2, <2>3 DEF RanOK
<1>5. ASSUME NEW r \in Reviewers, Handler(r) PROVE RInv'
  <2>1. ran \subseteq ran' /\ (want'[r] = "RAN" => cur[r].id \in ran')
    BY <1>5 DEF Handler, TInv, TypeOK
  <2>2. \A s \in Reviewers : s # r => pc'[s] = pc[s] /\ want'[s] = want[s]
    BY <1>5 DEF Handler, TInv, TypeOK
  <2>3. UNCHANGED <<file, tmp, view, snap, cur>>
    BY <1>5 DEF Handler
  <2>4. QED
    BY <2>1, <2>2, <2>3 DEF RanOK
<1>6. ASSUME NEW r \in Reviewers, UpdateRead(r) PROVE RInv'
  <2>1. want[r] \in Status /\ file \in Store
    BY <1>6 DEF UpdateRead, TInv, ControlOK, AtEntry, TypeOK, Status
  <2>2. RanOK(Marked(file, cur[r].id, want[r]))
    BY <1>6, <2>1, MarkedProperties DEF UpdateRead, RanOK
  <2>3. \A p \in Procs : RanOK(snap'[p])
    BY <1>6, <2>2 DEF UpdateRead, TInv, TypeOK, RanOK
  <2>4. QED
    BY <1>6, <2>3 DEF UpdateRead, TInv, TypeOK, RanOK
<1>7. ASSUME NEW r \in Reviewers, OpenTmp(r) PROVE RInv'
  BY <1>7 DEF OpenTmp, TInv, TypeOK, RanOK
<1>7a. ASSUME NEW r \in Reviewers, FlushPart(r) \/ WriteTmp(r) PROVE RInv'
  <2>1. /\ UNCHANGED <<view, ran, want, cur>>
        /\ \A p \in Procs : snap'[p] = snap[p] \/ snap'[p] = <<>>
        /\ \A s \in Reviewers : pc'[s] = pc[s] \/ pc'[s] = "rename"
    BY <1>7a DEF FlushPart, WriteTmp, TInv, TypeOK
  <2>2. \A f : RanOK(f) <=> \A e \in Elements(f) : e.status = "RAN" => e.id \in ran
    BY DEF RanOK, Elements
  <2>3. RanOK(file') /\ (tmp' # NoFile => RanOK(tmp'))
    BY <1>7a, <2>2, WriteProperties
  <2>4. QED
    BY <2>1, <2>3 DEF RanOK
<1>8. ASSUME NEW r \in Reviewers, Rename(r) PROVE RInv'
  <2>1. /\ UNCHANGED <<view, snap, cur, want, ran>> /\ tmp # NoFile /\ file' = tmp /\ tmp' = NoFile
        /\ \A s \in Reviewers : pc'[s] = pc[s] \/ pc'[s] = "renderRead"
    BY <1>8 DEF Rename, TInv, TypeOK
  <2>2. QED
    BY <2>1 DEF RanOK
<1>9. ASSUME NEW r \in Reviewers, RenameMissing(r) PROVE RInv'
  BY <1>9 DEF RenameMissing, Proceed, TInv, TypeOK, RanOK
<1>10. ASSUME NEW p \in Procs, RenderRead(p) PROVE RInv'
  BY <1>10 DEF RenderRead, TInv, TypeOK, RanOK
<1>11. ASSUME NEW p \in Procs, RenderWrite(p) PROVE RInv'
  <2>1. UNCHANGED <<file, tmp, ran>> /\ view' = snap[p]
    BY <1>11 DEF RenderWrite
  <2>2. \A q \in Procs : RanOK(snap'[q])
    BY <1>11 DEF RenderWrite, TInv, TypeOK, RanOK
  <2>3. \A r \in Reviewers :
           pc'[r] = "update" => pc[r] = "update" /\ want'[r] = want[r] /\ cur'[r] = cur[r]
    BY <1>11 DEF RenderWrite, Proceed, TInv, TypeOK
  <2>4. QED
    BY <2>1, <2>2, <2>3 DEF RanOK
<1>12. ASSUME NEW p \in Procs, Crash(p) PROVE RInv'
  <2>1. UNCHANGED <<file, tmp, view, ran>>
    BY <1>12 DEF Crash
  <2>2. \A q \in Procs : RanOK(snap'[q])
    BY <1>12 DEF Crash, TInv, TypeOK, RanOK
  <2>3. \A r \in Reviewers :
           pc'[r] = "update" => pc[r] = "update" /\ want'[r] = want[r] /\ cur'[r] = cur[r]
    BY <1>12 DEF Crash, TInv, TypeOK
  <2>4. QED
    BY <2>1, <2>2, <2>3 DEF RanOK
<1>13. ASSUME NEW r \in Reviewers, Render(r) PROVE RInv'
  BY <1>13 DEF Render, TInv, TypeOK, RanOK
<1>14. CASE UNCHANGED vars
  BY <1>14 DEF vars, RanOK
<1>15. QED
  BY <1>1, <1>2, <1>2a, <1>3, <1>4, <1>5, <1>6, <1>7, <1>7a, <1>8, <1>9, <1>10, <1>11, <1>12,
     <1>13, <1>14
     DEF Next, AgentNext, ReviewerNext

\* However calls overlap and processes die, nothing the store or the human view
\* shows as RAN was recorded without a handler having returned for its id.
THEOREM RanIsAlwaysTrue == Spec => []RanIsTrue
<1>1. Init => TInv /\ RInv
  BY InitType, InitRan
<1>2. (TInv /\ RInv) /\ [Next]_vars => (TInv /\ RInv)'
  BY TypeStep, RanStep
<1>3. TInv /\ RInv => RanIsTrue
  BY DEF RInv, RanOK, RanIsTrue
<1>4. QED
  BY <1>1, <1>2, <1>3, PTL DEF Spec

-----------------------------------------------------------------------------
(* A handler runs once per entry and crash *)

\* Copies of the list agree on which id belongs to which request.
IdsOK(f) == \A k \in DOMAIN f : f[k].id = idOf[f[k].uid]

Absent(f, u) == \A k \in DOMAIN f : f[k].uid # u

Queueing(a) == pc[a] \in {"append", "write", "rest"}

\* A request an agent is about to append is known to nobody else.
Unwritten(a, u) ==
    /\ runs[u] = 0
    /\ Absent(file, u)
    /\ tmp # NoFile => Absent(tmp, u)
    /\ \A p \in Procs : Absent(snap[p], u)
    /\ \A p \in Procs : p # a /\ AtEntry(p) => cur[p].uid # u

UInv ==
    /\ IdsOK(file)
    /\ tmp # NoFile => IdsOK(tmp)
    /\ \A p \in Procs : IdsOK(snap[p])
    /\ \A p \in Procs : AtEntry(p) => cur[p].id = idOf[cur[p].uid]
    /\ \A u \in Uids : idOf[u] = NoId => runs[u] = 0
    /\ \A a \in Agents : Queueing(a) => Unwritten(a, cur[a].uid)

OneReviewer == {"reviewer"} \notin met

\* Without overlapping reviewers the temporary file belongs to the one in a call.
Alone ==
    /\ \A r, s \in Reviewers : pc[r] # "idle" /\ pc[s] # "idle" => r = s
    /\ \A r \in Reviewers : pc[r] = "rename" => tmp # NoFile
    /\ \A r \in Reviewers : pc[r] = "writeTmp" => handle[r] = "tmp" /\ ends["tmp"] = r

SInv == OneReviewer => Alone

Settled(f, u) == \A k \in DOMAIN f : f[k].uid = u => f[k].status # "PENDING"

Recording(r) == pc[r] \in {"update", "openTmp", "writeTmp", "rename"}

\* No handler can start on u again before the next crash: the store shows a
\* decision for it, or the one reviewer is recording it, and so do the copies.
Spent(u) ==
    /\ Settled(file, u) \/ \E r \in Reviewers : Recording(r) /\ cur[r].uid = u
    /\ \A r \in Reviewers : pc[r] = "handler" => cur[r].uid # u
    /\ \A r \in Reviewers : pc[r] \in {"openTmp", "writeTmp"} => Settled(snap[r], u)
    /\ \A r \in Reviewers : pc[r] = "rename" => Settled(tmp, u)

OncePerCrash ==
    \A u \in Uids : runs[u] <= crashes + 1 /\ (runs[u] = crashes + 1 => Spent(u))

HInv == OneReviewer => OncePerCrash

LEMMA InitOnce == Init => UInv /\ SInv /\ HInv
<1> SUFFICES ASSUME Init PROVE UInv /\ SInv /\ HInv
  OBVIOUS
<1> USE ProcsDistinct DEF Init
<1>1. UInv
  BY DEF UInv, IdsOK, AtEntry, Queueing
<1>2. SInv
  BY DEF SInv, Alone
<1>3. HInv
  BY DEF HInv, OncePerCrash
<1>4. QED
  BY <1>1, <1>2, <1>3

LEMMA UidStep == TInv /\ UInv /\ [Next]_vars => UInv'
<1> SUFFICES ASSUME TInv, UInv, [Next]_vars PROVE UInv'
  OBVIOUS
<1> USE ProcsDistinct DEF history
<1>s. /\ file \in Store /\ (tmp # NoFile => tmp \in Store) /\ snap \in [Procs -> Store]
      /\ cur \in [Procs -> Key \cup {NoEntry}] /\ idOf \in [Uids -> Ids \cup {NoId}]
      /\ runs \in [Uids -> Nat] /\ pc \in [Procs -> AgentPc \cup ReviewerPc]
  BY DEF TInv, TypeOK
<1>k. \A p \in Procs : AtEntry(p) => cur[p] \in Key
  BY DEF TInv, ControlOK, AtEntry, Queueing
<1>n. NoId \notin Ids
  BY ApprovalAssumption DEF Ids
<1>1. ASSUME NEW a \in Agents, QueueRead(a) PROVE UInv'
  <2>1. PICK u \in Uids, now \in Stamps, n \in 0 .. MaxSuffix + 1 :
           /\ idOf[u] = NoId
           /\ cur' = [cur EXCEPT ![a] = [uid |-> u, id |-> <<now, n>>]]
           /\ idOf' = [idOf EXCEPT ![u] = <<now, n>>]
    BY <1>1 DEF QueueRead
  <2>2. \A f \in Store : IdsOK(f) => Absent(f, u)
    BY <2>1, <1>n, StoreEntries DEF IdsOK, Absent
  <2>3. \A f \in Store : IdsOK(f) => IdsOK(f)'
    <3>1. SUFFICES ASSUME NEW f \in Store, IdsOK(f), NEW k \in DOMAIN f
                   PROVE  f[k].id = idOf'[f[k].uid]
      BY DEF IdsOK
    <3>2. f[k].uid \in Uids /\ f[k].uid # u
      BY <2>2, <3>1, StoreEntries DEF Absent
    <3>3. QED
      BY <1>s, <2>1, <3>1, <3>2 DEF IdsOK
  <2>4. UNCHANGED <<file, tmp, snap, runs>> /\ pc' = [pc EXCEPT ![a] = "append"]
    BY <1>1 DEF QueueRead
  <2>5. IdsOK(file)' /\ (tmp' # NoFile => IdsOK(tmp)') /\ \A p \in Procs : IdsOK(snap[p])'
    BY <1>s, <2>3, <2>4 DEF UInv, Queueing, IdsOK
  <2>6. \A p \in Procs : AtEntry(p) => cur[p].uid \in Uids /\ cur[p].uid # u
    BY <1>k, <1>n, <2>1 DEF UInv, Queueing, Key
  <2>7. \A p \in Procs \ {a} : cur'[p] = cur[p] /\ pc'[p] = pc[p]
    BY <1>s, <2>1, <2>4
  <2>8. cur'[a].uid = u /\ cur'[a].id = <<now, n>> /\ idOf'[u] = <<now, n>>
    BY <1>s, <2>1
  <2>9. \A p \in Procs : AtEntry(p)' => cur'[p].id = idOf'[cur'[p].uid]
    <3>1. ASSUME NEW p \in Procs, p # a, AtEntry(p)' PROVE cur'[p].id = idOf'[cur'[p].uid]
      <4>1. AtEntry(p) /\ cur'[p] = cur[p]
        BY <2>7, <3>1 DEF AtEntry, Queueing
      <4>2. cur[p].uid \in Uids /\ cur[p].uid # u
        BY <2>6, <4>1
      <4>3. QED
        BY <1>s, <2>1, <4>1, <4>2 DEF UInv, Queueing
    <3>2. QED
      BY <2>8, <3>1
  <2>10. \A v \in Uids : idOf'[v] = NoId => runs'[v] = 0
    BY <1>s, <2>1, <2>4 DEF UInv, Queueing
  <2>11. \A b \in Agents : Queueing(b)' => Unwritten(b, cur[b].uid)'
    <3>1. Unwritten(a, cur[a].uid)'
      <4>1. runs[u] = 0
        BY <2>1 DEF UInv, Queueing
      <4>2. /\ Absent(file, u) /\ (tmp # NoFile => Absent(tmp, u))
            /\ \A p \in Procs : Absent(snap[p], u)
        BY <1>s, <2>2 DEF UInv, Queueing
      <4>3. \A p \in Procs : p # a /\ AtEntry(p)' => cur'[p].uid # u
        BY <2>6, <2>7 DEF AtEntry, Queueing
      <4>4. QED
        BY <2>4, <2>8, <4>1, <4>2, <4>3 DEF Unwritten, Absent
    <3>2. ASSUME NEW b \in Agents, b # a, Queueing(b)' PROVE Unwritten(b, cur[b].uid)'
      <4>1. Queueing(b) /\ cur'[b] = cur[b] /\ Unwritten(b, cur[b].uid)
        BY <2>7, <3>2 DEF UInv, Queueing
      <4>2. cur[b].uid # u
        BY <2>6, <4>1 DEF AtEntry, Queueing
      <4>3. \A p \in Procs : p # b /\ AtEntry(p)' => cur'[p].uid # cur[b].uid
        BY <2>7, <2>8, <4>1, <4>2 DEF Unwritten, AtEntry, Queueing
      <4>4. QED
        BY <2>4, <4>1, <4>3 DEF Unwritten, Absent
    <3>3. QED
      BY <3>1, <3>2
  <2>12. QED
    BY <2>5, <2>9, <2>10, <2>11 DEF UInv, Queueing
<1>2. ASSUME NEW a \in Agents, QueueAppend(a) PROVE UInv'
  <2>1. Queueing(a) /\ AtEntry(a) /\ cur[a] \in Key /\ Unwritten(a, cur[a].uid)
    BY <1>2, <1>k DEF QueueAppend, UInv, Queueing, AtEntry
  <2>2. NewEntry(a) \in Entry /\ NewEntry(a).uid = cur[a].uid /\ NewEntry(a).id = cur[a].id
    BY <2>1 DEF NewEntry, Entry, Key, Status
  <2>a. file' = file \/ file' = Append(file, NewEntry(a))
    BY <1>2 DEF QueueAppend
  <2>b. idOf' = idOf /\ cur[a].id = idOf[cur[a].uid]
    BY <1>2, <2>1 DEF QueueAppend, UInv
  <2>c. \A k \in DOMAIN file' :
           (k \in DOMAIN file /\ file'[k] = file[k]) \/ file'[k] = NewEntry(a)
    BY <1>s, <2>2, <2>a, AppendStore
  <2>3. IdsOK(file)'
    BY <2>2, <2>b, <2>c DEF UInv, IdsOK
  <2>4. UNCHANGED <<tmp, snap, cur, idOf, runs>> /\ pc' = [pc EXCEPT ![a] = "renderRead"]
    BY <1>2 DEF QueueAppend
  <2>5. \A p \in Procs : AtEntry(p)' => AtEntry(p)
    BY <1>s, <2>1, <2>4 DEF AtEntry, Queueing
  <2>6. ASSUME NEW b \in Agents, Queueing(b)' PROVE Unwritten(b, cur[b].uid)'
    <3>1. b # a /\ Queueing(b) /\ Unwritten(b, cur[b].uid)
      BY <1>s, <2>4, <2>6 DEF UInv, Queueing
    <3>2. cur[b].uid # cur[a].uid
      BY <2>1, <3>1 DEF Unwritten, AtEntry, Queueing
    <3>3. Absent(file, cur[b].uid)'
      BY <2>2, <2>4, <2>c, <3>1, <3>2 DEF Unwritten, Absent
    <3>4. QED
      BY <2>4, <2>5, <3>1, <3>3 DEF Unwritten, Absent
  <2>7. QED
    BY <2>3, <2>4, <2>5, <2>6 DEF UInv, Queueing, IdsOK
<1>3. ASSUME NEW r \in Reviewers, Command(r) PROVE UInv'
  <2>1. UNCHANGED <<file, tmp, snap, cur, idOf, runs>>
    BY <1>3 DEF Command
  <2>2. \A p \in Procs : (AtEntry(p)' => AtEntry(p)) /\ (p \in Agents => pc'[p] = pc[p])
    BY <1>3, <1>s DEF Command, AtEntry, Queueing
  <2>3. QED
    BY <2>1, <2>2 DEF UInv, Queueing, IdsOK, Unwritten, Absent
<1>4. ASSUME NEW r \in Reviewers, Get(r) PROVE UInv'
  <2>1. UNCHANGED <<file, tmp, snap, idOf, runs>>
    BY <1>4 DEF Get
  <2>2. \A p \in Procs \ {r} : pc'[p] = pc[p] /\ cur'[p] = cur[p]
    BY <1>4, <1>s DEF Get, Proceed, TakeOn
  <2>3. AtEntry(r)' => \E k \in DOMAIN file : cur'[r] = [uid |-> file[k].uid, id |-> file[k].id]
    <3>1. CASE Proceed(r)
      BY <1>s, <3>1 DEF Proceed, AtEntry, Queueing
    <3>2. ASSUME NEW k \in DOMAIN file, TakeOn(r, k)
          PROVE  cur'[r] = [uid |-> file[k].uid, id |-> file[k].id]
      BY <1>s, <3>2 DEF TakeOn
    <3>3. QED
      BY <1>4, <3>1, <3>2 DEF Get
  <2>4. ASSUME NEW p \in Procs, AtEntry(p)' PROVE cur'[p].id = idOf'[cur'[p].uid]
    <3>1. CASE p = r
      <4>1. PICK k \in DOMAIN file : cur'[r] = [uid |-> file[k].uid, id |-> file[k].id]
        BY <2>3, <2>4, <3>1
      <4>2. file[k].id = idOf[file[k].uid]
        BY DEF UInv, Queueing, IdsOK
      <4>3. QED
        BY <2>1, <3>1, <4>1, <4>2
    <3>2. CASE p # r
      BY <2>1, <2>2, <2>4, <3>2 DEF UInv, Queueing, AtEntry
    <3>3. QED
      BY <3>1, <3>2
  <2>5. ASSUME NEW b \in Agents, Queueing(b)' PROVE Unwritten(b, cur[b].uid)'
    <3>1. b # r /\ Unwritten(b, cur[b].uid) /\ cur'[b] = cur[b]
      BY <2>2, <2>5 DEF UInv, Queueing
    <3>2. AtEntry(r)' => cur'[r].uid # cur[b].uid
      <4>1. SUFFICES ASSUME AtEntry(r)' PROVE cur'[r].uid # cur[b].uid
        OBVIOUS
      <4>2. PICK k \in DOMAIN file : cur'[r] = [uid |-> file[k].uid, id |-> file[k].id]
        BY <2>3, <4>1
      <4>3. file[k].uid # cur[b].uid
        BY <3>1 DEF Unwritten, Absent
      <4>4. QED
        BY <4>2, <4>3
    <3>3. \A p \in Procs : p # b /\ AtEntry(p)' => cur'[p].uid # cur[b].uid
      BY <2>2, <3>1, <3>2 DEF Unwritten, AtEntry, Queueing
    <3>4. QED
      BY <2>1, <3>1, <3>3 DEF Unwritten, Absent
  <2>6. QED
    BY <2>1, <2>4, <2>5 DEF UInv, Queueing, IdsOK
<1>5. ASSUME NEW r \in Reviewers, Handler(r) PROVE UInv'
  <2>1. UNCHANGED <<file, tmp, snap, cur, idOf>> /\ runs' = [runs EXCEPT ![cur[r].uid] = @ + 1]
    BY <1>5 DEF Handler
  <2>2. \A p \in Procs : (AtEntry(p)' => AtEntry(p)) /\ (p \in Agents => pc'[p] = pc[p])
    BY <1>5, <1>s DEF Handler, AtEntry, Queueing
  <2>3. AtEntry(r) /\ cur[r].uid \in Uids /\ idOf[cur[r].uid] # NoId
    BY <1>5, <1>k, <1>n DEF Handler, UInv, Queueing, AtEntry, Key
  <2>4. \A u \in Uids : u # cur[r].uid => runs'[u] = runs[u]
    BY <1>s, <2>1
  <2>5. ASSUME NEW b \in Agents, Queueing(b) PROVE runs'[cur[b].uid] = 0
    <3>1. Unwritten(b, cur[b].uid) /\ cur[b].uid \in Uids /\ b # r
      BY <1>k, <2>5 DEF UInv, Queueing, AtEntry, Key
    <3>2. QED
      BY <2>3, <2>4, <3>1 DEF Unwritten
  <2>6. QED
    BY <2>1, <2>2, <2>3, <2>4, <2>5 DEF UInv, Queueing, IdsOK, Unwritten, Absent
<1>6. ASSUME NEW r \in Reviewers, UpdateRead(r) PROVE UInv'
  <2>1. UNCHANGED <<file, tmp, cur, idOf, runs>>
    BY <1>6 DEF UpdateRead
  <2>2. \A p \in Procs : (AtEntry(p)' => AtEntry(p)) /\ (p \in Agents => pc'[p] = pc[p])
    BY <1>6, <1>s DEF UpdateRead, AtEntry, Queueing
  <2>3. want[r] \in Status
    BY <1>6 DEF UpdateRead, TInv, ControlOK, AtEntry, Status, Queueing
  <2>4. snap'[r] = Marked(file, cur[r].id, want[r]) /\ \A p \in Procs \ {r} : snap'[p] = snap[p]
    BY <1>6, <1>s DEF UpdateRead
  <2>5. \A p \in Procs : IdsOK(snap[p])'
    BY <1>s, <2>1, <2>3, <2>4, MarkedProperties DEF UInv, Queueing, IdsOK
  <2>6. \A u \in Uids : Absent(file, u) => Absent(snap'[r], u)
    BY <1>s, <2>3, <2>4, MarkedProperties DEF Absent
  <2>7. \A b \in Agents : Queueing(b) => cur[b].uid \in Uids
    BY <1>k DEF AtEntry, Key, Queueing
  <2>8. QED
    BY <2>1, <2>2, <2>4, <2>5, <2>6, <2>7 DEF UInv, Queueing, IdsOK, Unwritten, Absent
<1>2a. ASSUME NEW a \in Agents, AppendOpen(a) PROVE UInv'
  <2>1. UNCHANGED <<file, tmp, snap, cur, idOf, runs>>
    BY <1>2a DEF AppendOpen
  <2>2. \A p \in Procs : (AtEntry(p)' => AtEntry(p)) /\ (Queueing(p)' => Queueing(p))
    BY <1>2a, <1>s DEF AppendOpen, AtEntry, Queueing
  <2>3. QED
    BY <2>1, <2>2 DEF UInv, IdsOK, Unwritten, Absent
<1>7. ASSUME NEW r \in Reviewers, OpenTmp(r) PROVE UInv'
  <2>1. UNCHANGED <<file, snap, cur, idOf, runs>> /\ tmp' = <<>>
    BY <1>7 DEF OpenTmp
  <2>2. \A p \in Procs : (AtEntry(p)' => AtEntry(p)) /\ (Queueing(p)' => Queueing(p))
    BY <1>7, <1>s DEF OpenTmp, AtEntry, Queueing
  <2>3. QED
    BY <2>1, <2>2 DEF UInv, IdsOK, Unwritten, Absent
<1>7a. ASSUME NEW r \in Reviewers, FlushPart(r) \/ WriteTmp(r) PROVE UInv'
  <2>1. UNCHANGED <<cur, idOf, runs>>
    BY <1>7a DEF FlushPart, WriteTmp
  <2>2. \A p \in Procs : (AtEntry(p)' => AtEntry(p)) /\ (Queueing(p)' => Queueing(p))
    BY <1>7a, <1>s DEF FlushPart, WriteTmp, AtEntry, Queueing
  <2>3. \A p \in Procs : snap'[p] = snap[p] \/ snap'[p] = <<>>
    BY <1>7a, <1>s DEF FlushPart, WriteTmp
  <2>4. \A f : /\ IdsOK(f) <=> \A e \in Elements(f) : e.id = idOf[e.uid]
               /\ \A u : Absent(f, u) <=> \A e \in Elements(f) : e.uid # u
    BY DEF IdsOK, Absent, Elements
  <2>5. /\ Elements(file') \subseteq Elements(file) \cup Elements(snap[r])
        /\ tmp = NoFile <=> tmp' = NoFile
        /\ tmp' # NoFile => Elements(tmp') \subseteq Elements(tmp) \cup Elements(snap[r])
    BY <1>7a, WriteProperties
  <2>6. IdsOK(file') /\ (tmp' # NoFile => IdsOK(tmp'))
    BY <2>4, <2>5 DEF UInv
  <2>7. IdsOK(file)' /\ (tmp' # NoFile => IdsOK(tmp)') /\ \A p \in Procs : IdsOK(snap[p])'
    BY <2>1, <2>3, <2>6 DEF UInv, IdsOK
  <2>8. ASSUME NEW b \in Agents, Queueing(b)' PROVE Unwritten(b, cur[b].uid)'
    <3>1. Unwritten(b, cur[b].uid) /\ cur'[b] = cur[b]
      BY <2>1, <2>2, <2>8 DEF UInv
    <3>2. Absent(file', cur[b].uid) /\ (tmp' # NoFile => Absent(tmp', cur[b].uid))
      BY <2>4, <2>5, <3>1 DEF Unwritten
    <3>3. QED
      BY <2>1, <2>2, <2>3, <3>1, <3>2 DEF Unwritten, Absent
  <2>9. QED
    BY <2>1, <2>2, <2>7, <2>8 DEF UInv
<1>8. ASSUME NEW r \in Reviewers, Rename(r) PROVE UInv'
  <2>1. UNCHANGED <<snap, cur, idOf, runs>> /\ tmp # NoFile /\ file' = tmp /\ tmp' = NoFile
    BY <1>8 DEF Rename
  <2>2. \A p \in Procs : (AtEntry(p)' => AtEntry(p)) /\ (p \in Agents => pc'[p] = pc[p])
    BY <1>8, <1>s DEF Rename, AtEntry, Queueing
  <2>3. QED
    BY <2>1, <2>2 DEF UInv, Queueing, IdsOK, Unwritten, Absent
<1>9. ASSUME NEW r \in Reviewers, RenameMissing(r) PROVE UInv'
  <2>1. UNCHANGED <<file, tmp, snap, idOf, runs>>
    BY <1>9 DEF RenameMissing
  <2>2. \A p \in Procs : /\ AtEntry(p)' => AtEntry(p) /\ cur'[p] = cur[p]
                         /\ p \in Agents => pc'[p] = pc[p] /\ cur'[p] = cur[p]
    BY <1>9, <1>s DEF RenameMissing, Proceed, AtEntry, Queueing
  <2>3. QED
    BY <2>1, <2>2 DEF UInv, Queueing, IdsOK, Unwritten, Absent
<1>10. ASSUME NEW p \in Procs, RenderRead(p) PROVE UInv'
  <2>1. UNCHANGED <<file, tmp, cur, idOf, runs>>
    BY <1>10 DEF RenderRead
  <2>2. \A q \in Procs : (AtEntry(q)' => AtEntry(q)) /\ (Queueing(q)' => Queueing(q))
    BY <1>10, <1>s DEF RenderRead, AtEntry, Queueing
  <2>3. \A q \in Procs : snap'[q] = snap[q] \/ snap'[q] = file
    BY <1>10, <1>s DEF RenderRead
  <2>4. QED
    BY <2>1, <2>2, <2>3 DEF UInv, Queueing, IdsOK, Unwritten, Absent
<1>11. ASSUME NEW p \in Procs, RenderWrite(p) PROVE UInv'
  <2>1. UNCHANGED <<file, tmp, idOf, runs>>
    BY <1>11 DEF RenderWrite
  <2>2. \A q \in Procs : /\ AtEntry(q)' => AtEntry(q) /\ cur'[q] = cur[q]
                         /\ Queueing(q)' => Queueing(q) /\ cur'[q] = cur[q]
    BY <1>11, <1>s DEF RenderWrite, Proceed, AtEntry, Queueing
  <2>3. \A q \in Procs : snap'[q] = snap[q] \/ snap'[q] = <<>>
    BY <1>11, <1>s DEF RenderWrite
  <2>4. QED
    BY <2>1, <2>2, <2>3 DEF UInv, Queueing, IdsOK, Unwritten, Absent
<1>12. ASSUME NEW p \in Procs, Crash(p) PROVE UInv'
  <2>1. UNCHANGED <<file, tmp, idOf, runs>>
    BY <1>12 DEF Crash
  <2>2. \A q \in Procs : /\ AtEntry(q)' => AtEntry(q) /\ cur'[q] = cur[q]
                         /\ Queueing(q)' => Queueing(q) /\ cur'[q] = cur[q]
    BY <1>12, <1>s DEF Crash, AtEntry, Queueing
  <2>3. \A q \in Procs : snap'[q] = snap[q] \/ snap'[q] = <<>>
    BY <1>12, <1>s DEF Crash
  <2>4. QED
    BY <2>1, <2>2, <2>3 DEF UInv, Queueing, IdsOK, Unwritten, Absent
<1>13. ASSUME NEW r \in Reviewers, Render(r) PROVE UInv'
  <2>1. UNCHANGED <<file, tmp, snap, cur, idOf, runs>>
    BY <1>13 DEF Render
  <2>2. \A p \in Procs : (AtEntry(p)' => AtEntry(p)) /\ (p \in Agents => pc'[p] = pc[p])
    BY <1>13, <1>s DEF Render, AtEntry, Queueing
  <2>3. QED
    BY <2>1, <2>2 DEF UInv, Queueing, IdsOK, Unwritten, Absent
<1>14. CASE UNCHANGED vars
  BY <1>14 DEF vars, UInv, IdsOK, Unwritten, Absent, AtEntry, Queueing
<1>15. QED
  BY <1>1, <1>2, <1>2a, <1>3, <1>4, <1>5, <1>6, <1>7, <1>7a, <1>8, <1>9, <1>10, <1>11, <1>12,
     <1>13, <1>14
     DEF Next, AgentNext, ReviewerNext

\* A step that leaves met alone or adds to it keeps OneReviewer only if it held.
LEMMA OneReviewerBefore == [Next]_vars /\ OneReviewer' => OneReviewer
BY DEF OneReviewer, vars, history, Next, AgentNext, ReviewerNext, QueueRead, AppendOpen,
       QueueAppend, Command, Get, Handler, UpdateRead, OpenTmp, FlushPart, WriteTmp, Rename,
       RenameMissing, RenderRead, RenderWrite, Crash, Render

\* It holds what that reviewer has written by now, and nothing else is touched.
LEMMA PutAlone ==
    ASSUME TInv, Alone, NEW r \in Reviewers, pc[r] = "writeTmp", NEW n, NEW end, Put(r, n, end)
    PROVE  file' = file /\ tmp' = SubSeq(snap[r], 1, n) /\ ends' = [ends EXCEPT !["tmp"] = end]
<1>1. handle[r] = "tmp" /\ ends["tmp"] = r
  BY DEF Alone
<1>2. PICK new \in {SubSeq(snap[r], 1, n)} :
         /\ tmp' = new /\ UNCHANGED file
         /\ \E e \in {end} : ends' = [ends EXCEPT !["tmp"] = e]
  BY <1>1 DEF Put
<1>3. QED
  BY <1>2

\* Writing alone, a reviewer leaves its list in the temporary file.
LEMMA WritesItsList ==
    ASSUME TInv, Alone, NEW r \in Reviewers, WriteTmp(r)
    PROVE  file' = file /\ tmp' = snap[r] /\ ends' = [ends EXCEPT !["tmp"] = "whole"]
<1>1. snap[r] \in Seq(Entry)
  BY ProcsDistinct DEF TInv, TypeOK, Store
<1>2. SubSeq(snap[r], 1, Len(snap[r])) = snap[r]
  BY <1>1, SubSeqFull
<1>3. QED
  BY <1>2, PutAlone DEF WriteTmp

LEMMA SingleStep == TInv /\ SInv /\ [Next]_vars => SInv'
<1> SUFFICES ASSUME TInv, SInv, [Next]_vars, OneReviewer' PROVE Alone'
  BY DEF SInv
<1> USE ProcsDistinct DEF history
<1>s. /\ pc \in [Procs -> AgentPc \cup ReviewerPc] /\ snap \in [Procs -> Store]
      /\ handle \in [Procs -> {"none", "store", "tmp", "gone"}]
      /\ ends \in [{"store", "tmp"} -> {"whole", "cut"} \cup Procs]
  BY DEF TInv, TypeOK
<1>a. Alone
  BY OneReviewerBefore DEF SInv
<1>1. ASSUME NEW a \in Agents, QueueRead(a) PROVE Alone'
  BY <1>1, <1>s, <1>a DEF QueueRead, Alone
<1>2. ASSUME NEW a \in Agents, AppendOpen(a) \/ QueueAppend(a) PROVE Alone'
  <2>1. /\ tmp' = tmp /\ ends'["tmp"] = ends["tmp"]
        /\ \A r \in Reviewers : pc'[r] = pc[r] /\ handle'[r] = handle[r]
    BY <1>2, <1>s DEF AppendOpen, QueueAppend
  <2>2. QED
    BY <1>a, <2>1 DEF Alone
<1>3. ASSUME NEW r \in Reviewers, Command(r) PROVE Alone'
  <2>1. ASSUME NEW s \in Reviewers, s # r, pc[s] # "idle" PROVE FALSE
    <3>1. {Kind(r), Kind(s)} \in Meets(r)
      BY <2>1 DEF Meets
    <3>2. {Kind(r), Kind(s)} = {"reviewer"}
      BY DEF Kind
    <3>3. QED
      BY <1>3, <3>1, <3>2 DEF Command, OneReviewer
  <2>2. QED
    BY <1>3, <1>s, <1>a, <2>1 DEF Command, Alone
<1>4. ASSUME NEW r \in Reviewers, Get(r) PROVE Alone'
  <2>1. pc[r] = "get" /\ UNCHANGED <<tmp, ends, handle>>
    BY <1>4 DEF Get
  <2>2. \A p \in Procs \ {r} : pc'[p] = pc[p]
    BY <1>4, <1>s DEF Get, Proceed, TakeOn
  <2>3. pc'[r] \notin {"rename", "writeTmp"}
    BY <1>4, <1>s DEF Get, Proceed, TakeOn
  <2>4. QED
    BY <1>a, <2>1, <2>2, <2>3 DEF Alone
<1>5. ASSUME NEW r \in Reviewers, Handler(r) PROVE Alone'
  BY <1>5, <1>s, <1>a DEF Handler, Alone
<1>6. ASSUME NEW r \in Reviewers, UpdateRead(r) PROVE Alone'
  BY <1>6, <1>s, <1>a DEF UpdateRead, Alone
\* The one reviewer in a call moves on.
<1>m. ASSUME NEW r \in Reviewers, pc[r] # "idle", \A p \in Procs \ {r} : pc'[p] = pc[p],
             NEW s \in Reviewers, s # r
      PROVE  pc'[s] = "idle"
  BY <1>a, <1>m DEF Alone
<1>7. ASSUME NEW r \in Reviewers, OpenTmp(r) PROVE Alone'
  <2>1. /\ pc[r] = "openTmp" /\ pc' = [pc EXCEPT ![r] = "writeTmp"]
        /\ handle'[r] = "tmp" /\ ends'["tmp"] = r
    BY <1>7, <1>s DEF OpenTmp
  <2>2. pc'[r] = "writeTmp" /\ \A s \in Reviewers : s # r => pc'[s] = "idle"
    BY <1>m, <1>s, <2>1
  <2>3. QED
    BY <2>1, <2>2 DEF Alone
<1>7a. ASSUME NEW r \in Reviewers, FlushPart(r) PROVE Alone'
  <2>1. PICK n \in 0 .. Len(snap[r]) - 1 : Put(r, n, r)
    BY <1>7a DEF FlushPart
  <2>2. UNCHANGED <<pc, handle>> /\ pc[r] = "writeTmp"
    BY <1>7a DEF FlushPart
  <2>3. ends'["tmp"] = r
    BY <1>a, <1>s, <2>1, <2>2, PutAlone
  <2>4. \A s \in Reviewers : s # r => pc'[s] = "idle"
    BY <1>m, <2>2
  <2>5. QED
    BY <1>a, <2>2, <2>3, <2>4 DEF Alone
<1>7b. ASSUME NEW r \in Reviewers, WriteTmp(r) PROVE Alone'
  <2>1. pc[r] = "writeTmp" /\ pc' = [pc EXCEPT ![r] = "rename"]
    BY <1>7b DEF WriteTmp
  <2>2. tmp' # NoFile
    BY <1>7b, <1>a, <1>s, NoFileAssumption, WritesItsList
  <2>3. pc'[r] = "rename" /\ \A s \in Reviewers : s # r => pc'[s] = "idle"
    BY <1>m, <1>s, <2>1
  <2>4. QED
    BY <2>2, <2>3 DEF Alone
<1>8. ASSUME NEW r \in Reviewers, Rename(r) PROVE Alone'
  <2>1. pc[r] = "rename" /\ pc' = [pc EXCEPT ![r] = "renderRead"]
    BY <1>8 DEF Rename
  <2>2. pc'[r] = "renderRead" /\ \A s \in Reviewers : s # r => pc'[s] = "idle"
    BY <1>m, <1>s, <2>1
  <2>3. QED
    BY <2>2 DEF Alone
<1>9. ASSUME NEW r \in Reviewers, RenameMissing(r) PROVE Alone'
  BY <1>9, <1>a DEF RenameMissing, Alone
<1>10. ASSUME NEW p \in Procs, RenderRead(p) PROVE Alone'
  BY <1>10, <1>s, <1>a DEF RenderRead, Alone
<1>11. ASSUME NEW p \in Procs, RenderWrite(p) PROVE Alone'
  <2>1. pc[p] # "idle" /\ pc'[p] \notin {"rename", "writeTmp"} /\ UNCHANGED <<tmp, ends, handle>>
    BY <1>11, <1>s DEF RenderWrite, Proceed
  <2>2. \A q \in Procs \ {p} : pc'[q] = pc[q]
    BY <1>11, <1>s DEF RenderWrite, Proceed
  <2>3. QED
    BY <1>a, <2>1, <2>2 DEF Alone
<1>12. ASSUME NEW p \in Procs, Crash(p) PROVE Alone'
  <2>1. /\ tmp' = tmp /\ pc'[p] = "idle"
        /\ \A q \in Procs \ {p} : pc'[q] = pc[q] /\ handle'[q] = handle[q]
    BY <1>12, <1>s DEF Crash
  <2>2. ends'["tmp"] = IF ends["tmp"] = p THEN "cut" ELSE ends["tmp"]
    BY <1>12 DEF Crash
  <2>3. QED
    BY <1>a, <2>1, <2>2 DEF Alone
<1>13. ASSUME NEW r \in Reviewers, Render(r) PROVE Alone'
  <2>1. ASSUME NEW s \in Reviewers, s # r, pc[s] # "idle" PROVE FALSE
    <3>1. {Kind(r), Kind(s)} \in Meets(r)
      BY <2>1 DEF Meets
    <3>2. {Kind(r), Kind(s)} = {"reviewer"}
      BY DEF Kind
    <3>3. QED
      BY <1>13, <3>1, <3>2 DEF Render, OneReviewer
  <2>2. QED
    BY <1>13, <1>s, <1>a, <2>1 DEF Render, Alone
<1>14. CASE UNCHANGED vars
  BY <1>14, <1>a DEF vars, Alone
<1>15. QED
  BY <1>1, <1>2, <1>3, <1>4, <1>5, <1>6, <1>7, <1>7a, <1>7b, <1>8, <1>9, <1>10, <1>11, <1>12,
     <1>13, <1>14
     DEF Next, AgentNext, ReviewerNext

LEMMA OnceStep == TInv /\ UInv /\ SInv /\ HInv /\ [Next]_vars => HInv'
<1> SUFFICES ASSUME TInv, UInv, SInv, HInv, [Next]_vars, OneReviewer' PROVE OncePerCrash'
  BY DEF HInv
<1> USE ProcsDistinct DEF history
<1>s. /\ file \in Store /\ snap \in [Procs -> Store] /\ cur \in [Procs -> Key \cup {NoEntry}]
      /\ runs \in [Uids -> Nat] /\ pc \in [Procs -> AgentPc \cup ReviewerPc]
      /\ crashes \in Nat
  BY DEF TInv, TypeOK
<1>r. \A r \in Reviewers : pc[r] \notin {"append"}
  BY DEF TInv, TypeOK, ReviewerPc
<1>o. OneReviewer
  BY OneReviewerBefore
<1>a. Alone /\ OncePerCrash
  BY <1>o DEF SInv, HInv
<1>q. ASSUME UNCHANGED <<runs, crashes>>,
             \A u \in Uids : runs[u] # 0 /\ Spent(u) => Spent(u)'
      PROVE  OncePerCrash'
  BY <1>s, <1>a, <1>q DEF OncePerCrash
<1>1. ASSUME NEW a \in Agents, QueueRead(a) PROVE OncePerCrash'
  <2>1. UNCHANGED <<file, tmp, snap, runs, crashes>>
    BY <1>1 DEF QueueRead
  <2>2. \A r \in Reviewers : pc'[r] = pc[r] /\ cur'[r] = cur[r]
    BY <1>1, <1>s DEF QueueRead
  <2>3. QED
    BY <2>1, <2>2, <1>q DEF Spent, Settled, Recording
<1>2. ASSUME NEW a \in Agents, QueueAppend(a) PROVE OncePerCrash'
  <2>1. /\ UNCHANGED <<tmp, snap, cur, runs, crashes>>
        /\ file' = file \/ file' = Append(file, NewEntry(a))
    BY <1>2 DEF QueueAppend
  <2>2. \A r \in Reviewers : pc'[r] = pc[r]
    BY <1>2, <1>s DEF QueueAppend
  <2>3. cur[a] \in Key /\ runs[cur[a].uid] = 0
    BY <1>2 DEF QueueAppend, TInv, ControlOK, AtEntry, UInv, Queueing, Unwritten
  <2>4. NewEntry(a) \in Entry /\ NewEntry(a).uid = cur[a].uid
    BY <2>3 DEF NewEntry, Entry, Key, Status
  <2>c. \A k \in DOMAIN file' :
           (k \in DOMAIN file /\ file'[k] = file[k]) \/ file'[k] = NewEntry(a)
    BY <1>s, <2>1, <2>4, AppendStore
  <2>5. \A u \in Uids : runs[u] # 0 /\ Settled(file, u) => Settled(file, u)'
    BY <2>3, <2>4, <2>c DEF Settled
  <2>6. QED
    BY <2>1, <2>2, <2>5, <1>q DEF Spent, Settled, Recording
<1>2a. ASSUME NEW a \in Agents, AppendOpen(a) PROVE OncePerCrash'
  <2>1. UNCHANGED <<file, tmp, snap, cur, runs, crashes>>
    BY <1>2a DEF AppendOpen
  <2>2. \A r \in Reviewers : pc'[r] = pc[r]
    BY <1>2a, <1>s DEF AppendOpen
  <2>3. QED
    BY <2>1, <2>2, <1>q DEF Spent, Settled, Recording
<1>3. ASSUME NEW r \in Reviewers, Command(r) PROVE OncePerCrash'
  <2>1. UNCHANGED <<file, tmp, snap, cur, runs, crashes>>
    BY <1>3 DEF Command
  <2>2. pc[r] = "idle" /\ pc' = [pc EXCEPT ![r] = "get"]
    BY <1>3 DEF Command
  <2>3. \A s \in Reviewers : pc'[s] = pc[s] \/ (s = r /\ pc[s] = "idle" /\ pc'[s] = "get")
    BY <1>s, <2>2
  <2>4. QED
    BY <2>1, <2>3, <1>q DEF Spent, Settled, Recording
<1>4. ASSUME NEW r \in Reviewers, Get(r) PROVE OncePerCrash'
  <2>1. UNCHANGED <<file, tmp, snap, runs, crashes>> /\ pc[r] = "get"
    BY <1>4 DEF Get
  <2>2. \A s \in Reviewers : s # r => pc[s] = "idle" /\ pc'[s] = "idle"
    BY <1>4, <1>s, <1>a, <2>1 DEF Alone, Get, Proceed, TakeOn
  <2>3. pc'[r] \notin {"openTmp", "writeTmp", "rename"}
    BY <1>4, <1>s DEF Get, Proceed, TakeOn
  <2>4. pc'[r] = "handler" =>
           \E k \in DOMAIN file : file[k].status = "PENDING" /\ cur'[r].uid = file[k].uid
    <3>1. CASE Proceed(r)
      BY <1>s, <3>1 DEF Proceed
    <3>2. ASSUME NEW k \in DOMAIN file, StillPending(file[k]), TakeOn(r, k)
          PROVE  file[k].status = "PENDING" /\ cur'[r].uid = file[k].uid
      BY <1>s, <3>2 DEF TakeOn, StillPending
    <3>3. QED
      BY <1>4, <3>1, <3>2 DEF Get
  <2>5. ASSUME NEW u \in Uids, Spent(u) PROVE Spent(u)'
    <3>1. Settled(file, u)
      BY <2>1, <2>2, <2>5 DEF Spent, Recording
    <3>2. pc'[r] = "handler" => cur'[r].uid # u
      BY <2>4, <3>1 DEF Settled
    <3>3. QED
      BY <2>1, <2>2, <2>3, <3>1, <3>2 DEF Spent, Settled
  <2>6. QED
    BY <2>1, <2>5, <1>q
<1>5. ASSUME NEW r \in Reviewers, Handler(r) PROVE OncePerCrash'
  <2> DEFINE d == cur[r].uid
  <2>1. /\ UNCHANGED <<file, tmp, snap, cur, crashes>> /\ pc[r] = "handler"
        /\ runs' = [runs EXCEPT ![d] = @ + 1] /\ pc' = [pc EXCEPT ![r] = "update"]
    BY <1>5 DEF Handler
  <2>2. \A s \in Reviewers : s # r => pc[s] = "idle" /\ pc'[s] = "idle"
    BY <1>s, <1>a, <2>1 DEF Alone
  <2>3. pc'[r] = "update" /\ d \in Uids
    BY <1>s, <2>1 DEF TInv, ControlOK, AtEntry, Key
  <2>4. ~ Spent(d)
    BY <2>1 DEF Spent
  <2>5. runs'[d] <= crashes' + 1
    BY <1>s, <1>a, <2>1, <2>3, <2>4 DEF OncePerCrash
  <2>6. Spent(d)'
    BY <2>1, <2>2, <2>3 DEF Spent, Recording
  <2>7. ASSUME NEW u \in Uids, u # d, Spent(u) PROVE Spent(u)'
    <3>1. Settled(file, u)
      BY <2>1, <2>2, <2>7 DEF Spent, Recording
    <3>2. QED
      BY <2>1, <2>2, <2>3, <3>1 DEF Spent, Settled
  <2>8. \A u \in Uids : u # d => runs'[u] = runs[u]
    BY <1>s, <2>1
  <2>9. QED
    BY <1>a, <2>1, <2>5, <2>6, <2>7, <2>8 DEF OncePerCrash
<1>6. ASSUME NEW r \in Reviewers, UpdateRead(r) PROVE OncePerCrash'
  <2>1. UNCHANGED <<file, tmp, cur, runs, crashes>> /\ pc[r] = "update"
    BY <1>6 DEF UpdateRead
  <2>2. \A s \in Reviewers : s # r => pc[s] = "idle" /\ pc'[s] = "idle"
    BY <1>6, <1>s, <1>a, <2>1 DEF Alone, UpdateRead
  <2>3. pc'[r] = "openTmp" /\ snap'[r] = Marked(file, cur[r].id, want[r])
    BY <1>6, <1>s DEF UpdateRead
  <2>4. want[r] \in Status /\ want[r] # "PENDING" /\ cur[r].id = idOf[cur[r].uid]
    BY <2>1 DEF TInv, ControlOK, UInv, AtEntry, Status, Terminal
  <2>5. ASSUME NEW u \in Uids, Spent(u) PROVE Spent(u)'
    <3>1. Settled(file, u) \/ cur[r].uid = u
      BY <2>2, <2>5 DEF Spent, Recording
    <3>2. \A k \in DOMAIN file : file[k].uid = u =>
             file[k].status # "PENDING" \/ file[k].id = cur[r].id
      BY <2>4, <3>1 DEF Settled, UInv, IdsOK
    <3>3. Settled(snap'[r], u)
      BY <1>s, <2>3, <2>4, <3>2, MarkedProperties DEF Settled
    <3>4. Settled(file, u) \/ (Recording(r)' /\ cur'[r].uid = u)
      BY <2>1, <2>3, <3>1 DEF Recording
    <3>5. QED
      BY <2>1, <2>2, <2>3, <3>3, <3>4 DEF Spent, Settled
  <2>6. QED
    BY <2>1, <2>5, <1>q
<1>7. ASSUME NEW r \in Reviewers, OpenTmp(r) PROVE OncePerCrash'
  <2>1. /\ UNCHANGED <<file, snap, cur, runs, crashes>> /\ pc[r] = "openTmp"
        /\ pc' = [pc EXCEPT ![r] = "writeTmp"]
    BY <1>7 DEF OpenTmp
  <2>2. \A s \in Reviewers : s # r => pc[s] = "idle" /\ pc'[s] = "idle"
    BY <1>s, <1>a, <2>1 DEF Alone
  <2>3. pc'[r] = "writeTmp"
    BY <1>s, <2>1
  <2>4. ASSUME NEW u \in Uids, Spent(u) PROVE Spent(u)'
    <3>1. Settled(snap[r], u) /\ (Settled(file, u) \/ cur[r].uid = u)
      BY <2>1, <2>2, <2>4 DEF Spent, Recording
    <3>2. QED
      BY <2>1, <2>2, <2>3, <3>1 DEF Spent, Settled, Recording
  <2>5. QED
    BY <2>1, <2>4, <1>q
<1>7a. ASSUME NEW r \in Reviewers, FlushPart(r) PROVE OncePerCrash'
  <2>1. UNCHANGED <<pc, snap, cur, runs, crashes>> /\ pc[r] = "writeTmp"
    BY <1>7a DEF FlushPart
  <2>2. PICK n \in 0 .. Len(snap[r]) - 1 : Put(r, n, r)
    BY <1>7a DEF FlushPart
  <2>3. file' = file
    BY <1>a, <2>1, <2>2, PutAlone
  <2>4. \A s \in Reviewers : pc[s] # "rename"
    BY <1>a, <2>1 DEF Alone
  <2>5. \A u \in Uids : Spent(u) => Spent(u)'
    BY <2>1, <2>3, <2>4 DEF Spent, Settled, Recording
  <2>6. QED
    BY <2>1, <2>5, <1>q
<1>7b. ASSUME NEW r \in Reviewers, WriteTmp(r) PROVE OncePerCrash'
  <2>1. /\ UNCHANGED <<cur, runs, crashes>> /\ pc[r] = "writeTmp"
        /\ pc' = [pc EXCEPT ![r] = "rename"]
    BY <1>7b DEF WriteTmp
  <2>f. file' = file /\ tmp' = snap[r]
    BY <1>7b, <1>a, WritesItsList
  <2>2. \A s \in Reviewers : s # r => pc[s] = "idle" /\ pc'[s] = "idle"
    BY <1>s, <1>a, <2>1 DEF Alone
  <2>3. pc'[r] = "rename"
    BY <1>s, <2>1
  <2>4. ASSUME NEW u \in Uids, Spent(u) PROVE Spent(u)'
    <3>1. Settled(snap[r], u) /\ (Settled(file, u) \/ cur[r].uid = u)
      BY <2>1, <2>2, <2>4 DEF Spent, Recording
    <3>2. QED
      BY <2>1, <2>2, <2>3, <2>f, <3>1 DEF Spent, Settled, Recording
  <2>5. QED
    BY <2>1, <2>4, <1>q
<1>8. ASSUME NEW r \in Reviewers, Rename(r) PROVE OncePerCrash'
  <2>1. /\ UNCHANGED <<cur, runs, crashes>> /\ pc[r] = "rename"
        /\ file' = tmp /\ pc' = [pc EXCEPT ![r] = "renderRead"]
    BY <1>8 DEF Rename
  <2>2. \A s \in Reviewers : s # r => pc[s] = "idle" /\ pc'[s] = "idle"
    BY <1>s, <1>a, <2>1 DEF Alone
  <2>3. pc'[r] = "renderRead"
    BY <1>s, <2>1
  <2>4. ASSUME NEW u \in Uids, Spent(u) PROVE Spent(u)'
    BY <2>1, <2>2, <2>3, <2>4 DEF Spent, Settled
  <2>5. QED
    BY <2>1, <2>4, <1>q
<1>9. ASSUME NEW r \in Reviewers, RenameMissing(r) PROVE OncePerCrash'
  BY <1>9, <1>a DEF RenameMissing, Alone
<1>10. ASSUME NEW p \in Procs, RenderRead(p) PROVE OncePerCrash'
  <2>1. UNCHANGED <<file, tmp, cur, runs, crashes>>
    BY <1>10 DEF RenderRead
  <2>2. \A r \in Reviewers : \/ pc'[r] = pc[r] /\ snap'[r] = snap[r]
                             \/ pc[r] = "renderRead" /\ pc'[r] = "renderWrite"
    BY <1>10, <1>s DEF RenderRead
  <2>3. QED
    BY <2>1, <2>2, <1>q DEF Spent, Settled, Recording
<1>11. ASSUME NEW p \in Procs, RenderWrite(p) PROVE OncePerCrash'
  <2>1. UNCHANGED <<file, tmp, runs, crashes>>
    BY <1>11 DEF RenderWrite
  <2>2. \A r \in Reviewers : \/ pc'[r] = pc[r] /\ snap'[r] = snap[r] /\ cur'[r] = cur[r]
                             \/ pc[r] = "renderWrite" /\ pc'[r] \in {"idle", "get"}
    BY <1>11, <1>s DEF RenderWrite, Proceed
  <2>3. QED
    BY <2>1, <2>2, <1>q DEF Spent, Settled, Recording
<1>12. ASSUME NEW p \in Procs, Crash(p) PROVE OncePerCrash'
  <2>1. runs' = runs /\ crashes' = crashes + 1
    BY <1>12 DEF Crash
  <2>2. QED
    BY <1>s, <1>a, <2>1 DEF OncePerCrash
<1>13. ASSUME NEW r \in Reviewers, Render(r) PROVE OncePerCrash'
  <2>1. UNCHANGED <<file, tmp, snap, cur, runs, crashes>>
    BY <1>13 DEF Render
  <2>2. \A s \in Reviewers : pc'[s] = pc[s] \/ (pc[s] = "idle" /\ pc'[s] = "renderRead")
    BY <1>13, <1>s DEF Render
  <2>3. QED
    BY <2>1, <2>2, <1>q DEF Spent, Settled, Recording
<1>14. CASE UNCHANGED vars
  <2>1. UNCHANGED <<file, tmp, snap, pc, cur, runs, crashes>>
    BY <1>14 DEF vars
  <2>2. QED
    BY <2>1, <1>q DEF Spent, Settled, Recording
<1>15. QED
  BY <1>1, <1>2, <1>2a, <1>3, <1>4, <1>5, <1>6, <1>7, <1>7a, <1>7b, <1>8, <1>9, <1>10, <1>11,
     <1>12, <1>13, <1>14
     DEF Next, AgentNext, ReviewerNext

\* Without overlapping reviewers, approve() starts the handler of a request at
\* most once, and once more for each crash, however many agents append meanwhile.
THEOREM HandlerRunsOncePerCrash == Spec => []HandlerOncePerCrash
<1>1. Init => TInv /\ UInv /\ SInv /\ HInv
  BY InitType, InitOnce
<1>2. (TInv /\ UInv /\ SInv /\ HInv) /\ [Next]_vars => (TInv /\ UInv /\ SInv /\ HInv)'
  BY TypeStep, UidStep, SingleStep, OnceStep
<1>3. TInv /\ HInv => HandlerOncePerCrash
  <2>1. SUFFICES ASSUME TInv, HInv, OneReviewer, NEW u \in Uids PROVE runs[u] <= 1 + crashes
    BY DEF HandlerOncePerCrash, OneReviewer
  <2>2. runs[u] \in Nat /\ crashes \in Nat /\ runs[u] <= crashes + 1
    BY <2>1 DEF TInv, TypeOK, HInv, OncePerCrash
  <2>3. QED
    BY <2>2
<1>4. QED
  BY <1>1, <1>2, <1>3, PTL DEF Spec

-----------------------------------------------------------------------------
(* No acknowledged request is lost *)

UidsOf(f) == {f[k].uid : k \in DOMAIN f}

KindsApart == {"agent", "reviewer"} \notin met

Orderly == ~split /\ KindsApart /\ OneReviewer

\* The requests whose line has been written: their queue() call has returned, or will.
Placed == acked \cup {cur[a].uid : a \in {a \in Agents : pc[a] \in {"renderRead", "renderWrite"}}}

Lost == {u \in Placed : u \notin UidsOf(file)}

\* The line that a crash has cut costs the next request.
Torn == IF ends["store"] = "cut" THEN 1 ELSE 0

Counted == IsFiniteSet(Lost) /\ Cardinality(Lost) + Torn <= crashes

\* One agent at most is in the middle of its line, and no list that may become the store
\* lacks a request that the store has.
KeptApart ==
    /\ \A a \in Agents, r \in Reviewers : pc[a] = "idle" \/ pc[r] = "idle"
    /\ \A a \in Agents : pc[a] \in {"write", "rest"} => handle[a] = "store"
    /\ \A a \in Agents : pc[a] = "rest" => ends["store"] \in {a, "cut"}
    /\ ends["store"] \in {"whole", "cut"} \cup {a \in Agents : pc[a] = "rest"}
    /\ \A r \in Reviewers : pc[r] \in {"openTmp", "writeTmp"} => UidsOf(snap[r]) = UidsOf(file)
    /\ \A r \in Reviewers : pc[r] = "rename" => ends["tmp"] = "whole" /\ UidsOf(tmp) = UidsOf(file)
    /\ Counted

KInv == Orderly => KeptApart

LEMMA OrderlyBefore == [Next]_vars /\ Orderly' => Orderly
<1>1. [Next]_vars => met \subseteq met'
  BY DEF vars, history, Next, AgentNext, ReviewerNext, QueueRead, AppendOpen,
         QueueAppend, Command, Get, Handler, UpdateRead, OpenTmp, FlushPart, WriteTmp, Rename,
         RenameMissing, RenderRead, RenderWrite, Crash, Render
<1>2. [Next]_vars => split' = split \/ \E a \in Agents : split' = Splits(a)
  BY DEF vars, history, Next, AgentNext, ReviewerNext, QueueRead, AppendOpen,
         QueueAppend, Command, Get, Handler, UpdateRead, OpenTmp, FlushPart, WriteTmp, Rename,
         RenameMissing, RenderRead, RenderWrite, Crash, Render
<1>3. [Next]_vars /\ split => split'
  BY <1>2 DEF Splits
<1>4. QED
  BY <1>1, <1>3 DEF Orderly, KindsApart, OneReviewer

\* What is not lost by a step, and what one request more costs.
LEMMA Fewer ==
    ASSUME NEW S, IsFiniteSet(S), NEW T \in SUBSET S
    PROVE  /\ IsFiniteSet(T) /\ Cardinality(S) \in Nat /\ Cardinality(T) \in Nat
           /\ Cardinality(T) <= Cardinality(S)
BY FS_Subset, FS_CardinalityType

LEMMA OneMore ==
    ASSUME NEW S, IsFiniteSet(S), NEW x, NEW T \in SUBSET (S \cup {x})
    PROVE  /\ IsFiniteSet(T) /\ Cardinality(S) \in Nat /\ Cardinality(T) \in Nat
           /\ Cardinality(T) <= Cardinality(S) + 1
<1>1. /\ IsFiniteSet(S \cup {x}) /\ Cardinality(S) \in Nat /\ Cardinality(S \cup {x}) \in Nat
      /\ Cardinality(S \cup {x}) <= Cardinality(S) + 1
  BY FS_AddElement, FS_CardinalityType
<1>2. IsFiniteSet(T) /\ Cardinality(T) \in Nat /\ Cardinality(T) <= Cardinality(S \cup {x})
  BY <1>1, Fewer
<1>3. QED
  BY <1>1, <1>2

\* Who enters a call while the kinds stay apart finds nobody of the other kind in one.
LEMMA EntersAlone ==
    ASSUME TInv, KindsApart', NEW p \in Procs, met' = met \cup Meets(p)
    PROVE  /\ p \in Agents => \A r \in Reviewers : pc[r] = "idle"
           /\ p \in Reviewers => \A a \in Agents : pc[a] = "idle"
<1> USE ProcsDistinct
<1>1. ASSUME NEW q \in Procs \ {p}, pc[q] # "idle" PROVE {Kind(p), Kind(q)} \in met'
  BY <1>1 DEF Meets
<1>2. ASSUME NEW r \in Reviewers, p \in Agents, pc[r] # "idle" PROVE FALSE
  <2>1. r \in Procs \ {p} /\ {Kind(p), Kind(r)} = {"agent", "reviewer"}
    BY <1>2 DEF Kind
  <2>2. QED
    BY <1>1, <1>2, <2>1 DEF KindsApart
<1>3. ASSUME NEW a \in Agents, p \in Reviewers, pc[a] # "idle" PROVE FALSE
  <2>1. a \in Procs \ {p} /\ {Kind(p), Kind(a)} = {"agent", "reviewer"}
    BY <1>3 DEF Kind
  <2>2. QED
    BY <1>1, <1>3, <2>1 DEF KindsApart
<1>4. QED
  BY <1>2, <1>3

LEMMA KeptStep == TInv /\ SInv /\ KInv /\ [Next]_vars => KInv'
<1> SUFFICES ASSUME TInv, SInv, KInv, [Next]_vars, Orderly' PROVE KeptApart'
  BY DEF KInv
<1> USE ProcsDistinct DEF history
<1>s. /\ pc \in [Procs -> AgentPc \cup ReviewerPc] /\ snap \in [Procs -> Store]
      /\ cur \in [Procs -> Key \cup {NoEntry}] /\ file \in Store
      /\ handle \in [Procs -> {"none", "store", "tmp", "gone"}]
      /\ ends \in [{"store", "tmp"} -> {"whole", "cut"} \cup Procs] /\ crashes \in Nat
      /\ \A a \in Agents : pc[a] \in AgentPc
      /\ \A r \in Reviewers : pc[r] \in ReviewerPc
  BY DEF TInv, TypeOK
<1>a. KeptApart /\ Alone /\ Orderly
  BY OrderlyBefore DEF KInv, SInv, Orderly
<1>d. \A p \in Procs : p \notin {"whole", "cut"}
  BY ApprovalAssumption
\* A step that loses no request and leaves no line cut.
<1>c. ASSUME Lost' \subseteq Lost, Torn' = 0 \/ Torn' = Torn, crashes' = crashes PROVE Counted'
  <2>1. /\ IsFiniteSet(Lost) /\ Cardinality(Lost) + Torn <= crashes
        /\ Torn \in {0, 1} /\ Torn' \in {0, 1}
    BY <1>a DEF KeptApart, Counted, Torn
  <2>2. /\ IsFiniteSet(Lost') /\ Cardinality(Lost) \in Nat /\ Cardinality(Lost') \in Nat
        /\ Cardinality(Lost') <= Cardinality(Lost)
    BY <1>c, <2>1, Fewer
  <2>3. Cardinality(Lost') + Torn' <= crashes'
    BY <1>s, <1>c, <2>1, <2>2
  <2>4. IsFiniteSet(Lost)' /\ Cardinality(Lost)' = Cardinality(Lost')
    BY <2>2
  <2>5. QED
    BY <2>3, <2>4 DEF Counted
\* A step that leaves the files alone, and takes nobody to a later point of a call.
<1>q. ASSUME UNCHANGED <<file, tmp, ends, crashes>>, Placed' \subseteq Placed,
             \A a \in Agents, r \in Reviewers : pc'[a] = "idle" \/ pc'[r] = "idle",
             \A a \in Agents : pc'[a] \in {"write", "rest"} =>
                pc'[a] = pc[a] /\ handle'[a] = handle[a],
             \A a \in Agents : pc[a] = "rest" => pc'[a] = "rest",
             \A r \in Reviewers : pc'[r] \in {"openTmp", "writeTmp", "rename"} =>
                pc'[r] = pc[r] /\ snap'[r] = snap[r]
      PROVE  KeptApart'
  <2>1. Counted'
    <3>1. Lost' \subseteq Lost /\ Torn' = Torn
      BY <1>q DEF Lost, UidsOf, Torn
    <3>2. QED
      BY <1>c, <1>q, <3>1
  <2>2. UidsOf(file)' = UidsOf(file) /\ UidsOf(tmp)' = UidsOf(tmp)
    BY <1>q DEF UidsOf
  <2>3. ASSUME NEW r \in Reviewers
        PROVE  /\ pc'[r] \in {"openTmp", "writeTmp"} => UidsOf(snap'[r]) = UidsOf(file')
               /\ pc'[r] = "rename" => ends'["tmp"] = "whole" /\ UidsOf(tmp') = UidsOf(file')
    BY <1>a, <1>q DEF KeptApart
  <2>4. QED
    BY <1>a, <1>q, <2>1, <2>3 DEF KeptApart, UidsOf
\* A step of a process in a call of its own leaves the kinds apart.
<1>k. ASSUME NEW p \in Procs, pc[p] # "idle", \A q \in Procs \ {p} : pc'[q] = pc[q]
      PROVE  \A a \in Agents, r \in Reviewers : pc'[a] = "idle" \/ pc'[r] = "idle"
  BY <1>a, <1>k DEF KeptApart
\* What a reviewer does in its call leaves the agents' requests alone.
<1>p. ASSUME acked' = acked,
             cur' = cur \/ \E r \in Reviewers : \A p \in Procs \ {r} : cur'[p] = cur[p],
             \A a \in Agents : pc'[a] \in {"renderRead", "renderWrite"} =>
                pc[a] \in {"renderRead", "renderWrite"}
      PROVE  Placed' \subseteq Placed
  BY <1>p DEF Placed
<1>1. ASSUME NEW a \in Agents, QueueRead(a) PROVE KeptApart'
  <2>1. /\ UNCHANGED <<file, tmp, ends, handle, crashes, acked, snap>> /\ met' = met \cup Meets(a)
        /\ pc' = [pc EXCEPT ![a] = "append"] /\ pc[a] = "idle"
        /\ \A b \in Agents \ {a} : cur'[b] = cur[b]
    BY <1>1, <1>s DEF QueueRead
  <2>2. \A r \in Reviewers : pc'[r] = "idle"
    BY <1>s, <2>1, EntersAlone DEF Orderly
  <2>3. Placed' \subseteq Placed
    BY <1>s, <2>1 DEF Placed
  <2>4. QED
    BY <1>q, <1>s, <2>1, <2>2, <2>3
<1>2. ASSUME NEW a \in Agents, AppendOpen(a) PROVE KeptApart'
  <2>1. /\ pc[a] = "append" /\ UNCHANGED <<file, tmp, acked, cur, crashes, snap>>
        /\ handle' = [handle EXCEPT ![a] = "store"]
        /\ \A b \in Procs \ {a} : pc'[b] = pc[b]
        /\ \/ pc'[a] = "write" /\ ends' = ends
           \/ /\ pc'[a] = "rest" /\ split' = Splits(a)
              /\ ends' = [ends EXCEPT !["store"] = IF @ = "whole" THEN a ELSE "cut"]
    BY <1>2, <1>s DEF AppendOpen
  <2>2. \A r \in Reviewers : pc[r] = "idle" /\ pc'[r] = "idle"
    BY <1>a, <2>1 DEF KeptApart
  <2>3. pc'[a] = "rest" => \A b \in Agents : pc[b] # "rest"
    BY <1>a, <2>1 DEF KeptApart, Orderly, Splits
  <2>4. /\ ends'["store"] \in {"whole", "cut"} \cup {b \in Agents : pc'[b] = "rest"}
        /\ \A b \in Agents : pc'[b] = "rest" => ends'["store"] \in {b, "cut"}
    BY <1>a, <1>s, <2>1, <2>3 DEF KeptApart
  <2>5. Counted'
    <3>1. Lost' \subseteq Lost
      BY <2>1 DEF Lost, Placed, UidsOf
    <3>2. ends'["store"] = "cut" => ends["store"] = "cut"
      BY <1>a, <1>d, <1>s, <2>1, <2>3 DEF KeptApart
    <3>3. QED
      BY <1>c, <2>1, <3>1, <3>2 DEF Torn
  <2>6. \A b \in Agents : pc'[b] \in {"write", "rest"} => handle'[b] = "store"
    BY <1>a, <1>s, <2>1 DEF KeptApart
  <2>7. QED
    BY <2>2, <2>4, <2>5, <2>6 DEF KeptApart
<1>2a. ASSUME NEW a \in Agents, QueueAppend(a) PROVE KeptApart'
  <2>1. /\ pc[a] \in {"write", "rest"} /\ UNCHANGED <<acked, cur, crashes>>
        /\ pc' = [pc EXCEPT ![a] = "renderRead"] /\ handle' = [handle EXCEPT ![a] = "none"]
        /\ handle[a] = "store"
        /\ file' = IF ends["store"] = FitEnd(a) THEN Append(file, NewEntry(a)) ELSE file
        /\ ends' = [ends EXCEPT !["store"] = "whole"] /\ split' = Splits(a)
    BY <1>2a, <1>a DEF QueueAppend, KeptApart
  <2>2. \A r \in Reviewers : pc[r] = "idle" /\ pc'[r] = "idle"
    BY <1>a, <1>s, <2>1 DEF KeptApart
  <2>3. \A b \in Agents \ {a} : pc[b] # "rest" /\ pc'[b] = pc[b]
    BY <1>a, <1>s, <2>1 DEF KeptApart, Orderly, Splits
  <2>4. Placed' \subseteq Placed \cup {cur[a].uid}
    BY <1>s, <2>1 DEF Placed
  <2>5. Torn' = 0 /\ IsFiniteSet(Lost) /\ Cardinality(Lost) + Torn <= crashes /\ Torn \in {0, 1}
    BY <1>a, <1>d, <1>s, <2>1 DEF Torn, KeptApart, Counted
  <2>6. ASSUME ends["store"] = FitEnd(a) PROVE Counted'
    <3>1. NewEntry(a) \in Entry /\ NewEntry(a).uid = cur[a].uid
      BY <2>1 DEF TInv, ControlOK, AtEntry, NewEntry, Entry, Key, Status
    <3>2. /\ DOMAIN file' = 1 .. Len(file) + 1 /\ DOMAIN file = 1 .. Len(file) /\ Len(file) \in Nat
          /\ \A k \in 1 .. Len(file) : file'[k] = file[k]
          /\ file'[Len(file) + 1] = NewEntry(a)
      BY <1>s, <2>1, <2>6, <3>1, AppendProperties, LenProperties DEF Store
    <3>3. UidsOf(file) \cup {cur[a].uid} \subseteq UidsOf(file')
      BY <3>1, <3>2 DEF UidsOf
    <3>4. Lost' \subseteq Lost
      BY <2>4, <3>3 DEF Lost
    <3>5. QED
      BY <1>c, <2>1, <2>5, <3>4
  <2>7. ASSUME ends["store"] # FitEnd(a) PROVE Counted'
    <3>1. ends["store"] = "cut"
      BY <1>a, <2>1, <2>3, <2>7 DEF KeptApart, FitEnd
    <3>2. Lost' \subseteq Lost \cup {cur[a].uid}
      BY <2>1, <2>4, <2>7 DEF Lost
    <3>3. /\ IsFiniteSet(Lost') /\ Cardinality(Lost) \in Nat /\ Cardinality(Lost') \in Nat
          /\ Cardinality(Lost') <= Cardinality(Lost) + 1
      BY <2>5, <3>2, OneMore
    <3>4. Torn = 1
      BY <3>1 DEF Torn
    <3>5. Cardinality(Lost') + Torn' <= crashes'
      BY <1>s, <2>1, <2>5, <3>3, <3>4
    <3>6. IsFiniteSet(Lost)' /\ Cardinality(Lost)' = Cardinality(Lost')
      BY <3>3
    <3>7. QED
      BY <3>5, <3>6 DEF Counted
  <2>8. Counted'
    BY <2>6, <2>7
  <2>9. ends'["store"] = "whole" /\ pc'[a] = "renderRead"
    BY <1>s, <2>1
  <2>10. \A b \in Agents : pc'[b] \in {"write", "rest"} => handle'[b] = "store"
    BY <1>a, <1>s, <2>1, <2>9 DEF KeptApart
  <2>11. QED
    BY <2>2, <2>3, <2>8, <2>9, <2>10 DEF KeptApart
<1>3. ASSUME NEW r \in Reviewers, Command(r) \/ Render(r) PROVE KeptApart'
  <2>1. /\ UNCHANGED <<file, tmp, ends, handle, crashes, acked, snap, cur>>
        /\ met' = met \cup Meets(r)
        /\ \/ pc' = [pc EXCEPT ![r] = "get"]
           \/ pc' = [pc EXCEPT ![r] = "renderRead"]
    BY <1>3 DEF Command, Render
  <2>2. \A a \in Agents : pc'[a] = pc[a] /\ pc'[a] = "idle"
    BY <1>s, <2>1, EntersAlone DEF Orderly
  <2>3. Placed' \subseteq Placed
    BY <1>p, <2>1, <2>2
  <2>4. QED
    BY <1>q, <1>s, <2>1, <2>2, <2>3
<1>4. ASSUME NEW r \in Reviewers, Get(r) \/ Handler(r) \/ RenameMissing(r) PROVE KeptApart'
  <2>1. /\ UNCHANGED <<file, tmp, ends, handle, crashes, acked, snap>> /\ pc[r] # "idle"
        /\ pc'[r] \notin {"openTmp", "writeTmp", "rename"}
        /\ \A p \in Procs \ {r} : pc'[p] = pc[p] /\ cur'[p] = cur[p]
    BY <1>4, <1>s DEF Get, Proceed, TakeOn, Handler, RenameMissing
  <2>2. Placed' \subseteq Placed
    BY <1>p, <2>1
  <2>3. QED
    BY <1>k, <1>q, <2>1, <2>2
<1>5. ASSUME NEW r \in Reviewers, UpdateRead(r) PROVE KeptApart'
  <2>1. /\ UNCHANGED <<file, tmp, ends, handle, crashes, acked, cur>> /\ pc[r] = "update"
        /\ pc' = [pc EXCEPT ![r] = "openTmp"]
        /\ snap' = [snap EXCEPT ![r] = Marked(file, cur[r].id, want[r])]
    BY <1>5 DEF UpdateRead
  <2>2. want[r] \in Status
    BY <2>1 DEF TInv, ControlOK, Status
  <2>3. UidsOf(snap'[r]) = UidsOf(file)
    BY <1>s, <2>1, <2>2, MarkedProperties DEF UidsOf
  <2>4. \A s \in Reviewers \ {r} : pc'[s] = "idle"
    BY <1>a, <1>s, <2>1 DEF Alone
  <2>5. \A a \in Agents : pc'[a] = pc[a] /\ pc'[a] = "idle"
    BY <1>a, <1>s, <2>1 DEF KeptApart
  <2>6. Lost' = Lost /\ Torn' = Torn
    BY <2>1, <2>5 DEF Lost, Placed, UidsOf, Torn
  <2>7. Counted'
    BY <1>c, <2>1, <2>6
  <2>8. ends["store"] \in {"whole", "cut"}
    BY <1>a, <2>5 DEF KeptApart
  <2>9. pc'[r] = "openTmp"
    BY <1>s, <2>1
  <2>10. QED
    BY <2>1, <2>3, <2>4, <2>5, <2>7, <2>8, <2>9 DEF KeptApart
\* The one reviewer writes, and nobody else is in a call.
<1>w. ASSUME NEW r \in Reviewers, pc[r] # "idle"
      PROVE  /\ \A s \in Reviewers \ {r} : pc[s] = "idle"
             /\ \A a \in Agents : pc[a] = "idle"
             /\ ends["store"] \in {"whole", "cut"}
  BY <1>a, <1>w DEF Alone, KeptApart
<1>6. ASSUME NEW r \in Reviewers, OpenTmp(r) \/ FlushPart(r) PROVE KeptApart'
  <2>1. /\ UNCHANGED <<crashes, acked, cur, snap>> /\ pc[r] \in {"openTmp", "writeTmp"}
        /\ pc' = [pc EXCEPT ![r] = "writeTmp"]
    BY <1>6, <1>s DEF OpenTmp, FlushPart
  <2>2. file' = file /\ ends'["store"] = ends["store"]
    <3>1. CASE OpenTmp(r)
      BY <1>s, <3>1 DEF OpenTmp
    <3>2. CASE FlushPart(r)
      <4>1. PICK n \in 0 .. Len(snap[r]) - 1 : pc[r] = "writeTmp" /\ Put(r, n, r)
        BY <3>2 DEF FlushPart
      <4>2. file' = file /\ ends' = [ends EXCEPT !["tmp"] = r]
        BY <1>a, <4>1, PutAlone
      <4>3. QED
        BY <1>s, <4>2
    <3>3. QED
      BY <1>6, <3>1, <3>2
  <2>3. /\ pc'[r] = "writeTmp" /\ \A s \in Reviewers \ {r} : pc'[s] = "idle"
        /\ \A a \in Agents : pc'[a] = "idle" /\ pc[a] = "idle"
        /\ ends["store"] \in {"whole", "cut"}
    BY <1>s, <1>w, <2>1
  <2>4. Lost' = Lost /\ Torn' = Torn
    BY <2>1, <2>2, <2>3 DEF Lost, Placed, UidsOf, Torn
  <2>5. Counted'
    BY <1>c, <2>1, <2>4
  <2>6. UidsOf(snap'[r]) = UidsOf(file')
    BY <1>a, <2>1, <2>2 DEF KeptApart
  <2>7. QED
    BY <2>2, <2>3, <2>5, <2>6 DEF KeptApart
<1>7. ASSUME NEW r \in Reviewers, WriteTmp(r) PROVE KeptApart'
  <2>1. /\ UNCHANGED <<acked, cur, crashes>> /\ pc[r] = "writeTmp"
        /\ pc' = [pc EXCEPT ![r] = "rename"]
    BY <1>7 DEF WriteTmp
  <2>2. file' = file /\ tmp' = snap[r] /\ ends' = [ends EXCEPT !["tmp"] = "whole"]
    BY <1>7, <1>a, WritesItsList
  <2>3. /\ pc'[r] = "rename" /\ \A s \in Reviewers \ {r} : pc'[s] = "idle"
        /\ \A a \in Agents : pc'[a] = "idle" /\ pc[a] = "idle"
        /\ ends'["store"] = ends["store"] /\ ends'["tmp"] = "whole"
        /\ ends["store"] \in {"whole", "cut"}
    BY <1>s, <1>w, <2>1, <2>2
  <2>4. Lost' = Lost /\ Torn' = Torn
    BY <2>1, <2>2, <2>3 DEF Lost, Placed, UidsOf, Torn
  <2>5. Counted'
    BY <1>c, <2>1, <2>4
  <2>6. UidsOf(tmp') = UidsOf(file')
    BY <1>a, <2>1, <2>2 DEF KeptApart
  <2>7. QED
    BY <2>3, <2>5, <2>6 DEF KeptApart
<1>8. ASSUME NEW r \in Reviewers, Rename(r) PROVE KeptApart'
  <2>1. /\ UNCHANGED <<acked, cur, crashes>> /\ pc[r] = "rename" /\ file' = tmp
        /\ ends' = [ends EXCEPT !["store"] = ends["tmp"], !["tmp"] = "whole"]
        /\ pc' = [pc EXCEPT ![r] = "renderRead"]
    BY <1>8 DEF Rename
  <2>2. /\ pc'[r] = "renderRead" /\ \A s \in Reviewers \ {r} : pc'[s] = "idle"
        /\ \A a \in Agents : pc'[a] = "idle" /\ pc[a] = "idle"
    BY <1>s, <1>w, <2>1
  <2>3. ends'["store"] = "whole" /\ UidsOf(file') = UidsOf(file)
    BY <1>a, <1>s, <2>1 DEF KeptApart
  <2>4. Lost' = Lost /\ Torn' = 0
    <3>1. Placed' = Placed
      BY <2>1, <2>2 DEF Placed
    <3>2. Torn' = 0
      BY <2>3 DEF Torn
    <3>3. QED
      BY <2>3, <3>1, <3>2 DEF Lost
  <2>5. Counted'
    BY <1>c, <2>1, <2>4
  <2>6. QED
    BY <2>2, <2>3, <2>5 DEF KeptApart
<1>9. ASSUME NEW p \in Procs, RenderRead(p) PROVE KeptApart'
  <2>1. /\ UNCHANGED <<file, tmp, ends, handle, crashes, acked, cur>> /\ pc[p] = "renderRead"
        /\ pc' = [pc EXCEPT ![p] = "renderWrite"]
        /\ \A q \in Procs \ {p} : snap'[q] = snap[q]
    BY <1>9, <1>s DEF RenderRead
  <2>2. Placed' \subseteq Placed
    BY <1>p, <1>s, <2>1
  <2>3. QED
    BY <1>k, <1>q, <1>s, <2>1, <2>2
<1>10. ASSUME NEW p \in Procs, RenderWrite(p) PROVE KeptApart'
  <2>1. /\ UNCHANGED <<file, tmp, ends, handle, crashes>> /\ pc[p] = "renderWrite"
        /\ pc'[p] \in {"idle", "get"} /\ (p \in Agents => pc'[p] = "idle")
        /\ \A q \in Procs \ {p} : pc'[q] = pc[q] /\ cur'[q] = cur[q] /\ snap'[q] = snap[q]
    BY <1>10, <1>s DEF RenderWrite, Proceed
  <2>2. \A a \in Agents, r \in Reviewers : pc'[a] = "idle" \/ pc'[r] = "idle"
    BY <1>k, <2>1
  <2>3. Placed' \subseteq Placed
    <3>1. CASE p \in Reviewers
      <4>1. acked' = acked
        BY <1>10, <3>1 DEF RenderWrite
      <4>2. QED
        BY <1>p, <2>1, <3>1, <4>1
    <3>2. CASE p \in Agents
      <4>1. acked' = acked \cup {cur[p].uid}
        BY <1>10, <3>2 DEF RenderWrite
      <4>2. QED
        BY <2>1, <3>2, <4>1 DEF Placed
    <3>3. QED
      BY <3>1, <3>2
  <2>4. QED
    BY <1>q, <2>1, <2>2, <2>3
<1>11. ASSUME NEW p \in Procs, Crash(p) PROVE KeptApart'
  <2>1. /\ UNCHANGED <<file, tmp, acked>> /\ pc[p] # "idle" /\ pc'[p] = "idle"
        /\ crashes' = crashes + 1
        /\ \A q \in Procs \ {p} :
              pc'[q] = pc[q] /\ cur'[q] = cur[q] /\ snap'[q] = snap[q] /\ handle'[q] = handle[q]
    BY <1>11, <1>s DEF Crash
  <2>2. \A f \in {"store", "tmp"} : ends'[f] = IF ends[f] = p THEN "cut" ELSE ends[f]
    BY <1>11 DEF Crash
  <2>3. Placed' \subseteq Placed
    BY <2>1 DEF Placed
  <2>4. Lost' \subseteq Lost
    BY <2>1, <2>3 DEF Lost, UidsOf
  <2>5. Counted'
    <3>1. /\ IsFiniteSet(Lost) /\ Cardinality(Lost) + Torn <= crashes
          /\ Torn \in {0, 1} /\ Torn' \in {0, 1}
      BY <1>a DEF KeptApart, Counted, Torn
    <3>2. Torn' <= Torn + 1
      BY <3>1
    <3>3. /\ IsFiniteSet(Lost') /\ Cardinality(Lost) \in Nat /\ Cardinality(Lost') \in Nat
          /\ Cardinality(Lost') <= Cardinality(Lost)
      BY <2>4, <3>1, Fewer
    <3>4. Cardinality(Lost') + Torn' <= crashes'
      BY <1>s, <2>1, <3>1, <3>2, <3>3
    <3>5. IsFiniteSet(Lost)' /\ Cardinality(Lost)' = Cardinality(Lost')
      BY <3>3
    <3>6. QED
      BY <3>4, <3>5 DEF Counted
  <2>6. \A a \in Agents, r \in Reviewers : pc'[a] = "idle" \/ pc'[r] = "idle"
    BY <1>k, <2>1
  <2>7. /\ ends'["store"] \in {"whole", "cut"} \cup {a \in Agents : pc'[a] = "rest"}
        /\ \A a \in Agents : pc'[a] = "rest" => ends'["store"] \in {a, "cut"}
    BY <1>a, <2>1, <2>2 DEF KeptApart
  <2>8. \A a \in Agents : pc'[a] \in {"write", "rest"} => handle'[a] = "store"
    BY <1>a, <2>1 DEF KeptApart
  <2>9. ASSUME NEW r \in Reviewers
        PROVE  /\ pc'[r] \in {"openTmp", "writeTmp"} => UidsOf(snap'[r]) = UidsOf(file')
               /\ pc'[r] = "rename" => ends'["tmp"] = "whole" /\ UidsOf(tmp') = UidsOf(file')
    BY <1>a, <1>d, <2>1, <2>2 DEF KeptApart
  <2>10. QED
    BY <2>5, <2>6, <2>7, <2>8, <2>9 DEF KeptApart
<1>12. CASE UNCHANGED vars
  <2>1. UNCHANGED <<file, tmp, ends, crashes, acked, pc, cur, handle, snap>>
    BY <1>12 DEF vars
  <2>2. Placed' \subseteq Placed
    BY <2>1 DEF Placed
  <2>3. QED
    BY <1>a, <1>q, <2>1, <2>2 DEF KeptApart
<1>13. QED
  BY <1>1, <1>2, <1>2a, <1>3, <1>4, <1>5, <1>6, <1>7, <1>8, <1>9, <1>10, <1>11, <1>12
     DEF Next, AgentNext, ReviewerNext

\* Unless two reviewers, or an agent and a reviewer, have been in a call at once, or an
\* agent has written into another's line, a crash costs one acknowledged request at most.
THEOREM RequestsAreKept == Spec => []NoLostEntry
<1>1. Init => TInv /\ SInv /\ KInv
  <2>1. Init => Lost = {} /\ Torn = 0 /\ crashes = 0
    BY DEF Init, Lost, Placed, Torn, Procs
  <2>2. Init => Counted
    BY <2>1, FS_EmptySet DEF Counted
  <2>3. Init => KInv
    BY <2>2 DEF Init, KInv, KeptApart, Procs
  <2>4. QED
    BY <2>3, InitType, InitOnce
<1>2. TInv /\ SInv /\ KInv /\ [Next]_vars => (TInv /\ SInv /\ KInv)'
  BY TypeStep, SingleStep, KeptStep
<1>3. TInv /\ KInv => NoLostEntry
  <2>1. SUFFICES ASSUME TInv, KeptApart
                 PROVE  Cardinality({u \in acked : \A k \in DOMAIN file : file[k].uid # u})
                           <= crashes
    BY DEF KInv, Orderly, KindsApart, OneReviewer, NoLostEntry
  <2> DEFINE gone == {u \in acked : \A k \in DOMAIN file : file[k].uid # u}
  <2>2. gone \subseteq Lost
    BY DEF Lost, Placed, UidsOf
  <2>3. /\ IsFiniteSet(Lost) /\ Cardinality(Lost) + Torn <= crashes
        /\ Torn \in {0, 1} /\ crashes \in Nat
    BY <2>1 DEF KeptApart, Counted, Torn, TInv, TypeOK
  <2> HIDE DEF gone
  <2>4. /\ Cardinality(Lost) \in Nat /\ Cardinality(gone) \in Nat
        /\ Cardinality(gone) <= Cardinality(Lost)
    BY <2>2, <2>3, Fewer
  <2>5. Cardinality(gone) <= crashes
    BY <2>3, <2>4
  <2>6. QED
    BY <2>5 DEF gone
<1>4. QED
  BY <1>1, <1>2, <1>3, PTL DEF Spec

-----------------------------------------------------------------------------
(* Decisions stick *)

Decided(e) == e.status # "PENDING"

\* Of the entries that share an id (agents that raced) the first is decided first.
FirstDecided(f) ==
    \A j, k \in DOMAIN f : j < k /\ f[j].id = f[k].id /\ Decided(f[k]) => Decided(f[j])

\* g shows every decision that f shows.
Keeps(f, g) == \A k \in DOMAIN f : Decided(f[k]) => \E j \in DOMAIN g : g[j] = f[k]

\* The one reviewer in a call decides only what is pending, and the list it is about to put
\* in the store's place shows what the store shows.
Sticking ==
    /\ FirstDecided(file)
    /\ \A r \in Reviewers : pc[r] \in {"handler", "update"} =>
          \A k \in DOMAIN file : file[k].id = cur[r].id => ~Decided(file[k])
    /\ \A r \in Reviewers : pc[r] \in {"openTmp", "writeTmp"} =>
          FirstDecided(snap[r]) /\ Keeps(file, snap[r])
    /\ \A r \in Reviewers : pc[r] = "rename" => FirstDecided(tmp) /\ Keeps(file, tmp)

DInv == OneReviewer => Sticking

LEMMA StickStep ==
    TInv /\ SInv /\ DInv /\ [Next]_vars => DInv' /\ (OneReviewer' => Keeps(file, file'))
<1> SUFFICES ASSUME TInv, SInv, DInv, [Next]_vars, OneReviewer'
             PROVE  Sticking' /\ Keeps(file, file')
  BY DEF DInv
<1> DEFINE Done == Sticking' /\ Keeps(file, file')
<1> USE ProcsDistinct DEF history
<1>s. /\ pc \in [Procs -> AgentPc \cup ReviewerPc] /\ snap \in [Procs -> Store]
      /\ cur \in [Procs -> Key \cup {NoEntry}] /\ file \in Store
      /\ \A r \in Reviewers : pc[r] \in ReviewerPc
  BY DEF TInv, TypeOK
<1>a. Alone /\ Sticking
  BY OneReviewerBefore DEF SInv, DInv
\* A step that leaves the lists alone, and takes no reviewer to a later point of a call.
<1>q. ASSUME UNCHANGED <<file, tmp>>,
             \A r \in Reviewers :
                pc'[r] \in {"handler", "update", "openTmp", "writeTmp", "rename"} =>
                /\ snap'[r] = snap[r] /\ cur'[r] = cur[r]
                /\ pc'[r] = pc[r] \/ {pc'[r], pc[r]} \subseteq {"handler", "update"}
      PROVE  Done
  <2>1. Keeps(file, file')
    BY <1>q DEF Keeps
  <2>2. ASSUME NEW r \in Reviewers, pc'[r] \in {"handler", "update"}
        PROVE  \A k \in DOMAIN file' : file'[k].id = cur'[r].id => ~Decided(file'[k])
    BY <1>a, <1>q, <2>2 DEF Sticking
  <2>3. ASSUME NEW r \in Reviewers, pc'[r] \in {"openTmp", "writeTmp"}
        PROVE  FirstDecided(snap'[r]) /\ Keeps(file', snap'[r])
    BY <1>a, <1>q, <2>3 DEF Sticking
  <2>4. ASSUME NEW r \in Reviewers, pc'[r] = "rename"
        PROVE  FirstDecided(tmp') /\ Keeps(file', tmp')
    BY <1>a, <1>q, <2>4 DEF Sticking
  <2>5. FirstDecided(file')
    BY <1>a, <1>q DEF Sticking
  <2>6. QED
    BY <2>1, <2>2, <2>3, <2>4, <2>5 DEF Sticking, FirstDecided, Keeps
<1>1. ASSUME NEW a \in Agents, QueueRead(a) PROVE Done
  <2>1. UNCHANGED <<file, tmp, snap>> /\ \A p \in Procs \ {a} : pc'[p] = pc[p] /\ cur'[p] = cur[p]
    BY <1>1, <1>s DEF QueueRead
  <2>2. QED
    BY <1>q, <2>1
<1>2. ASSUME NEW a \in Agents, QueueAppend(a) PROVE Done
  <2>0. /\ UNCHANGED <<tmp, snap, cur>> /\ pc[a] \in {"write", "rest"}
        /\ file' = file \/ file' = Append(file, NewEntry(a))
        /\ pc' = [pc EXCEPT ![a] = "renderRead"]
    BY <1>2 DEF QueueAppend
  <2>8. \A r \in Reviewers : pc'[r] = pc[r]
    BY <1>s, <2>0
  <2>e. file' = file => Done
    BY <1>q, <2>0, <2>8
  <2> SUFFICES ASSUME file' = Append(file, NewEntry(a)) PROVE Done
    BY <2>0, <2>e
  <2>1. /\ UNCHANGED <<tmp, snap, cur>> /\ file' = Append(file, NewEntry(a))
    BY <2>0
  <2>2. NewEntry(a) \in Entry /\ ~Decided(NewEntry(a))
    BY <2>0 DEF TInv, ControlOK, AtEntry, NewEntry, Entry, Key, Status, Decided
  <2>3. /\ DOMAIN file' = 1 .. Len(file) + 1 /\ DOMAIN file = 1 .. Len(file) /\ Len(file) \in Nat
        /\ \A k \in 1 .. Len(file) : file'[k] = file[k]
        /\ file'[Len(file) + 1] = NewEntry(a)
    BY <1>s, <2>1, <2>2, AppendProperties, LenProperties DEF Store
  <2>4. \A k \in DOMAIN file' : Decided(file'[k]) => k \in DOMAIN file /\ file'[k] = file[k]
    BY <2>2, <2>3
  <2>5. \A j, k \in DOMAIN file' : j < k /\ k \in DOMAIN file => j \in DOMAIN file
    BY <2>3
  <2>6. FirstDecided(file')
    BY <1>a, <2>3, <2>4, <2>5 DEF Sticking, FirstDecided
  <2>7. Keeps(file, file') /\ \A g : Keeps(file, g) => Keeps(file', g)
    BY <2>3, <2>4 DEF Keeps
  <2>9. ASSUME NEW r \in Reviewers, pc'[r] \in {"handler", "update"}
        PROVE  \A k \in DOMAIN file' : file'[k].id = cur'[r].id => ~Decided(file'[k])
    BY <1>a, <2>1, <2>4, <2>8, <2>9 DEF Sticking
  <2>10. ASSUME NEW r \in Reviewers, pc'[r] \in {"openTmp", "writeTmp"}
         PROVE  FirstDecided(snap'[r]) /\ Keeps(file', snap'[r])
    BY <1>a, <2>1, <2>7, <2>8, <2>10 DEF Sticking
  <2>11. ASSUME NEW r \in Reviewers, pc'[r] = "rename"
         PROVE  FirstDecided(tmp') /\ Keeps(file', tmp')
    BY <1>a, <2>1, <2>7, <2>8, <2>11 DEF Sticking
  <2>12. QED
    BY <2>6, <2>7, <2>9, <2>10, <2>11 DEF Sticking, FirstDecided, Keeps
<1>2a. ASSUME NEW a \in Agents, AppendOpen(a) PROVE Done
  <2>1. UNCHANGED <<file, tmp, snap, cur>> /\ \A r \in Reviewers : pc'[r] = pc[r]
    BY <1>2a, <1>s DEF AppendOpen
  <2>2. QED
    BY <1>q, <2>1
<1>3. ASSUME NEW r \in Reviewers, Command(r) \/ Render(r) PROVE Done
  <2>1. /\ UNCHANGED <<file, tmp, snap, cur>>
        /\ \/ pc' = [pc EXCEPT ![r] = "get"]
           \/ pc' = [pc EXCEPT ![r] = "renderRead"]
    BY <1>3 DEF Command, Render
  <2>2. QED
    BY <1>q, <1>s, <2>1
<1>4. ASSUME NEW r \in Reviewers, Get(r) PROVE Done
  <2>1. /\ UNCHANGED <<file, tmp, snap>> /\ pc[r] = "get"
        /\ \A p \in Procs \ {r} : pc'[p] = pc[p] /\ cur'[p] = cur[p]
    BY <1>4, <1>s DEF Get, Proceed, TakeOn
  <2>2. CASE Proceed(r)
    <3>1. pc'[r] \in {"idle", "get"}
      BY <1>s, <2>2 DEF Proceed
    <3>2. QED
      BY <1>q, <2>1, <3>1
  <2>3. ASSUME NEW k \in DOMAIN file, IsFirst(k, Head(todo[r]).id), StillPending(file[k]),
               TakeOn(r, k)
        PROVE  Done
    <3>1. pc'[r] \in {"handler", "update"} /\ cur'[r].id = file[k].id
      BY <1>s, <2>3 DEF TakeOn
    <3>2. ASSUME NEW m \in DOMAIN file, file[m].id = file[k].id PROVE ~Decided(file[m])
      <4>1. DOMAIN file = 1 .. Len(file) /\ Len(file) \in Nat
        BY <1>s, LenProperties DEF Store
      <4>2. ~(m < k)
        BY <2>3, <3>2, <4>1 DEF IsFirst
      <4>3. m = k \/ k < m
        BY <4>1, <4>2
      <4>4. ~Decided(file[k])
        BY <2>3 DEF StillPending, Decided
      <4>5. QED
        BY <1>a, <3>2, <4>3, <4>4 DEF Sticking, FirstDecided
    <3>3. Keeps(file, file')
      BY <2>1 DEF Keeps
    <3>4. ASSUME NEW s \in Reviewers, pc'[s] \in {"handler", "update"}
          PROVE  \A m \in DOMAIN file' : file'[m].id = cur'[s].id => ~Decided(file'[m])
      BY <1>a, <2>1, <3>1, <3>2, <3>4 DEF Sticking
    <3>5. ASSUME NEW s \in Reviewers, pc'[s] \in {"openTmp", "writeTmp"}
          PROVE  FirstDecided(snap'[s]) /\ Keeps(file', snap'[s])
      BY <1>a, <2>1, <3>1, <3>5 DEF Sticking
    <3>6. ASSUME NEW s \in Reviewers, pc'[s] = "rename"
          PROVE  FirstDecided(tmp') /\ Keeps(file', tmp')
      BY <1>a, <2>1, <3>1, <3>6 DEF Sticking
    <3>7. FirstDecided(file')
      BY <1>a, <2>1 DEF Sticking
    <3>8. QED
      BY <3>3, <3>4, <3>5, <3>6, <3>7 DEF Sticking, FirstDecided, Keeps
  <2>4. QED
    BY <1>4, <2>2, <2>3 DEF Get
<1>5. ASSUME NEW r \in Reviewers, Handler(r) PROVE Done
  <2>1. /\ UNCHANGED <<file, tmp, snap, cur>> /\ pc[r] = "handler"
        /\ pc' = [pc EXCEPT ![r] = "update"]
    BY <1>5 DEF Handler
  <2>2. QED
    BY <1>q, <1>s, <2>1
\* The one reviewer moves on; nobody else is in a call.
<1>o. ASSUME NEW r \in Reviewers, pc[r] # "idle", \A p \in Procs \ {r} : pc'[p] = pc[p],
             NEW s \in Reviewers, s # r
      PROVE  pc'[s] = "idle"
  BY <1>a, <1>o DEF Alone
<1>6. ASSUME NEW r \in Reviewers, UpdateRead(r) PROVE Done
  <2> DEFINE m == Marked(file, cur[r].id, want[r])
  <2>1. /\ UNCHANGED <<file, tmp, cur>> /\ pc[r] = "update"
        /\ pc' = [pc EXCEPT ![r] = "openTmp"]
        /\ snap' = [snap EXCEPT ![r] = m]
    BY <1>6 DEF UpdateRead
  <2>2. want[r] \in Status /\ want[r] # "PENDING"
    BY <2>1 DEF TInv, ControlOK, Status, Terminal
  <2>3. /\ m \in Store /\ DOMAIN m = DOMAIN file
        /\ \A k \in DOMAIN file :
              /\ m[k].uid = file[k].uid /\ m[k].id = file[k].id
              /\ m[k].status = IF file[k].id = cur[r].id THEN want[r] ELSE file[k].status
    BY <1>s, <2>2, MarkedProperties
  <2>4. \A k \in DOMAIN file : file[k].id # cur[r].id => m[k] = file[k]
    BY <1>s DEF Marked
  <2> HIDE DEF m
  <2>5. FirstDecided(m)
    BY <1>a, <2>2, <2>3 DEF Sticking, FirstDecided, Decided
  <2>6. Keeps(file, m)
    BY <1>a, <2>1, <2>3, <2>4 DEF Sticking, Keeps
  <2>7. /\ pc'[r] = "openTmp" /\ snap'[r] = m
        /\ \A s \in Reviewers \ {r} : pc'[s] = "idle"
    BY <1>o, <1>s, <2>1
  <2>8. FirstDecided(file') /\ Keeps(file, file') /\ Keeps(file', m)
    BY <1>a, <2>1, <2>6 DEF Sticking, Keeps
  <2>9. QED
    BY <2>5, <2>7, <2>8 DEF Sticking, FirstDecided, Keeps
<1>7. ASSUME NEW r \in Reviewers, OpenTmp(r) \/ FlushPart(r) PROVE Done
  <2>1. UNCHANGED <<snap, cur>> /\ pc[r] \in {"openTmp", "writeTmp"} /\ pc'[r] = "writeTmp"
    BY <1>7, <1>s DEF OpenTmp, FlushPart
  <2>2. file' = file
    <3>1. CASE OpenTmp(r)
      BY <3>1 DEF OpenTmp
    <3>2. CASE FlushPart(r)
      <4>1. pc[r] = "writeTmp" /\ \E n \in 0 .. Len(snap[r]) - 1 : Put(r, n, r)
        BY <3>2 DEF FlushPart
      <4>2. QED
        BY <1>a, <4>1, PutAlone
    <3>3. QED
      BY <1>7, <3>1, <3>2
  <2>3. \A s \in Reviewers \ {r} : pc'[s] = "idle"
    <3>1. \A p \in Procs \ {r} : pc'[p] = pc[p]
      BY <1>7, <1>s DEF OpenTmp, FlushPart
    <3>2. QED
      BY <1>o, <2>1, <3>1
  <2>4. /\ FirstDecided(file') /\ Keeps(file, file')
        /\ FirstDecided(snap'[r]) /\ Keeps(file', snap'[r])
    BY <1>a, <2>1, <2>2 DEF Sticking, Keeps
  <2>5. QED
    BY <2>1, <2>3, <2>4 DEF Sticking, FirstDecided, Keeps
<1>7a. ASSUME NEW r \in Reviewers, WriteTmp(r) PROVE Done
  <2>1. pc[r] = "writeTmp" /\ pc' = [pc EXCEPT ![r] = "rename"]
    BY <1>7a DEF WriteTmp
  <2>f. file' = file /\ tmp' = snap[r]
    BY <1>7a, <1>a, WritesItsList
  <2>2. FirstDecided(tmp') /\ Keeps(file', tmp') /\ FirstDecided(file') /\ Keeps(file, file')
    BY <1>a, <2>1, <2>f DEF Sticking, Keeps
  <2>3. pc'[r] = "rename" /\ \A s \in Reviewers \ {r} : pc'[s] = "idle"
    BY <1>o, <1>s, <2>1
  <2>4. QED
    BY <2>2, <2>3 DEF Sticking, FirstDecided, Keeps
<1>8. ASSUME NEW r \in Reviewers, Rename(r) PROVE Done
  <2>1. file' = tmp /\ pc[r] = "rename" /\ pc' = [pc EXCEPT ![r] = "renderRead"]
    BY <1>8 DEF Rename
  <2>2. FirstDecided(file') /\ Keeps(file, file')
    BY <1>a, <2>1 DEF Sticking
  <2>3. pc'[r] = "renderRead" /\ \A s \in Reviewers \ {r} : pc'[s] = "idle"
    BY <1>o, <1>s, <2>1
  <2>4. QED
    BY <2>2, <2>3 DEF Sticking, FirstDecided
<1>9. ASSUME NEW r \in Reviewers, RenameMissing(r) PROVE Done
  BY <1>9, <1>a DEF RenameMissing, Alone
<1>10. ASSUME NEW p \in Procs, RenderRead(p) \/ RenderWrite(p) \/ Crash(p) PROVE Done
  <2>1. /\ UNCHANGED <<file, tmp>>
        /\ pc'[p] \in {"idle", "get", "renderWrite"}
        /\ \A q \in Procs \ {p} : pc'[q] = pc[q] /\ cur'[q] = cur[q] /\ snap'[q] = snap[q]
    BY <1>10, <1>s DEF RenderRead, RenderWrite, Crash, Proceed
  <2>2. QED
    BY <1>q, <2>1
<1>11. CASE UNCHANGED vars
  BY <1>11, <1>q DEF vars
<1>12. QED
  BY <1>1, <1>2, <1>2a, <1>3, <1>4, <1>5, <1>6, <1>7, <1>7a, <1>8, <1>9, <1>10, <1>11
     DEF Next, AgentNext, ReviewerNext

\* Without overlapping reviewers no decision the store shows is ever changed, taken back
\* or lost, whatever agents append meanwhile and whoever dies.
THEOREM DecisionsAreKept == Spec => DecisionsStick
<1>1. Init => TInv /\ SInv /\ DInv
  <2>1. Init => DInv
    BY DEF Init, DInv, Sticking, FirstDecided, Procs
  <2>2. QED
    BY <2>1, InitType, InitOnce
<1>2. TInv /\ SInv /\ DInv /\ [Next]_vars => (TInv /\ SInv /\ DInv)'
  BY TypeStep, SingleStep, StickStep
<1>3. TInv /\ SInv /\ DInv /\ [Next]_vars =>
         [{"reviewer"} \notin met' =>
            \A k \in DOMAIN file : file[k].status # "PENDING" =>
               \E j \in DOMAIN file' : file'[j] = file[k]]_vars
  BY StickStep DEF OneReviewer, Keeps, Decided
<1>4. QED
  BY <1>1, <1>2, <1>3, PTL DEF Spec, DecisionsStick
=============================================================================
