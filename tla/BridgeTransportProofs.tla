----------------------- MODULE BridgeTransportProofs -----------------------
(***************************************************************************)
(* Proofs about the action transport, for any number of callers, panels,   *)
(* calls and faults and any caps of the queue and the results.             *)
(***************************************************************************)
EXTENDS BridgeTransport, SequenceTheorems, TLAPS

-----------------------------------------------------------------------------
(* Lemmas about sequences *)

Distinct(s) == \A i, j \in DOMAIN s : s[i] = s[j] => i = j

LEMMA ElementsOf ==
    ASSUME NEW S, NEW s \in Seq(S)
    PROVE  /\ Elements(s) \subseteq S
           /\ DOMAIN s = 1 .. Len(s)
           /\ s = <<>> => Elements(s) = {} /\ Distinct(s)
BY DEF Elements, Distinct

\* What is left of a batch once its head is done with.
LEMMA TailElements ==
    ASSUME NEW S, NEW s \in Seq(S), s # <<>>
    PROVE  /\ Head(s) \in S /\ Head(s) \in Elements(s)
           /\ Tail(s) \in Seq(S) /\ Elements(Tail(s)) \subseteq Elements(s)
           /\ Distinct(s) => Distinct(Tail(s)) /\ Head(s) \notin Elements(Tail(s))
<1>1. Head(s) = s[1] /\ 1 \in DOMAIN s /\ Head(s) \in S
  BY DEF Elements
<1>2. /\ Tail(s) \in Seq(S) /\ DOMAIN Tail(s) = 1 .. Len(s) - 1
      /\ \A k \in DOMAIN Tail(s) : Tail(s)[k] = s[k + 1] /\ k + 1 \in DOMAIN s
  BY HeadTailProperties
<1>3. QED
  BY <1>1, <1>2 DEF Elements, Distinct

\* Appending to the queue drops at most older actions, and repeats none.
LEMMA EnqueuedProperties ==
    ASSUME NEW q \in Seq(Actions), Len(q) <= QueueMax, NEW a \in Actions
    PROVE  /\ Enqueued(q, a) \in Seq(Actions) /\ Len(Enqueued(q, a)) <= QueueMax
           /\ Elements(Enqueued(q, a)) \subseteq Elements(q) \cup {a}
           /\ Distinct(q) /\ a \notin Elements(q) => Distinct(Enqueued(q, a))
<1> USE TransportAssumption
<1> DEFINE kept == SubSeq(q, Len(q) + 2 - QueueMax, Len(q))
<1>1. CASE Len(q) < QueueMax
  <2>1. Enqueued(q, a) = Append(q, a)
    BY <1>1 DEF Enqueued
  <2>2. QED
    BY <2>1, <1>1, AppendProperties DEF Elements, Distinct
<1>2. CASE Len(q) = QueueMax
  <2>1. Enqueued(q, a) = Append(kept, a)
    BY <1>2 DEF Enqueued
  <2>2. \A i \in 2 .. Len(q) : q[i] \in Actions
    OBVIOUS
  <2>3. /\ kept \in Seq(Actions) /\ Len(kept) = QueueMax - 1
        /\ \A i \in 1 .. QueueMax - 1 : kept[i] = q[i + 1]
    BY <1>2, <2>2, SubSeqProperties
  <2> HIDE DEF kept
  <2> DEFINE longer == Append(kept, a)
  <2>4. /\ longer \in Seq(Actions) /\ Len(longer) = QueueMax
        /\ \A i \in 1 .. QueueMax - 1 : longer[i] = q[i + 1]
        /\ longer[QueueMax] = a
    BY <2>3, AppendProperties
  <2> HIDE DEF longer
  <2>5. /\ DOMAIN longer = 1 .. QueueMax /\ DOMAIN q = 1 .. QueueMax
        /\ \A i \in 1 .. QueueMax : i = QueueMax \/ i \in 1 .. QueueMax - 1
        /\ \A i \in 1 .. QueueMax - 1 : i + 1 \in 1 .. QueueMax
    BY <2>4, <1>2
  <2>6. Elements(longer) \subseteq Elements(q) \cup {a}
    BY <2>4, <2>5 DEF Elements
  <2>7. ASSUME Distinct(q), a \notin Elements(q) PROVE Distinct(longer)
    <3>1. \A i \in 1 .. QueueMax - 1 : longer[i] = q[i + 1] /\ q[i + 1] # a
      BY <2>4, <2>5, <2>7 DEF Elements
    <3>2. ASSUME NEW i \in 1 .. QueueMax, NEW j \in 1 .. QueueMax, longer[i] = longer[j]
          PROVE  i = j
      <4>1. CASE i = QueueMax \/ j = QueueMax
        BY <4>1, <3>1, <3>2, <2>4, <2>5
      <4>2. CASE i \in 1 .. QueueMax - 1 /\ j \in 1 .. QueueMax - 1
        <5>1. q[i + 1] = q[j + 1]
          BY <4>2, <3>1, <3>2
        <5>2. i + 1 = j + 1
          BY <5>1, <4>2, <2>5, <2>7 DEF Distinct
        <5>3. QED
          BY <5>2
      <4>3. QED
        BY <4>1, <4>2, <2>5
    <3>3. QED
      BY <3>2, <2>5 DEF Distinct
  <2>8. QED
    BY <2>1, <2>4, <2>6, <2>7 DEF longer
<1>3. QED
  BY <1>1, <1>2

\* Recording a result drops at most older results.
LEMMA RecordedProperties ==
    ASSUME NEW S, NEW rs \in Seq(S), Len(rs) <= ResultsMax, NEW rec \in S
    PROVE  /\ Recorded(rs, rec) \in Seq(S) /\ Len(Recorded(rs, rec)) <= ResultsMax
           /\ Elements(Recorded(rs, rec)) \subseteq Elements(rs) \cup {rec}
<1> USE TransportAssumption
<1> DEFINE all == Append(rs, rec)
           m == IF Len(all) > ResultsMax THEN Len(all) + 1 - ResultsMax ELSE 1
<1>1. /\ all \in Seq(S) /\ Len(all) = Len(rs) + 1
      /\ \A i \in 1 .. Len(rs) : all[i] = rs[i]
      /\ all[Len(rs) + 1] = rec
  BY AppendProperties
<1>2. m \in 1 .. Len(all) /\ Len(all) - m + 1 <= ResultsMax /\ Len(all) \in Nat
  BY <1>1
<1>3. Recorded(rs, rec) = SubSeq(all, m, Len(all))
  BY DEF Recorded
<1> HIDE DEF all, m
<1>4. /\ SubSeq(all, m, Len(all)) \in Seq(S)
      /\ Len(SubSeq(all, m, Len(all))) = Len(all) - m + 1
      /\ \A i \in 1 .. Len(all) - m + 1 : SubSeq(all, m, Len(all))[i] = all[m + i - 1]
  <2>1. \A i \in m .. Len(all) : all[i] \in S
    BY <1>1, <1>2
  <2>2. QED
    BY <2>1, <1>2, SubSeqProperties
<1>5. Elements(Recorded(rs, rec)) \subseteq Elements(rs) \cup {rec}
  <2>1. \A i \in 1 .. Len(all) - m + 1 : m + i - 1 \in 1 .. Len(rs) + 1
    BY <1>1, <1>2
  <2>2. \A j \in 1 .. Len(rs) + 1 : all[j] \in Elements(rs) \cup {rec}
    BY <1>1 DEF Elements
  <2> DEFINE cut == SubSeq(all, m, Len(all))
  <2>3. DOMAIN cut = 1 .. Len(all) - m + 1
    BY <1>2, <1>4
  <2>4. \A i \in DOMAIN cut : cut[i] \in Elements(rs) \cup {rec}
    BY <2>1, <2>2, <2>3, <1>4
  <2> HIDE DEF cut
  <2>5. Elements(cut) \subseteq Elements(rs) \cup {rec}
    BY <2>4 DEF Elements
  <2>6. QED
    BY <2>5, <1>3 DEF cut
<1>6. QED
  BY <1>2, <1>3, <1>4, <1>5

-----------------------------------------------------------------------------
(* Type correctness *)

\* A caller in a call is at an action, a poller with a batch is at work on it.
ControlOK ==
    /\ \A c \in Callers : calling[c] = NoAction <=> stage[c] = "idle"
    /\ \A p \in Pollers : batch[p] # <<>> <=> at[p] \in {"run", "act", "post"}

TInv == TypeOK /\ ControlOK

ResultRecord == [id : Actions, verdict : Verdict]

LEMMA NoRecords ==
    /\ <<>> \in Seq(Actions) /\ <<>> \in Seq(ResultRecord) /\ Len(<<>>) = 0
    /\ <<>> \in Seq([id : Actions, verdict : Verdict])
    /\ NoAction \notin Actions
BY DEF NoAction, Actions

LEMMA FaultCount == TypeOK /\ Fault => faults' \in 0 .. MaxFaults
BY TransportAssumption DEF TypeOK, Fault

LEMMA InitType == Init => TInv
<1> SUFFICES ASSUME Init PROVE TInv
  OBVIOUS
<1> USE TransportAssumption DEF Init
<1>1. up \in BOOLEAN /\ at \in [Pollers -> {"off", "idle", "run", "act", "post"}]
  BY DEF Pollers
<1>a. /\ queue \in Seq(Actions) /\ Len(queue) <= QueueMax
      /\ results \in Seq([id : Actions, verdict : Verdict]) /\ Len(results) <= ResultsMax
      /\ pushed \in Seq(Actions) /\ started \in Seq(Actions)
      /\ batch \in [Pollers -> Seq(Actions)]
  BY NoRecords
<1>b. outcome \in [Pollers -> Verdict] /\ executed \in [Actions -> Nat]
  BY DEF Verdict
<1>c. /\ calling \in [Callers -> Actions \cup {NoAction}]
      /\ stage \in [Callers -> {"idle", "push", "await"}]
      /\ answer \in [Actions -> {"none", "unreachable", "push_failed", "timeout"} \cup Verdict]
  OBVIOUS
<1>d. /\ port \in [Panels -> BOOLEAN] /\ panelConnected \in BOOLEAN
      /\ late \subseteq Actions /\ overlap \in BOOLEAN /\ handedOff \in BOOLEAN
  OBVIOUS
<1>e. opens \in 0 .. MaxOpens /\ faults \in 0 .. MaxFaults
  OBVIOUS
<1>2. TypeOK
  BY <1>1, <1>a, <1>b, <1>c, <1>d, <1>e DEF TypeOK
<1>3. ControlOK
  BY DEF ControlOK, Pollers
<1>4. QED
  BY <1>2, <1>3 DEF TInv

\* The end of a call keeps caller and answers well typed.
LEMMA ReturnType ==
    ASSUME TInv, NEW c \in Callers, stage[c] # "idle",
           NEW reply \in {"push_failed", "timeout"} \cup Verdict, Return(c, reply)
    PROVE  /\ calling' \in [Callers -> Actions \cup {NoAction}]
           /\ stage' \in [Callers -> {"idle", "push", "await"}]
           /\ answer' \in [Actions -> {"none", "unreachable", "push_failed", "timeout"} \cup Verdict]
           /\ \A d \in Callers : calling'[d] = NoAction <=> stage'[d] = "idle"
           /\ calling[c] \in Actions
BY DEF TInv, TypeOK, ControlOK, Return

LEMMA TypeStep == TInv /\ [Next]_vars => TInv'
<1> SUFFICES ASSUME TInv, [Next]_vars PROVE TInv'
  OBVIOUS
<1>t. TypeOK /\ ControlOK
  BY DEF TInv
<1> SUFFICES TypeOK' /\ ControlOK'
  BY DEF TInv
<1>n. NoAction \notin Actions
  BY NoRecords
<1>s. \A S : \A s \in Seq(S) : \A x \in S : Append(s, x) \in Seq(S)
  OBVIOUS
<1> USE DEF bridge, caller, browser, poller, history
<1>1. ASSUME NEW c \in Callers, Call(c) PROVE TypeOK' /\ ControlOK'
  BY <1>1, <1>t, <1>n DEF Call, TypeOK, ControlOK
<1>2. ASSUME NEW c \in Callers, Push(c) PROVE TypeOK' /\ ControlOK'
  <2>1. calling[c] \in Actions /\ stage[c] = "push"
    BY <1>2, <1>t, <1>n DEF Push, TypeOK, ControlOK
  <2>2. /\ queue' \in Seq(Actions) /\ Len(queue') <= QueueMax
        /\ pushed' \in Seq(Actions)
    BY <2>1, <1>2, <1>t, <1>s, EnqueuedProperties DEF Push, TypeOK
  <2>3. CASE stage' = [stage EXCEPT ![c] = "await"] /\ UNCHANGED <<calling, answer, faults>>
    BY <2>2, <2>3, <1>2, <1>t DEF Push, TypeOK, ControlOK
  <2>4. CASE Fault /\ Return(c, "push_failed")
    <3>1. faults' \in 0 .. MaxFaults
      BY <2>4, <1>t, FaultCount
    <3>2. QED
      BY <3>1, <2>1, <2>2, <2>4, <1>2, <1>t, ReturnType DEF Push, TypeOK, ControlOK
  <2>5. QED
    BY <2>3, <2>4, <1>2 DEF Push
<1>3. ASSUME NEW c \in Callers, PushRefused(c) PROVE TypeOK' /\ ControlOK'
  BY <1>3, <1>t, ReturnType DEF PushRefused, TypeOK, ControlOK
<1>4. ASSUME NEW c \in Callers, AwaitResult(c) PROVE TypeOK' /\ ControlOK'
  <2>1. PICK rec \in ResultsFor(calling[c]) : Return(c, rec.verdict)
    BY <1>4 DEF AwaitResult
  <2>2. rec \in Elements(results) /\ results \in Seq(ResultRecord)
    BY <2>1, <1>t DEF ResultsFor, TypeOK, ResultRecord
  <2>a. Elements(results) \subseteq ResultRecord
    BY <2>2, ElementsOf
  <2>3. rec.verdict \in Verdict
    BY <2>2, <2>a DEF ResultRecord
  <2>4. QED
    BY <2>1, <2>3, <1>4, <1>t, ReturnType DEF AwaitResult, TypeOK, ControlOK
<1>5. ASSUME NEW c \in Callers, AwaitTimeout(c) PROVE TypeOK' /\ ControlOK'
  BY <1>5, <1>t, ReturnType DEF AwaitTimeout, TypeOK, ControlOK
<1>6. ASSUME NEW p \in Pollers, Poll(p) PROVE TypeOK' /\ ControlOK'
  <2>1. faults' \in 0 .. MaxFaults
    BY <1>6, <1>t, FaultCount DEF Poll, TypeOK
  <2>2. /\ batch' \in [Pollers -> Seq(Actions)]
        /\ at' \in [Pollers -> {"off", "idle", "run", "act", "post"}]
        /\ overlap' \in BOOLEAN
        /\ ControlOK'
    BY <1>6, <1>t DEF Poll, MayPoll, TypeOK, ControlOK
  <2>3. QED
    BY <2>1, <2>2, <1>6, <1>t, NoRecords, TransportAssumption DEF Poll, TypeOK
<1>7. ASSUME NEW p \in Pollers, Start(p) PROVE TypeOK' /\ ControlOK'
  <2>1. Head(batch[p]) \in Actions
    BY <1>7, <1>t DEF Start, TypeOK, ControlOK
  <2>2. started' \in Seq(Actions)
    BY <2>1, <1>7, <1>t, <1>s DEF Start, TypeOK
  <2>3. QED
    BY <2>2, <1>7, <1>t DEF Start, TypeOK, ControlOK
<1>8. ASSUME NEW p \in Pollers, Finish(p) PROVE TypeOK' /\ ControlOK'
  <2>1. Head(batch[p]) \in Actions
    BY <1>8, <1>t DEF Finish, TypeOK, ControlOK
  <2>a. outcome' \in [Pollers -> Verdict]
    BY <1>8, <1>t DEF Finish, TypeOK, Verdict
  <2>b. late' \subseteq Actions
    BY <2>1, <1>8, <1>t DEF Finish, TypeOK
  <2>2. executed' \in [Actions -> Nat]
    <3> DEFINE h == Head(batch[p])
    <3>1. executed' \in {executed, [executed EXCEPT ![h] = @ + 1]}
      BY <1>8 DEF Finish
    <3>2. h \in Actions
      BY <2>1
    <3> HIDE DEF h
    <3>3. executed \in [Actions -> Nat] /\ executed[h] + 1 \in Nat
      BY <3>2, <1>t DEF TypeOK
    <3>4. CASE executed' = [executed EXCEPT ![h] = @ + 1]
      BY <3>3, <3>4
    <3>5. QED
      BY <3>1, <3>3, <3>4
  <2>3. QED
    BY <2>a, <2>b, <2>2, <1>8, <1>t DEF Finish, TypeOK, ControlOK
<1>9. ASSUME NEW p \in Pollers, Post(p) PROVE TypeOK' /\ ControlOK'
  <2> DEFINE rec == [id |-> Head(batch[p]), verdict |-> outcome[p]]
  <2>1. /\ batch[p] \in Seq(Actions) /\ batch[p] # <<>> /\ outcome[p] \in Verdict
        /\ Head(batch[p]) \in Actions /\ Tail(batch[p]) \in Seq(Actions)
    BY <1>9, <1>t DEF Post, TypeOK, ControlOK
  <2>2. results' \in Seq([id : Actions, verdict : Verdict]) /\ Len(results') <= ResultsMax
    <3>1. rec \in ResultRecord
      BY <2>1 DEF ResultRecord
    <3>2. results' = results \/ results' = Recorded(results, rec)
      BY <1>9 DEF Post
    <3>3. results \in Seq(ResultRecord) /\ Len(results) <= ResultsMax
      BY <1>t DEF TypeOK, ResultRecord
    <3>4. results' \in Seq(ResultRecord) /\ Len(results') <= ResultsMax
      BY <3>1, <3>2, <3>3, RecordedProperties
    <3>5. QED
      BY <3>4 DEF ResultRecord
  <2>3. faults' \in 0 .. MaxFaults
    BY <1>9, <1>t, TransportAssumption DEF Post, Fault, TypeOK
  <2>4. QED
    BY <2>1, <2>2, <2>3, <1>9, <1>t DEF Post, TypeOK, ControlOK
<1>10. ASSUME NEW p \in Panels, OpenPanel(p) PROVE TypeOK' /\ ControlOK'
  <2>1. opens' \in 0 .. MaxOpens
    BY <1>10, <1>t, TransportAssumption DEF OpenPanel, TypeOK
  <2>2. p \in Pollers
    BY DEF Pollers
  <2>3. QED
    BY <2>1, <2>2, <1>10, <1>t DEF OpenPanel, TypeOK, ControlOK
<1>d. ASSUME NEW p \in Pollers, NEW rest \in {"off", "idle"}, Dropped(p, rest)
      PROVE  /\ at' \in [Pollers -> {"off", "idle", "run", "act", "post"}]
             /\ batch' \in [Pollers -> Seq(Actions)]
             /\ late' \subseteq Actions
             /\ \A q \in Pollers : batch'[q] # <<>> <=> at'[q] \in {"run", "act", "post"}
  <2>1. Head(batch[p]) \in Actions \/ at[p] # "act"
    BY <1>t DEF TypeOK, ControlOK
  <2>2. QED
    BY <2>1, <1>d, <1>t, NoRecords DEF Dropped, TypeOK, ControlOK
<1>11. ASSUME NEW p \in Panels, ClosePanel(p) PROVE TypeOK' /\ ControlOK'
  <2>1. faults' \in 0 .. MaxFaults
    BY <1>11, <1>t, FaultCount DEF ClosePanel, TypeOK
  <2>2. p \in Pollers /\ Dropped(p, "off")
    BY <1>11 DEF ClosePanel, Pollers
  <2>3. QED
    BY <2>1, <2>2, <1>d, <1>11, <1>t DEF ClosePanel, TypeOK, ControlOK
<1>12. ASSUME NEW a \in Actions, LateExecute(a) PROVE TypeOK' /\ ControlOK'
  BY <1>12, <1>t DEF LateExecute, TypeOK, ControlOK
<1>13. CASE HandOff
  BY <1>13, <1>t, NoRecords, FaultCount, TransportAssumption DEF HandOff, TypeOK, ControlOK, Pollers
<1>14. CASE SuspendWorker
  <2>1. faults' \in 0 .. MaxFaults
    BY <1>14, <1>t, FaultCount DEF SuspendWorker
  <2>2. Worker \in Pollers /\ Dropped(Worker, "idle")
    BY <1>14 DEF SuspendWorker, Pollers
  <2>3. QED
    BY <2>1, <2>2, <1>d, <1>14, <1>t DEF SuspendWorker, TypeOK, ControlOK
<1>15. CASE StopBridge
  <2>1. faults' \in 0 .. MaxFaults
    BY <1>15, <1>t, FaultCount DEF StopBridge
  <2>2. /\ queue' \in Seq(Actions) /\ Len(queue') <= QueueMax
        /\ results' \in Seq([id : Actions, verdict : Verdict]) /\ Len(results') <= ResultsMax
    BY <1>15, NoRecords, TransportAssumption DEF StopBridge
  <2>3. QED
    BY <2>1, <2>2, <1>15, <1>t DEF StopBridge, TypeOK, ControlOK
<1>16. CASE StartBridge
  BY <1>16, <1>t DEF StartBridge, TypeOK, ControlOK
<1>17. CASE UNCHANGED vars
  BY <1>17, <1>t DEF vars, TypeOK, ControlOK
<1>18. QED
  BY <1>1, <1>2, <1>3, <1>4, <1>5, <1>6, <1>7, <1>8, <1>9, <1>10, <1>11, <1>12, <1>13,
     <1>14, <1>15, <1>16, <1>17 DEF Next, CallerNext, PollerStep

\* Every reachable state of the transport is well typed: queue and results stay
\* within their caps whatever callers push and pollers post.
THEOREM TypeCorrect == Spec => []TypeOK
<1>1. Spec => []TInv
  BY InitType, TypeStep, PTL DEF Spec
<1>2. TInv => TypeOK
  BY DEF TInv
<1>3. QED
  BY <1>1, <1>2, PTL

-----------------------------------------------------------------------------
(* Every action is carried out at most once *)

\* The actions a poller has yet to give to the browser or is giving to it: once
\* the result is about to be posted, the head of the batch is done with.
Rest(p) == IF at[p] = "post" THEN Elements(Tail(batch[p])) ELSE Elements(batch[p])

Untouched(a) == a \notin late /\ executed[a] = 0

\* Neither the bridge nor a poller holds a, and no page has carried it out or will.
Unseen(a) ==
    /\ Untouched(a)
    /\ a \notin Elements(queue)
    /\ \A p \in Pollers : a \notin Rest(p)

\* An action yet to be done is at one place, and no page has it yet.
Places ==
    /\ \A a \in Elements(queue) : Untouched(a) /\ \A p \in Pollers : a \notin Rest(p)
    /\ \A p \in Pollers : \A a \in Rest(p) :
          Untouched(a) /\ \A q \in Pollers \ {p} : a \notin Rest(q)

NoRepeats == Distinct(queue) /\ \A p \in Pollers : Distinct(batch[p])

\* An action is its caller's alone, and is nowhere before it is pushed.
CallsOK ==
    /\ \A a \in Actions \ Issued : Unseen(a)
    /\ \A c \in Callers : stage[c] = "push" => Unseen(calling[c])
    /\ \A c, d \in Callers : calling[c] = calling[d] /\ calling[c] # NoAction => c = d

AInv == Places /\ NoRepeats /\ CallsOK /\ AtMostOnce

LEMMA HeldActions ==
    ASSUME TInv
    PROVE  Elements(queue) \subseteq Actions /\ \A p \in Pollers : Rest(p) \subseteq Actions
<1>1. queue \in Seq(Actions) /\ \A p \in Pollers : batch[p] \in Seq(Actions)
  BY DEF TInv, TypeOK
<1>2. ASSUME NEW p \in Pollers PROVE Rest(p) \subseteq Actions
  <2>1. CASE at[p] = "post"
    <3>1. batch[p] # <<>>
      BY <2>1 DEF TInv, ControlOK
    <3>2. Elements(Tail(batch[p])) \subseteq Elements(batch[p])
      BY <1>1, <3>1, TailElements
    <3>3. QED
      BY <1>1, <2>1, <3>2, ElementsOf DEF Rest
  <2>2. CASE at[p] # "post"
    BY <1>1, <2>2, ElementsOf DEF Rest
  <2>3. QED
    BY <2>1, <2>2
<1>3. QED
  BY <1>1, <1>2, ElementsOf

\* A step that only forgets actions.
LEMMA Forgetting ==
    ASSUME TInv, Places, AtMostOnce,
           Elements(queue') \subseteq Elements(queue),
           \A p \in Pollers : Rest(p)' \subseteq Rest(p),
           late' = late, executed' = executed
    PROVE  Places' /\ AtMostOnce' /\ \A a \in Actions : Unseen(a) => Unseen(a)'
BY DEF Places, AtMostOnce, Unseen, Untouched

\* A step in which a page carries out action h of poller p, or may do so later.
LEMMA Touching ==
    ASSUME TInv, Places, AtMostOnce,
           NEW p \in Pollers, NEW h \in Rest(p), h \in Actions,
           queue' = queue,
           \A q \in Pollers : Rest(q)' \subseteq Rest(q),
           h \notin Rest(p)',
           \/ late' = late /\ executed' = [executed EXCEPT ![h] = @ + 1]
           \/ late' \in {late, late \cup {h}} /\ executed' = executed
    PROVE  Places' /\ AtMostOnce' /\ \A a \in Actions : Unseen(a) => Unseen(a)'
<1>1. executed \in [Actions -> Nat] /\ Untouched(h)
  BY DEF TInv, TypeOK, Places
<1>2. \A q \in Pollers : h \notin Rest(q)'
  BY DEF Places
<1>3. h \notin Elements(queue) /\ Elements(queue') = Elements(queue)
  BY DEF Places
<1>4. \A a \in Actions : a # h /\ Untouched(a) => Untouched(a)'
  BY <1>1 DEF Untouched
<1>5. Places'
  BY <1>2, <1>3, <1>4, HeldActions DEF Places
<1>6. AtMostOnce'
  BY <1>1 DEF AtMostOnce, Untouched
<1>7. ASSUME NEW a \in Actions, Unseen(a) PROVE Unseen(a)'
  BY <1>3, <1>4, <1>7 DEF Unseen
<1>8. QED
  BY <1>5, <1>6, <1>7

\* A step of pollers, panels, worker or bridge leaves the calls as they are.
LEMMA CallsKept ==
    ASSUME TInv, CallsOK, UNCHANGED caller,
           \A a \in Actions : Unseen(a) => Unseen(a)'
    PROVE  CallsOK'
<1>1. Issued' = Issued
  BY DEF caller, Issued
<1>2. \A c \in Callers : stage[c] = "push" => calling[c] \in Actions
  BY DEF TInv, TypeOK, ControlOK
<1>3. QED
  BY <1>1, <1>2 DEF CallsOK, caller

\* The call of c ends, or goes on to wait for its result.
LEMMA CallsMoveOn ==
    ASSUME TInv, CallsOK, NEW c \in Callers, stage[c] # "idle",
           \A a \in Actions \ {calling[c]} : Unseen(a) => Unseen(a)',
           \/ UNCHANGED <<calling, answer>> /\ stage' = [stage EXCEPT ![c] = "await"]
           \/ \E reply \in {"push_failed", "timeout"} \cup Verdict : Return(c, reply)
    PROVE  CallsOK'
<1>1. /\ calling \in [Callers -> Actions \cup {NoAction}] /\ calling[c] \in Actions
      /\ stage \in [Callers -> {"idle", "push", "await"}]
      /\ answer \in [Actions -> {"none", "unreachable", "push_failed", "timeout"} \cup Verdict]
      /\ \A d \in Callers : stage[d] = "push" => calling[d] \in Actions
  BY DEF TInv, TypeOK, ControlOK
<1>2. /\ \A d \in Callers \ {c} : calling'[d] = calling[d] /\ stage'[d] = stage[d]
      /\ calling'[c] \in {calling[c], NoAction} /\ stage'[c] # "push"
      /\ calling[c] = calling'[c] \/ answer'[calling[c]] # "none"
      /\ \A a \in Actions \ {calling[c]} : answer'[a] = answer[a]
  BY <1>1 DEF Return, Verdict
<1>3. \A a \in Actions \ Issued' : a \notin Issued /\ a # calling[c]
  BY <1>1, <1>2 DEF Issued
<1>4. \A a \in Actions \ Issued' : Unseen(a)'
  BY <1>3 DEF CallsOK
<1>5. \A d \in Callers : (stage[d] = "push" => Unseen(calling[d]))'
  <2>1. SUFFICES ASSUME NEW d \in Callers, stage'[d] = "push"
                 PROVE  Unseen(calling[d])'
    OBVIOUS
  <2>2. d # c /\ calling'[d] = calling[d] /\ stage[d] = "push" /\ calling[d] \in Actions
    BY <1>1, <1>2, <2>1
  <2>3. calling[d] # calling[c] /\ Unseen(calling[d])
    BY <1>1, <2>2 DEF CallsOK, NoAction, Actions
  <2>4. PICK a \in Actions \ {calling[c]} : a = calling[d] /\ Unseen(a)
    BY <2>2, <2>3
  <2>5. Unseen(a)' /\ calling'[d] = a
    BY <2>2, <2>4
  <2>6. QED
    BY <2>5 DEF Unseen, Untouched
<1>6. \A d, e \in Callers : calling'[d] = calling'[e] /\ calling'[d] # NoAction => d = e
  BY <1>1, <1>2 DEF CallsOK
<1>7. QED
  BY <1>4, <1>5, <1>6 DEF CallsOK

LEMMA InitAInv == Init => AInv
<1> SUFFICES ASSUME Init PROVE AInv
  OBVIOUS
<1>1. Elements(<<>>) = {} /\ Distinct(<<>>)
  BY NoRecords, ElementsOf
<1>2. Elements(queue) = {} /\ \A p \in Pollers : Rest(p) = {}
  BY <1>1 DEF Init, Rest
<1>3. Places /\ NoRepeats
  BY <1>1, <1>2 DEF Init, Places, NoRepeats
<1>4. CallsOK /\ AtMostOnce
  BY <1>2 DEF Init, CallsOK, Unseen, Untouched, AtMostOnce
<1>5. QED
  BY <1>3, <1>4 DEF AInv

\* A step that leaves the queue, the batches and the executions alone.
LEMMA UntouchedPlaces ==
    ASSUME TInv, Places, NoRepeats, AtMostOnce, UNCHANGED <<queue, batch, late, executed>>,
           \A p \in Pollers : Rest(p)' = Rest(p)
    PROVE  Places' /\ NoRepeats' /\ AtMostOnce' /\ \A a \in Actions : Unseen(a) => Unseen(a)'
BY Forgetting DEF NoRepeats

\* A poller, a panel's document or the worker gives up all it holds.
LEMMA DroppedKeeps ==
    ASSUME TInv, Places, NoRepeats, AtMostOnce,
           NEW p \in Pollers, NEW rest \in {"off", "idle"}, Dropped(p, rest),
           UNCHANGED <<queue, executed>>
    PROVE  Places' /\ NoRepeats' /\ AtMostOnce' /\ \A a \in Actions : Unseen(a) => Unseen(a)'
<1>1. /\ at \in [Pollers -> {"off", "idle", "run", "act", "post"}]
      /\ batch \in [Pollers -> Seq(Actions)]
  BY DEF TInv, TypeOK
<1>2. Elements(<<>>) = {} /\ Distinct(<<>>)
  BY NoRecords, ElementsOf
<1>3. /\ \A q \in Pollers : Rest(q)' \subseteq Rest(q)
      /\ Rest(p)' = {}
  BY <1>1, <1>2 DEF Dropped, Rest
<1>4. NoRepeats'
  BY <1>1, <1>2 DEF Dropped, NoRepeats
<1>5. CASE late' = late
  BY <1>3, <1>4, <1>5, Forgetting
<1>6. CASE at[p] = "act" /\ late' = late \cup {Head(batch[p])}
  <2>1. batch[p] # <<>> /\ Rest(p) = Elements(batch[p])
    BY <1>6 DEF TInv, ControlOK, Rest
  <2>2. PICK h \in Rest(p) : h = Head(batch[p]) /\ h \in Actions
    BY <1>1, <2>1, TailElements
  <2>3. QED
    BY <1>3, <1>4, <1>6, <2>2, Touching
<1>7. QED
  BY <1>5, <1>6 DEF Dropped

LEMMA CallKeeps == ASSUME TInv, AInv, NEW c \in Callers, Call(c) PROVE AInv'
<1>1. Places' /\ NoRepeats' /\ AtMostOnce' /\ \A a \in Actions : Unseen(a) => Unseen(a)'
  BY UntouchedPlaces DEF AInv, Call, bridge, poller, history, Rest
<1>2. PICK a \in Actions \ Issued :
        \/ /\ calling' = [calling EXCEPT ![c] = a]
           /\ stage' = [stage EXCEPT ![c] = "push"] /\ answer' = answer
        \/ /\ answer' = [answer EXCEPT ![a] = "unreachable"]
           /\ UNCHANGED <<calling, stage>>
  BY DEF Call
<1>3. /\ calling \in [Callers -> Actions \cup {NoAction}] /\ calling[c] = NoAction
      /\ stage \in [Callers -> {"idle", "push", "await"}]
      /\ answer \in [Actions -> {"none", "unreachable", "push_failed", "timeout"} \cup Verdict]
      /\ \A d \in Callers : stage[d] = "push" => calling[d] \in Actions
  BY DEF Call, TInv, TypeOK, ControlOK
<1>4. \A d \in Callers : calling[d] # a
  BY DEF Issued
<1>5. \A b \in Actions \ Issued' : b \notin Issued
  BY <1>2, <1>3, NoRecords DEF Issued
<1>6. \A d \in Callers : (stage[d] = "push" => Unseen(calling[d]))'
  <2>1. SUFFICES ASSUME NEW d \in Callers, stage'[d] = "push"
                 PROVE  Unseen(calling[d])'
    OBVIOUS
  <2>2. PICK b \in Actions : b = calling'[d] /\ Unseen(b)
    BY <1>2, <1>3, <2>1 DEF AInv, CallsOK
  <2>3. Unseen(b)'
    BY <1>1, <2>2
  <2>4. QED
    BY <2>2, <2>3 DEF Unseen, Untouched
<1>7. \A d, e \in Callers : calling'[d] = calling'[e] /\ calling'[d] # NoAction => d = e
  BY <1>2, <1>3, <1>4 DEF AInv, CallsOK
<1>8. \A b \in Actions \ Issued' : Unseen(b)'
  BY <1>1, <1>5 DEF AInv, CallsOK
<1>9. QED
  BY <1>1, <1>6, <1>7, <1>8 DEF AInv, CallsOK

LEMMA PushKeeps == ASSUME TInv, AInv, NEW c \in Callers, Push(c) PROVE AInv'
<1>1. PICK b \in Actions : b = calling[c] /\ Unseen(b)
  BY DEF AInv, CallsOK, Push, TInv, TypeOK, ControlOK
<1>2. /\ Elements(queue') \subseteq Elements(queue) \cup {b}
      /\ Distinct(queue')
  BY <1>1, EnqueuedProperties DEF Push, TInv, TypeOK, AInv, NoRepeats, Unseen
<1>3. UNCHANGED <<at, batch, late, executed>> /\ \A p \in Pollers : Rest(p)' = Rest(p)
  BY DEF Push, poller, Rest
<1>4. Places'
  BY <1>1, <1>2, <1>3 DEF AInv, Places, Unseen, Untouched
<1>5. \A a \in Actions \ {calling[c]} : Unseen(a) => Unseen(a)'
  BY <1>1, <1>2, <1>3 DEF Unseen, Untouched
<1>6. stage[c] # "idle"
  BY DEF Push
<1>7. CallsOK'
  BY <1>5, <1>6, CallsMoveOn DEF AInv, Push
<1>8. QED
  BY <1>2, <1>3, <1>4, <1>7 DEF AInv, NoRepeats, AtMostOnce

\* A call ends for another reason.
LEMMA ReturnKeeps ==
    ASSUME TInv, AInv, NEW c \in Callers, stage[c] # "idle",
           NEW reply \in {"push_failed", "timeout"} \cup Verdict, Return(c, reply),
           UNCHANGED <<bridge, poller, late, history>>
    PROVE  AInv'
<1>1. Places' /\ NoRepeats' /\ AtMostOnce' /\ \A a \in Actions : Unseen(a) => Unseen(a)'
  BY UntouchedPlaces DEF AInv, bridge, poller, history, Rest
<1>2. CallsOK'
  BY <1>1, CallsMoveOn DEF AInv
<1>3. QED
  BY <1>1, <1>2 DEF AInv

LEMMA PollKeeps == ASSUME TInv, AInv, NEW p \in Pollers, Poll(p) PROVE AInv'
<1>1. /\ queue \in Seq(Actions) /\ queue' = <<>> /\ late' = late /\ executed' = executed
      /\ at \in [Pollers -> {"off", "idle", "run", "act", "post"}]
      /\ batch \in [Pollers -> Seq(Actions)] /\ batch[p] = <<>> /\ at[p] = "idle"
  BY DEF Poll, MayPoll, TInv, TypeOK, ControlOK
<1>2. Elements(queue') = {} /\ Distinct(queue') /\ Elements(batch[p]) = {}
  BY <1>1, NoRecords, ElementsOf
<1>3. CASE UNCHANGED <<batch, at>>
  <2>1. \A q \in Pollers : Rest(q)' = Rest(q)
    BY <1>3 DEF Rest
  <2>2. QED
    BY <1>1, <1>2, <1>3, <2>1, Forgetting, CallsKept DEF AInv, NoRepeats, Poll
<1>4. CASE batch' = [batch EXCEPT ![p] = queue] /\ at' = [at EXCEPT ![p] = "run"]
  <2>1. /\ Rest(p)' = Elements(queue) /\ Rest(p) = {}
        /\ \A q \in Pollers \ {p} : Rest(q)' = Rest(q)
    BY <1>1, <1>2, <1>4 DEF Rest
  <2>2. Places'
    <3>1. \A a : Untouched(a) => Untouched(a)'
      BY <1>1 DEF Untouched
    <3>2. ASSUME NEW q \in Pollers, NEW a \in Rest(q)'
          PROVE  Untouched(a)' /\ \A r \in Pollers \ {q} : a \notin Rest(r)'
      <4>1. CASE q = p
        BY <4>1, <3>1, <3>2, <2>1 DEF AInv, Places
      <4>2. CASE q # p
        BY <4>2, <3>1, <3>2, <2>1 DEF AInv, Places
      <4>3. QED
        BY <4>1, <4>2
    <3>3. QED
      BY <1>2, <3>2 DEF Places
  <2>3. NoRepeats'
    BY <1>1, <1>2, <1>4 DEF AInv, NoRepeats
  <2>4. \A a \in Actions : Unseen(a) => Unseen(a)'
    BY <1>1, <1>2, <2>1 DEF Unseen, Untouched
  <2>5. QED
    BY <1>1, <2>2, <2>3, <2>4, CallsKept DEF AInv, AtMostOnce, Poll
<1>5. QED
  BY <1>3, <1>4 DEF Poll

LEMMA FinishKeeps == ASSUME TInv, AInv, NEW p \in Pollers, Finish(p) PROVE AInv'
<1>1. /\ at \in [Pollers -> {"off", "idle", "run", "act", "post"}]
      /\ batch \in [Pollers -> Seq(Actions)] /\ batch[p] # <<>>
      /\ at' = [at EXCEPT ![p] = "post"] /\ at[p] = "act"
      /\ UNCHANGED <<queue, batch>> /\ Distinct(batch[p])
  BY DEF Finish, bridge, TInv, TypeOK, ControlOK, AInv, NoRepeats
<1>2. PICK h \in Actions : h = Head(batch[p]) /\ h \in Elements(batch[p])
                           /\ h \notin Elements(Tail(batch[p]))
  BY <1>1, TailElements
<1>3. Elements(Tail(batch[p])) \subseteq Elements(batch[p])
  BY <1>1, TailElements
<1>4. /\ h \in Rest(p) /\ h \notin Rest(p)'
      /\ \A q \in Pollers : Rest(q)' \subseteq Rest(q)
  BY <1>1, <1>2, <1>3 DEF Rest
<1>5. \/ late' = late /\ executed' = [executed EXCEPT ![h] = @ + 1]
      \/ late' \in {late, late \cup {h}} /\ executed' = executed
  BY <1>2 DEF Finish
<1>6. Places' /\ AtMostOnce' /\ \A a \in Actions : Unseen(a) => Unseen(a)'
  BY <1>1, <1>2, <1>4, <1>5, Touching DEF AInv
<1>7. CallsOK'
  BY <1>6, CallsKept DEF AInv, Finish
<1>8. QED
  BY <1>1, <1>6, <1>7 DEF AInv, NoRepeats

LEMMA PostKeeps == ASSUME TInv, AInv, NEW p \in Pollers, Post(p) PROVE AInv'
<1>1. /\ at \in [Pollers -> {"off", "idle", "run", "act", "post"}]
      /\ batch \in [Pollers -> Seq(Actions)] /\ batch[p] # <<>> /\ at[p] = "post"
      /\ batch' = [batch EXCEPT ![p] = Tail(@)]
      /\ at' = [at EXCEPT ![p] = IF Tail(batch[p]) = <<>> THEN "idle" ELSE "run"]
      /\ UNCHANGED <<queue, late, executed>>
  BY DEF Post, TInv, TypeOK, ControlOK
<1>2. \A q \in Pollers : Rest(q)' = Rest(q)
  BY <1>1 DEF Rest
<1>3. NoRepeats'
  BY <1>1, TailElements DEF AInv, NoRepeats
<1>4. QED
  BY <1>1, <1>2, <1>3, Forgetting, CallsKept DEF AInv, Post

LEMMA LateExecuteKeeps == ASSUME TInv, AInv, NEW a \in Actions, LateExecute(a) PROVE AInv'
<1>1. /\ executed \in [Actions -> Nat] /\ a \in late /\ late' = late \ {a}
      /\ executed' = [executed EXCEPT ![a] = @ + 1]
      /\ UNCHANGED <<queue, batch, at>>
  BY DEF LateExecute, bridge, poller, TInv, TypeOK
<1>2. \A p \in Pollers : Rest(p)' = Rest(p)
  BY <1>1 DEF Rest
<1>3. \A b \in Actions : Untouched(b) => Untouched(b)'
  BY <1>1 DEF Untouched
<1>4. Places'
  BY <1>1, <1>2, <1>3, HeldActions DEF AInv, Places
<1>5. AtMostOnce'
  BY <1>1 DEF AInv, AtMostOnce
<1>6. \A b \in Actions : Unseen(b) => Unseen(b)'
  BY <1>1, <1>2, <1>3 DEF Unseen
<1>7. QED
  BY <1>1, <1>4, <1>5, <1>6, CallsKept DEF AInv, NoRepeats, LateExecute

LEMMA AInvStep == TInv /\ AInv /\ [Next]_vars => AInv'
<1> SUFFICES ASSUME TInv, AInv, [Next]_vars PROVE AInv'
  OBVIOUS
<1>1. ASSUME NEW c \in Callers, CallerNext(c) PROVE AInv'
  <2>1. CASE PushRefused(c)
    BY <2>1, ReturnKeeps DEF PushRefused
  <2>2. CASE AwaitTimeout(c)
    BY <2>2, ReturnKeeps DEF AwaitTimeout
  <2>3. CASE AwaitResult(c)
    <3>1. PICK rec \in Elements(results) : Return(c, rec.verdict)
      BY <2>3 DEF AwaitResult, ResultsFor
    <3>2. Elements(results) \subseteq ResultRecord
      BY ElementsOf DEF TInv, TypeOK, ResultRecord
    <3>3. rec.verdict \in Verdict
      BY <3>2 DEF ResultRecord
    <3>4. QED
      BY <2>3, <3>1, <3>3, ReturnKeeps DEF AwaitResult
  <2>4. QED
    BY <1>1, <2>1, <2>2, <2>3, CallKeeps, PushKeeps DEF CallerNext
<1>2. ASSUME NEW p \in Pollers, Start(p) PROVE AInv'
  <2>1. UNCHANGED <<queue, batch, late, executed>> /\ \A q \in Pollers : Rest(q)' = Rest(q)
    BY <1>2 DEF Start, bridge, Rest, TInv, TypeOK
  <2>2. QED
    BY <1>2, <2>1, UntouchedPlaces, CallsKept DEF AInv, Start
<1>3. ASSUME NEW p \in Pollers, PollerStep(p) PROVE AInv'
  BY <1>2, <1>3, PollKeeps, FinishKeeps, PostKeeps DEF PollerStep
<1>4. ASSUME NEW p \in Panels, OpenPanel(p) PROVE AInv'
  <2>1. UNCHANGED <<queue, batch, late, executed>> /\ \A q \in Pollers : Rest(q)' = Rest(q)
    BY <1>4 DEF OpenPanel, bridge, Rest, TInv, TypeOK
  <2>2. QED
    BY <1>4, <2>1, UntouchedPlaces, CallsKept DEF AInv, OpenPanel
<1>5. ASSUME NEW p \in Panels, ClosePanel(p) PROVE AInv'
  <2>1. p \in Pollers /\ UNCHANGED <<queue, executed>>
    BY <1>5 DEF ClosePanel, bridge, Pollers
  <2>2. QED
    BY <1>5, <2>1, DroppedKeeps, CallsKept DEF AInv, ClosePanel
<1>6. CASE SuspendWorker
  <2>1. Worker \in Pollers /\ UNCHANGED <<queue, executed>>
    BY <1>6 DEF SuspendWorker, bridge, Pollers
  <2>2. QED
    BY <1>6, <2>1, DroppedKeeps, CallsKept DEF AInv, SuspendWorker
<1>7. CASE HandOff
  <2>1. Dropped(Worker, "idle") /\ Worker \in Pollers /\ UNCHANGED <<queue, executed>>
    BY <1>7 DEF HandOff, Dropped, bridge, Pollers
  <2>2. QED
    BY <1>7, <2>1, DroppedKeeps, CallsKept DEF AInv, HandOff
<1>8. CASE StopBridge
  <2>1. /\ Elements(queue') = {} /\ Distinct(queue')
        /\ UNCHANGED <<batch, late, executed>> /\ \A q \in Pollers : Rest(q)' = Rest(q)
    BY <1>8, NoRecords, ElementsOf DEF StopBridge, poller, Rest
  <2>2. QED
    BY <1>8, <2>1, Forgetting, CallsKept DEF AInv, NoRepeats, StopBridge
<1>9. CASE StartBridge \/ UNCHANGED vars
  <2>1. /\ UNCHANGED <<queue, batch, late, executed>> /\ \A q \in Pollers : Rest(q)' = Rest(q)
        /\ UNCHANGED caller
    BY <1>9 DEF StartBridge, vars, bridge, poller, history, caller, Rest
  <2>2. QED
    BY <2>1, UntouchedPlaces, CallsKept DEF AInv
<1>10. QED
  BY <1>1, <1>3, <1>4, <1>5, <1>6, <1>7, <1>8, <1>9, LateExecuteKeeps DEF Next

\* Whatever is lost, closed, suspended, restarted or given up on, and in whatever
\* order panels and worker pop the queue, no page carries an action out twice.
THEOREM ActsAtMostOnce == Spec => []AtMostOnce
<1>1. Init => TInv /\ AInv
  BY InitType, InitAInv
<1>2. TInv /\ AInv /\ [Next]_vars => TInv' /\ AInv'
  BY TypeStep, AInvStep
<1>3. Spec => [](TInv /\ AInv)
  BY <1>1, <1>2, PTL DEF Spec
<1>4. TInv /\ AInv => AtMostOnce
  BY DEF AInv
<1>5. QED
  BY <1>3, <1>4, PTL

-----------------------------------------------------------------------------
(* A caller that is told ok was told the truth *)

\* A verdict ok, at the bridge, with the poller or with the caller, is of an
\* action a page has carried out.
HeldTrue == \A rec \in Elements(results) : rec.verdict = "ok" => executed[rec.id] # 0
PostTrue == \A p \in Pollers : at[p] = "post" /\ outcome[p] = "ok" => executed[Head(batch[p])] # 0
AnswerTrue == \A a \in Actions : answer[a] = "ok" => executed[a] # 0

RInv == HeldTrue /\ PostTrue /\ AnswerTrue

\* What has been carried out stays so.
LEMMA ExecutedGrows ==
    ASSUME TInv, [Next]_vars
    PROVE  \A a \in Actions : executed[a] # 0 => executed'[a] # 0
<1>1. executed \in [Actions -> Nat]
  BY DEF TInv, TypeOK
<1>2. \/ executed' = executed
      \/ \E h : executed' = [executed EXCEPT ![h] = @ + 1]
  BY DEF Next, CallerNext, PollerStep, Call, Push, PushRefused, AwaitResult, AwaitTimeout,
     Poll, Start, Finish, Post, OpenPanel, ClosePanel, LateExecute, HandOff, SuspendWorker,
     StopBridge, StartBridge, history, vars
<1>3. QED
  BY <1>1, <1>2

LEMMA HeldStep == TInv /\ RInv /\ [Next]_vars => HeldTrue'
<1> SUFFICES ASSUME TInv, RInv, [Next]_vars PROVE HeldTrue'
  OBVIOUS
<1>1. results \in Seq(ResultRecord) /\ Len(results) <= ResultsMax
  BY DEF TInv, TypeOK, ResultRecord
<1>2. \A rec \in Elements(results) : rec.id \in Actions
  <2>1. Elements(results) \subseteq ResultRecord
    BY <1>1, ElementsOf
  <2>2. QED
    BY <2>1 DEF ResultRecord
<1>3. CASE results' = results
  BY <1>2, <1>3, ExecutedGrows DEF RInv, HeldTrue
<1>4. ASSUME NEW p \in Pollers, Post(p) PROVE HeldTrue'
  <2> DEFINE rec == [id |-> Head(batch[p]), verdict |-> outcome[p]]
  <2>1. /\ at[p] = "post" /\ outcome[p] \in Verdict /\ executed' = executed
        /\ batch[p] \in Seq(Actions) /\ batch[p] # <<>>
        /\ results' = results \/ results' = Recorded(results, rec)
    BY <1>4 DEF Post, TInv, TypeOK, ControlOK
  <2>2. Head(batch[p]) \in Actions
    BY <2>1
  <2>3. rec \in ResultRecord /\ (rec.verdict = "ok" => executed[rec.id] # 0)
    BY <2>1, <2>2 DEF RInv, PostTrue, ResultRecord
  <2> HIDE DEF rec
  <2>4. Elements(results') \subseteq Elements(results) \cup {rec}
    BY <1>1, <2>1, <2>3, RecordedProperties
  <2>5. QED
    BY <2>1, <2>3, <2>4 DEF RInv, HeldTrue
<1>5. CASE StopBridge
  BY <1>5, NoRecords, ElementsOf DEF StopBridge, HeldTrue
<1>6. QED
  BY <1>3, <1>4, <1>5 DEF Next, CallerNext, PollerStep, Call, Push, PushRefused, AwaitResult,
     AwaitTimeout, Poll, Start, Finish, OpenPanel, ClosePanel, LateExecute, HandOff,
     SuspendWorker, StartBridge, bridge, vars

LEMMA PostTrueStep == TInv /\ RInv /\ [Next]_vars => PostTrue'
<1> SUFFICES ASSUME TInv, RInv, [Next]_vars PROVE PostTrue'
  OBVIOUS
<1>1. /\ at \in [Pollers -> {"off", "idle", "run", "act", "post"}]
      /\ batch \in [Pollers -> Seq(Actions)] /\ outcome \in [Pollers -> Verdict]
      /\ executed \in [Actions -> Nat]
      /\ \A p \in Pollers : at[p] \in {"act", "post"} => Head(batch[p]) \in Actions
  BY DEF TInv, TypeOK, ControlOK
<1>2. ASSUME \A p \in Pollers : at'[p] = "post" =>
                 at[p] = "post" /\ batch'[p] = batch[p] /\ outcome'[p] = outcome[p]
      PROVE  PostTrue'
  BY <1>1, <1>2, ExecutedGrows DEF RInv, PostTrue
<1>3. ASSUME NEW p \in Pollers, Finish(p) PROVE PostTrue'
  <2>1. PICK h \in Actions : h = Head(batch[p])
    BY <1>1, <1>3 DEF Finish
  <2>2. /\ batch' = batch /\ at' = [at EXCEPT ![p] = "post"]
        /\ \A q \in Pollers \ {p} : outcome'[q] = outcome[q]
        /\ outcome'[p] = "ok" => executed'[h] # 0
    BY <1>1, <1>3, <2>1 DEF Finish
  <2>3. QED
    BY <1>1, <2>1, <2>2, ExecutedGrows DEF RInv, PostTrue
<1>4. ASSUME NEW p \in Pollers, PollerStep(p), ~Finish(p) PROVE PostTrue'
  <2>1. \A q \in Pollers : at'[q] = "post" =>
            at[q] = "post" /\ batch'[q] = batch[q] /\ outcome'[q] = outcome[q]
    BY <1>1, <1>4 DEF PollerStep, Poll, Start, Post
  <2>2. QED
    BY <1>2, <2>1
<1>5. ASSUME NEW p \in Pollers, NEW rest \in {"off", "idle"}, Dropped(p, rest), outcome' = outcome
      PROVE  PostTrue'
  BY <1>1, <1>2, <1>5 DEF Dropped
<1>6. ASSUME NEW p \in Panels, OpenPanel(p) \/ ClosePanel(p) PROVE PostTrue'
  <2>1. p \in Pollers
    BY DEF Pollers
  <2>2. CASE OpenPanel(p)
    BY <1>1, <1>2, <2>1, <2>2 DEF OpenPanel
  <2>3. CASE ClosePanel(p)
    BY <1>5, <2>1, <2>3 DEF ClosePanel
  <2>4. QED
    BY <1>6, <2>2, <2>3
<1>7. CASE SuspendWorker \/ HandOff
  <2>1. Worker \in Pollers /\ Dropped(Worker, "idle") /\ outcome' = outcome
    BY <1>7 DEF SuspendWorker, HandOff, Dropped, Pollers
  <2>2. QED
    BY <1>5, <2>1
<1>8. CASE UNCHANGED poller
  BY <1>2, <1>8 DEF poller
<1>9. QED
  BY <1>3, <1>4, <1>6, <1>7, <1>8 DEF Next, CallerNext, Call, Push, PushRefused, AwaitResult,
     AwaitTimeout, LateExecute, StopBridge, StartBridge, vars

LEMMA AnswerStep == TInv /\ RInv /\ [Next]_vars => AnswerTrue'
<1> SUFFICES ASSUME TInv, RInv, [Next]_vars PROVE AnswerTrue'
  OBVIOUS
<1>1. /\ calling \in [Callers -> Actions \cup {NoAction}]
      /\ answer \in [Actions -> {"none", "unreachable", "push_failed", "timeout"} \cup Verdict]
      /\ \A c \in Callers : stage[c] # "idle" => calling[c] \in Actions
  BY DEF TInv, TypeOK, ControlOK
<1>2. ASSUME \A a \in Actions : answer'[a] = "ok" => answer[a] = "ok" \/ executed[a] # 0
      PROVE  AnswerTrue'
  BY <1>2, ExecutedGrows DEF RInv, AnswerTrue
<1>3. ASSUME NEW c \in Callers, AwaitResult(c) PROVE AnswerTrue'
  <2>1. PICK rec \in Elements(results) : rec.id = calling[c] /\ Return(c, rec.verdict)
    BY <1>3 DEF AwaitResult, ResultsFor
  <2>2. rec.verdict = "ok" => executed[calling[c]] # 0
    BY <2>1 DEF RInv, HeldTrue
  <2>3. QED
    BY <1>1, <1>2, <2>1, <2>2 DEF Return
<1>4. ASSUME NEW c \in Callers, CallerNext(c), ~AwaitResult(c) PROVE AnswerTrue'
  <2>1. \A a \in Actions : answer'[a] = "ok" => answer[a] = "ok"
    BY <1>1, <1>4 DEF CallerNext, Call, Push, PushRefused, AwaitTimeout, Return
  <2>2. QED
    BY <1>2, <2>1
<1>5. CASE answer' = answer
  BY <1>2, <1>5
<1>6. QED
  BY <1>3, <1>4, <1>5 DEF Next, PollerStep, Poll, Start, Finish, Post, OpenPanel, ClosePanel,
     LateExecute, HandOff, SuspendWorker, StopBridge, StartBridge, caller, vars

\* A caller whose reply holds the verdict ok was told of its own action, and a
\* page carried it out, once: results dropped at the cap, posted for a caller that
\* gave up or lost never pass for another action's.
THEOREM ResultsAreTrue == Spec => []ResultIsTrue
<1>1. Init => TInv /\ AInv /\ RInv
  <2>1. Init => RInv
    <3> SUFFICES ASSUME Init PROVE RInv
      OBVIOUS
    <3>1. HeldTrue
      BY NoRecords, ElementsOf DEF Init, HeldTrue
    <3>2. PostTrue /\ AnswerTrue
      BY DEF Init, PostTrue, AnswerTrue
    <3>3. QED
      BY <3>1, <3>2 DEF RInv
  <2>2. QED
    BY <2>1, InitType, InitAInv
<1>2. TInv /\ AInv /\ RInv /\ [Next]_vars => TInv' /\ AInv' /\ RInv'
  BY TypeStep, AInvStep, HeldStep, PostTrueStep, AnswerStep DEF RInv
<1>3. Spec => [](TInv /\ AInv /\ RInv)
  BY <1>1, <1>2, PTL DEF Spec
<1>4. TInv /\ AInv /\ RInv => ResultIsTrue
  <2>1. SUFFICES ASSUME TInv, AInv, RInv, NEW a \in Actions, answer[a] = "ok"
                 PROVE  executed[a] = 1
    BY DEF ResultIsTrue
  <2>2. executed[a] \in Nat /\ executed[a] # 0
    BY <2>1 DEF TInv, TypeOK, RInv, AnswerTrue
  <2>3. executed[a] + (IF a \in late THEN 1 ELSE 0) <= 1
    BY <2>1 DEF AInv, AtMostOnce
  <2>4. QED
    BY <2>2, <2>3
<1>5. QED
  BY <1>3, <1>4, PTL

-----------------------------------------------------------------------------
(* The transport implements CallService *)

\* A call under way has no reply yet, and a call that found no bridge left nothing.
SInv ==
    /\ \A c \in Callers : calling[c] # NoAction => answer[calling[c]] = "none"
    /\ \A a \in Actions : answer[a] = "unreachable" => Unseen(a)

\* A step that leaves the calls alone.
LEMMA ServiceKept ==
    ASSUME TInv, SInv, UNCHANGED caller, \A a \in Actions : Unseen(a) => Unseen(a)'
    PROVE  SInv'
BY DEF SInv, caller

\* A page carries an action out that was yet to be done.
LEMMA CarriesOut ==
    ASSUME TInv, AInv, SInv, UNCHANGED caller, NEW a \in Actions, ~Unseen(a), executed[a] = 0,
           executed' = [executed EXCEPT ![a] = @ + 1]
    PROVE  Service!CarryOut(a)
<1>1. a \in Issued \ {NoAction} /\ answer[a] # "unreachable"
  BY NoRecords DEF AInv, CallsOK, SInv
<1>2. Issued' = Issued
  BY DEF caller, Issued
<1>3. QED
  BY <1>1, <1>2 DEF Service!CarryOut, caller

\* A call ends with a reply that is not ok, or is true.
LEMMA Tells ==
    ASSUME TInv, AInv, SInv, executed' = executed,
           NEW c \in Callers, stage[c] # "idle", NEW reply \in {"push_failed", "timeout"} \cup Verdict,
           reply = "ok" => executed[calling[c]] = 1, Return(c, reply)
    PROVE  /\ Service!Tell(calling[c]) /\ calling[c] \in Actions
           /\ \A d \in Callers : calling'[d] # NoAction => answer'[calling'[d]] = "none"
           /\ \A a \in Actions : answer'[a] = "unreachable" => answer[a] = "unreachable"
<1>1. /\ calling \in [Callers -> Actions \cup {NoAction}] /\ calling[c] \in Actions
      /\ answer \in [Actions -> {"none", "unreachable", "push_failed", "timeout"} \cup Verdict]
      /\ answer[calling[c]] = "none"
  BY NoRecords DEF TInv, TypeOK, ControlOK, SInv
<1>2. /\ answer' = [answer EXCEPT ![calling[c]] = reply]
      /\ calling' = [calling EXCEPT ![c] = NoAction]
  BY DEF Return
<1>3. calling[c] \in Issued \ {NoAction} /\ Issued' \ {NoAction} = Issued \ {NoAction}
  <2>1. calling[c] \in Issued \ {NoAction}
    BY <1>1, NoRecords DEF Issued
  <2>2. reply # "none"
    BY DEF Verdict
  <2>3. \A a \in Actions : answer'[a] # "none" <=> answer[a] # "none" \/ a = calling[c]
    BY <1>1, <1>2, <2>2
  <2>4. \A a : a # NoAction /\ (\E d \in Callers : calling'[d] = a) =>
                 \E d \in Callers : calling[d] = a
    BY <1>1, <1>2
  <2>5. \A a : a # NoAction /\ (\E d \in Callers : calling[d] = a) =>
                 a = calling[c] \/ \E d \in Callers : calling'[d] = a
    BY <1>1, <1>2
  <2>6. QED
    BY <1>1, <2>1, <2>3, <2>4, <2>5 DEF Issued
<1>4. Service!Reply(calling[c], reply)
  BY <1>1, <1>2 DEF Service!Reply
<1>5. Service!Succeed(calling[c]) \/ Service!Fail(calling[c])
  <2>1. CASE reply = "ok"
    BY <1>4, <2>1 DEF Service!Succeed
  <2>2. CASE reply # "ok"
    BY <1>4, <2>2 DEF Service!Fail, Verdict
  <2>3. QED
    BY <2>1, <2>2
<1>6. Service!Tell(calling[c])
  BY <1>3, <1>5 DEF Service!Tell
<1>7. ASSUME NEW d \in Callers, calling'[d] # NoAction PROVE answer'[calling'[d]] = "none"
  <2>1. d # c /\ calling'[d] = calling[d] /\ calling[d] # calling[c]
    BY <1>1, <1>2, <1>7 DEF AInv, CallsOK
  <2>2. calling[d] \in Actions /\ answer[calling[d]] = "none"
    BY <1>1, <1>7, <2>1 DEF SInv
  <2>3. answer'[calling[d]] = answer[calling[d]]
    BY <1>1, <1>2, <2>1, <2>2
  <2>4. QED
    BY <2>1, <2>2, <2>3
<1>8. QED
  BY <1>1, <1>2, <1>6, <1>7 DEF Verdict

\* What has gone nowhere stays so unless a caller pushes it.
LEMMA UnseenKept ==
    ASSUME TInv, AInv, [Next]_vars, UNCHANGED caller, \A c \in Callers : ~CallerNext(c)
    PROVE  \A a \in Actions : Unseen(a) => Unseen(a)'
<1> DEFINE Kept == \A a \in Actions : Unseen(a) => Unseen(a)'
<1>1. ASSUME NEW p \in Pollers, Poll(p) PROVE Kept
  <2>1. /\ queue \in Seq(Actions) /\ queue' = <<>> /\ late' = late /\ executed' = executed
        /\ at \in [Pollers -> {"off", "idle", "run", "act", "post"}]
        /\ batch \in [Pollers -> Seq(Actions)]
    BY <1>1 DEF Poll, TInv, TypeOK
  <2>2. Elements(queue') = {}
    BY <2>1, NoRecords, ElementsOf
  <2>3. \A q \in Pollers : Rest(q)' = Rest(q) \/ Rest(q)' = Elements(queue)
    BY <1>1, <2>1 DEF Poll, Rest
  <2>4. QED
    BY <2>1, <2>2, <2>3 DEF Unseen, Untouched
<1>2. ASSUME NEW p \in Pollers, Start(p) PROVE Kept
  <2>1. UNCHANGED <<queue, batch, late, executed>> /\ \A q \in Pollers : Rest(q)' = Rest(q)
    BY <1>2 DEF Start, bridge, Rest, TInv, TypeOK
  <2>2. QED
    BY <2>1, UntouchedPlaces DEF AInv
<1>3. ASSUME NEW p \in Pollers, Finish(p) PROVE Kept
  <2>1. /\ at \in [Pollers -> {"off", "idle", "run", "act", "post"}]
        /\ batch \in [Pollers -> Seq(Actions)] /\ batch[p] # <<>>
        /\ at' = [at EXCEPT ![p] = "post"] /\ at[p] = "act"
        /\ UNCHANGED <<queue, batch>> /\ Distinct(batch[p])
    BY <1>3 DEF Finish, bridge, TInv, TypeOK, ControlOK, AInv, NoRepeats
  <2>2. PICK h \in Actions : h = Head(batch[p]) /\ h \in Elements(batch[p])
                             /\ h \notin Elements(Tail(batch[p]))
    BY <2>1, TailElements
  <2>3. Elements(Tail(batch[p])) \subseteq Elements(batch[p])
    BY <2>1, TailElements
  <2>4. /\ h \in Rest(p) /\ h \notin Rest(p)'
        /\ \A q \in Pollers : Rest(q)' \subseteq Rest(q)
    BY <2>1, <2>2, <2>3 DEF Rest
  <2>5. \/ late' = late /\ executed' = [executed EXCEPT ![h] = @ + 1]
        \/ late' \in {late, late \cup {h}} /\ executed' = executed
    BY <1>3, <2>2 DEF Finish
  <2>6. QED
    BY <2>1, <2>2, <2>4, <2>5, Touching DEF AInv
<1>4. ASSUME NEW p \in Pollers, Post(p) PROVE Kept
  <2>1. /\ at \in [Pollers -> {"off", "idle", "run", "act", "post"}]
        /\ batch \in [Pollers -> Seq(Actions)] /\ batch[p] # <<>> /\ at[p] = "post"
        /\ batch' = [batch EXCEPT ![p] = Tail(@)]
        /\ at' = [at EXCEPT ![p] = IF Tail(batch[p]) = <<>> THEN "idle" ELSE "run"]
        /\ UNCHANGED <<queue, late, executed>>
    BY <1>4 DEF Post, TInv, TypeOK, ControlOK
  <2>2. \A q \in Pollers : Rest(q)' = Rest(q)
    BY <2>1 DEF Rest
  <2>3. QED
    BY <2>1, <2>2, Forgetting DEF AInv
<1>5. ASSUME NEW b \in Actions, LateExecute(b) PROVE Kept
  <2>1. /\ b \in late /\ late' = late \ {b} /\ executed' = [executed EXCEPT ![b] = @ + 1]
        /\ UNCHANGED <<queue, batch, at>> /\ \A q \in Pollers : Rest(q)' = Rest(q)
    BY <1>5 DEF LateExecute, bridge, poller, Rest
  <2>2. executed \in [Actions -> Nat]
    BY DEF TInv, TypeOK
  <2>3. QED
    BY <2>1, <2>2 DEF Unseen, Untouched
<1>6. ASSUME NEW p \in Panels, OpenPanel(p) PROVE Kept
  <2>1. UNCHANGED <<queue, batch, late, executed>> /\ \A q \in Pollers : Rest(q)' = Rest(q)
    BY <1>6 DEF OpenPanel, bridge, Rest, TInv, TypeOK
  <2>2. QED
    BY <2>1, UntouchedPlaces DEF AInv
<1>7. ASSUME NEW p \in Pollers, NEW rest \in {"off", "idle"}, Dropped(p, rest),
             UNCHANGED <<queue, executed>>
      PROVE  Kept
  BY <1>7, DroppedKeeps DEF AInv
<1>8. ASSUME NEW p \in Panels, ClosePanel(p) PROVE Kept
  <2>1. p \in Pollers /\ Dropped(p, "off") /\ UNCHANGED <<queue, executed>>
    BY <1>8 DEF ClosePanel, bridge, Pollers
  <2>2. QED
    BY <1>7, <2>1
<1>9. CASE SuspendWorker \/ HandOff
  <2>1. Dropped(Worker, "idle") /\ Worker \in Pollers /\ UNCHANGED <<queue, executed>>
    BY <1>9 DEF SuspendWorker, HandOff, Dropped, bridge, Pollers
  <2>2. QED
    BY <1>7, <2>1
<1>10. CASE StopBridge
  <2>1. /\ Elements(queue') = {} /\ UNCHANGED <<batch, late, executed>>
        /\ \A q \in Pollers : Rest(q)' = Rest(q)
    BY <1>10, NoRecords, ElementsOf DEF StopBridge, poller, Rest
  <2>2. QED
    BY <2>1, Forgetting DEF AInv
<1>11. CASE StartBridge \/ UNCHANGED vars
  <2>1. /\ UNCHANGED <<queue, batch, late, executed>> /\ \A q \in Pollers : Rest(q)' = Rest(q)
    BY <1>11 DEF StartBridge, vars, bridge, poller, history, Rest
  <2>2. QED
    BY <2>1, UntouchedPlaces DEF AInv
<1>12. QED
  BY <1>1, <1>2, <1>3, <1>4, <1>5, <1>6, <1>8, <1>9, <1>10, <1>11 DEF Next, PollerStep

\* Every step of the transport is a step of the service, or none.
LEMMA ServiceStep ==
    TInv /\ AInv /\ RInv /\ SInv /\ [Next]_vars =>
        SInv' /\ [Service!Next]_<<Issued \ {NoAction}, executed, answer>>
<1> SUFFICES ASSUME TInv, AInv, RInv, SInv, [Next]_vars
             PROVE  SInv' /\ [Service!Next]_<<Issued \ {NoAction}, executed, answer>>
  OBVIOUS
<1> DEFINE Done == SInv' /\ [Service!Next]_<<Issued \ {NoAction}, executed, answer>>
<1>1. TInv' /\ AInv'
  BY TypeStep, AInvStep
<1>2. ASSUME UNCHANGED caller, \A a \in Actions : Unseen(a) => Unseen(a)', executed' = executed
      PROVE  Done
  <2>1. Issued' = Issued /\ answer' = answer
    BY <1>2 DEF caller, Issued
  <2>2. QED
    BY <1>2, <2>1, ServiceKept
<1>3. ASSUME UNCHANGED caller, \A a \in Actions : Unseen(a) => Unseen(a)',
             NEW a \in Actions, ~Unseen(a), executed[a] = 0,
             executed' = [executed EXCEPT ![a] = @ + 1]
      PROVE  Done
  <2>1. Service!CarryOut(a)
    BY <1>3, CarriesOut
  <2>2. QED
    BY <1>3, <2>1, ServiceKept DEF Service!Next
<1>r. ASSUME NEW c \in Callers, stage[c] # "idle",
             NEW reply \in {"push_failed", "timeout"} \cup Verdict,
             reply = "ok" => executed[calling[c]] = 1, Return(c, reply),
             executed' = executed, \A a \in Actions \ {calling[c]} : Unseen(a) => Unseen(a)'
      PROVE  Done
  <2>1. /\ Service!Tell(calling[c]) /\ calling[c] \in Actions
        /\ \A d \in Callers : calling'[d] # NoAction => answer'[calling'[d]] = "none"
        /\ \A a \in Actions : answer'[a] = "unreachable" => answer[a] = "unreachable"
    BY <1>r, Tells
  <2>2. calling[c] # NoAction => answer[calling[c]] # "unreachable"
    BY DEF SInv
  <2>3. \A a \in Actions : answer'[a] = "unreachable" => a # calling[c]
    BY <2>1, <2>2, NoRecords
  <2>4. SInv'
    BY <1>r, <2>1, <2>3 DEF SInv
  <2>5. QED
    BY <2>1, <2>4 DEF Service!Next
<1>4. ASSUME NEW c \in Callers, Call(c) PROVE Done
  <2>1. /\ executed' = executed /\ \A a \in Actions : Unseen(a) => Unseen(a)'
    BY <1>4, UntouchedPlaces DEF AInv, Call, bridge, poller, history, Rest
  <2>2. PICK a \in Actions \ Issued :
          \/ /\ calling' = [calling EXCEPT ![c] = a]
             /\ stage' = [stage EXCEPT ![c] = "push"] /\ answer' = answer
          \/ /\ answer' = [answer EXCEPT ![a] = "unreachable"]
             /\ UNCHANGED <<calling, stage>>
    BY <1>4 DEF Call
  <2>3. /\ calling \in [Callers -> Actions \cup {NoAction}] /\ calling[c] = NoAction
        /\ answer \in [Actions -> {"none", "unreachable", "push_failed", "timeout"} \cup Verdict]
        /\ answer[a] = "none" /\ Unseen(a) /\ \A d \in Callers : calling[d] # a
    BY <1>4 DEF Call, TInv, TypeOK, ControlOK, AInv, CallsOK, Issued
  <2>4. Issued' \ {NoAction} = (Issued \ {NoAction}) \cup {a}
    <3>1. CASE answer' = answer /\ calling' = [calling EXCEPT ![c] = a]
      BY <2>3, <3>1, NoRecords DEF Issued
    <3>2. CASE calling' = calling /\ answer' = [answer EXCEPT ![a] = "unreachable"]
      <4>1. \A b \in Actions : answer'[b] # "none" <=> answer[b] # "none" \/ b = a
        BY <2>3, <3>2
      <4>2. QED
        BY <2>2, <3>2, <4>1, NoRecords DEF Issued
    <3>3. QED
      BY <2>2, <3>1, <3>2
  <2>5. Service!Ask(a)
    BY <2>1, <2>2, <2>3, <2>4 DEF Service!Ask, Service!Reply
  <2>6. \A d \in Callers : calling'[d] # NoAction => answer'[calling'[d]] = "none"
    BY <2>2, <2>3 DEF SInv
  <2>7. \A b \in Actions : answer'[b] = "unreachable" => answer[b] = "unreachable" \/ b = a
    BY <2>2, <2>3
  <2>8. SInv'
    BY <2>1, <2>3, <2>6, <2>7 DEF SInv
  <2>9. QED
    BY <2>5, <2>8 DEF Service!Next
<1>5. ASSUME NEW c \in Callers, Push(c) PROVE Done
  <2>1. PICK b \in Actions : b = calling[c] /\ Unseen(b) /\ answer[b] = "none" /\ stage[c] # "idle"
    BY <1>5, NoRecords DEF AInv, CallsOK, SInv, Push, TInv, TypeOK, ControlOK
  <2>2. Elements(queue') \subseteq Elements(queue) \cup {b}
    BY <1>5, <2>1, EnqueuedProperties DEF Push, TInv, TypeOK
  <2>3. UNCHANGED <<late, executed>> /\ \A p \in Pollers : Rest(p)' = Rest(p)
    BY <1>5 DEF Push, poller, Rest
  <2>4. \A a \in Actions \ {calling[c]} : Unseen(a) => Unseen(a)'
    BY <2>1, <2>2, <2>3 DEF Unseen, Untouched
  <2>5. CASE Return(c, "push_failed")
    BY <1>r, <2>1, <2>3, <2>4, <2>5
  <2>6. CASE UNCHANGED <<calling, answer>>
    <3>1. Issued' = Issued
      BY <2>6 DEF Issued
    <3>2. SInv'
      BY <2>1, <2>4, <2>6 DEF SInv
    <3>3. QED
      BY <2>3, <2>6, <3>1, <3>2
  <2>7. QED
    BY <1>5, <2>5, <2>6 DEF Push
<1>6. ASSUME NEW c \in Callers, NEW reply \in {"push_failed", "timeout"} \cup Verdict,
             stage[c] # "idle", reply = "ok" => executed[calling[c]] = 1, Return(c, reply),
             UNCHANGED <<bridge, poller, late, history>>
      PROVE  Done
  <2>1. executed' = executed /\ \A a \in Actions : Unseen(a) => Unseen(a)'
    BY <1>6, UntouchedPlaces DEF AInv, bridge, poller, history, Rest
  <2>2. QED
    BY <1>6, <1>r, <2>1
<1>7. ASSUME NEW c \in Callers, AwaitResult(c) PROVE Done
  <2>1. PICK rec \in Elements(results) : rec.id = calling[c] /\ Return(c, rec.verdict)
    BY <1>7 DEF AwaitResult, ResultsFor
  <2>2. Elements(results) \subseteq ResultRecord
    BY ElementsOf DEF TInv, TypeOK, ResultRecord
  <2>3. rec.verdict \in Verdict /\ rec.id \in Actions
    BY <2>1, <2>2 DEF ResultRecord
  <2>4. rec.verdict = "ok" => executed[calling[c]] = 1
    <3>1. SUFFICES ASSUME rec.verdict = "ok" PROVE executed[rec.id] = 1
      BY <2>1
    <3>2. executed[rec.id] \in Nat /\ executed[rec.id] # 0
      BY <2>1, <2>3, <3>1 DEF RInv, HeldTrue, TInv, TypeOK
    <3>3. executed[rec.id] + (IF rec.id \in late THEN 1 ELSE 0) <= 1
      BY <2>3 DEF AInv, AtMostOnce
    <3>4. QED
      BY <3>2, <3>3
  <2>5. QED
    BY <1>6, <1>7, <2>1, <2>3, <2>4 DEF AwaitResult
<1>8. ASSUME NEW c \in Callers, CallerNext(c) PROVE Done
  <2>1. CASE PushRefused(c)
    BY <1>6, <2>1 DEF PushRefused, Verdict
  <2>2. CASE AwaitTimeout(c)
    BY <1>6, <2>2 DEF AwaitTimeout, Verdict
  <2>3. QED
    BY <1>4, <1>5, <1>7, <1>8, <2>1, <2>2 DEF CallerNext
<1>9. ASSUME UNCHANGED caller, \A c \in Callers : ~CallerNext(c), executed' = executed
      PROVE  Done
  BY <1>2, <1>9, UnseenKept
<1>10. ASSUME UNCHANGED caller, \A c \in Callers : ~CallerNext(c), NEW a \in Actions,
              ~Unseen(a), executed[a] = 0, executed' = [executed EXCEPT ![a] = @ + 1]
       PROVE  Done
  BY <1>3, <1>10, UnseenKept
<1>11. ASSUME NEW p \in Pollers, Finish(p), \A c \in Callers : ~CallerNext(c) PROVE Done
  <2>1. batch[p] # <<>> /\ batch[p] \in Seq(Actions) /\ at[p] = "act" /\ UNCHANGED caller
    BY <1>11 DEF Finish, TInv, TypeOK, ControlOK
  <2>2. PICK h \in Actions : h = Head(batch[p]) /\ h \in Elements(batch[p])
    BY <2>1, TailElements
  <2>3. h \in Rest(p)
    BY <2>1, <2>2 DEF Rest
  <2>4. ~Unseen(h) /\ executed[h] = 0
    BY <2>3 DEF AInv, Places, Untouched, Unseen
  <2>5. executed' = executed \/ executed' = [executed EXCEPT ![h] = @ + 1]
    BY <1>11, <2>2 DEF Finish
  <2>6. QED
    BY <1>9, <1>10, <1>11, <2>1, <2>4, <2>5
<1>12. ASSUME NEW a \in Actions, LateExecute(a), \A c \in Callers : ~CallerNext(c) PROVE Done
  <2>1. /\ a \in late /\ executed' = [executed EXCEPT ![a] = @ + 1] /\ UNCHANGED caller
        /\ executed[a] \in Nat
    BY <1>12 DEF LateExecute, TInv, TypeOK
  <2>2. executed[a] = 0
    BY <2>1 DEF AInv, AtMostOnce
  <2>3. ~Unseen(a)
    BY <2>1 DEF Unseen, Untouched
  <2>4. QED
    BY <1>10, <1>12, <2>1, <2>2, <2>3
<1>13. CASE \A c \in Callers : ~CallerNext(c)
  <2>1. \/ \E p \in Pollers : Finish(p)
        \/ \E a \in Actions : LateExecute(a)
        \/ executed' = executed /\ UNCHANGED caller
    BY <1>13 DEF Next, PollerStep, Poll, Start, Post, OpenPanel, ClosePanel, HandOff, SuspendWorker,
       StopBridge, StartBridge, history, vars
  <2>2. QED
    BY <1>9, <1>11, <1>12, <1>13, <2>1
<1>14. QED
  BY <1>8, <1>13

\* The transport implements CallService, whatever callers, panels, worker, bridge and
\* browser do, and in whatever order: each call is carried out at most once and only
\* after it was made, its one reply is true, and a call that found no bridge is over.
THEOREM TransportImplementsService == Spec => ImplementsService
<1>1. Init => TInv /\ AInv /\ RInv /\ SInv /\ Service!Init
  <2> SUFFICES ASSUME Init PROVE TInv /\ AInv /\ RInv /\ SInv /\ Service!Init
    OBVIOUS
  <2>1. TInv /\ AInv
    BY InitType, InitAInv
  <2>2. HeldTrue
    BY NoRecords, ElementsOf DEF Init, HeldTrue
  <2>3. PostTrue /\ AnswerTrue
    BY DEF Init, PostTrue, AnswerTrue
  <2>4. SInv
    BY DEF Init, SInv
  <2>5. Service!Init
    BY DEF Init, Service!Init, Issued
  <2>6. QED
    BY <2>1, <2>2, <2>3, <2>4, <2>5 DEF RInv
<1>2. TInv /\ AInv /\ RInv /\ SInv /\ [Next]_vars =>
          /\ TInv' /\ AInv' /\ RInv' /\ SInv'
          /\ [Service!Next]_<<Issued \ {NoAction}, executed, answer>>
  BY TypeStep, AInvStep, HeldStep, PostTrueStep, AnswerStep, ServiceStep DEF RInv
<1>3. QED
  BY <1>1, <1>2, PTL DEF Spec, ImplementsService, Service!Spec, Service!serviceVars

-----------------------------------------------------------------------------
(* The way of an action from the bridge's queue to the browser *)

\* What poller p has not taken up yet of the batch it holds.
Left(p) == CASE at[p] = "run" -> batch[p]
             [] at[p] \in {"act", "post"} -> Tail(batch[p])
             [] OTHER -> <<>>

\* What a step can do to queue, batches and history: leave them alone, queue an action, hand
\* the queue to a poller, take up a poller's next action, or lose what somewhere was held.
Still ==
    /\ UNCHANGED <<queue, pushed, started>>
    /\ \A p \in Pollers : Left(p)' = Left(p)

Queues(a) ==
    /\ queue' = Enqueued(queue, a) /\ pushed' = Append(pushed, a) /\ started' = started
    /\ \A p \in Pollers : Left(p)' = Left(p)

Pops(p) ==
    /\ queue' = <<>> /\ UNCHANGED <<pushed, started>>
    /\ Left(p) = <<>> /\ Left(p)' = queue
    /\ \A q \in Pollers \ {p} : Left(q)' = Left(q) /\ (~overlap' => Left(q) = <<>>)

TakesUp(p) ==
    /\ Left(p) # <<>> /\ UNCHANGED <<queue, pushed>>
    /\ started' = Append(started, Head(Left(p)))
    /\ Left(p)' = Tail(Left(p))
    /\ \A q \in Pollers \ {p} : Left(q)' = Left(q)

Loses ==
    /\ UNCHANGED <<pushed, started>>
    /\ queue' \in {queue, <<>>}
    /\ \A p \in Pollers : Left(p)' \in {Left(p), <<>>}
    /\ faults' # 0 \/ handedOff'

Flow ==
    \/ Still
    \/ \E a \in Actions : Queues(a)
    \/ \E p \in Pollers : Pops(p) \/ TakesUp(p)
    \/ Loses

\* Faults and the two flags of the history are never taken back.
Marks ==
    /\ faults' # 0 \/ faults = 0
    /\ handedOff => handedOff'
    /\ overlap => overlap'

LEMMA LeftType ==
    ASSUME TInv, NEW p \in Pollers
    PROVE  /\ Left(p) \in Seq(Actions) /\ Elements(Left(p)) \subseteq Elements(batch[p])
           /\ batch[p] = <<>> => Left(p) = <<>>
<1>1. /\ batch[p] \in Seq(Actions) /\ at[p] \in {"off", "idle", "run", "act", "post"}
      /\ batch[p] # <<>> <=> at[p] \in {"run", "act", "post"}
  BY DEF TInv, TypeOK, ControlOK
<1>2. CASE at[p] = "run"
  BY <1>1, <1>2 DEF Left
<1>3. CASE at[p] \in {"act", "post"}
  BY <1>1, <1>3, TailElements DEF Left
<1>4. CASE at[p] \in {"off", "idle"}
  <2>1. Left(p) = <<>>
    BY <1>4 DEF Left
  <2>2. QED
    BY <2>1, NoRecords, ElementsOf
<1>5. QED
  BY <1>1, <1>2, <1>3, <1>4

\* A poller's document or worker is gone: nothing is lost, or the loss is marked.
LEMMA DropFlow ==
    ASSUME TInv, NEW p \in Pollers, NEW rest \in {"off", "idle"}, Dropped(p, rest),
           UNCHANGED <<queue, pushed, started>>,
           batch[p] = <<>> \/ faults' # 0 \/ handedOff'
    PROVE  Still \/ Loses
<1>1. /\ at \in [Pollers -> {"off", "idle", "run", "act", "post"}]
      /\ batch \in [Pollers -> Seq(Actions)]
  BY DEF TInv, TypeOK
<1>2. Left(p)' = <<>> /\ \A q \in Pollers \ {p} : Left(q)' = Left(q)
  BY <1>1 DEF Dropped, Left
<1>3. batch[p] = <<>> => Left(p) = <<>>
  BY LeftType
<1>4. QED
  BY <1>2, <1>3 DEF Still, Loses

LEMMA FlowStep == TInv /\ [Next]_vars => Flow /\ Marks
<1> SUFFICES ASSUME TInv, [Next]_vars PROVE Flow /\ Marks
  OBVIOUS
<1>t. /\ at \in [Pollers -> {"off", "idle", "run", "act", "post"}]
      /\ batch \in [Pollers -> Seq(Actions)]
      /\ faults \in Nat
      /\ \A p \in Pollers : batch[p] # <<>> <=> at[p] \in {"run", "act", "post"}
      /\ \A c \in Callers : stage[c] # "idle" => calling[c] \in Actions
  BY TransportAssumption DEF TInv, TypeOK, ControlOK
<1>f. Fault => faults' # 0
  BY <1>t DEF Fault
<1> USE DEF bridge, caller, browser, poller, history
<1>1. ASSUME UNCHANGED <<queue, pushed, started, at, batch, overlap, handedOff, faults>>
      PROVE  Flow /\ Marks
  BY <1>1 DEF Flow, Still, Left, Marks
<1>2. ASSUME NEW c \in Callers, CallerNext(c) PROVE Flow /\ Marks
  <2>1. CASE Push(c)
    <3>1. calling[c] \in Actions /\ Queues(calling[c])
      BY <2>1, <1>t DEF Push, Queues, Left
    <3>2. Marks
      BY <2>1, <1>f DEF Push, Marks
    <3>3. QED
      BY <3>1, <3>2 DEF Flow
  <2>2. CASE ~Push(c)
    BY <1>1, <1>2, <2>2 DEF CallerNext, Call, PushRefused, AwaitResult, AwaitTimeout
  <2>3. QED
    BY <2>1, <2>2
<1>3. ASSUME NEW p \in Pollers, Poll(p) PROVE Flow /\ Marks
  <2>a. handedOff' = handedOff /\ (faults' # 0 \/ faults = 0)
    BY <1>3, <1>f DEF Poll
  <2>b. overlap => overlap'
    BY <1>3 DEF Poll
  <2>1. Marks
    BY <2>a, <2>b DEF Marks
  <2>2. CASE Fault /\ UNCHANGED <<batch, at, overlap>>
    <3>1. Loses
      BY <1>3, <2>2, <1>f DEF Poll, Loses, Left
    <3>2. QED
      BY <2>1, <3>1 DEF Flow
  <2>3. CASE batch' = [batch EXCEPT ![p] = queue] /\ at' = [at EXCEPT ![p] = "run"]
             /\ overlap' = (overlap \/ \E q \in Pollers \ {p} : batch[q] # <<>>)
    <3>1. at[p] = "idle" /\ queue' = <<>> /\ UNCHANGED <<pushed, started>>
      BY <1>3 DEF Poll, MayPoll
    <3>2. Left(p) = <<>> /\ Left(p)' = queue /\ \A q \in Pollers \ {p} : Left(q)' = Left(q)
      BY <1>t, <2>3, <3>1 DEF Left
    <3>3. \A q \in Pollers \ {p} : ~overlap' => Left(q) = <<>>
      BY <2>3, LeftType
    <3>4. Pops(p)
      BY <3>1, <3>2, <3>3 DEF Pops
    <3>5. QED
      BY <2>1, <3>4 DEF Flow
  <2>4. QED
    BY <1>3, <2>2, <2>3 DEF Poll
<1>4. ASSUME NEW p \in Pollers, Start(p) PROVE Flow /\ Marks
  <2>1. TakesUp(p)
    BY <1>4, <1>t DEF Start, TakesUp, Left
  <2>2. Marks
    BY <1>4 DEF Start, Marks
  <2>3. QED
    BY <2>1, <2>2 DEF Flow
<1>5. ASSUME NEW p \in Pollers, Finish(p) PROVE Flow /\ Marks
  <2>1. Still
    BY <1>5, <1>t DEF Finish, Still, Left
  <2>2. Marks
    BY <1>5 DEF Finish, Marks
  <2>3. QED
    BY <2>1, <2>2 DEF Flow
<1>6. ASSUME NEW p \in Pollers, Post(p) PROVE Flow /\ Marks
  <2>1. /\ at[p] = "post" /\ UNCHANGED <<queue, pushed, started, overlap, handedOff>>
        /\ batch' = [batch EXCEPT ![p] = Tail(@)]
        /\ at' = [at EXCEPT ![p] = IF Tail(batch[p]) = <<>> THEN "idle" ELSE "run"]
        /\ faults' = faults \/ Fault
    BY <1>6 DEF Post
  <2>2. \A q \in Pollers : Left(q)' = Left(q)
    BY <1>t, <2>1 DEF Left
  <2>3. Still
    BY <2>1, <2>2 DEF Still
  <2>4. Marks
    BY <1>f, <2>1 DEF Marks
  <2>5. QED
    BY <2>3, <2>4 DEF Flow
<1>7. ASSUME NEW p \in Panels, OpenPanel(p) PROVE Flow /\ Marks
  <2>1. p \in Pollers
    BY DEF Pollers
  <2>2. Still
    BY <1>7, <1>t, <2>1 DEF OpenPanel, Still, Left
  <2>3. Marks
    BY <1>7 DEF OpenPanel, Marks
  <2>4. QED
    BY <2>2, <2>3 DEF Flow
<1>8. ASSUME NEW p \in Panels, ClosePanel(p) PROVE Flow /\ Marks
  <2>1. /\ p \in Pollers /\ Dropped(p, "off") /\ UNCHANGED <<queue, pushed, started>>
        /\ (batch[p] = <<>> /\ faults' = faults) \/ Fault
    BY <1>8 DEF ClosePanel, Pollers
  <2>2. Still \/ Loses
    BY <1>f, <2>1, DropFlow
  <2>3. Marks
    BY <1>8, <1>f, <2>1 DEF ClosePanel, Marks
  <2>4. QED
    BY <2>2, <2>3 DEF Flow
<1>9. CASE HandOff \/ SuspendWorker
  <2>1. /\ Worker \in Pollers /\ Dropped(Worker, "idle") /\ UNCHANGED <<queue, pushed, started>>
        /\ faults' # 0 \/ handedOff'
    BY <1>9, <1>f DEF HandOff, SuspendWorker, Dropped, Pollers
  <2>2. Still \/ Loses
    BY <2>1, DropFlow
  <2>3. Marks
    BY <1>9, <1>f DEF HandOff, SuspendWorker, Marks
  <2>4. QED
    BY <2>2, <2>3 DEF Flow
<1>10. CASE StopBridge
  <2>1. Loses
    BY <1>10, <1>f DEF StopBridge, Loses, Left
  <2>2. Marks
    BY <1>10, <1>f DEF StopBridge, Marks
  <2>3. QED
    BY <2>1, <2>2 DEF Flow
<1>11. CASE StartBridge \/ UNCHANGED vars
  BY <1>1, <1>11 DEF StartBridge, vars
<1>12. ASSUME NEW a \in Actions, LateExecute(a) PROVE Flow /\ Marks
  BY <1>1, <1>12 DEF LateExecute
<1>13. QED
  BY <1>2, <1>3, <1>4, <1>5, <1>6, <1>7, <1>8, <1>9, <1>10, <1>11, <1>12 DEF Next, PollerStep

-----------------------------------------------------------------------------
(* No action is lost silently *)

\* What an appended action adds.
LEMMA AppendElements ==
    ASSUME NEW S, NEW s \in Seq(S), NEW x \in S
    PROVE  /\ Append(s, x) \in Seq(S) /\ Len(Append(s, x)) = Len(s) + 1
           /\ Elements(Append(s, x)) = Elements(s) \cup {x}
<1> DEFINE t == Append(s, x)
<1>1. /\ t \in Seq(S) /\ Len(t) = Len(s) + 1 /\ Len(s) \in Nat
      /\ \A i \in 1 .. Len(s) : t[i] = s[i]
      /\ t[Len(s) + 1] = x
  BY AppendProperties
<1>2. DOMAIN t = 1 .. Len(s) + 1 /\ DOMAIN s = 1 .. Len(s)
  BY <1>1
<1> HIDE DEF t
<1>3. Elements(t) = Elements(s) \cup {x}
  BY <1>1, <1>2 DEF Elements
<1>4. QED
  BY <1>1, <1>3 DEF t

LEMMA HeadOrTail ==
    ASSUME NEW S, NEW s \in Seq(S), s # <<>>
    PROVE  Elements(s) = Elements(Tail(s)) \cup {Head(s)}
<1>1. /\ Tail(s) \in Seq(S) /\ DOMAIN Tail(s) = 1 .. Len(s) - 1 /\ Len(s) \in Nat
      /\ \A k \in DOMAIN Tail(s) : Tail(s)[k] = s[k + 1] /\ k + 1 \in DOMAIN s
      /\ Head(s) = s[1] /\ 1 \in DOMAIN s /\ DOMAIN s = 1 .. Len(s)
  BY HeadTailProperties
<1>2. \A k \in 1 .. Len(s) : k = 1 \/ (k - 1 \in 1 .. Len(s) - 1 /\ k = (k - 1) + 1)
  BY <1>1
<1>3. Elements(Tail(s)) \cup {Head(s)} \subseteq Elements(s)
  BY <1>1 DEF Elements
<1>4. ASSUME NEW k \in DOMAIN s PROVE s[k] \in Elements(Tail(s)) \cup {Head(s)}
  <2>1. CASE k = 1
    BY <1>1, <2>1
  <2>2. CASE k # 1
    <3>1. k - 1 \in DOMAIN Tail(s) /\ k = (k - 1) + 1
      BY <1>1, <1>2, <2>2
    <3>2. Tail(s)[k - 1] = s[k]
      BY <1>1, <3>1
    <3>3. QED
      BY <3>1, <3>2 DEF Elements
  <2>3. QED
    BY <2>1, <2>2
<1>5. Elements(s) \subseteq Elements(Tail(s)) \cup {Head(s)}
  BY <1>4 DEF Elements
<1>6. QED
  BY <1>3, <1>5

Undisturbed == faults = 0 /\ Len(pushed) <= QueueMax /\ ~handedOff

\* While nothing was disturbed every queued action is at the bridge, with a poller that
\* has yet to take it up, or taken up; and the queue has not overflowed.
LostInv ==
    Undisturbed =>
        /\ Len(queue) <= Len(pushed)
        /\ \A a \in Elements(pushed) :
              \/ a \in Elements(queue) \cup Elements(started)
              \/ \E p \in Pollers : a \in Elements(Left(p))

LEMMA LostStep == TInv /\ LostInv /\ [Next]_vars => LostInv'
<1> SUFFICES ASSUME TInv, LostInv, [Next]_vars, Undisturbed'
             PROVE  /\ Len(queue') <= Len(pushed')
                    /\ \A a \in Elements(pushed') :
                          \/ a \in Elements(queue') \cup Elements(started')
                          \/ \E p \in Pollers : a \in Elements(Left(p)')
  BY DEF LostInv, Elements, Left
<1>1. Flow /\ Marks
  BY FlowStep
<1>2. /\ queue \in Seq(Actions) /\ pushed \in Seq(Actions) /\ started \in Seq(Actions)
      /\ Len(queue) <= QueueMax
      /\ Len(queue) \in Nat /\ Len(pushed) \in Nat
      /\ \A p \in Pollers : Left(p) \in Seq(Actions)
  BY LeftType DEF TInv, TypeOK
<1>3. ASSUME Len(pushed) <= Len(pushed')
      PROVE  /\ Len(queue) <= Len(pushed)
             /\ \A a \in Elements(pushed) :
                   \/ a \in Elements(queue) \cup Elements(started)
                   \/ \E p \in Pollers : a \in Elements(Left(p))
  <2>1. Undisturbed
    <3>1. faults = 0 /\ ~handedOff /\ Len(pushed') <= QueueMax
      BY <1>1 DEF Marks, Undisturbed
    <3>2. Len(pushed) <= QueueMax
      BY <1>2, <1>3, <3>1, TransportAssumption DEF Flow, Still, Queues, Pops, TakesUp, Loses
    <3>3. QED
      BY <3>1, <3>2 DEF Undisturbed
  <2>2. QED
    BY <2>1 DEF LostInv
<1>4. CASE Still
  BY <1>2, <1>3, <1>4 DEF Still
<1>5. ASSUME NEW a \in Actions, Queues(a)
      PROVE  /\ Len(queue') <= Len(pushed')
             /\ \A b \in Elements(pushed') :
                   \/ b \in Elements(queue') \cup Elements(started')
                   \/ \E p \in Pollers : b \in Elements(Left(p)')
  <2>1. Len(pushed') = Len(pushed) + 1 /\ Elements(pushed') = Elements(pushed) \cup {a}
    BY <1>2, <1>5, AppendElements DEF Queues
  <2>2. Len(queue) <= Len(pushed)
    BY <1>2, <1>3, <2>1
  <2>3. Len(queue) < QueueMax
    BY <1>2, <2>1, <2>2, TransportAssumption DEF Undisturbed
  <2>4. queue' = Append(queue, a)
    BY <1>2, <1>5, <2>3, TransportAssumption DEF Queues, Enqueued
  <2>5. Len(queue') = Len(queue) + 1 /\ Elements(queue') = Elements(queue) \cup {a}
    BY <1>2, <2>4, AppendElements
  <2>6. Len(queue') <= Len(pushed')
    BY <1>2, <2>1, <2>2, <2>5
  <2>7. Len(pushed) <= Len(pushed')
    BY <1>2, <2>1
  <2>8. QED
    BY <1>3, <1>5, <2>1, <2>5, <2>6, <2>7 DEF Queues
<1>6. ASSUME NEW p \in Pollers, Pops(p)
      PROVE  /\ Len(queue') <= Len(pushed')
             /\ \A a \in Elements(pushed') :
                   \/ a \in Elements(queue') \cup Elements(started')
                   \/ \E q \in Pollers : a \in Elements(Left(q)')
  <2>1. /\ pushed' = pushed /\ started' = started /\ queue' = <<>> /\ Left(p)' = queue
        /\ Left(p) = <<>> /\ \A q \in Pollers \ {p} : Left(q)' = Left(q)
    BY <1>6 DEF Pops
  <2>2. Len(queue') <= Len(pushed')
    BY <1>2, <2>1
  <2>3. Elements(Left(p)) = {} /\ Len(pushed) <= Len(pushed')
    BY <1>2, <2>1, NoRecords, ElementsOf
  <2>4. QED
    BY <1>3, <2>1, <2>2, <2>3
<1>7. ASSUME NEW p \in Pollers, TakesUp(p)
      PROVE  /\ Len(queue') <= Len(pushed')
             /\ \A a \in Elements(pushed') :
                   \/ a \in Elements(queue') \cup Elements(started')
                   \/ \E q \in Pollers : a \in Elements(Left(q)')
  <2>1. /\ pushed' = pushed /\ queue' = queue /\ Left(p)' = Tail(Left(p))
        /\ \A q \in Pollers \ {p} : Left(q)' = Left(q)
        /\ Left(p) # <<>> /\ Left(p) \in Seq(Actions)
        /\ started' = Append(started, Head(Left(p)))
    BY <1>2, <1>7 DEF TakesUp
  <2>2. Head(Left(p)) \in Actions
    BY <2>1, TailElements
  <2>3. Elements(started') = Elements(started) \cup {Head(Left(p))}
    BY <1>2, <2>1, <2>2, AppendElements
  <2>4. Elements(Left(p)) = Elements(Tail(Left(p))) \cup {Head(Left(p))}
    BY <2>1, HeadOrTail
  <2>5. Len(pushed) <= Len(pushed')
    BY <1>2, <2>1
  <2>6. QED
    BY <1>3, <2>1, <2>3, <2>4, <2>5
<1>8. ~Loses
  BY DEF Loses, Undisturbed
<1>9. QED
  BY <1>1, <1>4, <1>5, <1>6, <1>7, <1>8 DEF Flow

\* Without a fault, an overflow or a handing over every queued action is at the bridge,
\* with a poller, or taken up, however many callers queue and however pollers come and go.
THEOREM NothingIsLostSilently == Spec => []NoSilentLoss
<1>1. Init => TInv /\ LostInv
  <2> SUFFICES ASSUME Init PROVE LostInv
    BY InitType
  <2>1. pushed = <<>> /\ queue = <<>>
    BY DEF Init
  <2>2. Elements(pushed) = {}
    BY <2>1, NoRecords, ElementsOf
  <2>3. Len(queue) <= Len(pushed)
    BY <2>1
  <2>4. QED
    BY <2>2, <2>3 DEF LostInv
<1>2. TInv /\ LostInv /\ [Next]_vars => (TInv /\ LostInv)'
  BY TypeStep, LostStep
<1>3. TInv /\ LostInv => NoSilentLoss
  <2> SUFFICES ASSUME TInv, LostInv, Undisturbed, NEW a \in Elements(pushed)
               PROVE  \/ a \in Elements(queue) \cup Elements(started)
                      \/ \E p \in Pollers : a \in Elements(batch[p])
    BY DEF NoSilentLoss, NothingLost, Undisturbed
  <2>1. QED
    BY LeftType DEF LostInv
<1>4. QED
  BY <1>1, <1>2, <1>3, PTL DEF Spec

-----------------------------------------------------------------------------
(* Actions are taken up in the order in which they were queued *)

Before(line, a, b) == \E m, n \in DOMAIN line : m < n /\ line[m] = a /\ line[n] = b
InLine(line, s) == \A i, j \in DOMAIN s : i < j => Before(line, s[i], s[j])
Ahead(line, s, t) == \A a \in Elements(s), b \in Elements(t) : Before(line, a, b)

\* Unless two pollers held actions at the same time one at most has actions left; those
\* taken up come before those left, those left before those queued, each in the order
\* in which the bridge queued them.
LineInv ==
    ~overlap =>
        /\ Elements(queue) \cup Elements(started) \subseteq Elements(pushed)
        /\ InLine(pushed, queue) /\ InLine(pushed, started)
        /\ Ahead(pushed, started, queue)
        /\ \A p \in Pollers :
              /\ Elements(Left(p)) \subseteq Elements(pushed)
              /\ InLine(pushed, Left(p))
              /\ Ahead(pushed, started, Left(p))
              /\ Ahead(pushed, Left(p), queue)
              /\ \A q \in Pollers \ {p} : Left(p) = <<>> \/ Left(q) = <<>>

\* A longer line keeps its order, and the new action comes last.
LEMMA LongerLine ==
    ASSUME NEW line \in Seq(Actions), NEW x \in Actions
    PROVE  /\ \A a, b : Before(line, a, b) => Before(Append(line, x), a, b)
           /\ \A a \in Elements(line) : Before(Append(line, x), a, x)
<1> DEFINE l == Append(line, x)
<1>1. /\ \A i \in 1 .. Len(line) : l[i] = line[i]
      /\ l[Len(line) + 1] = x /\ Len(line) \in Nat
      /\ DOMAIN l = 1 .. Len(line) + 1 /\ DOMAIN line = 1 .. Len(line)
  BY AppendProperties
<1> HIDE DEF l
<1>2. DOMAIN line \subseteq DOMAIN l /\ Len(line) + 1 \in DOMAIN l
  BY <1>1
<1>3. ASSUME NEW a, NEW b, Before(line, a, b) PROVE Before(l, a, b)
  <2>1. PICK m \in DOMAIN line, n \in DOMAIN line : m < n /\ line[m] = a /\ line[n] = b
    BY <1>3 DEF Before
  <2>2. m \in DOMAIN l /\ n \in DOMAIN l /\ l[m] = a /\ l[n] = b
    BY <1>1, <1>2, <2>1
  <2>3. QED
    BY <2>1, <2>2 DEF Before
<1>4. ASSUME NEW a \in Elements(line) PROVE Before(l, a, x)
  <2>1. PICK m \in DOMAIN line : line[m] = a
    BY DEF Elements
  <2>2. m \in DOMAIN l /\ m < Len(line) + 1 /\ l[m] = a
    BY <1>1, <2>1
  <2>3. QED
    BY <1>1, <1>2, <2>2 DEF Before
<1>5. QED
  BY <1>3, <1>4 DEF l

\* What the bridge's queue is after an action was queued: some of the oldest are gone.
LEMMA EnqueuedInLine ==
    ASSUME NEW line \in Seq(Actions), NEW q \in Seq(Actions), Len(q) <= QueueMax,
           NEW a \in Actions, InLine(line, q), \A b \in Elements(q) : Before(line, b, a)
    PROVE  InLine(line, Enqueued(q, a))
<1> USE TransportAssumption
<1> DEFINE d == IF Len(q) >= QueueMax THEN Len(q) + 1 - QueueMax ELSE 0
           kept == IF Len(q) >= QueueMax THEN SubSeq(q, Len(q) + 2 - QueueMax, Len(q)) ELSE q
           e == Enqueued(q, a)
<1>1. d \in Nat /\ d <= Len(q) /\ Len(q) - d \in Nat /\ DOMAIN q = 1 .. Len(q) /\ Len(q) \in Nat
  OBVIOUS
<1>2. /\ kept \in Seq(Actions) /\ Len(kept) = Len(q) - d
      /\ \A k \in 1 .. Len(q) - d : kept[k] = q[k + d]
  <2>1. CASE Len(q) < QueueMax
    BY <1>1, <2>1
  <2>2. CASE Len(q) >= QueueMax
    <3>1. \A i \in Len(q) + 2 - QueueMax .. Len(q) : q[i] \in Actions
      BY <2>2
    <3>2. /\ kept = SubSeq(q, Len(q) + 2 - QueueMax, Len(q))
          /\ Len(q) = QueueMax /\ d = 1
      BY <2>2
    <3>3. QED
      BY <3>1, <3>2, SubSeqProperties
  <2>3. QED
    BY <1>1, <2>1, <2>2
<1>3. e = Append(kept, a)
  BY DEF Enqueued
<1> HIDE DEF kept, d, e
<1>4. /\ DOMAIN e = 1 .. Len(q) - d + 1
      /\ \A k \in 1 .. Len(q) - d : e[k] = q[k + d] /\ k + d \in DOMAIN q
      /\ e[Len(q) - d + 1] = a
  BY <1>1, <1>2, <1>3, AppendProperties
<1>5. ASSUME NEW i \in DOMAIN e, NEW j \in DOMAIN e, i < j PROVE Before(line, e[i], e[j])
  <2>1. i \in 1 .. Len(q) - d
    BY <1>1, <1>4, <1>5
  <2>2. e[i] = q[i + d] /\ i + d \in DOMAIN q /\ q[i + d] \in Elements(q)
    BY <1>4, <2>1 DEF Elements
  <2>3. CASE j \in 1 .. Len(q) - d
    <3>1. e[j] = q[j + d] /\ j + d \in DOMAIN q /\ i + d < j + d
      BY <1>1, <1>4, <1>5, <2>1, <2>3
    <3>2. QED
      BY <2>2, <3>1 DEF InLine
  <2>4. CASE j = Len(q) - d + 1
    BY <1>4, <2>2, <2>4
  <2>5. QED
    BY <1>1, <1>4, <2>3, <2>4
<1>6. QED
  BY <1>5 DEF InLine, e

LEMMA AppendInLine ==
    ASSUME NEW line \in Seq(Actions), NEW s \in Seq(Actions), NEW x \in Actions,
           InLine(line, s), \A a \in Elements(s) : Before(line, a, x)
    PROVE  InLine(line, Append(s, x))
<1> DEFINE t == Append(s, x)
<1>1. /\ \A i \in 1 .. Len(s) : t[i] = s[i]
      /\ t[Len(s) + 1] = x /\ Len(s) \in Nat
      /\ DOMAIN t = 1 .. Len(s) + 1 /\ DOMAIN s = 1 .. Len(s)
  BY AppendProperties
<1> HIDE DEF t
<1>2. ASSUME NEW i \in DOMAIN t, NEW j \in DOMAIN t, i < j PROVE Before(line, t[i], t[j])
  <2>1. i \in DOMAIN s /\ t[i] = s[i] /\ s[i] \in Elements(s)
    BY <1>1, <1>2 DEF Elements
  <2>2. CASE j \in DOMAIN s
    BY <1>1, <1>2, <2>1, <2>2 DEF InLine
  <2>3. CASE j = Len(s) + 1
    BY <1>1, <2>1, <2>3
  <2>4. QED
    BY <1>1, <2>2, <2>3
<1>3. QED
  BY <1>2 DEF InLine, t

LEMMA TailInLine ==
    ASSUME NEW line \in Seq(Actions), NEW s \in Seq(Actions), s # <<>>, InLine(line, s)
    PROVE  /\ InLine(line, Tail(s))
           /\ \A a \in Elements(Tail(s)) : Before(line, Head(s), a)
<1>1. /\ Tail(s) \in Seq(Actions) /\ DOMAIN Tail(s) = 1 .. Len(s) - 1
      /\ \A k \in DOMAIN Tail(s) : Tail(s)[k] = s[k + 1] /\ k + 1 \in DOMAIN s
      /\ Head(s) = s[1] /\ 1 \in DOMAIN s /\ Len(s) \in Nat
  BY HeadTailProperties
<1>2. ASSUME NEW i \in DOMAIN Tail(s), NEW j \in DOMAIN Tail(s), i < j
      PROVE  Before(line, Tail(s)[i], Tail(s)[j])
  <2>1. i + 1 < j + 1 /\ i + 1 \in DOMAIN s /\ j + 1 \in DOMAIN s
    BY <1>1, <1>2
  <2>2. QED
    BY <1>1, <2>1 DEF InLine
<1>3. ASSUME NEW i \in DOMAIN Tail(s) PROVE Before(line, Head(s), Tail(s)[i])
  <2>1. 1 < i + 1 /\ i + 1 \in DOMAIN s
    BY <1>1
  <2>2. QED
    BY <1>1, <2>1 DEF InLine
<1>4. QED
  BY <1>2, <1>3 DEF InLine, Elements

LEMMA EmptyLine ==
    ASSUME NEW line \in Seq(Actions)
    PROVE  /\ InLine(line, <<>>) /\ Elements(<<>>) = {}
           /\ \A s : Ahead(line, s, <<>>) /\ Ahead(line, <<>>, s)
<1>1. Elements(<<>>) = {}
  BY NoRecords, ElementsOf
<1>2. DOMAIN <<>> = {}
  BY <1>1 DEF Elements
<1>3. QED
  BY <1>1, <1>2 DEF InLine, Ahead

LEMMA LineStep == TInv /\ LineInv /\ [Next]_vars => LineInv'
<1> SUFFICES ASSUME TInv, LineInv, [Next]_vars, ~overlap'
             PROVE  LineInv'
  BY DEF LineInv
<1>1. Flow /\ Marks
  BY FlowStep
<1>2. /\ queue \in Seq(Actions) /\ pushed \in Seq(Actions) /\ started \in Seq(Actions)
      /\ Len(queue) <= QueueMax
      /\ \A p \in Pollers : Left(p) \in Seq(Actions)
  BY LeftType DEF TInv, TypeOK
<1>3. /\ Elements(queue) \cup Elements(started) \subseteq Elements(pushed)
      /\ InLine(pushed, queue) /\ InLine(pushed, started)
      /\ Ahead(pushed, started, queue)
  BY <1>1 DEF LineInv, Marks
<1>4. \A p \in Pollers :
          /\ Elements(Left(p)) \subseteq Elements(pushed)
          /\ InLine(pushed, Left(p))
          /\ Ahead(pushed, started, Left(p))
          /\ Ahead(pushed, Left(p), queue)
          /\ \A q \in Pollers \ {p} : Left(p) = <<>> \/ Left(q) = <<>>
  BY <1>1 DEF LineInv, Marks
<1>5. ASSUME UNCHANGED <<pushed, started>>,
             queue' \in {queue, <<>>}, \A p \in Pollers : Left(p)' \in {Left(p), <<>>}
      PROVE  LineInv'
  <2>1. /\ Elements(queue') \cup Elements(started') \subseteq Elements(pushed')
        /\ InLine(pushed', queue') /\ InLine(pushed', started')
        /\ Ahead(pushed', started', queue')
    BY <1>2, <1>3, <1>5, EmptyLine
  <2>2. ASSUME NEW p \in Pollers
        PROVE  /\ Elements(Left(p)') \subseteq Elements(pushed')
               /\ InLine(pushed', Left(p)')
               /\ Ahead(pushed', started', Left(p)')
               /\ Ahead(pushed', Left(p)', queue')
               /\ \A q \in Pollers \ {p} : Left(p)' = <<>> \/ Left(q)' = <<>>
    BY <1>2, <1>4, <1>5, EmptyLine
  <2>3. QED
    BY <2>1, <2>2 DEF LineInv, InLine, Ahead, Before, Elements, Left
<1>6. ASSUME NEW x \in Actions, Queues(x) PROVE LineInv'
  <2>1. /\ queue' = Enqueued(queue, x) /\ pushed' = Append(pushed, x) /\ started' = started
        /\ \A p \in Pollers : Left(p)' = Left(p)
        /\ pushed' \in Seq(Actions)
    BY <1>2, <1>6, AppendElements DEF Queues
  <2>2. /\ Elements(pushed') = Elements(pushed) \cup {x}
        /\ Elements(queue') \subseteq Elements(queue) \cup {x}
    BY <1>2, <2>1, AppendElements, EnqueuedProperties
  <2>3. /\ \A a, b : Before(pushed, a, b) => Before(pushed', a, b)
        /\ \A a \in Elements(pushed) : Before(pushed', a, x)
    BY <1>2, <2>1, LongerLine
  <2>4. \A s : InLine(pushed, s) => InLine(pushed', s)
    BY <2>3 DEF InLine
  <2>5. \A s : Elements(s) \subseteq Elements(pushed) /\ Ahead(pushed, s, queue)
            => Ahead(pushed', s, queue')
    BY <2>2, <2>3 DEF Ahead
  <2>6. InLine(pushed', queue')
    BY <1>2, <1>3, <2>1, <2>3, <2>4, EnqueuedInLine
  <2>7. \A p \in Pollers : Ahead(pushed', started', Left(p)')
    BY <1>4, <2>1, <2>3 DEF Ahead
  <2>8. /\ Elements(queue') \cup Elements(started') \subseteq Elements(pushed')
        /\ InLine(pushed', queue') /\ InLine(pushed', started')
        /\ Ahead(pushed', started', queue')
    BY <1>3, <2>1, <2>2, <2>4, <2>5, <2>6
  <2>9. ASSUME NEW p \in Pollers
        PROVE  /\ Elements(Left(p)') \subseteq Elements(pushed')
               /\ InLine(pushed', Left(p)')
               /\ Ahead(pushed', started', Left(p)')
               /\ Ahead(pushed', Left(p)', queue')
               /\ \A q \in Pollers \ {p} : Left(p)' = <<>> \/ Left(q)' = <<>>
    BY <1>4, <2>1, <2>2, <2>4, <2>5, <2>7
  <2>10. QED
    BY <2>8, <2>9 DEF LineInv, InLine, Ahead, Before, Elements, Left
<1>7. ASSUME NEW p \in Pollers, Pops(p) PROVE LineInv'
  <2>1. /\ queue' = <<>> /\ UNCHANGED <<pushed, started>> /\ Left(p)' = queue
        /\ \A q \in Pollers \ {p} : Left(q)' = <<>>
    BY <1>7 DEF Pops
  <2>2. /\ Elements(queue') \cup Elements(started') \subseteq Elements(pushed')
        /\ InLine(pushed', queue') /\ InLine(pushed', started')
        /\ Ahead(pushed', started', queue')
    BY <1>2, <1>3, <2>1, EmptyLine
  <2>3. ASSUME NEW r \in Pollers
        PROVE  /\ Elements(Left(r)') \subseteq Elements(pushed')
               /\ InLine(pushed', Left(r)')
               /\ Ahead(pushed', started', Left(r)')
               /\ Ahead(pushed', Left(r)', queue')
               /\ \A q \in Pollers \ {r} : Left(r)' = <<>> \/ Left(q)' = <<>>
    BY <1>2, <1>3, <2>1, EmptyLine
  <2>4. QED
    BY <2>2, <2>3 DEF LineInv, InLine, Ahead, Before, Elements, Left
<1>8. ASSUME NEW p \in Pollers, TakesUp(p) PROVE LineInv'
  <2> DEFINE h == Head(Left(p))
  <2>1. /\ UNCHANGED <<queue, pushed>> /\ started' = Append(started, h)
        /\ Left(p)' = Tail(Left(p)) /\ Left(p) # <<>> /\ Left(p) \in Seq(Actions)
        /\ \A q \in Pollers \ {p} : Left(q)' = Left(q) /\ Left(q) = <<>>
    BY <1>2, <1>4, <1>8 DEF TakesUp
  <2>2. /\ h \in Actions /\ h \in Elements(Left(p))
        /\ Elements(Tail(Left(p))) \subseteq Elements(Left(p))
    BY <2>1, TailElements
  <2>3. /\ InLine(pushed, Tail(Left(p)))
        /\ \A a \in Elements(Tail(Left(p))) : Before(pushed, h, a)
    BY <1>2, <1>4, <2>1, TailInLine
  <2> HIDE DEF h
  <2>4. Elements(started') = Elements(started) \cup {h} /\ started' \in Seq(Actions)
    BY <1>2, <2>1, <2>2, AppendElements
  <2>5. \A a \in Elements(started) : Before(pushed, a, h)
    BY <1>4, <2>2 DEF Ahead
  <2>6. InLine(pushed, started')
    BY <1>2, <1>3, <2>1, <2>2, <2>5, AppendInLine
  <2>7. Ahead(pushed, started', queue)
    BY <1>3, <1>4, <2>2, <2>4 DEF Ahead
  <2>8. Ahead(pushed, started', Tail(Left(p))) /\ Ahead(pushed, Tail(Left(p)), queue)
    BY <1>4, <2>2, <2>3, <2>4 DEF Ahead
  <2>9. /\ Elements(queue') \cup Elements(started') \subseteq Elements(pushed')
        /\ InLine(pushed', queue') /\ InLine(pushed', started')
        /\ Ahead(pushed', started', queue')
    BY <1>3, <1>4, <2>1, <2>2, <2>4, <2>6, <2>7
  <2>10. ASSUME NEW r \in Pollers
         PROVE  /\ Elements(Left(r)') \subseteq Elements(pushed')
                /\ InLine(pushed', Left(r)')
                /\ Ahead(pushed', started', Left(r)')
                /\ Ahead(pushed', Left(r)', queue')
                /\ \A q \in Pollers \ {r} : Left(r)' = <<>> \/ Left(q)' = <<>>
    <3>1. CASE r = p
      BY <1>4, <2>1, <2>2, <2>3, <2>8, <3>1
    <3>2. CASE r # p
      BY <1>2, <2>1, <3>2, EmptyLine
    <3>3. QED
      BY <3>1, <3>2
  <2>11. QED
    BY <2>9, <2>10 DEF LineInv, InLine, Ahead, Before, Elements, Left
<1>9. QED
  BY <1>1, <1>5, <1>6, <1>7, <1>8 DEF Flow, Still, Loses

\* Unless two pollers have held actions at the same time, actions are taken up in the
\* order in which they were queued, whatever was dropped, lost or restarted between.
THEOREM TakenUpInOrder == Spec => []DispatchOrder
<1>1. Init => TInv /\ LineInv
  <2> SUFFICES ASSUME Init PROVE LineInv
    BY InitType
  <2>1. /\ pushed = <<>> /\ queue = <<>> /\ started = <<>> /\ pushed \in Seq(Actions)
        /\ \A p \in Pollers : Left(p) = <<>>
    BY NoRecords DEF Init, Left
  <2>2. QED
    BY <2>1, EmptyLine DEF LineInv
<1>2. TInv /\ LineInv /\ [Next]_vars => (TInv /\ LineInv)'
  BY TypeStep, LineStep
<1>3. LineInv => DispatchOrder
  BY DEF LineInv, InLine, Before, DispatchOrder
<1>4. QED
  BY <1>1, <1>2, <1>3, PTL DEF Spec
=============================================================================
