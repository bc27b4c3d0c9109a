-------------------------- MODULE SchedulerProofs --------------------------
(***************************************************************************)
(* Proofs about the scheduler, for any number of daemons and terminals,    *)
(* any schedules and any calendar.                                         *)
(***************************************************************************)
EXTENDS Scheduler, SequenceTheorems, FiniteSetTheorems, TLAPS

-----------------------------------------------------------------------------
(* Lemmas about lists and the calendar *)

Distinct(list) == \A i, j \in DOMAIN list : list[i].id = list[j].id => i = j
IdsOf(list) == {list[i].id : i \in DOMAIN list}

LEMMA RestLength ==
    ASSUME NEW n \in Nat, NEW k \in 1 .. n
    PROVE  (IF k + 1 <= n THEN n - (k + 1) + 1 ELSE 0) = n - k
OBVIOUS

\* A list without schedule s holds the others, in their order.
LEMMA WithoutProperties ==
    ASSUME NEW S, NEW list \in Seq(S), NEW s, Distinct(list)
    PROVE  /\ Without(list, s) \in Seq(S)
           /\ Distinct(Without(list, s))
           /\ IdsOf(Without(list, s)) = IdsOf(list) \ {s}
           /\ \A i \in DOMAIN Without(list, s) :
                 \E j \in DOMAIN list : Without(list, s)[i] = list[j]
<1>1. CASE ~\E i \in DOMAIN list : list[i].id = s
  BY <1>1 DEF Without, IdsOf
<1>2. CASE \E i \in DOMAIN list : list[i].id = s
  <2> DEFINE k == CHOOSE i \in DOMAIN list : list[i].id = s
             w == Without(list, s)
  <2>1. k \in DOMAIN list /\ list[k].id = s /\ w = RemoveAt(list, k)
    BY <1>2 DEF Without
  <2> HIDE DEF k
  <2>2. k \in 1 .. Len(list) /\ Len(list) \in Nat /\ DOMAIN list = 1 .. Len(list)
    BY <2>1
  <2>3. /\ w \in Seq(S) /\ Len(w) = Len(list) - 1
        /\ \A i \in 1 .. Len(list) - 1 : w[i] = IF i < k THEN list[i] ELSE list[i + 1]
    <3> DEFINE a == SubSeq(list, 1, k - 1)
               b == SubSeq(list, k + 1, Len(list))
    <3>1. a \in Seq(S) /\ Len(a) = k - 1 /\ \A i \in 1 .. k - 1 : a[i] = list[i]
      BY <2>2, SubSeqProperties
    <3>2. /\ b \in Seq(S) /\ Len(b) = Len(list) - k
          /\ \A i \in 1 .. Len(list) - k : b[i] = list[k + i]
      <4>1. \A i \in k + 1 .. Len(list) : list[i] \in S
        BY <2>2
      <4>2. /\ b \in Seq(S)
            /\ Len(b) = IF k + 1 <= Len(list) THEN Len(list) - (k + 1) + 1 ELSE 0
            /\ \A i \in 1 .. Len(list) - (k + 1) + 1 : b[i] = list[k + 1 + i - 1]
        BY <2>2, <4>1, SubSeqProperties
      <4> HIDE DEF b
      <4>3. Len(b) = Len(list) - k
        <5>1. (IF k + 1 <= Len(list) THEN Len(list) - (k + 1) + 1 ELSE 0) = Len(list) - k
          BY <2>2, RestLength
        <5>2. QED
          BY <4>2, <5>1
      <4>4. ASSUME NEW i \in 1 .. Len(list) - k PROVE b[i] = list[k + i]
        <5>1. i \in 1 .. Len(list) - (k + 1) + 1 /\ k + 1 + i - 1 = k + i
          BY <2>2
        <5>2. QED
          BY <4>2, <5>1
      <4>5. QED
        BY <4>2, <4>3, <4>4
    <3>3. w = a \o b
      BY <2>1 DEF RemoveAt
    <3> HIDE DEF a, b, w
    <3>4. /\ w \in Seq(S) /\ Len(w) = Len(a) + Len(b)
          /\ \A i \in 1 .. Len(a) + Len(b) :
                w[i] = IF i <= Len(a) THEN a[i] ELSE b[i - Len(a)]
      BY <3>1, <3>2, <3>3, ConcatProperties
    <3>5. ASSUME NEW i \in 1 .. Len(list) - 1
          PROVE  w[i] = IF i < k THEN list[i] ELSE list[i + 1]
      <4>0. i \in 1 .. Len(a) + Len(b) /\ Len(a) = k - 1 /\ i \in Int
        BY <2>2, <3>1, <3>2
      <4>1. CASE i < k
        <5>1. i <= Len(a) /\ i \in 1 .. k - 1
          BY <2>2, <4>0, <4>1
        <5>2. QED
          BY <3>1, <3>4, <4>0, <4>1, <5>1
      <4>2. CASE ~(i < k)
        <5>1. i - (k - 1) \in 1 .. Len(list) - k /\ k + (i - (k - 1)) = i + 1 /\ ~(i <= k - 1)
          BY <2>2, <4>2
        <5>2. w[i] = b[i - (k - 1)]
          BY <3>4, <4>0, <5>1
        <5>3. QED
          BY <3>2, <4>2, <5>1, <5>2
      <4>3. QED
        BY <4>1, <4>2
    <3>6. QED
      BY <2>2, <3>1, <3>2, <3>4, <3>5
  <2> HIDE DEF w
  <2>4. DOMAIN w = 1 .. Len(list) - 1
    BY <2>2, <2>3
  <2> DEFINE At(i) == IF i < k THEN i ELSE i + 1
  <2>5. \A i \in DOMAIN w : At(i) \in DOMAIN list /\ At(i) # k /\ w[i] = list[At(i)]
    BY <2>2, <2>3, <2>4
  <2>6. \A i, j \in DOMAIN w : At(i) = At(j) => i = j
    BY <2>2, <2>4
  <2>7. ASSUME NEW j \in DOMAIN list, j # k PROVE \E i \in DOMAIN w : At(i) = j
    <3>1. CASE j < k
      BY <2>2, <2>4, <3>1
    <3>2. CASE k < j
      <4>1. j - 1 \in DOMAIN w /\ At(j - 1) = j
        BY <2>2, <2>4, <3>2
      <4>2. QED
        BY <4>1
    <3>3. QED
      BY <2>2, <2>7, <3>1, <3>2
  <2> HIDE DEF At
  <2>8. Distinct(w)
    BY <2>5, <2>6 DEF Distinct
  <2>9. IdsOf(w) = IdsOf(list) \ {s}
    <3>1. \A i \in DOMAIN w : w[i].id \in IdsOf(list) \ {s}
      BY <2>1, <2>5 DEF IdsOf, Distinct
    <3>2. ASSUME NEW j \in DOMAIN list, list[j].id # s PROVE list[j].id \in IdsOf(w)
      <4>1. PICK i \in DOMAIN w : At(i) = j
        BY <2>1, <2>7, <3>2
      <4>2. QED
        BY <2>5, <4>1 DEF IdsOf
    <3>3. QED
      BY <3>1, <3>2 DEF IdsOf
  <2>10. QED
    BY <2>3, <2>5, <2>8, <2>9 DEF w
<1>3. QED
  BY <1>1, <1>2

LEMMA Calendar ==
    /\ Len(MonthEnds) \in Nat \ {0} /\ DOMAIN MonthEnds = 1 .. Len(MonthEnds)
    /\ LastDay \in Nat \ {0}
    /\ \A m \in DOMAIN MonthEnds : DaysIn(m) \in Nat \ {0}
<1>1. Len(MonthEnds) \in Nat \ {0} /\ DOMAIN MonthEnds = 1 .. Len(MonthEnds)
  BY SchedulerAssumption
<1>2. \A m \in DOMAIN MonthEnds : MonthEnd(m) \in Nat /\ MonthEnd(m - 1) \in Nat
  BY <1>1, SchedulerAssumption DEF MonthEnd
<1>3. \A m \in DOMAIN MonthEnds : DaysIn(m) \in Nat \ {0}
  BY <1>2, SchedulerAssumption DEF DaysIn
<1>4. LastDay \in Nat /\ MonthEnd(Len(MonthEnds) - 1) < LastDay
  <2>1. Len(MonthEnds) \in DOMAIN MonthEnds
    BY <1>1
  <2>2. QED
    BY <1>2, <2>1, SchedulerAssumption DEF LastDay
<1>5. QED
  BY <1>1, <1>2, <1>3, <1>4

\* Moments and their days.
LEMMA Dividing ==
    ASSUME NEW n \in Nat \ {0}, NEW t \in Nat
    PROVE  t \div n \in Nat /\ n * (t \div n) <= t /\ t < n * (t \div n) + n
OBVIOUS

LEMMA Remainder ==
    ASSUME NEW n \in Nat \ {0}, NEW k \in Nat, NEW w \in 0 .. n - 1
    PROVE  (n * k + w) % n = w
OBVIOUS

LEMMA Product ==
    ASSUME NEW n \in Nat \ {0}, NEW k \in Nat \ {0}
    PROVE  n * k \in Nat /\ n * k >= n
OBVIOUS

LEMMA Distribute ==
    ASSUME NEW n \in Nat \ {0}, NEW d \in Nat, NEW k \in Nat
    PROVE  n * (d + k) = n * d + n * k
OBVIOUS

LEMMA DayInTime ==
    ASSUME NEW n \in Nat \ {0}, NEW k \in Nat, NEW t \in n .. (n * k + n - 1)
    PROVE  t \div n \in 1 .. k
OBVIOUS

LEMMA MomentsAre ==
    /\ Moments \subseteq Nat \ {0} /\ PerDay \in Moments
    /\ \A t \in Moments : DayOf(t) \in 1 .. LastDay
<1>1. PerDay \in Nat \ {0} /\ LastDay \in Nat \ {0}
  BY SchedulerAssumption, Calendar
<1>2. PerDay * LastDay \in Nat /\ PerDay * LastDay >= PerDay
  BY <1>1, Product
<1> DEFINE w == PerDay * LastDay
<1>3. \A t \in Moments : t \div PerDay \in 1 .. LastDay
  BY <1>1, DayInTime DEF Moments
<1>4. w \in Nat /\ w >= PerDay /\ Moments = PerDay .. (w + PerDay - 1)
  BY <1>2 DEF Moments
<1> HIDE DEF w
<1>5. QED
  BY <1>1, <1>3, <1>4 DEF DayOf

\* A monthly schedule goes on by a whole month.
LEMMA StepIsPositive ==
    ASSUME NEW s, NEW day \in 1 .. LastDay
    PROVE  Step(s, day) \in Nat \ {0}
<1> DEFINE ended == {m \in DOMAIN MonthEnds : MonthEnds[m] < day}
           n == Len(MonthEnds)
<1>1. n \in Nat \ {0} /\ DOMAIN MonthEnds = 1 .. n /\ LastDay = MonthEnds[n] /\ LastDay \in Nat
  BY Calendar DEF LastDay, MonthEnd
<1>2. ended \subseteq 1 .. n - 1
  <2>1. ASSUME NEW m \in ended PROVE m # n
    BY <1>1
  <2>2. QED
    BY <1>1, <2>1
<1>3. IsFiniteSet(1 .. n - 1) /\ Cardinality(1 .. n - 1) = n - 1
  <2>1. 1 \in Int /\ n - 1 \in Int /\ n - 1 >= 0
    BY <1>1
  <2>2. QED
    BY <2>1, FS_Interval
<1>4. IsFiniteSet(ended) /\ Cardinality(ended) <= n - 1
  BY <1>2, <1>3, FS_Subset
<1>5. Cardinality(ended) \in Nat
  BY <1>4, FS_CardinalityType
<1>6. Month(day) \in DOMAIN MonthEnds
  <2>1. Month(day) = Cardinality(ended) + 1
    BY DEF Month
  <2> HIDE DEF ended, n
  <2>2. QED
    BY <1>1, <1>4, <1>5, <2>1
<1>7. DaysIn(Month(day)) \in Nat \ {0}
  BY <1>6, Calendar
<1>8. QED
  BY <1>7 DEF Step

\* A schedule's next time is later than the moment it is counted from; when it is past,
\* a time of the schedule has come since then.
LEMMA NextHasCome ==
    ASSUME NEW s \in Sids, NEW t \in Moments, now \in Nat, now >= NextTime(s, t)
    PROVE  HasCome(s, t)
<1>1. PerDay \in Nat \ {0} /\ t \in Nat /\ When[s] \in 0 .. PerDay - 1 /\ Hour \in Nat
  BY MomentsAre, SchedulerAssumption DEF Sids
<1>2. DayOf(t) \in 1 .. LastDay /\ DayOf(t) \in Nat
  BY MomentsAre, Calendar
<1>3. CASE Cadence[s] = "hourly"
  BY <1>1, <1>3 DEF NextTime, HasCome
<1>4. CASE Cadence[s] # "hourly"
  <2> DEFINE k == IF AtWhen(s, t) <= t THEN Step(s, DayOf(t)) ELSE 0
             u == PerDay * (DayOf(t) + k) + When[s]
  <2>1. k \in Nat /\ (AtWhen(s, t) <= t => k # 0)
    BY <1>2, StepIsPositive
  <2>2. NextTime(s, t) = AtWhen(s, t) + PerDay * k
    <3>1. PerDay * 0 = 0
      BY <1>1
    <3>2. QED
      BY <1>4, <3>1 DEF NextTime
  <2> HIDE DEF k
  <2>3. PerDay * (DayOf(t) + k) = PerDay * DayOf(t) + PerDay * k /\ PerDay * k \in Nat
        /\ (k # 0 => PerDay * k >= PerDay) /\ PerDay * DayOf(t) \in Nat
    BY <1>1, <1>2, <2>1, Distribute, Product
  <2>4. u % PerDay = When[s]
    <3>1. DayOf(t) + k \in Nat
      BY <1>2, <2>1
    <3>2. QED
      BY <1>1, <3>1, Remainder
  <2>5. t < PerDay * DayOf(t) + PerDay
    BY <1>1, Dividing DEF DayOf
  <2> DEFINE a == PerDay * DayOf(t)
             b == PerDay * k
  <2>6. a \in Nat /\ b \in Nat /\ (k # 0 => b >= PerDay) /\ t < a + PerDay
        /\ AtWhen(s, t) = a + When[s] /\ NextTime(s, t) = a + When[s] + b
        /\ u = a + b + When[s]
    BY <2>2, <2>3, <2>5 DEF AtWhen
  <2> HIDE DEF a, b, u
  <2>7. u \in (t + 1) .. now
    BY <1>1, <2>1, <2>6
  <2>8. QED
    BY <1>4, <2>4, <2>7 DEF HasCome
<1>5. QED
  BY <1>3, <1>4

-----------------------------------------------------------------------------
(* Type correctness *)

\* A well-formed list: its schedules were added, each once, and not after now.
ListOK(list, t, added) ==
    /\ list \in Seq(Schedule) /\ Distinct(list)
    /\ \A i \in DOMAIN list : list[i].from <= t /\ added[list[i].id] # 0

ScalarsOK ==
    /\ now \in Moments /\ stop \in BOOLEAN /\ pid \in Daemons \cup {NoDaemon}
    /\ wanted \subseteq Sids /\ from \in [Sids -> 0 .. now] /\ early \in BOOLEAN
    /\ overlap \in BOOLEAN /\ killed \in BOOLEAN /\ commands \in 0 .. MaxCommands

Places == {"off", "start", "register", "wait", "hollow", "launch"} \cup Holding

ListsOK ==
    /\ ListOK(file, now, from)
    /\ mine \in [Processes -> Seq(Schedule)]
    /\ \A p \in Processes : ListOK(mine[p], now, from)

HeldOK == at \in [Processes -> Places] /\ \A p \in Processes : mine[p] # <<>> => at[p] \in Holding

TInv == ScalarsOK /\ ListsOK /\ HeldOK

LEMMA TypeHolds == TInv => TypeOK
BY DEF TInv, ScalarsOK, ListsOK, HeldOK, ListOK, Places, TypeOK, Distinct

LEMMA EmptyList ==
    ASSUME NEW t, NEW added
    PROVE  ListOK(<<>>, t, added) /\ IdsOf(<<>>) = {} /\ DOMAIN <<>> = {}
<1>1. <<>> \in Seq(Schedule) /\ DOMAIN <<>> = {}
  OBVIOUS
<1>2. QED
  BY <1>1 DEF ListOK, Distinct, IdsOf

LEMMA InitType == Init => TInv
<1> SUFFICES ASSUME Init PROVE TInv
  OBVIOUS
<1>1. ScalarsOK
  <2>1. now \in Moments /\ 0 \in 0 .. now
    BY MomentsAre DEF Init
  <2>2. commands \in 0 .. MaxCommands
    BY SchedulerAssumption DEF Init
  <2>3. from \in [Sids -> 0 .. now]
    BY <2>1 DEF Init
  <2>4. stop \in BOOLEAN /\ early \in BOOLEAN /\ overlap \in BOOLEAN /\ killed \in BOOLEAN
    BY DEF Init
  <2>5. wanted \subseteq Sids /\ pid \in Daemons \cup {NoDaemon}
    BY DEF Init
  <2>6. QED
    BY <2>1, <2>2, <2>3, <2>4, <2>5 DEF ScalarsOK
<1>2. <<>> \in Seq(Schedule)
  OBVIOUS
<1>3. ListsOK
  BY <1>2, EmptyList DEF Init, ListsOK
<1>4. HeldOK
  BY DEF Init, HeldOK, Places
<1>5. QED
  BY <1>1, <1>3, <1>4 DEF TInv

\* Lists stay well formed as time goes by and schedules are added.
LEMMA ListsAge ==
    ASSUME TInv, now' \in Moments, now <= now',
           \A s \in Sids : from[s] # 0 => from'[s] # 0,
           NEW list, ListOK(list, now, from)
    PROVE  ListOK(list, now', from')
<1>1. ASSUME NEW i \in DOMAIN list PROVE list[i].from <= now' /\ from'[list[i].id] # 0
  <2>1. list[i] \in Schedule /\ list[i].from <= now /\ from[list[i].id] # 0
    BY DEF ListOK
  <2>2. list[i].id \in Sids /\ list[i].from \in Moments
    BY <2>1 DEF Schedule
  <2>3. list[i].from \in Nat /\ now \in Nat /\ now' \in Nat
    BY <2>2, MomentsAre DEF TInv, ScalarsOK
  <2>4. QED
    BY <2>1, <2>2, <2>3
<1>2. QED
  BY <1>1 DEF ListOK

\* A process takes up a list, or puts it down; the others keep theirs.
LEMMA ListsMove ==
    ASSUME TInv, now' = now, from' = from, NEW p \in Processes, NEW list,
           ListOK(list, now, from), mine' = [mine EXCEPT ![p] = list],
           ListOK(file', now, from)
    PROVE  ListsOK'
BY DEF TInv, ListsOK, ListOK

LEMMA DaemonsAndClients ==
    /\ \A d \in Daemons : d \in Processes /\ d \notin Clients
    /\ \A c \in Clients : c \in Processes /\ c \notin Daemons
BY SchedulerAssumption DEF Processes

\* A round starts what is due; the daemon then holds the same schedules, those that were
\* started noted as run now, or, if a next time cannot be computed, nothing at all.
LEMMA Firing ==
    ASSUME TInv, NEW d \in Daemons, Fire(d)
    PROVE  \E ran \in SUBSET Sids :
              /\ \A s \in ran : \E i \in DOMAIN mine[d] :
                    mine[d][i].id = s /\ now >= NextTime(s, mine[d][i].from)
              /\ from' = [s \in Sids |-> IF s \in ran THEN now ELSE from[s]]
              /\ early' = (early \/ \E s \in ran : ~HasCome(s, from[s]))
              /\ \/ /\ mine' = [mine EXCEPT ![d] = <<>>] /\ killed' = TRUE
                    /\ at' = [at EXCEPT ![d] = "hollow"]
                 \/ /\ killed' = killed /\ at' = [at EXCEPT ![d] = "truncate"]
                    /\ \E new \in Seq(Schedule) :
                          /\ mine' = [mine EXCEPT ![d] = new]
                          /\ DOMAIN new = DOMAIN mine[d]
                          /\ \A i \in DOMAIN new :
                                /\ new[i].id = mine[d][i].id
                                /\ new[i].from = IF new[i].id \in ran THEN now ELSE mine[d][i].from
<1> DEFINE list == mine[d]
           upTo == {n \in 0 .. Len(list) : \A i \in 1 .. n : ~Raises(list[i].id, list[i].from)}
           due(i) == i \in upTo /\ IsDue(list[i].id, list[i].from)
           ran == {list[i].id : i \in {j \in DOMAIN list : due(j)}}
           new == [i \in DOMAIN list |-> IF due(i) THEN Noted(list[i]) ELSE list[i]]
<1>1. /\ list \in Seq(Schedule) /\ Distinct(list) /\ now \in Moments
      /\ mine \in [Processes -> Seq(Schedule)]
  BY DaemonsAndClients DEF TInv, ScalarsOK, ListsOK, ListOK
<1>2. ran \subseteq Sids
  <2>1. \A j \in DOMAIN list : list[j].id \in Sids
    <3> HIDE DEF list
    <3>1. \A j \in DOMAIN list : list[j] \in Schedule
      BY <1>1
    <3>2. \A e \in Schedule : e.id \in Sids
      BY DEF Schedule
    <3>3. QED
      BY <3>1, <3>2
  <2> HIDE DEF upTo, due
  <2>2. QED
    BY <2>1
<1>3. \A s \in ran : \E i \in DOMAIN list : list[i].id = s /\ now >= NextTime(s, list[i].from)
  BY DEF IsDue
<1>4. /\ from' = [s \in Sids |-> IF s \in ran THEN now ELSE from[s]]
      /\ early' = (early \/ \E s \in ran : ~HasCome(s, from[s]))
  BY DEF Fire
<1>5. CASE Len(list) \notin upTo
  <2>1. /\ mine' = [mine EXCEPT ![d] = <<>>] /\ killed' = TRUE
        /\ at' = [at EXCEPT ![d] = "hollow"]
    BY <1>5 DEF Fire
  <2> HIDE DEF ran
  <2>2. QED
    BY <1>2, <1>3, <1>4, <2>1
<1>6. CASE Len(list) \in upTo
  <2>1. /\ mine' = [mine EXCEPT ![d] = new] /\ killed' = killed
        /\ at' = [at EXCEPT ![d] = "truncate"]
    BY <1>6 DEF Fire
  <2>2. ASSUME NEW i \in DOMAIN list
        PROVE  /\ new[i] \in Schedule /\ new[i].id = list[i].id
               /\ new[i].from = IF new[i].id \in ran THEN now ELSE list[i].from
    <3>1. list[i] \in Schedule
      BY <1>1
    <3>2. CASE due(i)
      <4>1. new[i] = Noted(list[i]) /\ list[i].id \in ran
        BY <3>2
      <4> HIDE DEF new, ran, due
      <4>2. QED
        BY <1>1, <3>1, <4>1 DEF Noted, Schedule
    <3>3. CASE ~due(i)
      <4>1. new[i] = list[i]
        BY <3>3
      <4>2. list[i].id \notin ran
        BY <1>1, <3>3 DEF Distinct
      <4> HIDE DEF new, ran, due
      <4>3. QED
        BY <3>1, <4>1, <4>2
    <3>4. QED
      BY <3>2, <3>3
  <2>3. DOMAIN new = DOMAIN list /\ DOMAIN list = 1 .. Len(list) /\ Len(list) \in Nat
    BY <1>1
  <2> HIDE DEF new, ran
  <2>4. new \in Seq(Schedule)
    <3>1. new \in [1 .. Len(list) -> Schedule]
      BY <2>2, <2>3 DEF new
    <3>2. QED
      BY <2>3, <3>1
  <2>5. \E l \in Seq(Schedule) :
          /\ mine' = [mine EXCEPT ![d] = l]
          /\ DOMAIN l = DOMAIN mine[d]
          /\ \A i \in DOMAIN l :
                /\ l[i].id = mine[d][i].id
                /\ l[i].from = IF l[i].id \in ran THEN now ELSE mine[d][i].from
    <3> WITNESS new \in Seq(Schedule)
    <3>1. QED
      BY <2>1, <2>2, <2>3
  <2> HIDE DEF list
  <2>6. QED
    BY <1>2, <1>3, <1>4, <2>1, <2>5 DEF list
<1>7. QED
  BY <1>5, <1>6

LEMMA TypeStep == TInv /\ [Next]_vars => TInv'
<1> SUFFICES ASSUME TInv, [Next]_vars PROVE TInv'
  OBVIOUS
<1> USE DaemonsAndClients DEF faults
<1>s. /\ now \in Moments /\ now \in Nat \ {0} /\ from \in [Sids -> 0 .. now]
      /\ at \in [Processes -> Places] /\ mine \in [Processes -> Seq(Schedule)]
      /\ commands \in 0 .. MaxCommands /\ MaxCommands \in Nat
      /\ ListOK(file, now, from)
      /\ \A p \in Processes : ListOK(mine[p], now, from)
  BY MomentsAre, SchedulerAssumption DEF TInv, ScalarsOK, ListsOK, HeldOK
\* A step in which nothing is loaded, written or fired.
<1>q. ASSUME UNCHANGED <<now, file, from, mine, wanted, early>>,
             ScalarsOK', at' \in [Processes -> Places],
             \A p \in Processes : at'[p] = at[p] \/ mine[p] = <<>> \/ at'[p] \in Holding
      PROVE  TInv'
  BY <1>q DEF TInv, ListsOK, HeldOK, ListOK
\* A command counts.
<1>c. ASSUME NEW c \in Processes, Command(c) \/ (commands < MaxCommands /\ commands' = commands + 1)
      PROVE  commands' \in 0 .. MaxCommands
  BY <1>s, <1>c DEF Command
\* A process takes up or puts down a list.
<1>m. ASSUME UNCHANGED <<now, from>>, ScalarsOK',
             NEW p \in Processes, NEW list, NEW place \in Places,
             ListOK(list, now, from), mine' = [mine EXCEPT ![p] = list],
             at' = [at EXCEPT ![p] = place], ListOK(file', now, from),
             list = <<>> \/ place \in Holding
      PROVE  TInv'
  <2>1. ListsOK'
    BY <1>m, ListsMove
  <2>2. HeldOK'
    BY <1>s, <1>m DEF TInv, HeldOK
  <2>3. QED
    BY <1>m, <2>1, <2>2 DEF TInv
<1>1. ASSUME NEW p \in Processes, Truncate(p) PROVE TInv'
  <2>1. ScalarsOK'
    BY <1>1 DEF Truncate, TInv, ScalarsOK
  <2>2. /\ file' = <<>> /\ at[p] \in Truncating /\ UNCHANGED <<now, from, mine>>
        /\ at' = [at EXCEPT ![p] = IF @ = "drop" THEN "finish" ELSE "write"]
    BY <1>1 DEF Truncate
  <2>3. ListsOK'
    BY <1>s, <2>2, EmptyList DEF ListsOK
  <2>4. HeldOK'
    BY <1>s, <2>2 DEF TInv, HeldOK, Holding, Places, Truncating, Writing
  <2>5. QED
    BY <2>1, <2>3, <2>4 DEF TInv
<1>2. ASSUME NEW p \in Processes, Write(p) PROVE TInv'
  <2>1. ScalarsOK'
    BY <1>2 DEF Write, TInv, ScalarsOK
  <2>2. PICK place \in Places : /\ file' = mine[p] /\ UNCHANGED <<now, from>>
                                /\ mine' = [mine EXCEPT ![p] = <<>>]
                                /\ at' = [at EXCEPT ![p] = place]
    BY <1>s, <1>2 DEF Write, Places
  <2>3. QED
    BY <1>m, <1>s, <2>1, <2>2, EmptyList
<1>3. ASSUME NEW d \in Daemons, Check(d) \/ Register(d) PROVE TInv'
  <2>1. ScalarsOK'
    BY <1>3 DEF Check, Register, TInv, ScalarsOK
  <2>2. QED
    BY <1>q, <1>s, <1>3, <2>1
       DEF Check, Register, TInv, HeldOK, Holding, Places, Truncating, Writing
<1>4. ASSUME NEW d \in Daemons, Round(d) PROVE TInv'
  <2>1. ScalarsOK'
    BY <1>4 DEF Round, Load, TInv, ScalarsOK
  <2>2. CASE stop
    BY <1>q, <1>s, <1>4, <2>1, <2>2
       DEF Round, TInv, HeldOK, Holding, Places, Truncating, Writing
  <2>3. CASE ~stop
    <3>1. /\ UNCHANGED <<now, file, from>> /\ mine' = [mine EXCEPT ![d] = file]
          /\ at' = [at EXCEPT ![d] = "fire"] /\ "fire" \in Places /\ "fire" \in Holding
      BY <1>4, <2>3 DEF Round, Load, Places, Holding
    <3>2. QED
      BY <1>m, <1>s, <2>1, <3>1
  <2>4. QED
    BY <2>2, <2>3
<1>5. ASSUME NEW d \in Daemons, Fire(d) PROVE TInv'
  <2>1. PICK ran \in SUBSET Sids :
              /\ from' = [s \in Sids |-> IF s \in ran THEN now ELSE from[s]]
              /\ early' = (early \/ \E s \in ran : ~HasCome(s, from[s]))
              /\ \/ /\ mine' = [mine EXCEPT ![d] = <<>>] /\ killed' = TRUE
                    /\ at' = [at EXCEPT ![d] = "hollow"]
                 \/ /\ killed' = killed /\ at' = [at EXCEPT ![d] = "truncate"]
                    /\ \E new \in Seq(Schedule) :
                          /\ mine' = [mine EXCEPT ![d] = new]
                          /\ DOMAIN new = DOMAIN mine[d]
                          /\ \A i \in DOMAIN new :
                                /\ new[i].id = mine[d][i].id
                                /\ new[i].from = IF new[i].id \in ran THEN now ELSE mine[d][i].from
    BY <1>5, Firing
  <2>2. UNCHANGED <<now, file, pid, stop, wanted, overlap, commands>>
    BY <1>5 DEF Fire
  <2>3. from' \in [Sids -> 0 .. now]
    BY <1>s, <2>1
  <2>4. early' \in BOOLEAN /\ killed' \in BOOLEAN
    BY <2>1 DEF TInv, ScalarsOK
  <2>5. ScalarsOK'
    BY <2>2, <2>3, <2>4 DEF TInv, ScalarsOK
  <2>6. \A s \in Sids : from[s] # 0 => from'[s] # 0
    BY <1>s, <2>1
  <2>7. \A list : ListOK(list, now, from) => ListOK(list, now', from')
    BY <1>s, <2>2, <2>6, ListsAge
  <2>8. ASSUME NEW list, ListOK(list, now', from'), mine' = [mine EXCEPT ![d] = list]
        PROVE  ListsOK'
    BY <1>s, <2>2, <2>7, <2>8 DEF ListsOK, ListOK
  <2>9. CASE mine' = [mine EXCEPT ![d] = <<>>] /\ at' = [at EXCEPT ![d] = "hollow"]
    <3>1. ListsOK'
      BY <2>8, <2>9, EmptyList
    <3>2. HeldOK'
      BY <1>s, <2>9 DEF TInv, HeldOK, Places
    <3>3. QED
      BY <2>5, <3>1, <3>2 DEF TInv
  <2>10. ASSUME NEW new \in Seq(Schedule), at' = [at EXCEPT ![d] = "truncate"],
                mine' = [mine EXCEPT ![d] = new], DOMAIN new = DOMAIN mine[d],
                \A i \in DOMAIN new :
                   /\ new[i].id = mine[d][i].id
                   /\ new[i].from = IF new[i].id \in ran THEN now ELSE mine[d][i].from
         PROVE  TInv'
    <3>1. Distinct(new)
      BY <1>s, <2>10 DEF ListOK, Distinct
    <3>2. ASSUME NEW i \in DOMAIN new PROVE new[i].from <= now' /\ from'[new[i].id] # 0
      <4>1. /\ mine[d][i].from <= now /\ from[mine[d][i].id] # 0 /\ new[i].id = mine[d][i].id
            /\ new[i] \in Schedule
        BY <1>s, <2>10 DEF ListOK
      <4>2. new[i].id \in Sids
        BY <4>1 DEF Schedule
      <4>3. QED
        BY <1>s, <2>2, <2>6, <2>10, <4>1, <4>2
    <3>3. ListOK(new, now', from')
      BY <3>1, <3>2 DEF ListOK
    <3>4. ListsOK'
      BY <2>8, <2>10, <3>3
    <3>5. HeldOK'
      BY <1>s, <2>10 DEF TInv, HeldOK, Places, Holding, Truncating
    <3>6. QED
      BY <2>5, <3>4, <3>5 DEF TInv
  <2>11. QED
    BY <2>1, <2>9, <2>10
<1>6. ASSUME NEW c \in Clients, NEW s \in Sids, AddSchedule(c, s) PROVE TInv'
  <2> DEFINE e == [id |-> s, from |-> now]
             list == Append(file, e)
  <2>1. /\ from[s] = 0 /\ UNCHANGED <<now, file, pid, stop, early, killed>>
        /\ wanted' = wanted \cup {s} /\ from' = [from EXCEPT ![s] = now]
        /\ mine' = [mine EXCEPT ![c] = list] /\ at' = [at EXCEPT ![c] = "truncate"]
        /\ overlap' \in BOOLEAN /\ commands' \in 0 .. MaxCommands
    BY <1>c, <1>6 DEF AddSchedule, Load
  <2>2. from' \in [Sids -> 0 .. now] /\ from'[s] # 0
    BY <1>s, <2>1
  <2>3. ScalarsOK'
    BY <2>1, <2>2 DEF TInv, ScalarsOK
  <2>4. \A r \in Sids : from[r] # 0 => from'[r] # 0
    BY <1>s, <2>1
  <2>5. \A l : ListOK(l, now, from) => ListOK(l, now', from')
    <3>1. now' \in Moments /\ now <= now'
      BY <1>s, <2>1
    <3>2. QED
      BY <2>4, <3>1, ListsAge
  <2>6. ListOK(list, now', from')
    <3>1. e \in Schedule /\ e.id = s /\ e.from = now
      BY <1>s DEF Schedule
    <3> HIDE DEF e
    <3>2. file \in Seq(Schedule) /\ Distinct(file) /\ \A i \in DOMAIN file : file[i].id # s
      BY <1>s, <2>1 DEF ListOK
    <3>3. /\ list \in Seq(Schedule)
          /\ \A i \in DOMAIN list : i \in DOMAIN file \/ i = Len(file) + 1
          /\ \A i \in DOMAIN file : list[i] = file[i]
          /\ list[Len(file) + 1] = e
      BY <3>1, <3>2, AppendProperties
    <3> HIDE DEF list
    <3>4. Distinct(list)
      BY <3>1, <3>2, <3>3 DEF Distinct
    <3>5. \A i \in DOMAIN list : list[i].from <= now' /\ from'[list[i].id] # 0
      <4>1. \A i \in DOMAIN file : file[i].from <= now' /\ from'[file[i].id] # 0
        BY <1>s, <2>5 DEF ListOK
      <4>2. e.from <= now' /\ from'[e.id] # 0
        BY <1>s, <2>1, <2>2, <3>1
      <4>3. QED
        BY <3>3, <4>1, <4>2
    <3>6. QED
      BY <3>3, <3>4, <3>5 DEF ListOK
  <2> HIDE DEF list
  <2>7. ListsOK'
    BY <1>s, <2>1, <2>5, <2>6 DEF ListsOK, ListOK
  <2>8. HeldOK'
    BY <1>s, <2>1 DEF TInv, HeldOK, Places, Holding, Truncating
  <2>9. QED
    BY <2>3, <2>7, <2>8 DEF TInv
<1>7. ASSUME NEW c \in Clients, NEW s \in Sids, RemoveSchedule(c, s) PROVE TInv'
  <2>1. /\ UNCHANGED <<now, file, pid, stop, early, killed, from>>
        /\ wanted' = wanted \ {s} /\ mine' = [mine EXCEPT ![c] = Without(file, s)]
        /\ at' = [at EXCEPT ![c] = "drop"]
        /\ overlap' \in BOOLEAN /\ commands' \in 0 .. MaxCommands
    BY <1>c, <1>7 DEF RemoveSchedule, Load
  <2>2. ScalarsOK'
    BY <2>1 DEF TInv, ScalarsOK
  <2>3. ListOK(Without(file, s), now, from)
    BY <1>s, WithoutProperties DEF ListOK
  <2>4. "drop" \in Places /\ "drop" \in Holding
    BY DEF Places, Holding, Truncating
  <2>5. QED
    BY <1>m, <1>s, <2>1, <2>2, <2>3, <2>4
<1>8. ASSUME NEW c \in Clients, Start(c) PROVE TInv'
  <2>1. commands' \in 0 .. MaxCommands
    BY <1>c, <1>8 DEF Start
  <2>2. ScalarsOK'
    BY <1>8, <2>1 DEF Start, TInv, ScalarsOK
  <2>3. at[c] = "off" /\ at' = [at EXCEPT ![c] = "launch"]
    BY <1>8 DEF Start, Command
  <2>4. QED
    BY <1>q, <1>s, <1>8, <2>2, <2>3
       DEF Start, TInv, HeldOK, Holding, Places, Truncating, Writing
<1>9. ASSUME NEW c \in Clients, Launch(c) PROVE TInv'
  <2>1. ScalarsOK'
    BY <1>9 DEF Launch, TInv, ScalarsOK
  <2>2. /\ at' \in [Processes -> Places]
        /\ \A p \in Processes : at'[p] = at[p] \/ at[p] \in {"off", "launch"}
    BY <1>s, <1>9 DEF Launch, Places
  <2>3. \A p \in Processes : at'[p] = at[p] \/ mine[p] = <<>>
    BY <2>2 DEF TInv, HeldOK, Holding, Truncating, Writing
  <2>4. QED
    BY <1>q, <1>9, <2>1, <2>2, <2>3 DEF Launch
\* A daemon is killed.
<1>k. ASSUME UNCHANGED <<now, file, from, wanted, early>>, ScalarsOK', NEW d \in Daemons, Kill(d)
      PROVE  TInv'
  <2>1. "off" \in Places
    BY DEF Places
  <2>2. QED
    BY <1>m, <1>s, <1>k, <2>1, EmptyList DEF Kill
<1>10. ASSUME NEW c \in Clients, Stop(c) PROVE TInv'
  <2>1. commands' \in 0 .. MaxCommands
    BY <1>c, <1>10 DEF Stop
  <2>2. CASE Alive(pid)
    <3>1. Kill(pid) /\ pid \in Daemons /\ killed' \in BOOLEAN
      BY <1>10, <2>2 DEF Stop, Alive, Kill
    <3>2. ScalarsOK'
      BY <1>10, <2>1, <3>1 DEF Stop, TInv, ScalarsOK
    <3>3. QED
      BY <1>k, <1>10, <3>1, <3>2 DEF Stop
  <2>3. CASE ~Alive(pid)
    <3>1. UNCHANGED <<at, mine, killed>>
      BY <1>10, <2>3 DEF Stop
    <3>2. ScalarsOK'
      BY <1>10, <2>1, <3>1 DEF Stop, TInv, ScalarsOK
    <3>3. QED
      BY <1>q, <1>s, <1>10, <3>1, <3>2 DEF Stop
  <2>4. QED
    BY <2>2, <2>3
<1>11. ASSUME NEW d \in Daemons, Die(d) PROVE TInv'
  <2>1. commands' \in 0 .. MaxCommands /\ Kill(d) /\ killed' \in BOOLEAN
    BY <1>c, <1>11 DEF Die, Kill
  <2>2. ScalarsOK'
    BY <1>11, <2>1 DEF Die, TInv, ScalarsOK
  <2>3. QED
    BY <1>k, <1>11, <2>1, <2>2 DEF Die
<1>12. CASE Tick
  <2>1. /\ now' \in Moments /\ now' \in Nat /\ now <= now' /\ from' = from
        /\ UNCHANGED <<file, pid, stop, at, mine, wanted, early, overlap, killed, commands>>
    BY <1>s, <1>12, MomentsAre DEF Tick
  <2>2. from' \in [Sids -> 0 .. now']
    BY <1>s, <2>1
  <2>3. ScalarsOK' /\ HeldOK'
    BY <2>1, <2>2 DEF TInv, ScalarsOK, HeldOK
  <2>4. \A list : ListOK(list, now, from) => ListOK(list, now', from')
    BY <2>1, ListsAge
  <2>5. ListsOK'
    BY <1>s, <2>1, <2>4 DEF ListsOK
  <2>6. QED
    BY <2>3, <2>5 DEF TInv
<1>13. CASE UNCHANGED vars
  <2>1. ScalarsOK'
    BY <1>13 DEF vars, TInv, ScalarsOK
  <2>2. QED
    BY <1>q, <1>s, <1>13, <2>1 DEF vars
<1>14. QED
  BY <1>1, <1>2, <1>3, <1>4, <1>5, <1>6, <1>7, <1>8, <1>9, <1>10, <1>11, <1>12, <1>13
     DEF Next, DaemonStep, ClientStep

\* Every reachable state is well typed: no list ever holds a schedule twice, or one that
\* was never added, or a moment that has not come, whoever writes over whom.
THEOREM TypeCorrect == Spec => []TypeOK
<1>1. Spec => []TInv
  BY InitType, TypeStep, PTL DEF Spec
<1>2. QED
  BY <1>1, TypeHolds, PTL

-----------------------------------------------------------------------------
(* What the file says, as long as no two processes hold a list at once *)

\* A list that holds the given schedules, each with the moment it was added or last run.
Current(list, ids, since) ==
    /\ IdsOf(list) = ids
    /\ \A i \in DOMAIN list : list[i].from = since[list[i].id]

Saving == Truncating \cup Writing

OneHolder == \A p, q \in Processes : at[p] \in Holding /\ at[q] \in Holding => p = q
FileCurrent == (\A p \in Processes : at[p] \notin Saving) => Current(file, wanted, from)
HeldCurrent == \A p \in Processes : at[p] \in Holding => Current(mine[p], wanted, from)

Sane == OneHolder /\ FileCurrent /\ HeldCurrent /\ ~early

KInv == ~overlap /\ ~killed => Sane

LEMMA InitSane == Init => KInv
<1>1. IdsOf(<<>>) = {} /\ DOMAIN <<>> = {}
  BY EmptyList
<1>2. QED
  BY <1>1 DEF Init, KInv, Sane, OneHolder, FileCurrent, HeldCurrent, Current,
              Holding, Truncating, Writing

LEMMA SaneImplies == KInv => SchedulesKept /\ RunsOncePerTime
BY DEF KInv, Sane, FileCurrent, Saving, Current, IdsOf, SchedulesKept, RunsOncePerTime

\* A process that loads a list while no other holds one has what the file says.
LEMMA Loading ==
    ASSUME TInv, KInv, NEW p \in Processes, NEW list, NEW next, Load(p, list, next),
           ~overlap', ~killed', at[p] \notin Holding, next \in Holding
    PROVE  /\ Current(file, wanted, from) /\ Sane
           /\ OneHolder'
           /\ \A q \in Processes : at'[q] \in Holding => q = p
           /\ mine'[p] = list
           /\ at'[p] = next
<1>1. Sane /\ \A q \in Processes : q # p => at[q] \notin Holding
  BY DEF Load, KInv
<1>2. \A q \in Processes : at[q] \notin Saving
  BY <1>1 DEF Saving, Holding
<1>3. \A q \in Processes : q # p => at'[q] \notin Holding
  BY <1>1 DEF Load, TInv, HeldOK
<1>4. mine'[p] = list /\ at'[p] = next
  BY DEF Load, TInv, HeldOK, ListsOK
<1>5. QED
  BY <1>1, <1>2, <1>3, <1>4 DEF Sane, FileCurrent, OneHolder

\* It then has what it should write.
LEMMA Loaded ==
    ASSUME TInv, KInv, NEW p \in Processes, NEW list, NEW next, Load(p, list, next),
           ~overlap', ~killed', at[p] \notin Holding,
           UNCHANGED <<file, early>>, Current(list, wanted', from'),
           next \in Truncating \/ (next = "fire" /\ UNCHANGED <<wanted, from>>)
    PROVE  Sane'
<1>1. next \in Holding
  BY DEF Holding
<1>2. /\ Current(file, wanted, from) /\ Sane
      /\ OneHolder'
      /\ \A q \in Processes : at'[q] \in Holding => q = p
      /\ mine'[p] = list
      /\ at'[p] = next
  BY <1>1, Loading
<1>3. HeldCurrent'
  BY <1>2 DEF HeldCurrent
<1>4. FileCurrent'
  <2>1. CASE next \in Truncating
    BY <1>2, <2>1 DEF FileCurrent, Saving
  <2>2. CASE next = "fire" /\ UNCHANGED <<wanted, from>>
    BY <1>2, <2>2 DEF FileCurrent
  <2>3. QED
    BY <2>1, <2>2
<1>5. QED
  BY <1>2, <1>3, <1>4 DEF Sane

LEMMA SaneStep == TInv /\ KInv /\ [Next]_vars => KInv'
<1> SUFFICES ASSUME TInv, KInv, [Next]_vars, ~overlap', ~killed' PROVE Sane'
  BY DEF KInv
<1> USE DaemonsAndClients DEF faults
<1>s. /\ now \in Moments /\ now \in Nat \ {0} /\ from \in [Sids -> 0 .. now]
      /\ at \in [Processes -> Places] /\ mine \in [Processes -> Seq(Schedule)]
      /\ ListOK(file, now, from)
      /\ \A p \in Processes : ListOK(mine[p], now, from)
  BY MomentsAre DEF TInv, ScalarsOK, ListsOK, HeldOK
\* A step that no holder takes, and that makes none.
<1>q. ASSUME ~overlap, ~killed, UNCHANGED <<file, wanted, from, early>>,
             \A p \in Processes : at'[p] \in Holding \/ at[p] \in Holding =>
                                     at'[p] = at[p] /\ mine'[p] = mine[p]
      PROVE  Sane'
  <2>1. Sane
    BY <1>q DEF KInv
  <2>2. \A p \in Processes : at[p] \in Saving => at'[p] \in Saving
    BY <1>q DEF Saving, Holding
  <2>3. OneHolder' /\ HeldCurrent'
    BY <1>q, <2>1 DEF Sane, OneHolder, HeldCurrent
  <2>4. FileCurrent'
    BY <1>q, <2>1, <2>2 DEF Sane, FileCurrent
  <2>5. QED
    BY <1>q, <2>1, <2>3, <2>4 DEF Sane
<1>1. ASSUME NEW p \in Processes, Truncate(p) PROVE Sane'
  <2>1. /\ at[p] \in Holding /\ at'[p] \in Writing /\ UNCHANGED <<mine, wanted, from, early>>
        /\ \A q \in Processes : q # p => at'[q] = at[q]
    BY <1>s, <1>1 DEF Truncate, Holding, Writing, Truncating
  <2>2. Sane
    BY <1>1 DEF Truncate, KInv
  <2>3. at'[p] \in Saving /\ at'[p] \in Holding
    BY <2>1 DEF Saving, Holding
  <2>4. OneHolder' /\ HeldCurrent'
    BY <2>1, <2>2, <2>3 DEF Sane, OneHolder, HeldCurrent
  <2>5. QED
    BY <2>1, <2>2, <2>3, <2>4 DEF Sane, FileCurrent
<1>2. ASSUME NEW p \in Processes, Write(p) PROVE Sane'
  <2>1. /\ at[p] \in Holding /\ at'[p] \notin Holding /\ UNCHANGED <<wanted, from, early>>
        /\ file' = mine[p] /\ \A q \in Processes : q # p => at'[q] = at[q]
    BY <1>s, <1>2 DEF Write, Holding, Writing, Truncating
  <2>2. Sane
    BY <1>2 DEF Write, KInv
  <2>3. \A q \in Processes : at'[q] \notin Holding
    BY <2>1, <2>2 DEF Sane, OneHolder
  <2>4. Current(file', wanted', from')
    BY <2>1, <2>2 DEF Sane, HeldCurrent, Current, IdsOf
  <2>5. QED
    BY <2>1, <2>2, <2>3, <2>4 DEF Sane, OneHolder, HeldCurrent, FileCurrent
<1>3. ASSUME NEW d \in Daemons, Check(d) \/ Register(d) PROVE Sane'
  BY <1>q, <1>s, <1>3 DEF Check, Register, Holding, Truncating, Writing
<1>4. ASSUME NEW d \in Daemons, Round(d) PROVE Sane'
  <2>1. CASE stop
    BY <1>q, <1>s, <1>4, <2>1 DEF Round, Holding, Truncating, Writing
  <2>2. CASE ~stop
    <3>1. Load(d, file, "fire") /\ UNCHANGED <<file, wanted, from, early>> /\ at[d] \notin Holding
      BY <1>4, <2>2 DEF Round, Holding, Truncating, Writing
    <3>2. Current(file, wanted, from)
      <4>1. "fire" \in Holding
        BY DEF Holding
      <4>2. QED
        BY <3>1, <4>1, Loading
    <3>3. QED
      BY <3>1, <3>2, Loaded
  <2>3. QED
    BY <2>1, <2>2
<1>5. ASSUME NEW d \in Daemons, Fire(d) PROVE Sane'
  <2>1. PICK ran \in SUBSET Sids :
              /\ \A s \in ran : \E i \in DOMAIN mine[d] :
                    mine[d][i].id = s /\ now >= NextTime(s, mine[d][i].from)
              /\ from' = [s \in Sids |-> IF s \in ran THEN now ELSE from[s]]
              /\ early' = (early \/ \E s \in ran : ~HasCome(s, from[s]))
              /\ killed' = killed /\ at' = [at EXCEPT ![d] = "truncate"]
              /\ \E new \in Seq(Schedule) :
                    /\ mine' = [mine EXCEPT ![d] = new]
                    /\ DOMAIN new = DOMAIN mine[d]
                    /\ \A i \in DOMAIN new :
                          /\ new[i].id = mine[d][i].id
                          /\ new[i].from = IF new[i].id \in ran THEN now ELSE mine[d][i].from
    BY <1>5, Firing
  <2>2. at[d] = "fire" /\ UNCHANGED <<wanted, overlap>>
    BY <1>5 DEF Fire
  <2>3. Sane /\ at[d] \in Holding
    BY <2>1, <2>2 DEF KInv, Holding
  <2>4. Current(mine[d], wanted, from)
    BY <2>3 DEF Sane, HeldCurrent
  <2>5. ASSUME NEW s \in ran PROVE HasCome(s, from[s])
    <3>1. PICK i \in DOMAIN mine[d] : mine[d][i].id = s /\ now >= NextTime(s, mine[d][i].from)
      BY <2>1
    <3>2. mine[d][i].from = from[s] /\ mine[d][i] \in Schedule
      BY <1>s, <2>4, <3>1 DEF Current, ListOK
    <3>3. mine[d][i].from \in Moments
      BY <3>2 DEF Schedule
    <3>4. QED
      BY <1>s, <3>1, <3>2, <3>3, NextHasCome, MomentsAre
  <2>6. ~early'
    BY <2>1, <2>3, <2>5 DEF Sane
  <2>7. \A q \in Processes : at'[q] \in Holding => q = d
    BY <1>s, <2>1, <2>3 DEF Sane, OneHolder
  <2>8. at'[d] = "truncate"
    BY <1>s, <2>1
  <2>9. Current(mine'[d], wanted', from')
    <3>1. PICK new \in Seq(Schedule) :
                    /\ mine' = [mine EXCEPT ![d] = new]
                    /\ DOMAIN new = DOMAIN mine[d]
                    /\ \A i \in DOMAIN new :
                          /\ new[i].id = mine[d][i].id
                          /\ new[i].from = IF new[i].id \in ran THEN now ELSE mine[d][i].from
      BY <2>1
    <3>2. mine'[d] = new
      BY <1>s, <3>1
    <3>3. IdsOf(new) = wanted
      BY <2>4, <3>1 DEF Current, IdsOf
    <3>4. ASSUME NEW i \in DOMAIN new PROVE new[i].from = from'[new[i].id]
      <4>1. new[i] \in Schedule /\ mine[d][i].from = from[new[i].id]
        BY <2>4, <3>1 DEF Current
      <4>2. new[i].id \in Sids
        BY <4>1 DEF Schedule
      <4>3. QED
        BY <2>1, <3>1, <4>1, <4>2
    <3>5. QED
      BY <2>2, <3>2, <3>3, <3>4 DEF Current
  <2>10. OneHolder' /\ HeldCurrent'
    BY <2>7, <2>9 DEF OneHolder, HeldCurrent
  <2>11. FileCurrent'
    BY <2>8 DEF FileCurrent, Saving, Truncating
  <2>12. QED
    BY <2>6, <2>10, <2>11 DEF Sane
<1>6. ASSUME NEW c \in Clients, NEW s \in Sids, AddSchedule(c, s) PROVE Sane'
  <2> DEFINE e == [id |-> s, from |-> now]
             list == Append(file, e)
  <2>1. /\ at[c] = "off" /\ Load(c, list, "truncate") /\ UNCHANGED <<file, early>>
        /\ from[s] = 0 /\ wanted' = wanted \cup {s} /\ from' = [from EXCEPT ![s] = now]
    BY <1>6 DEF AddSchedule, Command
  <2>2. at[c] \notin Holding /\ "truncate" \in Holding /\ "truncate" \in Truncating
    BY <2>1 DEF Holding, Truncating, Writing
  <2>3. Current(file, wanted, from)
    BY <2>1, <2>2, Loading
  <2>4. Current(list, wanted', from')
    <3>1. e.id = s /\ e.from = now /\ e \in Schedule
      BY <1>s DEF Schedule
    <3> HIDE DEF e
    <3>2. /\ file \in Seq(Schedule) /\ \A i \in DOMAIN file : file[i].id # s /\ file[i].id \in Sids
      <4>1. /\ file \in Seq(Schedule)
            /\ \A i \in DOMAIN file : file[i].id # s /\ file[i] \in Schedule
        BY <1>s, <2>1 DEF ListOK
      <4>2. \A x \in Schedule : x.id \in Sids
        BY DEF Schedule
      <4>3. QED
        BY <4>1, <4>2
    <3>3. /\ \A i \in DOMAIN list : i \in DOMAIN file \/ i = Len(file) + 1
          /\ \A i \in DOMAIN file : list[i] = file[i] /\ i \in DOMAIN list
          /\ list[Len(file) + 1] = e /\ Len(file) + 1 \in DOMAIN list
      BY <3>1, <3>2, AppendProperties
    <3> HIDE DEF list
    <3>4. IdsOf(list) = wanted'
      BY <2>1, <2>3, <3>1, <3>3 DEF Current, IdsOf
    <3>5. \A i \in DOMAIN file : file[i].from = from'[file[i].id]
      BY <1>s, <2>1, <2>3, <3>2 DEF Current
    <3>6. e.from = from'[e.id]
      BY <1>s, <2>1, <3>1
    <3>7. QED
      BY <3>3, <3>4, <3>5, <3>6 DEF Current
  <2> HIDE DEF list
  <2>5. QED
    BY <2>1, <2>2, <2>4, Loaded
<1>7. ASSUME NEW c \in Clients, NEW s \in Sids, RemoveSchedule(c, s) PROVE Sane'
  <2>1. /\ at[c] = "off" /\ Load(c, Without(file, s), "drop") /\ UNCHANGED <<file, early, from>>
        /\ wanted' = wanted \ {s}
    BY <1>7 DEF RemoveSchedule, Command
  <2>2. at[c] \notin Holding /\ "drop" \in Holding /\ "drop" \in Truncating
    BY <2>1 DEF Holding, Truncating, Writing
  <2>3. Current(file, wanted, from)
    BY <2>1, <2>2, Loading
  <2>4. Current(Without(file, s), wanted', from')
    <3>1. /\ IdsOf(Without(file, s)) = IdsOf(file) \ {s}
          /\ \A i \in DOMAIN Without(file, s) :
                \E j \in DOMAIN file : Without(file, s)[i] = file[j]
      BY <1>s, WithoutProperties DEF ListOK
    <3>2. QED
      BY <2>1, <2>3, <3>1 DEF Current
  <2>5. QED
    BY <2>1, <2>2, <2>4, Loaded
<1>8. ASSUME NEW c \in Clients, Start(c) PROVE Sane'
  BY <1>q, <1>s, <1>8 DEF Start, Command, Holding, Truncating, Writing
<1>9. ASSUME NEW c \in Clients, Launch(c) PROVE Sane'
  <2>1. /\ UNCHANGED <<file, mine, wanted, from, early, overlap, killed>>
        /\ \A p \in Processes : at'[p] = at[p]
              \/ (at[p] \in {"off", "launch"} /\ at'[p] \in {"off", "start"})
    BY <1>s, <1>9 DEF Launch
  <2>2. \A p \in Processes : at'[p] \in Holding \/ at[p] \in Holding => at'[p] = at[p]
    BY <2>1 DEF Holding, Truncating, Writing
  <2>3. QED
    BY <1>q, <2>1, <2>2
\* A daemon that is killed held nothing, or something is lost.
<1>k. ASSUME NEW d \in Daemons, Kill(d), UNCHANGED <<file, wanted, from, early, overlap>>
      PROVE  Sane'
  <2>1. at[d] \notin Holding /\ ~killed
    BY <1>k DEF Kill
  <2>2. "off" \notin Holding
    BY DEF Holding, Truncating, Writing
  <2>3. \A p \in Processes : at'[p] \in Holding \/ at[p] \in Holding =>
                                at'[p] = at[p] /\ mine'[p] = mine[p]
    BY <1>s, <1>k, <2>1, <2>2 DEF Kill
  <2>4. QED
    BY <1>k, <1>q, <2>1, <2>3
<1>10. ASSUME NEW c \in Clients, Stop(c) PROVE Sane'
  <2>1. CASE Alive(pid)
    BY <1>k, <1>10, <2>1 DEF Stop, Alive
  <2>2. CASE ~Alive(pid)
    BY <1>q, <1>10, <2>2 DEF Stop
  <2>3. QED
    BY <2>1, <2>2
<1>11. ASSUME NEW d \in Daemons, Die(d) PROVE Sane'
  BY <1>k, <1>11 DEF Die
<1>12. CASE Tick
  BY <1>q, <1>12 DEF Tick
<1>13. CASE UNCHANGED vars
  BY <1>q, <1>13 DEF vars
<1>14. QED
  BY <1>1, <1>2, <1>3, <1>4, <1>5, <1>6, <1>7, <1>8, <1>9, <1>10, <1>11, <1>12, <1>13
     DEF Next, DaemonStep, ClientStep

LEMMA SaneHolds == Spec => []KInv
<1>1. Spec => []TInv
  BY InitType, TypeStep, PTL DEF Spec
<1>2. QED
  BY <1>1, InitSane, SaneStep, PTL DEF Spec

\* While no two processes hold a list at once and none is killed with one, the file holds
\* what was added and not removed, whenever nobody is about to write it: the loop's own
\* saves lose nothing.
THEOREM KeepsSchedules == Spec => []SchedulesKept
BY SaneHolds, SaneImplies, PTL

\* Under the same conditions each run of a schedule has a time of its own, for any number
\* of daemons, started and killed in any order: the list a daemon fires from says when
\* each schedule ran last, and its next time lies after that.
THEOREM RunsEachOncePerTime == Spec => []RunsOncePerTime
BY SaneHolds, SaneImplies, PTL
=============================================================================
