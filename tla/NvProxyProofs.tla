---------------------------- MODULE NvProxyProofs ----------------------------
(***************************************************************************)
(* Proofs about the proxy, for any number of keys and clients and every    *)
(* budget, window and rest.                                                *)
(***************************************************************************)
EXTENDS NvProxy, WellFoundedInduction, TLAPS

USE DEF keyVars, workVars

Ages == 0 .. Window

-----------------------------------------------------------------------------
(* The logs of the keys *)

\* A log, the oldest use first; a request takes a tick, so no two uses are of the
\* same age.
Log(ages) ==
    /\ ages \in Seq(Ages)
    /\ \A i, j \in DOMAIN ages : i < j => ages[i] > ages[j]

\* The uses of a log were made before this tick.
Past(ages) == \A i \in DOMAIN ages : ages[i] > 0

LEMMA LogLength == ASSUME NEW ages, Log(ages)
                   PROVE  Len(ages) \in Nat /\ DOMAIN ages = 1 .. Len(ages)
                          /\ \A i \in DOMAIN ages : ages[i] \in Ages
BY DEF Log

\* One use at most expires in a tick, the first.
LEMMA Expires ==
    ASSUME NEW ages, Log(ages)
    PROVE  Expired(ages) = IF ages # <<>> /\ ages[1] = Window THEN 1 ELSE 0
<1> DEFINE n == IF ages # <<>> /\ ages[1] = Window THEN 1 ELSE 0
           P(m) == \A i \in DOMAIN ages : i <= m <=> ages[i] >= Window
<1>1. Window \in Nat /\ Len(ages) \in Nat /\ DOMAIN ages = 1 .. Len(ages)
      /\ \A i \in DOMAIN ages : ages[i] \in Ages
  BY ProxyAssumption, LogLength
<1>2. \A i, j \in DOMAIN ages : i < j => ages[i] > ages[j]
  BY DEF Log
<1>3. ages # <<>> <=> Len(ages) > 0
  BY DEF Log
<1>4. n \in 0 .. Len(ages)
  BY <1>1, <1>3
<1>5. P(n)
  <2>1. CASE ages # <<>> /\ ages[1] = Window
    <3>1. ASSUME NEW i \in DOMAIN ages, i > 1 PROVE ages[i] < Window
      BY <1>1, <1>2, <2>1, <3>1 DEF Ages
    <3>2. QED
      BY <1>1, <2>1, <3>1 DEF Ages
  <2>2. CASE ages # <<>> /\ ages[1] # Window
    <3>1. ages[1] < Window
      BY <1>1, <1>3, <2>2 DEF Ages
    <3>2. ASSUME NEW i \in DOMAIN ages PROVE ages[i] < Window
      BY <1>1, <1>2, <3>1 DEF Ages
    <3>3. QED
      BY <1>1, <2>2, <3>2 DEF Ages
  <2>3. CASE ages = <<>>
    BY <2>3
  <2>4. QED
    BY <2>1, <2>2, <2>3
<1>6. ASSUME NEW m \in 0 .. Len(ages), P(m) PROVE m = n
  <2>1. CASE Len(ages) = 0
    BY <1>1, <1>3, <1>6, <2>1
  <2>2. CASE Len(ages) > 0
    <3>1. 1 \in DOMAIN ages /\ (Len(ages) > 1 => 2 \in DOMAIN ages)
      BY <1>1, <2>2
    <3>2. Len(ages) > 1 => ages[2] < Window
      BY <1>1, <1>2, <3>1 DEF Ages
    <3>3. m < 2
      BY <1>1, <1>6, <3>1, <3>2 DEF Ages
    <3>4. m = 1 <=> ages[1] = Window
      BY <1>1, <1>6, <3>1, <3>3 DEF Ages
    <3>5. QED
      BY <1>1, <1>3, <1>6, <2>2, <3>3, <3>4
  <2>3. QED
    BY <1>1, <2>1, <2>2
<1>7. QED
  BY <1>4, <1>5, <1>6 DEF Expired

\* A tick later a log is a log of past uses, shorter only by a use that was as old
\* as the window.
LEMMA Aging ==
    ASSUME NEW ages, Log(ages)
    PROVE  /\ Log(Older(ages)) /\ Past(Older(ages))
           /\ ages # <<>> /\ ages[1] = Window => Len(Older(ages)) = Len(ages) - 1
           /\ ~(ages # <<>> /\ ages[1] = Window) => Len(Older(ages)) = Len(ages)
           /\ ages # <<>> /\ ages[1] # Window => Older(ages)[1] = ages[1] + 1
<1> DEFINE e == Expired(ages)
<1>1. Window \in Nat /\ Len(ages) \in Nat /\ DOMAIN ages = 1 .. Len(ages)
      /\ \A i \in DOMAIN ages : ages[i] \in Ages
  BY ProxyAssumption, LogLength
<1>2. \A i, j \in DOMAIN ages : i < j => ages[i] > ages[j]
  BY DEF Log
<1>3. ages # <<>> <=> Len(ages) > 0
  BY DEF Log
<1>4. e = IF ages # <<>> /\ ages[1] = Window THEN 1 ELSE 0
  BY Expires
<1> HIDE DEF e
<1>5. e \in Nat /\ Len(ages) - e \in Nat
  BY <1>1, <1>3, <1>4
<1>6. Older(ages) = [i \in 1 .. Len(ages) - e |-> ages[i + e] + 1]
  BY DEF Older, e
<1>7. ASSUME NEW i \in 1 .. Len(ages) - e
      PROVE  ages[i + e] + 1 \in Ages /\ i + e \in DOMAIN ages
  <2>1. i + e \in DOMAIN ages
    BY <1>1, <1>5
  <2>2. ages[i + e] < Window
    <3>1. CASE e = 1
      BY <1>1, <1>2, <1>4, <1>5, <2>1, <3>1 DEF Ages
    <3>2. CASE e = 0
      <4>1. ages[1] < Window
        BY <1>1, <1>3, <1>4, <2>1, <3>2 DEF Ages
      <4>2. QED
        BY <1>1, <1>2, <2>1, <3>2, <4>1 DEF Ages
    <3>3. QED
      BY <1>4, <3>1, <3>2
  <2>3. QED
    BY <1>1, <2>1, <2>2 DEF Ages
<1>8. Older(ages) \in Seq(Ages) /\ Len(Older(ages)) = Len(ages) - e
      /\ DOMAIN Older(ages) = 1 .. Len(ages) - e
  <2> DEFINE m == Len(ages) - e
  <2>1. m \in Nat
    BY <1>5
  <2>2. Older(ages) \in [1 .. m -> Ages]
    BY <1>6, <1>7
  <2> HIDE DEF m
  <2>3. Older(ages) \in Seq(Ages) /\ Len(Older(ages)) = m /\ DOMAIN Older(ages) = 1 .. m
    BY <2>1, <2>2
  <2>4. QED
    BY <2>3 DEF m
<1>9. Log(Older(ages))
  <2>1. ASSUME NEW i \in DOMAIN Older(ages), NEW j \in DOMAIN Older(ages), i < j
        PROVE  Older(ages)[i] > Older(ages)[j]
    <3>1. i \in 1 .. Len(ages) - e /\ j \in 1 .. Len(ages) - e
      BY <1>8
    <3>2. i + e \in DOMAIN ages /\ j + e \in DOMAIN ages /\ i + e < j + e
      BY <1>5, <1>7, <2>1, <3>1
    <3>3. ages[i + e] > ages[j + e] /\ ages[i + e] \in Ages /\ ages[j + e] \in Ages
      BY <1>1, <1>2, <3>2
    <3>4. Older(ages)[i] = ages[i + e] + 1 /\ Older(ages)[j] = ages[j + e] + 1
      BY <1>6, <3>1
    <3>5. QED
      BY <1>1, <3>3, <3>4 DEF Ages
  <2>2. QED
    BY <1>8, <2>1 DEF Log
<1>10. Past(Older(ages))
  BY <1>1, <1>6, <1>7, <1>8 DEF Past, Ages
<1>11. ASSUME ages # <<>>, ages[1] # Window PROVE Older(ages)[1] = ages[1] + 1
  <2>1. e = 0 /\ 1 \in 1 .. Len(ages) - e
    BY <1>1, <1>3, <1>4, <1>11
  <2>2. Older(ages)[1] = ages[1 + e] + 1
    BY <1>6, <2>1
  <2>3. QED
    BY <2>1, <2>2
<1>12. Len(Older(ages)) = IF ages # <<>> /\ ages[1] = Window THEN Len(ages) - 1 ELSE Len(ages)
  <2>1. CASE e = 1
    BY <1>4, <1>8, <2>1
  <2>2. CASE e = 0
    <3>1. Len(Older(ages)) = Len(ages)
      BY <1>1, <1>8, <2>2
    <3>2. ~(ages # <<>> /\ ages[1] = Window)
      BY <1>4, <2>2
    <3>3. QED
      BY <3>1, <3>2
  <2>3. QED
    BY <1>4, <2>1, <2>2
<1>13. QED
  BY <1>9, <1>10, <1>11, <1>12

\* A use at this tick: the log was of past uses, and does not grow by more than one.
LEMMA Using ==
    ASSUME NEW ages, Log(ages), Past(ages)
    PROVE  /\ Log(Append(ages, 0)) /\ Len(Append(ages, 0)) = Len(ages) + 1
           /\ ages # <<>> => Append(ages, 0)[1] = ages[1]
<1>1. Window \in Nat /\ Len(ages) \in Nat /\ DOMAIN ages = 1 .. Len(ages)
      /\ \A i \in DOMAIN ages : ages[i] \in Ages
  BY ProxyAssumption, LogLength
<1>2. Append(ages, 0) \in Seq(Ages) /\ Len(Append(ages, 0)) = Len(ages) + 1
      /\ DOMAIN Append(ages, 0) = 1 .. Len(ages) + 1
  BY <1>1 DEF Log, Ages
<1>3. /\ \A i \in 1 .. Len(ages) : Append(ages, 0)[i] = ages[i]
      /\ Append(ages, 0)[Len(ages) + 1] = 0
  BY <1>1 DEF Log
<1>4. ASSUME NEW i \in 1 .. Len(ages) + 1, NEW j \in 1 .. Len(ages) + 1, i < j
      PROVE  Append(ages, 0)[i] > Append(ages, 0)[j]
  <2>1. i \in 1 .. Len(ages)
    BY <1>1, <1>4
  <2>2. CASE j = Len(ages) + 1
    BY <1>1, <1>3, <2>1, <2>2 DEF Past, Ages
  <2>3. CASE j \in 1 .. Len(ages)
    BY <1>1, <1>3, <1>4, <2>1, <2>3 DEF Log
  <2>4. QED
    BY <1>1, <2>2, <2>3
<1>5. Log(Append(ages, 0))
  BY <1>2, <1>4 DEF Log
<1>6. ages # <<>> => 1 \in 1 .. Len(ages)
  BY <1>1 DEF Log
<1>7. QED
  BY <1>2, <1>3, <1>5, <1>6

-----------------------------------------------------------------------------
(* The least of them *)

\* A set of numbers has a least element.
LEMMA Least == ASSUME NEW T, T \subseteq Nat, T # {}
               PROVE  \E x \in T : \A y \in T : x <= y
<1> DEFINE Smaller == {p \in Nat \X Nat : p[1] < p[2]}
<1>1. IsWellFoundedOn(Smaller, Nat)
  BY NatLessThanWellFounded DEF OpToRel
<1> HIDE DEF Smaller
<1>2. PICK x \in T : \A y \in T : ~(<<y, x>> \in Smaller)
  BY <1>1, WFMin
<1>3. ASSUME NEW y \in T PROVE x <= y
  <2>1. <<y, x>> \in Nat \X Nat
    OBVIOUS
  <2>2. ~(y < x)
    BY <1>2, <2>1 DEF Smaller
  <2>3. QED
    BY <2>2
<1>4. QED
  BY <1>3

LEMMA MinIsLeast == ASSUME NEW T, T \subseteq Nat, T # {}
                    PROVE  Min(T) \in T /\ \A y \in T : Min(T) <= y
BY Least DEF Min

LEMMA MaxOfTwo ==
    ASSUME NEW m \in Nat, NEW n \in Nat
    PROVE  Max({m, n}) \in {m, n} /\ Max({m, n}) >= m /\ Max({m, n}) >= n
<1>1. \E x \in {m, n} : \A y \in {m, n} : x >= y
  <2>1. CASE m <= n
    BY <2>1
  <2>2. CASE n <= m
    BY <2>2
  <2>3. QED
    BY <2>1, <2>2
<1>2. Max({m, n}) \in {m, n} /\ \A y \in {m, n} : Max({m, n}) >= y
  BY <1>1 DEF Max
<1>3. QED
  BY <1>2

Logs == \A k \in Keys : Log(uses[k])

LEMMA LeastUsedKey ==
    ASSUME Logs, NEW ks, ks \subseteq Keys, ks # {}
    PROVE  LeastUsed(ks) \in ks /\ \A l \in ks : Len(uses[LeastUsed(ks)]) <= Len(uses[l])
<1> DEFINE lengths == {Len(uses[k]) : k \in ks}
           before(k, l) == Len(uses[k]) < Len(uses[l]) \/ (Len(uses[k]) = Len(uses[l]) /\ k <= l)
<1>1. \A k \in ks : Len(uses[k]) \in Nat /\ k \in Nat
  BY LogLength, ProxyAssumption DEF Logs, Keys
<1>2. PICK x \in lengths : \A y \in lengths : x <= y
  <2>1. lengths \subseteq Nat /\ lengths # {}
    BY <1>1
  <2>2. QED
    BY <2>1, Least
<1>3. PICK k \in {l \in ks : Len(uses[l]) = x} : \A l \in {l \in ks : Len(uses[l]) = x} : k <= l
  <2>1. {l \in ks : Len(uses[l]) = x} \subseteq Nat /\ {l \in ks : Len(uses[l]) = x} # {}
    BY <1>1, <1>2
  <2>2. QED
    BY <2>1, Least
<1>4. \A l \in ks : before(k, l)
  BY <1>1, <1>2, <1>3
<1>5. LeastUsed(ks) \in ks /\ \A l \in ks : before(LeastUsed(ks), l)
  <2>1. \E m \in ks : \A l \in ks : before(m, l)
    BY <1>3, <1>4
  <2>2. LeastUsed(ks) = CHOOSE m \in ks : \A l \in ks : before(m, l)
    BY DEF LeastUsed
  <2> HIDE DEF before
  <2>3. QED
    BY <2>1, <2>2
<1>6. QED
  BY <1>1, <1>5

\* Some key is due for when the worker is to wake up: it will have rested, and if it
\* is full, its oldest use will be as old as the window.
LEMMA Wakes ==
    ASSUME Logs, resting \in [Keys -> 0 .. Rest]
    PROVE  /\ NextAvailable \in 0 .. (Window + Rest)
           /\ \E k \in Keys : /\ resting[k] <= NextAvailable
                              /\ Len(uses[k]) >= Budget => Window - uses[k][1] <= NextAvailable
<1> DEFINE full(k) == IF Len(uses[k]) >= Budget THEN Window - uses[k][1] ELSE 0
           times == {Max({full(k), resting[k]}) : k \in Keys}
<1>1. /\ Window \in Nat /\ Rest \in Nat /\ Budget \in Nat \ {0} /\ NKeys \in Nat \ {0}
      /\ \A k \in Keys : resting[k] \in 0 .. Rest
  BY ProxyAssumption
<1>2. ASSUME NEW k \in Keys PROVE full(k) \in 0 .. Window
  <2>1. Len(uses[k]) >= Budget => 1 \in DOMAIN uses[k]
    BY <1>1, LogLength DEF Logs
  <2>2. Len(uses[k]) >= Budget => uses[k][1] \in 0 .. Window
    BY <2>1, LogLength DEF Logs, Ages
  <2>3. QED
    BY <1>1, <2>2
<1>3. ASSUME NEW k \in Keys
      PROVE  /\ Max({full(k), resting[k]}) \in 0 .. (Window + Rest)
             /\ full(k) <= Max({full(k), resting[k]}) /\ resting[k] <= Max({full(k), resting[k]})
  <2>1. full(k) \in Nat /\ resting[k] \in Nat
    BY <1>1, <1>2
  <2>2. Max({full(k), resting[k]}) \in {full(k), resting[k]}
        /\ full(k) <= Max({full(k), resting[k]}) /\ resting[k] <= Max({full(k), resting[k]})
    BY <2>1, MaxOfTwo
  <2>3. QED
    BY <1>1, <1>2, <2>2
<1>4. NextAvailable = Min(times)
  BY DEF NextAvailable
<1>5. times \subseteq Nat /\ times # {}
  <2>1. 1 \in Keys
    BY <1>1 DEF Keys
  <2>2. \A k \in Keys : Max({full(k), resting[k]}) \in Nat
    BY <1>1, <1>3
  <2>3. QED
    BY <2>1, <2>2
<1>6. PICK k \in Keys : NextAvailable = Max({full(k), resting[k]})
  BY <1>4, <1>5, MinIsLeast
<1>7. /\ full(k) <= NextAvailable
      /\ resting[k] <= NextAvailable
      /\ NextAvailable \in 0 .. (Window + Rest)
  BY <1>3, <1>6
<1>8. QED
  BY <1>7

-----------------------------------------------------------------------------
(* Type correctness *)

Plain ==
    /\ client \in [Clients -> {"away", "waiting", "gone", "answered", "refused", "failed"}]
    /\ resting \in [Keys -> 0 .. Rest]
    /\ step \in {"idle", "picking", "asleep", "sending", "sent"}
    /\ attempt \in 0 .. NKeys /\ key \in Keys /\ sleep \in 0 .. (Window + Rest)
    /\ forced \in BOOLEAN

\* No use was made in this tick, unless a request was just sent.
Used ==
    /\ uses \in [Keys -> Seq(Ages)] /\ Logs
    /\ step # "sending" => \A k \in Keys : Past(uses[k])

\* A request is in the queue once, or with the worker.
Queued ==
    /\ queue \in Seq(Clients) /\ job \in Clients \cup {NoJob}
    /\ \A i, j \in DOMAIN queue : queue[i] = queue[j] => i = j
    /\ \A i \in DOMAIN queue : queue[i] # job
    /\ job = NoJob <=> step = "idle"

TInv == Plain /\ Used /\ Queued

LEMMA TypeParts == TInv => TypeOK
<1> SUFFICES ASSUME Plain, Used, Queued PROVE TypeOK
  BY DEF TInv
<1>1. IsInjective(queue) /\ job \notin Range(queue)
  BY DEF Queued, IsInjective, Range
<1>2. QED
  BY <1>1 DEF Plain, Used, Queued, Logs, Log, Ages, TypeOK

LEMMA SomeKeys == 1 \in Keys /\ Keys \subseteq Nat
BY ProxyAssumption DEF Keys

LEMMA InitTyped == Init => TInv
<1> SUFFICES ASSUME Init PROVE TInv
  OBVIOUS
<1>1. Plain
  <2>1. client \in [Clients -> {"away", "waiting", "gone", "answered", "refused", "failed"}]
        /\ resting \in [Keys -> 0 .. Rest]
    BY ProxyAssumption DEF Init
  <2>2. attempt \in 0 .. NKeys /\ key \in Keys /\ sleep \in 0 .. (Window + Rest)
    BY ProxyAssumption, SomeKeys DEF Init
  <2>3. step = "idle" /\ forced \in BOOLEAN
    BY DEF Init
  <2>4. QED
    BY <2>1, <2>2, <2>3 DEF Plain
<1>2. Used
  BY DEF Init, Used, Logs, Log, Past
<1>3. Queued
  BY ProxyAssumption DEF Init, Queued
<1>4. QED
  BY <1>1, <1>2, <1>3 DEF TInv

\* Waiting keeps the queue, a use of a key the logs.
LEMMA UseType ==
    ASSUME TInv, step \in {"picking", "asleep"}, NEW k \in Keys, NEW b \in BOOLEAN, Use(k, b)
    PROVE  TInv'
<1>1. uses' = [uses EXCEPT ![k] = Append(uses[k], 0)] /\ step' = "sending"
  BY DEF Use
<1>2. Log(Append(uses[k], 0)) /\ Append(uses[k], 0) \in Seq(Ages)
  BY Using DEF TInv, Used, Logs, Log
<1>3. Used'
  BY <1>1, <1>2 DEF TInv, Used, Logs
<1>4. Plain' /\ Queued'
  BY <1>1 DEF Use, TInv, Plain, Queued
<1>5. QED
  BY <1>3, <1>4 DEF TInv

LEMMA DeliverType ==
    ASSUME TInv, step = "sent", NEW answer \in {"answered", "refused", "failed"}, Deliver(answer),
           resting' \in [Keys -> 0 .. Rest]
    PROVE  TInv'
<1>1. step' = "idle" /\ job' = NoJob /\ UNCHANGED <<queue, uses, key>>
      /\ attempt' = 0 /\ sleep' = 0 /\ forced' = FALSE
  BY DEF Deliver
<1>2. client' \in [Clients -> {"away", "waiting", "gone", "answered", "refused", "failed"}]
  BY DEF Deliver, TInv, Plain
<1>3. Plain'
  <2>1. attempt' \in 0 .. NKeys /\ key' \in Keys /\ sleep' \in 0 .. (Window + Rest)
    BY <1>1, ProxyAssumption DEF TInv, Plain
  <2>2. forced' \in BOOLEAN
    BY <1>1
  <2>3. QED
    BY <1>1, <1>2, <2>1, <2>2 DEF Plain
<1>4. Used'
  BY <1>1 DEF TInv, Used, Logs
<1>5. \A i \in DOMAIN queue : queue[i] # NoJob
  BY ProxyAssumption DEF TInv, Queued
<1>6. Queued'
  BY <1>1, <1>5 DEF TInv, Queued
<1>7. QED
  BY <1>3, <1>4, <1>6 DEF TInv

LEMMA RestType == ASSUME TInv, Rests PROVE resting' \in [Keys -> 0 .. Rest]
BY ProxyAssumption DEF Rests, TInv, Plain

LEMMA TryAgainType == ASSUME TInv, step = "sent", TryAgain PROVE TInv'
<1>1. resting' \in [Keys -> 0 .. Rest]
  BY RestType DEF TryAgain
<1>2. attempt' \in 0 .. NKeys
  BY ProxyAssumption DEF TryAgain, TInv, Plain
<1>3. step' = "picking" /\ UNCHANGED <<client, queue, uses, job, key, sleep, forced>>
  BY DEF TryAgain
<1>4. QED
  BY <1>1, <1>2, <1>3 DEF TInv, Plain, Used, Logs, Queued

LEMMA TypeStep == TInv /\ [Next]_vars => TInv'
<1> SUFFICES ASSUME TInv, [Next]_vars PROVE TInv'
  OBVIOUS
<1>1. Plain /\ Used /\ Queued
  BY DEF TInv
<1>2. CASE \E c \in Clients : Ask(c)
  <2>1. PICK c \in Clients : Ask(c)
    BY <1>2
  <2>2. queue' = Append(queue, c) /\ c # job /\ \A i \in DOMAIN queue : queue[i] # c
    BY <2>1, <1>1 DEF Ask, Range
  <2>3. Queued'
    BY <2>1, <2>2, <1>1 DEF Ask, Queued
  <2>4. QED
    BY <2>1, <2>3, <1>1 DEF Ask, TInv, Plain, Used, Logs
<1>3. CASE \E c \in Clients : GiveUp(c)
  BY <1>1, <1>3 DEF GiveUp, TInv, Plain, Used, Logs, Queued
<1>4. CASE Tick
  <2>1. uses' = [k \in Keys |-> Older(uses[k])]
    BY <1>4 DEF Tick
  <2>2. Used'
    BY <2>1, <1>1, Aging DEF Used, Logs, Log
  <2>3. \A n \in Nat : Less(n) \in Nat /\ Less(n) <= n
    BY DEF Less
  <2>4. resting' \in [Keys -> 0 .. Rest]
    BY <1>1, <1>4, <2>3, ProxyAssumption DEF Tick, Plain
  <2>5. sleep' \in 0 .. (Window + Rest)
    BY <1>1, <1>4, <2>3, ProxyAssumption DEF Tick, Plain
  <2>6. step' = IF step = "sending" THEN "sent" ELSE step
    BY <1>4 DEF Tick
  <2>7. Plain' /\ Queued'
    BY <1>1, <1>4, <2>4, <2>5, <2>6 DEF Tick, Plain, Queued
  <2>8. QED
    BY <2>2, <2>7 DEF TInv
<1>5. CASE Take
  <2>1. queue # <<>> /\ job' = Head(queue) /\ queue' = Tail(queue) /\ step' = "picking"
        /\ attempt' = 1 /\ step = "idle"
    BY <1>5 DEF Take
  <2>2. Queued'
    BY <1>1, <2>1, ProxyAssumption DEF Queued
  <2>3. QED
    BY <1>1, <1>5, <2>1, <2>2, ProxyAssumption DEF Take, TInv, Plain, Used, Logs
<1>6. CASE Pick
  <2>1. CASE Usable # {}
    <3>1. LeastUsed(Usable) \in Keys
      BY <1>1, <2>1, LeastUsedKey DEF Usable, Used
    <3>2. QED
      BY <1>6, <2>1, <3>1, UseType DEF Pick
  <2>2. CASE Usable = {}
    <3>1. step' = "asleep" /\ step = "picking" /\ sleep' = NextAvailable
          /\ UNCHANGED <<client, queue, keyVars, job, attempt, key, forced>>
      BY <1>6, <2>2 DEF Pick
    <3>2. sleep' \in 0 .. (Window + Rest)
      BY <1>1, <3>1, Wakes DEF Used, Plain
    <3>3. QED
      BY <1>1, <3>1, <3>2 DEF TInv, Plain, Used, Logs, Queued
  <2>3. QED
    BY <2>1, <2>2
<1>7. CASE WakeUp
  <2>1. \A ks : ks \subseteq Keys /\ ks # {} => LeastUsed(ks) \in Keys
    BY <1>1, LeastUsedKey DEF Used
  <2>2. Usable \subseteq Keys /\ Keys # {}
    BY SomeKeys DEF Usable
  <2>3. \E k \in Keys : \E b \in BOOLEAN : Use(k, b)
    BY <1>7, <2>1, <2>2 DEF WakeUp
  <2>4. QED
    BY <1>7, <2>3, UseType DEF WakeUp
<1>8. CASE Respond \/ Fail
  <2>1. step = "sent"
    BY <1>8 DEF Respond, Fail
  <2>2. CASE TryAgain
    BY <2>1, <2>2, TryAgainType
  <2>3. CASE \E answer \in {"answered", "refused", "failed"} :
                 Deliver(answer) /\ (Rests \/ UNCHANGED resting)
    <3>1. resting' \in [Keys -> 0 .. Rest]
      BY <1>1, <2>3, RestType DEF Plain
    <3>2. QED
      BY <2>1, <2>3, <3>1, DeliverType
  <2>4. QED
    BY <1>8, <2>2, <2>3 DEF Respond, Fail
<1>9. CASE UNCHANGED vars
  BY <1>1, <1>9 DEF vars, TInv, Plain, Used, Logs, Queued
<1>10. QED
  BY <1>2, <1>3, <1>4, <1>5, <1>6, <1>7, <1>8, <1>9 DEF Next, Worker

LEMMA AlwaysTyped == Spec => []TInv
BY InitTyped, TypeStep, PTL DEF Spec

\* For any number of keys the worker lives, the queue holds no request twice, and
\* no log a use that is too old.
THEOREM TypeCorrect == Spec => []TypeOK
BY AlwaysTyped, TypeParts, PTL

-----------------------------------------------------------------------------
(* The budget *)

\* Within its budget; as old a use as the window can hold.
Within(k) == Len(uses[k]) <= Budget
Expiring(k) == uses[k] # <<>> /\ uses[k][1] = Window

\* When the worker wakes up this key can be used, or its oldest use expires with the
\* tick that the request takes.
InTime(k) ==
    /\ resting[k] <= sleep
    /\ Len(uses[k]) >= Budget => uses[k][1] + sleep >= Window

\* A key that goes over its budget does so beside one that is within it, or soon
\* will be.
BInv ==
    /\ \A k \in Keys : Len(uses[k]) <= Budget + 1
    /\ step # "sending" => \E k \in Keys : Within(k)
    /\ step = "sending" => \E k \in Keys : Within(k) \/ Expiring(k)
    /\ step = "asleep" => \/ \E k \in Keys : InTime(k)
                          \/ \E k, l \in Keys : k # l /\ Within(k) /\ Within(l)

LEMMA Lengths ==
    ASSUME TInv, NEW k \in Keys
    PROVE  /\ Len(uses[k]) \in Nat /\ (uses[k] # <<>> <=> Len(uses[k]) > 0)
           /\ uses[k] # <<>> => uses[k][1] \in 0 .. Window
           /\ resting[k] \in Nat
<1>1. Log(uses[k]) /\ resting[k] \in 0 .. Rest
  BY DEF TInv, Used, Logs, Plain
<1>2. uses[k] # <<>> => 1 \in DOMAIN uses[k]
  BY <1>1, LogLength DEF Log
<1>3. QED
  BY <1>1, <1>2, LogLength, ProxyAssumption DEF Log, Ages

\* A use of a key that is within its budget, beside another that is, or that is about
\* to lose a use.
LEMMA UseWithin ==
    ASSUME TInv, BInv, step \in {"picking", "asleep"}, NEW k \in Keys, NEW b \in BOOLEAN, Use(k, b),
           Within(k),
           Len(uses[k]) < Budget \/ (\E l \in Keys : Expiring(l))
                                 \/ \E l \in Keys : l # k /\ Within(l)
    PROVE  BInv'
<1>1. uses' = [uses EXCEPT ![k] = Append(uses[k], 0)] /\ step' = "sending"
  BY DEF Use
<1>2. /\ Len(Append(uses[k], 0)) = Len(uses[k]) + 1
      /\ uses[k] # <<>> => Append(uses[k], 0)[1] = uses[k][1]
  BY Using DEF TInv, Used, Logs
<1>3. uses \in [Keys -> Seq(Ages)] /\ Budget \in Nat
  BY ProxyAssumption DEF TInv, Used
<1>4. /\ \A l \in Keys : l # k => uses'[l] = uses[l]
      /\ uses'[k] = Append(uses[k], 0)
  BY <1>1, <1>3
<1>5. \A l \in Keys : Len(uses'[l]) <= Budget + 1
  BY <1>2, <1>3, <1>4, Lengths DEF BInv, Within
<1>6. \E l \in Keys : Within(l)' \/ Expiring(l)'
  <2>1. CASE Len(uses[k]) < Budget
    <3>1. Len(uses'[k]) <= Budget
      BY <1>2, <1>3, <1>4, <2>1, Lengths
    <3>2. QED
      BY <3>1 DEF Within
  <2>2. CASE \E l \in Keys : Expiring(l)
    <3>1. PICK l \in Keys : Expiring(l)
      BY <2>2
    <3>2. uses'[l][1] = Window
      BY <1>2, <1>4, <3>1 DEF Expiring
    <3>3. uses'[l] # <<>>
      <4>1. Len(uses'[l]) > 0
        BY <1>2, <1>4, <3>1, Lengths DEF Expiring
      <4>2. QED
        BY <4>1
    <3>4. QED
      BY <3>2, <3>3 DEF Expiring
  <2>3. CASE \E l \in Keys : l # k /\ Within(l)
    BY <1>4, <2>3 DEF Within
  <2>4. QED
    BY <2>1, <2>2, <2>3
<1>7. QED
  BY <1>1, <1>5, <1>6 DEF BInv

LEMMA UsableKeys ==
    ASSUME TInv, NEW b \in BOOLEAN, BInv, step \in {"picking", "asleep"}, Usable # {},
           Use(LeastUsed(Usable), b)
    PROVE  BInv'
<1>1. Usable \subseteq Keys
  BY DEF Usable
<1>2. LeastUsed(Usable) \in Usable
  BY <1>1, LeastUsedKey DEF TInv, Used
<1>3. Len(uses[LeastUsed(Usable)]) < Budget /\ LeastUsed(Usable) \in Keys
  BY <1>2 DEF Usable, CanUse
<1>4. Within(LeastUsed(Usable))
  BY <1>3, Lengths, ProxyAssumption DEF Within
<1>5. QED
  BY <1>3, <1>4, UseWithin

\* A tick makes no log longer, and takes the use that expires.
LEMMA Ticked ==
    ASSUME TInv, Tick, NEW k \in Keys
    PROVE  /\ Len(uses'[k]) <= Len(uses[k])
           /\ Expiring(k) => Len(uses'[k]) = Len(uses[k]) - 1
           /\ uses[k] # <<>> /\ ~Expiring(k) => uses'[k][1] = uses[k][1] + 1
           /\ resting'[k] = Less(resting[k])
<1>1. uses'[k] = Older(uses[k]) /\ resting'[k] = Less(resting[k])
  BY DEF Tick
<1>2. Log(uses[k])
  BY DEF TInv, Used, Logs
<1>3. QED
  BY <1>1, <1>2, Aging, Lengths DEF Expiring

LEMMA TickBudget == ASSUME TInv, BInv, Tick PROVE BInv'
<1>1. Budget \in Nat \ {0} /\ Window \in Nat /\ sleep \in Nat
  BY ProxyAssumption DEF TInv, Plain
<1>2. step' = IF step = "sending" THEN "sent" ELSE step
  BY DEF Tick
<1>3. sleep' = Less(sleep)
  BY DEF Tick
<1>4. \A k \in Keys : Len(uses'[k]) \in Nat /\ Len(uses'[k]) <= Len(uses[k])
  <2>1. TInv'
    BY TypeStep DEF Next
  <2>2. \A k \in Keys : Log(uses'[k])
    BY <2>1 DEF TInv, Used, Logs
  <2>3. QED
    BY <2>2, LogLength, Ticked
<1>5. \A k \in Keys : Within(k) => Within(k)'
  BY <1>1, <1>4, Lengths DEF Within
<1>6. \A k \in Keys : Expiring(k) => Within(k)'
  BY <1>1, <1>4, Lengths, Ticked DEF BInv, Within
<1>7. \A k \in Keys : Len(uses'[k]) <= Budget + 1
  BY <1>1, <1>4, Lengths DEF BInv
<1>8. \E k \in Keys : Within(k)'
  BY <1>5, <1>6 DEF BInv
<1>9. ASSUME step = "asleep", NEW k \in Keys, InTime(k)
      PROVE  InTime(k)' \/ \E l \in Keys : l # k /\ Within(k)' /\ Within(l)'
  <2>1. resting'[k] <= sleep'
    BY <1>1, <1>3, <1>9, Lengths, Ticked DEF InTime, Less
  <2>2. CASE Len(uses'[k]) < Budget
    BY <1>1, <1>4, <2>1, <2>2 DEF InTime
  <2>3. CASE Len(uses'[k]) >= Budget /\ Expiring(k)
    <3>1. ~Within(k)
      BY <1>1, <1>4, <2>3, Lengths, Ticked DEF Within
    <3>2. PICK l \in Keys : Within(l)
      BY <1>9 DEF BInv
    <3>3. l # k
      BY <3>1, <3>2
    <3>4. QED
      BY <1>5, <1>6, <2>3, <3>2, <3>3
  <2>4. CASE Len(uses'[k]) >= Budget /\ ~Expiring(k)
    <3>1. uses[k] # <<>> /\ Len(uses[k]) >= Budget
      BY <1>1, <1>4, <2>4, Lengths
    <3>2. uses'[k][1] = uses[k][1] + 1 /\ uses[k][1] < Window /\ uses[k][1] \in Nat
      BY <1>1, <2>4, <3>1, Lengths, Ticked DEF Expiring
    <3>3. uses[k][1] + sleep >= Window
      BY <1>9, <3>1 DEF InTime
    <3>4. uses'[k][1] + sleep' >= Window
      BY <1>1, <1>3, <3>2, <3>3 DEF Less
    <3>5. QED
      BY <2>1, <3>4 DEF InTime
  <2>5. QED
    BY <1>1, <1>4, <2>2, <2>3, <2>4
<1>10. step' = "asleep" => \/ \E k \in Keys : InTime(k)'
                           \/ \E k, l \in Keys : k # l /\ Within(k)' /\ Within(l)'
  <2> SUFFICES ASSUME step' = "asleep"
               PROVE  \/ \E k \in Keys : InTime(k)'
                      \/ \E k, l \in Keys : k # l /\ Within(k)' /\ Within(l)'
    OBVIOUS
  <2>1. step = "asleep"
    BY <1>2
  <2>2. CASE \E k \in Keys : InTime(k)
    BY <1>9, <2>1, <2>2
  <2>3. CASE \E k, l \in Keys : k # l /\ Within(k) /\ Within(l)
    BY <1>5, <2>3
  <2>4. QED
    BY <2>1, <2>2, <2>3 DEF BInv
<1>11. QED
  BY <1>2, <1>7, <1>8, <1>10 DEF BInv

LEMMA BudgetStep == TInv /\ BInv /\ [Next]_vars => BInv'
<1> SUFFICES ASSUME TInv, BInv, [Next]_vars PROVE BInv'
  OBVIOUS
<1>1. CASE \E c \in Clients : Ask(c) \/ GiveUp(c)
  BY <1>1 DEF Ask, GiveUp, BInv, Within, Expiring, InTime
<1>2. CASE Tick
  BY <1>2, TickBudget
<1>3. CASE Take
  BY <1>3 DEF Take, BInv, Within
<1>4. CASE Pick
  <2>1. CASE Usable # {}
    BY <1>4, <2>1, UsableKeys DEF Pick
  <2>2. CASE Usable = {}
    <3>1. step' = "asleep" /\ sleep' = NextAvailable /\ step = "picking" /\ UNCHANGED keyVars
      BY <1>4, <2>2 DEF Pick
    <3>2. PICK k \in Keys : /\ resting[k] <= NextAvailable
                            /\ Len(uses[k]) >= Budget => Window - uses[k][1] <= NextAvailable
      BY Wakes DEF TInv, Used, Plain
    <3>3. InTime(k)'
      <4>1. NextAvailable \in Nat /\ Window \in Nat /\ Budget \in Nat \ {0}
        BY Wakes, ProxyAssumption DEF TInv, Used, Plain
      <4>2. Len(uses[k]) >= Budget => uses[k][1] \in Nat
        BY <4>1, Lengths
      <4>3. QED
        BY <3>1, <3>2, <4>1, <4>2 DEF InTime
    <3>4. QED
      BY <3>1, <3>3 DEF BInv, Within
  <2>3. QED
    BY <2>1, <2>2
<1>5. CASE WakeUp
  <2>1. step = "asleep" /\ sleep = 0
    BY <1>5 DEF WakeUp
  <2>2. CASE Usable # {}
    BY <1>5, <2>1, <2>2, UsableKeys DEF WakeUp
  <2>3. CASE Usable = {}
    <3> DEFINE k == LeastUsed(Keys)
    <3>1. Use(k, TRUE)
      BY <1>5, <2>3 DEF WakeUp
    <3>2. k \in Keys /\ \A l \in Keys : Len(uses[k]) <= Len(uses[l])
      BY SomeKeys, LeastUsedKey DEF TInv, Used
    <3> HIDE DEF k
    <3>3. Within(k)
      <4>1. PICK l \in Keys : Within(l)
        BY <2>1 DEF BInv
      <4>2. QED
        BY <3>2, <4>1, Lengths, ProxyAssumption DEF Within
    <3>4. CASE \E l \in Keys : InTime(l)
      <4>1. PICK l \in Keys : InTime(l)
        BY <3>4
      <4>2. resting[l] = 0
        BY <2>1, <4>1, Lengths DEF InTime
      <4>3. Len(uses[l]) >= Budget
        BY <2>3, <4>2, Lengths, ProxyAssumption DEF Usable, CanUse
      <4>4. Expiring(l)
        BY <2>1, <4>1, <4>3, Lengths, ProxyAssumption DEF InTime, Expiring
      <4>5. QED
        BY <2>1, <3>1, <3>2, <3>3, <4>4, UseWithin
    <3>5. CASE \E l, m \in Keys : l # m /\ Within(l) /\ Within(m)
      <4>1. \E l \in Keys : l # k /\ Within(l)
        BY <3>5
      <4>2. QED
        BY <2>1, <3>1, <3>2, <3>3, <4>1, UseWithin
    <3>6. QED
      BY <2>1, <3>4, <3>5 DEF BInv
  <2>4. QED
    BY <2>2, <2>3
<1>6. CASE Respond \/ Fail
  <2>1. step = "sent" /\ step' \in {"idle", "picking"} /\ UNCHANGED uses
    BY <1>6 DEF Respond, Fail, Deliver, TryAgain
  <2>2. QED
    BY <2>1 DEF BInv, Within
<1>7. CASE UNCHANGED vars
  BY <1>7 DEF vars, BInv, Within, Expiring, InTime
<1>8. QED
  BY <1>1, <1>2, <1>3, <1>4, <1>5, <1>6, <1>7 DEF Next, Worker

\* For any number of keys and every budget: whatever rests, errors and late wake-ups
\* there are, the last resort takes a key over its budget by one use at most.
THEOREM KeysWithinBudget == Spec => []BudgetHeld
<1>1. Init => BInv
  <2> SUFFICES ASSUME Init PROVE BInv
    OBVIOUS
  <2>1. \A k \in Keys : Len(uses[k]) = 0
    BY DEF Init
  <2>2. QED
    BY <2>1, SomeKeys, ProxyAssumption DEF Init, BInv, Within
<1>2. BInv => BudgetHeld
  BY DEF BInv, BudgetHeld
<1>3. QED
  BY <1>1, <1>2, AlwaysTyped, BudgetStep, PTL DEF Spec
=============================================================================
