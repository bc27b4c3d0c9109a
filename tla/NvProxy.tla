------------------------------- MODULE NvProxy -------------------------------
(***************************************************************************)
(* The NVIDIA proxy (nv_proxy.py): HTTP requests wait in one FIFO queue,   *)
(* one worker sends them upstream with one of several keys, each with a    *)
(* budget of uses per window and a rest after an error, and a client that  *)
(* has waited too long is sent away with a 504.                            *)
(*                                                                         *)
(* Time goes by in ticks.  What the code computes from time stamps is kept *)
(* as ages and remaining times, so that no clock has to be bounded: a use  *)
(* is forgotten once it is older than the window, as _prune does whenever  *)
(* the log is looked at.                                                   *)
(***************************************************************************)
EXTENDS Naturals, FiniteSetsExt, SequencesExt

CONSTANTS
    Clients,   \* each has one request at a time
    NKeys,     \* the keys are 1 .. NKeys, in the order of their idx
    Budget,    \* REQUESTS_PER_MINUTE_PER_KEY
    Window,    \* the 60 seconds of the budget
    Rest,      \* ERROR_COOLDOWN_SECONDS
    NoJob

ASSUME ProxyAssumption ==
    /\ NKeys \in Nat \ {0} /\ Budget \in Nat \ {0} /\ Window \in Nat \ {0} /\ Rest \in Nat
    /\ NoJob \notin Clients

Keys == 1 .. NKeys

VARIABLES
    client,    \* what became of a client's request
    queue,     \* self.queue
    uses,      \* KeyState.history, as ages, the oldest first
    resting,   \* error_cooldown_until, as ticks that are left
    step,      \* where the worker is
    job,       \* the client whose request the worker has
    attempt,
    key,       \* the key of the request under way
    sleep,     \* ticks until the worker wakes up
    forced     \* history: was the key taken although none was usable

keyVars == <<uses, resting>>
workVars == <<step, job, attempt, key, sleep, forced>>
vars == <<client, queue, keyVars, workVars>>

Init ==
    /\ client = [c \in Clients |-> "away"] /\ queue = <<>>
    /\ uses = [k \in Keys |-> <<>>] /\ resting = [k \in Keys |-> 0]
    /\ step = "idle" /\ job = NoJob /\ attempt = 0 /\ key = 1 /\ sleep = 0 /\ forced = FALSE

-----------------------------------------------------------------------------
(* Clients and time *)

\* proxy() queues the request with a future and waits for it.
Ask(c) ==
    /\ client[c] # "waiting" /\ c \notin Range(queue) /\ c # job
    /\ client' = [client EXCEPT ![c] = "waiting"]
    /\ queue' = Append(queue, c)
    /\ UNCHANGED <<keyVars, workVars>>

\* wait_for gives up and cancels the future; the request stays where it is.
GiveUp(c) ==
    /\ client[c] = "waiting"
    /\ client' = [client EXCEPT ![c] = "gone"]
    /\ UNCHANGED <<queue, keyVars, workVars>>

\* The uses at the head of the log that are too old in the next tick.
Expired(ages) ==
    CHOOSE n \in 0 .. Len(ages) : \A i \in DOMAIN ages : i <= n <=> ages[i] >= Window

\* _prune, a tick later: a use as old as the window still counts.
Older(ages) == [i \in 1 .. Len(ages) - Expired(ages) |-> ages[i + Expired(ages)] + 1]

Less(n) == IF n = 0 THEN 0 ELSE n - 1

\* Time goes by while the worker waits for something.  It may wake up late.
Tick ==
    /\ step \in {"idle", "asleep", "sending", "sent"}
    /\ step = "idle" => queue = <<>>
    /\ uses' = [k \in Keys |-> Older(uses[k])]
    /\ resting' = [k \in Keys |-> Less(resting[k])]
    /\ sleep' = Less(sleep)
    /\ step' = IF step = "sending" THEN "sent" ELSE step
    /\ UNCHANGED <<client, queue, job, attempt, key, forced>>
-----------------------------------------------------------------------------
(* The worker *)

Take ==
    /\ step = "idle" /\ queue # <<>>
    /\ job' = Head(queue) /\ queue' = Tail(queue)
    /\ attempt' = 1 /\ step' = "picking"
    /\ UNCHANGED <<client, keyVars, key, sleep, forced>>

\* Faulty variant: a key with a full log counts as usable once more.
CanUseOnceMore(k) == resting[k] = 0 /\ Len(uses[k]) <= Budget

\* can_use.
CanUse(k) == resting[k] = 0 /\ Len(uses[k]) < Budget

Usable == {k \in Keys : CanUse(k)}

\* The key with the fewest uses, of these the one with the lowest idx.
LeastUsed(ks) ==
    LET before(k, l) == Len(uses[k]) < Len(uses[l]) \/ (Len(uses[k]) = Len(uses[l]) /\ k <= l)
    IN  CHOOSE k \in ks : \A l \in ks : before(k, l)

\* _next_available_at, as ticks from now: when the oldest use of a full log is as
\* old as the window, and the rest of a key is over.
NextAvailable ==
    LET full(k) == IF Len(uses[k]) >= Budget THEN Window - uses[k][1] ELSE 0
    IN  Min({Max({full(k), resting[k]}) : k \in Keys})

\* The request goes out with this key; time passes until there is an answer.
Use(k, byForce) ==
    /\ key' = k /\ forced' = byForce
    /\ uses' = [uses EXCEPT ![k] = Append(@, 0)]
    /\ step' = "sending"
    /\ UNCHANGED <<client, queue, resting, job, attempt, sleep>>

Pick ==
    /\ step = "picking"
    /\ IF Usable # {}
       THEN Use(LeastUsed(Usable), FALSE)
       ELSE /\ step' = "asleep" /\ sleep' = NextAvailable
            /\ UNCHANGED <<client, queue, keyVars, job, attempt, key, forced>>

\* When there is still no usable key, the least used of all is taken.
WakeUp ==
    /\ step = "asleep" /\ sleep = 0
    /\ IF Usable # {} THEN Use(LeastUsed(Usable), FALSE) ELSE Use(LeastUsed(Keys), TRUE)

\* Faulty variant: a future that is done already ends the worker.
DeliverOrDie(answer) ==
    /\ client' = IF client[job] = "waiting" THEN [client EXCEPT ![job] = answer] ELSE client
    /\ step' = IF client[job] = "waiting" THEN "idle" ELSE "dead"
    /\ job' = NoJob /\ attempt' = 0 /\ sleep' = 0 /\ forced' = FALSE
    /\ UNCHANGED <<queue, uses, key>>

\* The result goes to the client, unless it has given up.
Deliver(answer) ==
    /\ client' = IF client[job] = "waiting" THEN [client EXCEPT ![job] = answer] ELSE client
    /\ step' = "idle" /\ job' = NoJob /\ attempt' = 0 /\ sleep' = 0 /\ forced' = FALSE
    /\ UNCHANGED <<queue, uses, key>>

Rests == resting' = [resting EXCEPT ![key] = Rest]

\* Faulty variant: the last attempt tries again too.
TryAgainAfterLast ==
    /\ attempt <= NKeys
    /\ attempt' = attempt + 1 /\ step' = "picking" /\ Rests
    /\ UNCHANGED <<client, queue, uses, job, key, sleep, forced>>

TryAgain ==
    /\ attempt < NKeys
    /\ attempt' = attempt + 1 /\ step' = "picking" /\ Rests
    /\ UNCHANGED <<client, queue, uses, job, key, sleep, forced>>

\* An answer that is final, or a status that may pass: the last attempt hands it on,
\* and its key is not put to rest.
Respond ==
    /\ step = "sent"
    /\ \/ Deliver("answered") /\ UNCHANGED resting
       \/ TryAgain
       \/ attempt = NKeys /\ Deliver("refused") /\ UNCHANGED resting

\* No answer: a network error or a timeout; anything else that is raised ends the
\* request, not the worker.
Fail ==
    /\ step = "sent"
    /\ \/ TryAgain
       \/ attempt = NKeys /\ Deliver("failed") /\ Rests
       \/ Deliver("failed") /\ UNCHANGED resting

Worker == Take \/ Pick \/ WakeUp \/ Respond \/ Fail

Next ==
    \/ \E c \in Clients : Ask(c) \/ GiveUp(c)
    \/ Tick \/ Worker

\* The event loop runs the worker, the session's timeouts end every request, and
\* time goes by.
Spec == Init /\ [][Next]_vars /\ WF_vars(Worker) /\ WF_vars(Tick)
-----------------------------------------------------------------------------
(* Properties *)

\* Every variable has its type, and the queue holds no request twice.
TypeOK ==
    /\ client \in [Clients -> {"away", "waiting", "gone", "answered", "refused", "failed"}]
    /\ queue \in Seq(Clients) /\ IsInjective(queue) /\ job \notin Range(queue)
    /\ \A k \in Keys : /\ uses[k] \in Seq(0 .. Window)
                       /\ \A i, j \in DOMAIN uses[k] : i < j => uses[k][i] > uses[k][j]
    /\ resting \in [Keys -> 0 .. Rest]
    /\ step \in {"idle", "picking", "asleep", "sending", "sent"}
    /\ job \in Clients \cup {NoJob} /\ (job = NoJob <=> step = "idle")
    /\ attempt \in 0 .. NKeys /\ key \in Keys /\ sleep \in 0 .. (Window + Rest)
    /\ forced \in BOOLEAN

\* A key goes over its budget by one at most: the budget counts a use that is just
\* as old as the window, the waiting time does not.
BudgetHeld == \A k \in Keys : Len(uses[k]) <= Budget + 1

\* The worker never dies: a request that is in the queue leaves it, whatever became
\* of the requests, and the clients, before it.
QueueMoves == \A c \in Clients : (c \in Range(queue)) ~> (c \notin Range(queue))
=============================================================================
