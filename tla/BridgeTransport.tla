-------------------------- MODULE BridgeTransport --------------------------
(***************************************************************************)
(* How a browser action travels from an MCP tool call to Chrome and back.  *)
(* A caller (sensei_mcp_server.py) pushes the action to the bridge         *)
(* (sensei_bridge.py), which queues it in memory; a poller of the Chrome   *)
(* extension, either an open side panel or the service worker standing in  *)
(* for it, pops the whole queue, carries the actions out one after the     *)
(* other and posts each result, for which the caller has been polling.     *)
(*                                                                         *)
(* Granularity: one HTTP request is one step at the bridge, whose handlers *)
(* hold a lock while they touch the queue or the results; the reply may be *)
(* lost.  Every producer and poller of the code uses the one bucket        *)
(* "mcp-default", so there is one queue.  Times are left out: a caller may *)
(* give up at any moment.  Most browser calls are raced against 15 s, and  *)
(* the page may act after that; others (BROWSER_JS, BROWSER_FIND, the      *)
(* shortcuts) are awaited without a limit and may never return, and while  *)
(* a poller awaits one its flag keeps it from polling again.               *)
(***************************************************************************)
EXTENDS Naturals, Sequences, FiniteSets

CONSTANTS
    Callers,     \* MCP server processes, each with one call at a time
    Panels,      \* side panel documents, one per browser window
    Worker,      \* the extension's service worker
    QueueMax,    \* _QUEUE_MAX_PER_SESSION (200)
    ResultsMax,  \* _RESULTS_MAX (1000)
    Timed,       \* the actions whose browser call is raced against 15 s
    MaxCalls,    \* bound: tool calls
    MaxOpens,    \* bound: side panels opened
    MaxFaults    \* bound: lost replies, closed panels, suspensions, restarts

ASSUME TransportAssumption ==
    /\ Worker \notin Panels
    /\ QueueMax \in Nat \ {0} /\ ResultsMax \in Nat \ {0}
    /\ MaxCalls \in Nat /\ MaxOpens \in Nat /\ MaxFaults \in Nat

VARIABLES
    up,        \* is the bridge running
    queue,     \* the actions queued at the bridge
    results,   \* the results the bridge holds, oldest first
    calling,   \* the action a caller is at, NoAction between calls
    stage,     \* where a caller is in _dispatch
    answer,    \* what a caller was told of an action: the verdict, or why there is none
    at,        \* where a poller is; "off" is a panel that is not open
    batch,     \* the actions a poller has popped and not finished
    outcome,   \* the result a poller is about to post
    port,      \* is a panel's port to the service worker connected
    panelConnected, \* the service worker's _panelConnected
    late,      \* actions a page may still carry out though nobody waits
    \* The rest is history, which no guard but a bound reads.
    pushed,    \* the actions in the order the bridge queued them
    started,   \* the actions in the order pollers took them up
    executed,  \* how often a page carried an action out
    overlap,   \* have two pollers held actions at the same time
    handedOff, \* has the worker dropped a batch for a panel
    opens, faults

bridge == <<up, queue, results>>
caller == <<calling, stage, answer>>
browser == <<port, panelConnected>>
poller == <<at, batch, outcome>>
history == <<pushed, started, executed, overlap, handedOff, opens, faults>>
vars == <<bridge, caller, poller, browser, late, history>>

Pollers == Panels \cup {Worker}
Actions == 1 .. MaxCalls
NoAction == 0
Verdict == {"ok", "failed"}
Elements(s) == {s[k] : k \in DOMAIN s}

\* The actions some call has been given; ids are fresh (uuid4).
Issued == {a \in Actions : answer[a] # "none"} \cup {calling[c] : c \in Callers}

Init ==
    /\ up = TRUE /\ queue = <<>> /\ results = <<>>
    /\ calling = [c \in Callers |-> NoAction]
    /\ stage = [c \in Callers |-> "idle"]
    /\ answer = [a \in Actions |-> "none"]
    /\ at = [p \in Pollers |-> IF p = Worker THEN "idle" ELSE "off"]
    /\ batch = [p \in Pollers |-> <<>>]
    /\ outcome = [p \in Pollers |-> "failed"]
    /\ port = [p \in Panels |-> FALSE] /\ panelConnected = FALSE
    /\ late = {}
    /\ pushed = <<>> /\ started = <<>> /\ executed = [a \in Actions |-> 0]
    /\ overlap = FALSE /\ handedOff = FALSE /\ opens = 0 /\ faults = 0

\* One of the things that may go wrong does.
Fault == faults < MaxFaults /\ faults' = faults + 1

-----------------------------------------------------------------------------
(* sensei_mcp_server.py: _dispatch *)

\* The call ends and reports a.
Return(c, reply) ==
    /\ answer' = [answer EXCEPT ![calling[c]] = reply]
    /\ calling' = [calling EXCEPT ![c] = NoAction]
    /\ stage' = [stage EXCEPT ![c] = "idle"]

\* A tool call starts and asks whether the bridge is alive.
Call(c) ==
    /\ stage[c] = "idle"
    /\ \E a \in Actions \ Issued :
          /\ \A b \in Actions : b < a => b \in Issued
          /\ IF up
             THEN /\ calling' = [calling EXCEPT ![c] = a]
                  /\ stage' = [stage EXCEPT ![c] = "push"]
                  /\ UNCHANGED answer
             ELSE /\ answer' = [answer EXCEPT ![a] = "unreachable"]
                  /\ UNCHANGED <<calling, stage>>
    /\ UNCHANGED <<bridge, poller, browser, late, history>>

\* Faulty variant: the newest action is queued first.
EnqueuedFirst(q, a) == <<a>> \o q

\* Faulty variant: the queue has no cap.
EnqueuedUncapped(q, a) == Append(q, a)

\* do_POST /extension/queue: past the cap the oldest actions are dropped.
Enqueued(q, a) ==
    Append(IF Len(q) >= QueueMax THEN SubSeq(q, Len(q) + 2 - QueueMax, Len(q)) ELSE q, a)

\* _push: the bridge queues the action, and the caller learns it or not.
Push(c) ==
    /\ stage[c] = "push"
    /\ up
    /\ queue' = Enqueued(queue, calling[c])
    /\ pushed' = Append(pushed, calling[c])
    /\ \/ /\ stage' = [stage EXCEPT ![c] = "await"]
          /\ UNCHANGED <<calling, answer, faults>>
       \/ Fault /\ Return(c, "push_failed")
    /\ UNCHANGED <<up, results, poller, browser, late,
                   started, executed, overlap, handedOff, opens>>

\* _push while the bridge is down.
PushRefused(c) ==
    /\ stage[c] = "push"
    /\ ~up
    /\ Return(c, "push_failed")
    /\ UNCHANGED <<bridge, poller, browser, late, history>>

\* Faulty variant: the lookup ignores the action id.
ResultsForAny(a) == Elements(results)

\* GET /extension/result: the records held for action a, at most one.
ResultsFor(a) == {rec \in Elements(results) : rec.id = a}

\* _await_result finds the result ...
AwaitResult(c) ==
    /\ stage[c] = "await"
    /\ up
    /\ \E rec \in ResultsFor(calling[c]) : Return(c, rec.verdict)
    /\ UNCHANGED <<bridge, poller, browser, late, history>>

\* ... or gives up after WAIT_SECONDS; the action stays wherever it is.
AwaitTimeout(c) ==
    /\ stage[c] = "await"
    /\ Return(c, "timeout")
    /\ UNCHANGED <<bridge, poller, browser, late, history>>

-----------------------------------------------------------------------------
(* The pollers: mcpPoll in side_panel.js, swMcpPoll in service_worker.js *)

MayPoll(p) == at[p] = "idle" /\ (p = Worker => ~panelConnected)

\* Faulty variant: the bridge hands the actions out and keeps them.
PollKeeping(p) ==
    /\ MayPoll(p)
    /\ up /\ queue # <<>>
    /\ batch' = [batch EXCEPT ![p] = queue]
    /\ at' = [at EXCEPT ![p] = "run"]
    /\ overlap' = (overlap \/ \E q \in Pollers \ {p} : batch[q] # <<>>)
    /\ UNCHANGED <<bridge, caller, outcome, browser, late,
                   pushed, started, executed, handedOff, opens, faults>>

\* GET /extension/pending pops the whole queue; the reply arrives, or is lost
\* (the fetch is aborted after 3 s) and the actions with it.
Poll(p) ==
    /\ MayPoll(p)
    /\ up /\ queue # <<>>
    /\ queue' = <<>>
    /\ \/ /\ batch' = [batch EXCEPT ![p] = queue]
          /\ at' = [at EXCEPT ![p] = "run"]
          /\ overlap' = (overlap \/ \E q \in Pollers \ {p} : batch[q] # <<>>)
          /\ UNCHANGED faults
       \/ Fault /\ UNCHANGED <<batch, at, overlap>>
    /\ UNCHANGED <<up, results, caller, outcome, browser, late,
                   pushed, started, executed, handedOff, opens>>

\* The worker finds a panel connected between two actions and drops the rest.
HandOff ==
    /\ at[Worker] = "run"
    /\ panelConnected
    /\ at' = [at EXCEPT ![Worker] = "idle"]
    /\ batch' = [batch EXCEPT ![Worker] = <<>>]
    /\ handedOff' = TRUE
    /\ UNCHANGED <<bridge, caller, outcome, browser, late,
                   pushed, started, executed, overlap, opens, faults>>

\* The next action of the batch goes to the browser.
Start(p) ==
    /\ at[p] = "run"
    /\ p = Worker => ~panelConnected
    /\ at' = [at EXCEPT ![p] = "act"]
    /\ started' = Append(started, Head(batch[p]))
    /\ UNCHANGED <<bridge, caller, batch, outcome, browser, late,
                   pushed, executed, overlap, handedOff, opens, faults>>

\* dispatchMcpAction / _swDispatchMcpAction returns, if ever: the page did it, or
\* it failed, or 15 s passed first and the page may do it yet.
Finish(p) ==
    /\ at[p] = "act"
    /\ at' = [at EXCEPT ![p] = "post"]
    /\ \/ /\ outcome' = [outcome EXCEPT ![p] = "ok"]
          /\ executed' = [executed EXCEPT ![Head(batch[p])] = @ + 1]
          /\ UNCHANGED late
       \/ /\ outcome' = [outcome EXCEPT ![p] = "failed"]
          /\ late' \in {late, late \cup {Head(batch[p])}}
          /\ UNCHANGED executed
    /\ UNCHANGED <<bridge, caller, batch, browser,
                   pushed, started, overlap, handedOff, opens, faults>>

\* do_POST /extension/mcp_result: past the cap the oldest results are dropped.
Recorded(rs, rec) ==
    LET all == Append(rs, rec)
    IN  SubSeq(all, IF Len(all) > ResultsMax THEN Len(all) + 1 - ResultsMax ELSE 1, Len(all))

\* Faulty variant: the poller returns after the first action.
PostOnlyFirst(p) ==
    /\ at[p] = "post"
    /\ up
    /\ results' = Recorded(results, [id |-> Head(batch[p]), verdict |-> outcome[p]])
    /\ batch' = [batch EXCEPT ![p] = <<>>]
    /\ at' = [at EXCEPT ![p] = "idle"]
    /\ UNCHANGED <<up, queue, caller, outcome, browser, late, history>>

\* The result is posted; a post that fails is only logged.
Post(p) ==
    /\ at[p] = "post"
    /\ \/ /\ up
          /\ results' = Recorded(results, [id |-> Head(batch[p]), verdict |-> outcome[p]])
          /\ UNCHANGED faults
       \/ ~up /\ UNCHANGED <<results, faults>>
       \/ up /\ Fault /\ UNCHANGED results
    /\ batch' = [batch EXCEPT ![p] = Tail(@)]
    /\ at' = [at EXCEPT ![p] = IF Tail(batch[p]) = <<>> THEN "idle" ELSE "run"]
    /\ UNCHANGED <<up, queue, caller, outcome, browser, late,
                   pushed, started, executed, overlap, handedOff, opens>>

\* A page carries out an action after its poller stopped waiting.
LateExecute(a) ==
    /\ a \in late
    /\ late' = late \ {a}
    /\ executed' = [executed EXCEPT ![a] = @ + 1]
    /\ UNCHANGED <<bridge, caller, poller, browser,
                   pushed, started, overlap, handedOff, opens, faults>>

-----------------------------------------------------------------------------
(* Panels open and close; the worker is suspended; the bridge restarts *)

OpenPanel(p) ==
    /\ at[p] = "off"
    /\ opens < MaxOpens /\ opens' = opens + 1
    /\ at' = [at EXCEPT ![p] = "idle"]
    /\ port' = [port EXCEPT ![p] = TRUE]
    /\ panelConnected' = TRUE
    /\ UNCHANGED <<bridge, caller, batch, outcome, late,
                   pushed, started, executed, overlap, handedOff, faults>>

\* A poller's document or worker is gone, with the actions it held; the page
\* may still carry out the one it was at.
Dropped(p, rest) ==
    /\ at' = [at EXCEPT ![p] = rest]
    /\ batch' = [batch EXCEPT ![p] = <<>>]
    /\ late' \in {late, IF at[p] = "act" THEN late \cup {Head(batch[p])} ELSE late}

\* Faulty variant: the worker does not listen for the port to disconnect.
ClosePanelUnheard(p) ==
    /\ at[p] # "off"
    /\ IF batch[p] = <<>> THEN UNCHANGED faults ELSE Fault
    /\ Dropped(p, "off")
    /\ port' = [port EXCEPT ![p] = FALSE]
    /\ UNCHANGED <<panelConnected, bridge, caller, outcome,
                   pushed, started, executed, overlap, handedOff, opens>>

\* Any panel's disconnecting port clears the worker's one flag.
ClosePanel(p) ==
    /\ at[p] # "off"
    /\ IF batch[p] = <<>> THEN UNCHANGED faults ELSE Fault
    /\ Dropped(p, "off")
    /\ port' = [port EXCEPT ![p] = FALSE]
    /\ panelConnected' = (panelConnected /\ ~port[p])
    /\ UNCHANGED <<bridge, caller, outcome,
                   pushed, started, executed, overlap, handedOff, opens>>

\* Chrome suspends the worker; the alarm starts it again, with its flag reset.
\* The panels' ports are gone and the panels do not reconnect.
SuspendWorker ==
    /\ Fault
    /\ Dropped(Worker, "idle")
    /\ port' = [p \in Panels |-> FALSE]
    /\ panelConnected' = FALSE
    /\ UNCHANGED <<bridge, caller, outcome,
                   pushed, started, executed, overlap, handedOff, opens>>

\* The bridge stops; queue and results were in memory only.
StopBridge ==
    /\ up
    /\ Fault
    /\ up' = FALSE /\ queue' = <<>> /\ results' = <<>>
    /\ UNCHANGED <<caller, poller, browser, late,
                   pushed, started, executed, overlap, handedOff, opens>>

StartBridge ==
    /\ ~up
    /\ up' = TRUE
    /\ UNCHANGED <<queue, results, caller, poller, browser, late, history>>

-----------------------------------------------------------------------------
CallerNext(c) == Call(c) \/ Push(c) \/ PushRefused(c) \/ AwaitResult(c) \/ AwaitTimeout(c)
PollerStep(p) == Poll(p) \/ Start(p) \/ Finish(p) \/ Post(p)

Next ==
    \/ \E c \in Callers : CallerNext(c)
    \/ \E p \in Pollers : PollerStep(p)
    \/ \E p \in Panels : OpenPanel(p) \/ ClosePanel(p)
    \/ \E a \in Actions : LateExecute(a)
    \/ HandOff \/ SuspendWorker \/ StopBridge \/ StartBridge

\* What a poller does without the browser: the requests have time limits.
ByItself(p) == Poll(p) \/ Start(p) \/ Post(p)

\* A browser call that is raced against 15 s.
FinishTimed(p) == Finish(p) /\ Head(batch[p]) \in Timed

\* Each poller's timer fires again and again (setInterval in a panel, the
\* one-minute alarm for the worker), and a call with a time limit ends.  Nothing is
\* assumed of a call without one.
Fairness == WF_vars(HandOff) /\ \A p \in Pollers : WF_vars(ByItself(p) \/ FinishTimed(p))

Spec == Init /\ [][Next]_vars /\ Fairness

-----------------------------------------------------------------------------
(* Properties *)

\* Every variable holds a value of its type.
TypeOK ==
    /\ up \in BOOLEAN
    /\ queue \in Seq(Actions) /\ Len(queue) <= QueueMax
    /\ results \in Seq([id : Actions, verdict : Verdict]) /\ Len(results) <= ResultsMax
    /\ calling \in [Callers -> Actions \cup {NoAction}]
    /\ stage \in [Callers -> {"idle", "push", "await"}]
    /\ answer \in [Actions -> {"none", "unreachable", "push_failed", "timeout"} \cup Verdict]
    /\ at \in [Pollers -> {"off", "idle", "run", "act", "post"}]
    /\ batch \in [Pollers -> Seq(Actions)]
    /\ outcome \in [Pollers -> Verdict]
    /\ port \in [Panels -> BOOLEAN] /\ panelConnected \in BOOLEAN
    /\ late \subseteq Actions
    /\ pushed \in Seq(Actions) /\ started \in Seq(Actions)
    /\ executed \in [Actions -> Nat]
    /\ overlap \in BOOLEAN /\ handedOff \in BOOLEAN
    /\ opens \in 0 .. MaxOpens /\ faults \in 0 .. MaxFaults

\* However panels come and go, the worker and the bridge die and replies are
\* lost, a page carries an action out at most once: the pop of a queue, the
\* worker's handing over and a result posted twice never repeat an action.
AtMostOnce == \A a \in Actions : executed[a] + (IF a \in late THEN 1 ELSE 0) <= 1

\* A caller whose reply holds the verdict ok was told of its own action, and a
\* page did carry it out.
ResultIsTrue == \A a \in Actions : answer[a] = "ok" => executed[a] = 1

\* Callers and browser see what CallService says: nothing is carried out that was not
\* asked for, nor twice; ok is told only of what was done, and no reply is taken back;
\* and a call that finds no bridge has no effect, then or later.
Service ==
    INSTANCE CallService WITH
        Calls <- Actions, Failures <- {"failed", "timeout", "push_failed"},
        asked <- Issued \ {NoAction}, times <- executed, told <- answer

ImplementsService == Service!Spec

\* Unless two pollers have held actions at the same time, actions are taken up
\* in the order in which the bridge queued them, whatever was lost between.
DispatchOrder ==
    ~overlap =>
        \A i, j \in DOMAIN started : i < j =>
            \E m, n \in DOMAIN pushed : m < n /\ pushed[m] = started[i] /\ pushed[n] = started[j]

\* Every queued action is at the bridge, with a poller, or has been taken up.
NothingLost ==
    \A a \in Elements(pushed) :
        \/ a \in Elements(queue) \cup Elements(started)
        \/ \E p \in Pollers : a \in Elements(batch[p])

\* Without a fault, an overflow of the queue or a handing over, no action is
\* lost between the bridge and the browser, whichever pollers come and go.
NoSilentLoss ==
    faults = 0 /\ Len(pushed) <= QueueMax /\ ~handedOff => NothingLost

\* A poller awaits a browser call that has no time limit.
Stuck(p) == at[p] = "act" /\ Head(batch[p]) \notin Timed

\* A poller that is open, and for the worker that knows of no panel.
HasTurn(p) == at[p] # "off" /\ (p = Worker => ~panelConnected)

\* An action waits for a poller that is stuck: in its batch, or in the queue while
\* nobody else would poll.
Blocked(a) ==
    \E p \in Pollers :
        /\ Stuck(p)
        /\ \/ a \in Elements(batch[p])
           \/ /\ a \in Elements(queue) /\ HasTurn(p)
              /\ \A q \in Pollers : HasTurn(q) => Stuck(q)

\* A queued action is taken up in the end, whether panels open or close
\* meanwhile, unless it waits for ever for a browser call without a time limit: there
\* is always a poller that believes it is its turn.
EventuallyDispatched ==
    \A a \in Actions :
        []<>(~Blocked(a)) =>
            (a \in Elements(pushed) ~>
                \/ a \in Elements(started)
                \/ faults > 0 \/ Len(pushed) > QueueMax \/ handedOff)

=============================================================================
