------------------------------ MODULE Scheduler ------------------------------
(***************************************************************************)
(* The scheduler daemon (master_ai_scheduler.py) beside the REPL commands  *)
(* that start and stop it and that add and remove schedules                *)
(* (master_ai.py).  Every party loads the whole file, changes its copy and *)
(* writes it back; nothing is locked.                                      *)
(*                                                                         *)
(* Time goes by in moments, PerDay of them on each day; a daemon may have   *)
(* many rounds in one.                                                     *)
(***************************************************************************)
EXTENDS Naturals, FiniteSets, Sequences, SequencesExt

CONSTANTS
    Daemons,      \* processes that run `start`
    Clients,      \* terminals with the REPL
    Cadence,      \* the cadence of each schedule that may be added
    When,         \* its time of day, a moment counted from midnight
    PerDay, Hour, \* how many moments a day has, and an hour
    MonthEnds,    \* the last day of each month; bound: time ends with the last
    NoDaemon,
    MaxCommands   \* bound: commands given

MonthEnd(m) == IF m = 0 THEN 0 ELSE MonthEnds[m]

ASSUME SchedulerAssumption ==
    /\ MonthEnds \in Seq(Nat) /\ MonthEnds # <<>>
    /\ \A m \in DOMAIN MonthEnds : MonthEnd(m - 1) < MonthEnd(m)
    /\ PerDay \in Nat \ {0} /\ Hour \in Nat \ {0}
    /\ When \in [DOMAIN Cadence -> 0 .. PerDay - 1]
    /\ Daemons \cap Clients = {} /\ NoDaemon \notin Daemons
    /\ MaxCommands \in Nat

Sids == DOMAIN Cadence
LastDay == MonthEnd(Len(MonthEnds))

\* The moments from the first midnight to the last, and the day of one.
Moments == PerDay .. (PerDay * LastDay + PerDay - 1)
DayOf(t) == t \div PerDay

VARIABLES
    now,
    file,      \* the schedules on disk, each with the moment its next time is counted from
    pid,       \* the process that the pid file names
    stop,      \* the stop file exists
    at,        \* where a process is
    mine,      \* the list that a process has loaded
    wanted,    \* history: the schedules added and not removed
    from,      \* history: the moment a schedule was added or, later, last run
    early,     \* history: a schedule ran when no time of it had come since then
    overlap,   \* history: two processes held a list at once
    killed,    \* history: a daemon ended while it held a list
    commands   \* history: how many commands were given

faults == <<overlap, killed>>
vars == <<now, file, pid, stop, at, mine, wanted, from, early, faults, commands>>

Processes == Daemons \cup Clients
Truncating == {"truncate", "drop"}    \* about to save: an added or run schedule, or one less
Writing == {"write", "finish"}        \* the file is truncated, not yet written
Holding == {"fire"} \cup Truncating \cup Writing

Init ==
    /\ now = PerDay /\ file = <<>> /\ pid = NoDaemon /\ stop = FALSE
    /\ at = [p \in Processes |-> "off"] /\ mine = [p \in Processes |-> <<>>]
    /\ wanted = {} /\ from = [s \in Sids |-> 0] /\ early = FALSE
    /\ overlap = FALSE /\ killed = FALSE /\ commands = 0
-----------------------------------------------------------------------------
(* _next_time *)

\* The month of a day, and the days it has.
Month(day) == Cardinality({m \in DOMAIN MonthEnds : MonthEnds[m] < day}) + 1
DaysIn(m) == MonthEnd(m) - MonthEnd(m - 1)

\* The time of day of schedule s, on the day of t.
AtWhen(s, t) == PerDay * DayOf(t) + When[s]

\* The same day of the next month; there may be none, and replace() raises.
Raises(s, t) ==
    LET day == DayOf(t)
    IN  /\ Cadence[s] = "monthly" /\ AtWhen(s, t) <= t /\ Month(day) < Len(MonthEnds)
        /\ day - MonthEnd(Month(day) - 1) > DaysIn(Month(day) + 1)

\* How many days on, when the time of day has passed.
Step(s, day) ==
    CASE Cadence[s] = "weekly"  -> 7
      [] Cadence[s] = "monthly" -> DaysIn(Month(day))
      [] OTHER -> 1

\* Today's time of day if it is still to come, whatever the cadence.
NextTime(s, t) ==
    IF Cadence[s] = "hourly" THEN t + Hour
    ELSE AtWhen(s, t) + (IF AtWhen(s, t) <= t THEN PerDay * Step(s, DayOf(t)) ELSE 0)

\* Faulty variant: the time is counted from now.
IsDueFromNow(s, t) == now >= NextTime(s, now)

IsDue(s, t) == now >= NextTime(s, t)

\* A time of schedule s has come after t.
HasCome(s, t) ==
    IF Cadence[s] = "hourly" THEN now >= t + Hour
    ELSE \E u \in (t + 1) .. now : u % PerDay = When[s]
-----------------------------------------------------------------------------
(* The file *)

\* load_schedules; a file that was truncated cannot be parsed and gives an empty list.
Load(p, list, next) ==
    /\ mine' = [mine EXCEPT ![p] = list] /\ at' = [at EXCEPT ![p] = next]
    /\ overlap' = (overlap \/ \E q \in Processes \ {p} : at[q] \in Holding)
    /\ UNCHANGED killed

\* save_schedules: write_text truncates the file and then writes.
Truncate(p) ==
    /\ at[p] \in Truncating
    /\ file' = <<>> /\ at' = [at EXCEPT ![p] = IF @ = "drop" THEN "finish" ELSE "write"]
    /\ UNCHANGED <<now, pid, stop, mine, wanted, from, early, faults, commands>>

\* `schedule` starts the daemon after it has added; the daemon goes on waiting.
Write(p) ==
    /\ at[p] \in Writing
    /\ file' = mine[p] /\ mine' = [mine EXCEPT ![p] = <<>>]
    /\ at' = [at EXCEPT ![p] =
           IF @ = "finish" THEN "off" ELSE IF p \in Daemons THEN "wait" ELSE "launch"]
    /\ UNCHANGED <<now, pid, stop, wanted, from, early, faults, commands>>
-----------------------------------------------------------------------------
(* The daemon *)

Alive(d) == d \in Daemons /\ at[d] # "off"

\* start_daemon looks for a process that runs already; if there is one, this one has
\* no loop but stays.
Check(d) ==
    /\ at[d] = "start"
    /\ stop' = FALSE
    /\ IF Alive(pid) THEN at' = [at EXCEPT ![d] = "hollow"] /\ UNCHANGED pid
       ELSE at' = [at EXCEPT ![d] = "register"] /\ pid' = NoDaemon
    /\ UNCHANGED <<now, file, mine, wanted, from, early, faults, commands>>

Register(d) ==
    /\ at[d] = "register"
    /\ pid' = d /\ at' = [at EXCEPT ![d] = "wait"]
    /\ UNCHANGED <<now, file, stop, mine, wanted, from, early, faults, commands>>

\* A new round, unless there is a stop file: then the loop ends, the process stays.
Round(d) ==
    /\ at[d] = "wait"
    /\ IF stop THEN at' = [at EXCEPT ![d] = "hollow"] /\ UNCHANGED <<mine, faults>>
       ELSE Load(d, file, "fire")
    /\ UNCHANGED <<now, file, pid, stop, wanted, from, early, commands>>

\* Faulty variants: the run is not noted; the next one is.
NotedNowhere(e) == e
NotedNext(e) == [e EXCEPT !.from = NextTime(e.id, now)]

\* The schedule after it has run.
Noted(e) == [e EXCEPT !.from = now]

\* What is due is started, one schedule after the other; a schedule whose next time
\* cannot be computed ends the loop, after those before it were started.
Fire(d) ==
    LET list == mine[d]
        upTo == {n \in 0 .. Len(list) : \A i \in 1 .. n : ~Raises(list[i].id, list[i].from)}
        due(i) == i \in upTo /\ IsDue(list[i].id, list[i].from)
        ran == {list[i].id : i \in {j \in DOMAIN list : due(j)}}
    IN  /\ at[d] = "fire"
        /\ early' = (early \/ \E s \in ran : ~HasCome(s, from[s]))
        /\ from' = [s \in Sids |-> IF s \in ran THEN now ELSE from[s]]
        /\ IF Len(list) \in upTo
           THEN /\ mine' = [mine EXCEPT ![d] =
                    [i \in DOMAIN list |-> IF due(i) THEN Noted(list[i]) ELSE list[i]]]
                /\ at' = [at EXCEPT ![d] = "truncate"] /\ UNCHANGED killed
           ELSE /\ mine' = [mine EXCEPT ![d] = <<>>]
                /\ at' = [at EXCEPT ![d] = "hollow"] /\ killed' = TRUE
        /\ UNCHANGED <<now, file, pid, stop, wanted, overlap, commands>>
-----------------------------------------------------------------------------
(* The REPL *)

Command(c) ==
    /\ at[c] = "off" /\ commands < MaxCommands /\ commands' = commands + 1

\* A new schedule has an id of its own (the second in which it is added), and its time
\* is counted from now.
AddSchedule(c, s) ==
    /\ Command(c) /\ from[s] = 0
    /\ Load(c, Append(file, [id |-> s, from |-> now]), "truncate")
    /\ wanted' = wanted \cup {s} /\ from' = [from EXCEPT ![s] = now]
    /\ UNCHANGED <<now, file, pid, stop, early>>

\* Faulty variant: the oldest schedule goes.
WithoutOldest(list, s) == IF list = <<>> THEN list ELSE Tail(list)

\* The list without schedule s; ids are distinct, so there is one at most.
Without(list, s) ==
    IF \E i \in DOMAIN list : list[i].id = s
    THEN RemoveAt(list, CHOOSE i \in DOMAIN list : list[i].id = s)
    ELSE list

RemoveSchedule(c, s) ==
    /\ Command(c) /\ s \in wanted
    /\ Load(c, Without(file, s), "drop")
    /\ wanted' = wanted \ {s}
    /\ UNCHANGED <<now, file, pid, stop, from, early>>

Start(c) ==
    /\ Command(c) /\ at' = [at EXCEPT ![c] = "launch"]
    /\ UNCHANGED <<now, file, pid, stop, mine, wanted, from, early, faults>>

\* _start_scheduler_daemon starts a process unless the pid file names one that lives.
Launch(c) ==
    /\ at[c] = "launch"
    /\ IF Alive(pid) THEN at' = [at EXCEPT ![c] = "off"] /\ UNCHANGED pid
       ELSE /\ pid' = NoDaemon
            /\ \E d \in Daemons : /\ at[d] = "off"
                                  /\ at' = [at EXCEPT ![c] = "off", ![d] = "start"]
    /\ UNCHANGED <<now, file, stop, mine, wanted, from, early, faults, commands>>

\* A process that is killed, by `schedule stop` or otherwise.
Kill(d) ==
    /\ at' = [at EXCEPT ![d] = "off"] /\ mine' = [mine EXCEPT ![d] = <<>>]
    /\ killed' = (killed \/ at[d] \in Holding)

Stop(c) ==
    /\ Command(c)
    /\ stop' = TRUE /\ pid' = NoDaemon
    /\ IF Alive(pid) THEN Kill(pid) ELSE UNCHANGED <<at, mine, killed>>
    /\ UNCHANGED <<now, file, wanted, from, early, overlap>>

\* A daemon dies and leaves its pid file behind.
Die(d) ==
    /\ Alive(d) /\ commands < MaxCommands /\ commands' = commands + 1
    /\ Kill(d)
    /\ UNCHANGED <<now, file, pid, stop, wanted, from, early, overlap>>

Tick ==
    /\ now + 1 \in Moments /\ now' = now + 1
    /\ UNCHANGED <<file, pid, stop, at, mine, wanted, from, early, faults, commands>>

DaemonStep(d) == Check(d) \/ Register(d) \/ Round(d) \/ Fire(d) \/ Truncate(d) \/ Write(d)
ClientStep(c) == Truncate(c) \/ Write(c) \/ Launch(c)

Next ==
    \/ \E d \in Daemons : DaemonStep(d) \/ Die(d)
    \/ \E c \in Clients : ClientStep(c) \/ Start(c) \/ Stop(c)
    \/ \E c \in Clients, s \in Sids : AddSchedule(c, s) \/ RemoveSchedule(c, s)
    \/ Tick

\* A process that has something to do does it; time need not go by.
Spec ==
    /\ Init /\ [][Next]_vars
    /\ \A d \in Daemons : WF_vars(DaemonStep(d))
    /\ \A c \in Clients : WF_vars(ClientStep(c))
-----------------------------------------------------------------------------
(* Properties *)

Schedule == [id : Sids, from : Moments]

\* Every variable has its type, and who writes has a list.
TypeOK ==
    /\ now \in Moments /\ stop \in BOOLEAN /\ pid \in Daemons \cup {NoDaemon}
    /\ file \in Seq(Schedule) /\ mine \in [Processes -> Seq(Schedule)]
    /\ \A list \in {file} \cup {mine[p] : p \in Processes} :
           /\ \A i \in DOMAIN list : list[i].from <= now
           /\ \A i, j \in DOMAIN list : list[i].id = list[j].id => i = j
    /\ at \in [Processes -> {"off", "start", "register", "wait", "hollow", "launch"} \cup Holding]
    /\ \A p \in Processes : mine[p] # <<>> => at[p] \in Holding
    /\ wanted \subseteq Sids /\ from \in [Sids -> 0 .. now] /\ early \in BOOLEAN
    /\ overlap \in BOOLEAN /\ killed \in BOOLEAN /\ commands \in 0 .. MaxCommands

\* As long as no two processes held a list at once and none was killed with one, the
\* file holds what was added and not removed, whenever nobody is about to write it.
SchedulesKept ==
    ~overlap /\ ~killed /\ (\A p \in Processes : at[p] \notin Truncating \cup Writing) =>
        {file[i].id : i \in DOMAIN file} = wanted

\* Under the same conditions each run of a schedule has a time of its own, one that came
\* after it was added and after it last ran (an hourly one: an hour in between), however
\* many daemons run and are started again.  So it never runs more often than its time of
\* day comes.  (It may run twice on one day: a run that was missed is made up for in the
\* morning, and the time of day comes after.  A weekly or monthly one does so too.)
RunsOncePerTime == ~overlap /\ ~killed => ~early

Looping == \E d \in Daemons : at[d] \in {"wait"} \cup Holding

\* A schedule that is due is run in the end, if a daemon goes on looping.
DueRuns ==
    \A s \in Sids :
        s \in wanted /\ now >= NextTime(s, from[s]) ~>
            (s \notin wanted \/ now < NextTime(s, from[s]) \/ ~Looping \/ overlap \/ killed)
=============================================================================
