----------------------------- MODULE CallService -----------------------------
(***************************************************************************)
(* What the bridge transport promises to who calls a browser tool: an      *)
(* action is carried out at most once, and only after it was asked for; a  *)
(* call gets one reply; ok is the truth; and nothing comes of a call that  *)
(* was told that there is no bridge.  Any other failure leaves open        *)
(* whether the action was, or will be, carried out.                        *)
(***************************************************************************)
EXTENDS Naturals

CONSTANTS
    Calls,       \* each is for one action in the browser
    Failures     \* the replies that leave open what became of it

VARIABLES
    asked,   \* the calls made
    times,   \* how often the action of a call was carried out
    told     \* the reply to a call

serviceVars == <<asked, times, told>>

Init ==
    /\ asked = {}
    /\ times = [a \in Calls |-> 0]
    /\ told = [a \in Calls |-> "none"]

Reply(a, reply) ==
    /\ told[a] = "none"
    /\ told' = [told EXCEPT ![a] = reply]

Ask(a) ==
    /\ a \notin asked /\ asked' = asked \cup {a}
    /\ UNCHANGED times
    /\ UNCHANGED told \/ Reply(a, "unreachable")

CarryOut(a) ==
    /\ a \in asked /\ told[a] # "unreachable"
    /\ times[a] = 0 /\ times' = [times EXCEPT ![a] = 1]
    /\ UNCHANGED <<asked, told>>

Succeed(a) == times[a] = 1 /\ Reply(a, "ok")

Fail(a) == \E reply \in Failures : Reply(a, reply)

Tell(a) ==
    /\ a \in asked /\ (Succeed(a) \/ Fail(a))
    /\ UNCHANGED <<asked, times>>

Next == \E a \in Calls : Ask(a) \/ CarryOut(a) \/ Tell(a)

Spec == Init /\ [][Next]_serviceVars
=============================================================================
