---------------------------- MODULE ReplyDispatch ----------------------------
(***************************************************************************)
(* Carrying out the directives of one model reply (dispatch.py,            *)
(* process_reply, and the confirm_* functions of master_ai.py it calls).   *)
(* process_reply works through the directives kind by kind, appends what   *)
(* came of them to the history, and returns None when the model is to be   *)
(* asked again, or the reply when it stands as the answer.                 *)
(*                                                                         *)
(* Why a directive was not carried out travels in three module-wide slots, *)
(* _LAST_BLOCKED_ACTION, _LAST_DENIED_ACTION and _LAST_HOOK_BLOCK.  They   *)
(* are set where the action is refused and emptied where the refusal is    *)
(* reported, which need not be the same reply, nor the same turn.          *)
(*                                                                         *)
(* A reply is what it says and the directives in it.  Which mode is on,    *)
(* which commands are approved, what the operator answers and how a        *)
(* command ends are open: an outcome is any that the directive's confirm_* *)
(* can have.                                                               *)
(***************************************************************************)
EXTENDS Naturals, FiniteSets, SequencesExt

CONSTANTS
    Replies,   \* the replies the model may give
    Targets,   \* paths, commands, addressees
    MaxDelegated, \* how many subagents or screenshots are done of one reply (3)
    NoAction, Gate

\* The order in which process_reply comes to the kinds.  A RUN is split at each &&;
\* from its first visual command on it is "visual", and goes behind all RUNTERMs.
Rank == [mcp |-> 1, read |-> 2, create |-> 3, edit |-> 4, run |-> 5, runterm |-> 6,
         visual |-> 7, search |-> 8, task |-> 9, send |-> 10, browser |-> 11,
         subagent |-> 12, screenshot |-> 13]
Kinds == DOMAIN Rank

\* valid: action_validation finds the payload well formed.
Directive == [kind : Kinds, on : Targets, valid : BOOLEAN]

\* A RUN that will be split stands in dirs as its parts, with one "on".
\* says: "claim" announces an action, "stall" only promises one, "malformed" has
\* a CREATE or EDIT whose block cannot be read.
Reply == [says : {"nothing", "prose", "claim", "stall", "malformed"}, dirs : Seq(Directive)]

ASSUME ReplyAssumption ==
    /\ Replies \subseteq Reply
    /\ \A r \in Replies :
          /\ IsInjective(r.dirs)
          /\ \A d, e \in Range(r.dirs) :
                d.kind = "visual" /\ e.kind = "run" /\ d.on = e.on => d.valid = e.valid
    /\ MaxDelegated \in Nat \ {0}
    /\ NoAction \notin Directive \cup {Gate} /\ Gate \notin Directive

AllDirectives == UNION {Range(r.dirs) : r \in Replies}

\* What became of a directive: flagged is written, and complained of by a post
\* hook; answered is an informational command's exit code; diverted is replaced by
\* a note of the operator; returned is sent back for repair.
Refused == {"refused", "declined", "diverted", "returned"}
Carried == {"done", "flagged", "answered", "failed"}
Fates   == {"absent", "waiting"} \cup Refused \cup Carried
Bad     == Refused \cup {"flagged", "failed"}

VARIABLES
    stage,     \* where process_reply is
    given,     \* the reply
    passed,    \* its directives, without those the gate took out
    todo,      \* the ones that are still to be carried out
    fate,
    feedback,  \* tool_result_feedback
    blocked,   \* _LAST_BLOCKED_ACTION
    denied,    \* _LAST_DENIED_ACTION
    hook,      \* _LAST_HOOK_BLOCK
    returned,  \* what process_reply returned
    \* The rest is history.
    told,      \* what the model was told of this reply's directives
    fresh      \* have the slots been empty since before the reply came, but for
               \* what its own directives left there

slots == <<blocked, denied, hook>>
dispatchVars == <<stage, given, passed, todo, fate, feedback, slots, returned, told, fresh>>

Report == [says : {"done", "failed", "refused", "declined", "flagged", "unclear", "nothing ran"},
           about : AllDirectives \cup {NoAction}]

DispatchInit ==
    /\ stage = "idle" /\ given = [says |-> "nothing", dirs |-> <<>>]
    /\ passed = {} /\ todo = {}
    /\ fate = [d \in AllDirectives |-> "absent"]
    /\ feedback = {} /\ returned = "none" /\ told = {} /\ fresh = TRUE
    /\ blocked = NoAction /\ denied = NoAction /\ hook = NoAction

Says(word, d) == [says |-> word, about |-> d]

\* Does process_reply come to d before e: kind by kind, and within a kind in the
\* order of the reply.
Before(dirs, d, e) ==
    \/ Rank[d.kind] < Rank[e.kind]
    \/ d.kind = e.kind /\ \E i, j \in DOMAIN dirs : i < j /\ dirs[i] = d /\ dirs[j] = e

\* The directives of these kinds that passed the gate; the next one to carry out.
Of(kinds) == {d \in passed : d.kind \in kinds}
First(d) == d \in todo /\ \A e \in todo \ {d} : Before(given.dirs, d, e)
AtKind(d, kinds) == stage = "acting" /\ First(d) /\ d.kind \in kinds
Files == {"create", "edit"}
Commands == {"run", "runterm", "visual"}

\* process_reply returns, having told the model of reports.
Return(value, reports) ==
    /\ stage' = "idle" /\ returned' = value
    /\ told' = told \cup reports
    /\ todo' = {} /\ feedback' = {}

-----------------------------------------------------------------------------
(* Before anything is carried out *)

\* A new reply; one with a malformed block goes back for repair.
Receive(r) ==
    /\ stage = "idle"
    /\ given' = r /\ passed' = Range(r.dirs)
    /\ fate' = [d \in AllDirectives |-> IF d \in Range(r.dirs) THEN "waiting" ELSE "absent"]
    /\ told' = {} /\ feedback' = {}
    /\ fresh' = (blocked = NoAction /\ denied = NoAction /\ hook = NoAction)
    /\ IF r.says = "malformed"
       THEN stage' = "idle" /\ returned' = "none" /\ todo' = {}
       ELSE stage' = "gate" /\ todo' = Range(r.dirs) /\ UNCHANGED returned
    /\ UNCHANGED slots

\* What the gate looks at, and the kinds that keep a reply going when something
\* else in it was rejected.
Gated == {"read", "run", "runterm", "visual", "create", "edit", "mcp"}
KeepsGoing == Kinds \ {"mcp", "search", "browser", "subagent", "screenshot"}

\* The validation gate takes the invalid directives out.
ValidationGate ==
    LET invalid == {d \in todo : d.kind \in Gated /\ ~d.valid}
        reports == {Says("refused", d) : d \in invalid}
    IN  /\ stage = "gate"
        /\ fate' = [d \in AllDirectives |-> IF d \in invalid THEN "refused" ELSE fate[d]]
        /\ blocked' = IF invalid # {} THEN Gate ELSE blocked
        /\ IF invalid # {} /\ ~\E d \in todo \ invalid : d.kind \in KeepsGoing
           THEN Return("none", reports)
           ELSE /\ stage' = "calls" /\ todo' = todo \ invalid
                /\ told' = told \cup reports
                /\ UNCHANGED <<feedback, returned>>
        /\ passed' = passed \ invalid
        /\ fresh' = (fresh /\ invalid = {})
        /\ UNCHANGED <<given, denied, hook>>

\* MCP calls are made at once, and each result goes into the history at once.
McpCall ==
    /\ stage = "calls"
    /\ \E d \in todo : \E outcome \in {"done", "failed"} :
           /\ First(d) /\ d.kind = "mcp"
           /\ fate' = [fate EXCEPT ![d] = outcome]
           /\ told' = told \cup {Says(outcome, d)}
           /\ todo' = todo \ {d}
    /\ UNCHANGED <<stage, given, passed, feedback, slots, returned, fresh>>

\* A reply without directives that only promises or stalls goes back for repair;
\* an MCP call does not count as a directive here.
StallCheck ==
    /\ stage = "calls" /\ \A d \in todo : d.kind # "mcp"
    /\ IF given.says = "stall" /\ Of(Kinds \ {"mcp"}) = {}
       THEN Return("none", {})
       ELSE stage' = "acting" /\ UNCHANGED <<todo, feedback, returned, told>>
    /\ UNCHANGED <<given, passed, fate, slots, fresh>>

-----------------------------------------------------------------------------
(* Reading and writing files *)

\* All READs are made together.  What could be read is told, and unless edits
\* follow, the reply is over: its other directives are not looked at.  So it is
\* when a READ fails.
Read ==
    LET reads == Of({"read"})
    IN  /\ \E d \in todo : AtKind(d, {"read"})
        /\ \E got \in SUBSET reads : \E fenced \in SUBSET (reads \ got) :
             LET outcome == [d \in reads |-> IF d \in got THEN "done"
                                            ELSE IF d \in fenced THEN "refused" ELSE "failed"]
                 reports == {Says(outcome[d], d) : d \in reads}
             IN  /\ fate' = [d \in AllDirectives |-> IF d \in reads THEN outcome[d] ELSE fate[d]]
                 /\ IF fenced = {} THEN UNCHANGED blocked ELSE blocked' \in fenced
                 /\ IF got = reads /\ Of({"edit"}) # {}
                    THEN /\ todo' = todo \ reads
                         /\ told' = told \cup reports
                         /\ UNCHANGED <<stage, feedback, returned>>
                    ELSE Return("none", reports)
        /\ UNCHANGED <<given, passed, denied, hook, fresh>>

\* Faulty variant: a file that was written is not put among the results.
FileDoneSilently(d, outcome, noted) ==
    /\ fate' = [fate EXCEPT ![d] = outcome]
    /\ todo' = todo \ {d}
    /\ blocked' = IF "blocked" \in noted THEN d ELSE blocked
    /\ denied'  = IF "denied" \in noted THEN d ELSE denied
    /\ hook'    = IF "hook" \in noted THEN d ELSE hook
    /\ UNCHANGED <<stage, given, passed, feedback, returned, told, fresh>>

\* A file directive is behind us.  A refusal by a hook or by the operator is left
\* in its slot.
FileDone(d, outcome, noted) ==
    /\ fate' = [fate EXCEPT ![d] = outcome]
    /\ todo' = todo \ {d}
    /\ feedback' = IF outcome = "done" THEN feedback \cup {d} ELSE feedback
    /\ blocked' = IF "blocked" \in noted THEN d ELSE blocked
    /\ denied'  = IF "denied" \in noted THEN d ELSE denied
    /\ hook'    = IF "hook" \in noted THEN d ELSE hook
    /\ UNCHANGED <<stage, given, passed, returned, told, fresh>>

\* An EDIT of a file that the reply neither reads nor creates.
EditsUnread == \E e \in Of({"edit"}) : ~\E d \in Of({"read", "create"}) : d.on = e.on

\* confirm_create and confirm_edit: the fence, a hook before or after, no terminal
\* to ask at, the operator's no, an error, or the file is written.
WriteFile ==
    \E d \in todo :
        /\ AtKind(d, Files)
        /\ d.kind = "edit" => ~EditsUnread
        /\ \/ FileDone(d, "done", {})
           \/ FileDone(d, "failed", {})
           \/ FileDone(d, "refused", {"blocked"})
           \/ FileDone(d, "refused", {})
           \/ d.kind = "create" /\ FileDone(d, "refused", {"hook"})
           \/ FileDone(d, "flagged", {"hook"})
           \/ FileDone(d, "declined", {"denied"})

\* A CREATE of poor quality, an EDIT of a file the reply has not read, a command
\* that cannot work: the reply goes back for repair, and results not yet told are
\* dropped.
SendBack ==
    \E d \in todo :
        /\ \/ AtKind(d, {"create"})
           \/ AtKind(d, {"edit"}) /\ EditsUnread
           \/ /\ AtKind(d, Commands)
              /\ \A f \in Of(Files) : fate[f] = "done"
              /\ \A c \in Of(Commands) : fate[c] = "waiting"
        /\ fate' = [fate EXCEPT ![d] = "returned"]
        /\ Return("none", {})
        /\ UNCHANGED <<given, passed, slots, fresh>>

FilesAreDone == stage = "acting" /\ \A d \in todo : d.kind \notin {"read"} \cup Files

\* A CREATE or EDIT did not come off: the slots say why, if they say anything, and
\* are emptied; what else the reply achieved is not told.
FilesFailed ==
    /\ FilesAreDone
    /\ \E d \in Of(Files) : fate[d] \in Bad
    /\ denied' = NoAction /\ hook' = NoAction
    /\ Return("none",
              IF denied = NoAction /\ hook = NoAction THEN {Says("unclear", NoAction)}
              ELSE {r \in {Says("declined", denied), Says("flagged", hook)} : r.about # NoAction})
    /\ UNCHANGED <<given, passed, fate, blocked, fresh>>

-----------------------------------------------------------------------------
(* Everything else *)

\* Faulty variant: a CREATE or EDIT that failed does not end the reply.
ReadyAnyway(d, kinds) == AtKind(d, kinds)

Ready(d, kinds) == AtKind(d, kinds) /\ \A f \in Of(Files) : fate[f] = "done"

\* Faulty variant: any exit code counts as a result.
SucceedsAlways(d, outcome) ==
    /\ fate' = [fate EXCEPT ![d] = outcome]
    /\ todo' = todo \ {d}
    /\ feedback' = feedback \cup {d}
    /\ UNCHANGED <<stage, given, passed, slots, returned, told, fresh>>

Succeeds(d, outcome) ==
    /\ fate' = [fate EXCEPT ![d] = outcome]
    /\ todo' = todo \ {d}
    /\ feedback' = IF outcome = "done" THEN feedback \cup {d} ELSE feedback
    /\ UNCHANGED <<stage, given, passed, slots, returned, told, fresh>>

\* The slot names a command only when a command was refused; for a path, and for
\* what the gate left there, the report names the directive at hand.
Named(slot, d) == IF slot = Gate \/ slot.kind \in {"read"} \cup Files THEN d ELSE slot

\* Faulty variants: the reply stands as the answer all the same; every end is
\* reported as a failed execution.
StopsAsAnswer(d, outcome, noted) ==
    /\ fate' = [fate EXCEPT ![d] = outcome]
    /\ Return("reply", {})
    /\ UNCHANGED <<given, passed, slots, fresh>>

StopsAsFailure(d, outcome, noted) ==
    /\ fate' = [fate EXCEPT ![d] = outcome]
    /\ Return("none", {Says("failed", d)})
    /\ UNCHANGED <<given, passed, slots, fresh>>

\* The directive did not come off and the reply is over.  A blocked slot that is
\* not empty is taken for the reason, else the directive is said to have run and
\* failed; results not yet told are dropped.
Stops(d, outcome, noted) ==
    LET slot == IF "blocked" \in noted THEN d ELSE blocked
    IN  /\ fate' = [fate EXCEPT ![d] = outcome]
        /\ blocked' = NoAction
        /\ denied' = IF "denied" \in noted THEN d ELSE denied
        /\ hook' = IF "hook" \in noted THEN d ELSE hook
        /\ Return("none", {IF slot = NoAction THEN Says("failed", d)
                           ELSE Says("refused", Named(slot, d))})
        /\ UNCHANGED <<given, passed, fresh>>

\* confirm_run, and confirm_runterm for a RUNTERM and for what was split off a RUN.
RunCommand ==
    \E d \in todo :
        /\ Ready(d, Commands)
        /\ \/ Succeeds(d, "done")
           \/ d.kind = "run" /\ Succeeds(d, "answered")
           \/ Stops(d, "failed", {})
           \/ Stops(d, "refused", {"blocked"})
           \/ Stops(d, "refused", {"blocked", "hook"})
           \/ Stops(d, "declined", {"blocked", "denied"})
           \/ d.kind = "run" /\ Stops(d, "diverted", {})

\* web_search, and the task list on disk.
SearchOrTask == \E d \in todo : Ready(d, {"search", "task"}) /\ Succeeds(d, "done")

\* confirm_send_email and confirm_send_telegram note no refusal anywhere.
Send ==
    \E d \in todo :
        /\ Ready(d, {"send"})
        /\ \/ Succeeds(d, "done")
           \/ Stops(d, "failed", {})
           \/ Stops(d, "refused", {})

\* confirm_browser_action.
Browse ==
    \E d \in todo :
        /\ Ready(d, {"browser"})
        /\ \/ Succeeds(d, "done")
           \/ Stops(d, "failed", {})
           \/ Stops(d, "refused", {"blocked"})
           \/ Stops(d, "declined", {"blocked"})

LastKinds == {"subagent", "screenshot"}
NothingElseLeft ==
    /\ FilesAreDone /\ \A d \in Of(Files) : fate[d] = "done"
    /\ \A d \in todo : d.kind \in LastKinds

\* The results go to the model, and a subagent or screenshot is not looked at.
TellResults ==
    /\ NothingElseLeft /\ feedback # {}
    /\ Return("none", {Says("done", d) : d \in feedback})
    /\ UNCHANGED <<given, passed, fate, slots, fresh>>

\* The first MaxDelegated subagents, or else screenshots, and their results; the
\* others are dropped.  An error of one subagent is told like a result and ends them.
Delegate ==
    /\ NothingElseLeft /\ feedback = {}
    /\ \E first \in todo : \E n \in 1 .. MaxDelegated :
           LET ahead(d) == {e \in todo : e.kind = d.kind /\ Before(given.dirs, e, d)}
               now == {d \in todo : d.kind = first.kind /\ Cardinality(ahead(d)) < n}
           IN  /\ First(first) /\ (n = MaxDelegated \/ first.kind = "subagent")
               /\ fate' = [d \in AllDirectives |-> IF d \in now THEN "done" ELSE fate[d]]
               /\ Return("none", {Says("done", d) : d \in now})
    /\ UNCHANGED <<given, passed, slots, fresh>>

\* An MCP call does not count as a directive: a reply that is nothing but one, or
\* announces it, is told that nothing ran.
Conclude ==
    /\ NothingElseLeft /\ feedback = {} /\ todo = {}
    /\ IF /\ \A d \in AllDirectives : fate[d] # "absent" => d.kind = "mcp"
          /\ given.says = "claim" \/ (given.says = "nothing" /\ passed # {})
       THEN Return("none", {Says("nothing ran", NoAction)})
       ELSE Return("reply", {})
    /\ UNCHANGED <<given, passed, fate, slots, fresh>>

DispatchNext ==
    \/ \E r \in Replies : Receive(r)
    \/ ValidationGate \/ McpCall \/ StallCheck
    \/ Read \/ WriteFile \/ SendBack \/ FilesFailed
    \/ RunCommand \/ SearchOrTask \/ Send \/ Browse
    \/ TellResults \/ Delegate \/ Conclude

DispatchSpec == DispatchInit /\ [][DispatchNext]_dispatchVars

-----------------------------------------------------------------------------
(* Properties *)

\* Every variable has its type; a directive that is still to be carried out passed
\* the gate and has no outcome yet, and a collected result is one of something done.
DispatchTypeOK ==
    /\ stage \in {"idle", "gate", "calls", "acting"}
    /\ given \in Reply
    /\ passed \subseteq AllDirectives /\ todo \subseteq passed
    /\ fate \in [AllDirectives -> Fates] /\ \A d \in todo : fate[d] = "waiting"
    /\ feedback \subseteq {d \in AllDirectives : fate[d] = "done"}
    /\ blocked \in AllDirectives \cup {NoAction, Gate}
    /\ denied \in AllDirectives \cup {NoAction} /\ hook \in AllDirectives \cup {NoAction}
    /\ returned \in {"none", "reply"}
    /\ told \subseteq Report /\ fresh \in BOOLEAN

\* Nothing is run, searched, sent or browsed once a directive that comes before it
\* in the order of the kinds did not come off: whatever the model built on an
\* earlier step does not happen without that step.  (A failed MCP call and a
\* directive that the gate took out do not count: the code goes on.  And it is the
\* order of the kinds, not of the reply: a visual part split off a RUN comes after
\* every other RUN and RUNTERM, so a later RUN is carried out before it may fail.)
NothingAfterFailure ==
    \A d, e \in passed :
        /\ Before(given.dirs, d, e) /\ d.kind # "mcp" /\ fate[d] \in Bad
        /\ e.kind \notin Files /\ ~(d.kind = "read" /\ e.kind = "read")
        => fate[e] \notin Carried

\* The model learns of every change it made: what was done in a reply has been
\* told when process_reply is through, unless another directive did not come off.
\* So it is never asked to go on, nor taken to have finished, on a guess.
AccountedFor ==
    stage = "idle" /\ (\A d \in AllDirectives : fate[d] \notin Bad) =>
        \A d \in AllDirectives : fate[d] = "done" => Says("done", d) \in told

\* A reply stands as the answer only when it did nothing the model has not seen the
\* result of: none of its directives was refused, failed or changed anything, but
\* for MCP calls, and for what the gate took out.  (TurnLoop relies on this.)
AnswerIsClean ==
    stage = "idle" /\ returned = "reply" =>
        \A d \in Of(Kinds \ {"mcp"}) : fate[d] = "answered"

\* What a report may say of a directive.  A post hook's complaint and a hook's
\* refusal read alike; SEND notes no refusal, and a note instead of a command none
\* either, so both are reported as failures.
Truth(r) ==
    CASE r.says = "done"     -> fate[r.about] = "done"
      [] r.says = "failed"   -> \/ fate[r.about] = "failed"
                                \/ r.about.kind = "send" /\ fate[r.about] = "refused"
                                \/ fate[r.about] = "diverted"
      [] r.says = "refused"  -> fate[r.about] \in {"refused", "declined"}
      [] r.says = "declined" -> fate[r.about] = "declined"
      [] r.says = "flagged"  -> fate[r.about] \in {"flagged", "refused"}
      [] r.says = "unclear"  -> \E d \in Of(Files) : fate[d] \in Bad
      [] OTHER               -> \A d \in AllDirectives : fate[d] \in Carried => d.kind = "mcp"

\* When the slots were empty as the reply came and the gate took nothing out, what
\* the model is told of the reply is true.
TrueWhenFresh ==
    fresh => \A r \in told : Truth(r)

=============================================================================
