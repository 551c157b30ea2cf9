----------------------------- MODULE AgentHarness -----------------------------
(***************************************************************************)
(* One AgentHarness over one session (harness/agent-harness.ts): runs of the *)
(* agent loop with their queues of steering, follow-up and next-turn         *)
(* messages, the session writes postponed while it is busy, abort,           *)
(* compaction and tree navigation.  A step is the code between two awaits    *)
(* at which another caller, a listener or a hook may get in.  A turn of      *)
(* agent-loop.ts has one tool result at most: a batch is AgentTools's.       *)
(***************************************************************************)
EXTENDS AgentSession, SequencesExt

CONSTANTS
    Runs,           \* calls of prompt, skill and promptFromTemplate
    Caller,         \* who compacts, navigates and appends while the harness is idle
    Nobody,
    OneAtATime,     \* steering and follow-up mode: "one-at-a-time", else "all"
    Reentrant,      \* an operation may start as soon as the phase is "idle", from a listener
    MaxTurns,       \* bound on the turns with tool calls of a run
    MaxStructural,  \* bound on compactions and navigations
    MaxFaults       \* bound on hooks, listeners and appends that fail

Elsewhere == {"steering", "followUp", "nextTurn", "postponed", "caller", "session"}
Holders == Runs \cup Elsewhere

ASSUME HarnessAssumption ==
    /\ Runs \cap Elsewhere = {}
    /\ Caller \notin Runs /\ Nobody \notin Runs \cup {Caller}
    /\ OneAtATime \in BOOLEAN /\ Reentrant \in BOOLEAN
    /\ MaxTurns \in Nat /\ MaxStructural \in Nat /\ MaxFaults \in Nat

VARIABLES
    phase,
    runAbortController,    \* the run it belongs to, or Nobody
    runPromise,            \* the run it belongs to, or Nobody
    aborted,               \* runs whose signal is aborted
    pendingSessionWrites,
    steerQueue, followUpQueue, nextTurnQueue,
    run,                   \* position and locals of each run
    caller,                \* what the caller is doing
    unused,                \* messages nobody has submitted, or abort has handed back
    structural, faults     \* bounded counters

queues == <<steerQueue, followUpQueue, nextTurnQueue>>
control == <<phase, runAbortController, runPromise, aborted>>
bounds == <<structural, faults>>
vars == <<session, control, pendingSessionWrites, queues, run, caller, unused, bounds>>

Tasks == Runs \cup {Caller}

Positions ==
    {"new", "setup", "snapshot", "announced", "hook", "prompts", "poll", "polled", "inject",
     "streaming", "tools", "turn_end", "prepare", "followup", "followed",
     "agent_end", "settling", "failing", "final", "over"}

\* Where pending session writes are flushed, one by one.
Flushing == {"turn_end", "prepare", "agent_end", "final"}
\* Where the messages of todo are persisted, one by one.
Emitting == {"prompts", "inject"}

\* todo: messages to emit; more: hasMoreToolCalls; last: nothing but agent_end follows;
\* detached: abort replaced the queue while its listeners were told; failures: errors of
\* the loop and of its report.
Idle(where) ==
    [at |-> where, todo |-> <<>>, context |-> <<>>, more |-> FALSE, last |-> FALSE,
     detached |-> FALSE, failures |-> 0, turns |-> 0]

Init ==
    /\ SessionInit /\ write = [t \in Tasks |-> None]
    /\ phase = "idle" /\ runAbortController = Nobody /\ runPromise = Nobody /\ aborted = {}
    /\ pendingSessionWrites = <<>>
    /\ steerQueue = <<>> /\ followUpQueue = <<>> /\ nextTurnQueue = <<>>
    /\ run = [r \in Runs |-> Idle("new")]
    /\ caller = "free" /\ unused = Messages
    /\ structural = 0 /\ faults = 0

First(queue) == SubSeq(queue, 1, IF queue = <<>> THEN 0 ELSE 1)
Rest(queue) == SubSeq(queue, 2, Len(queue))

At(r, where) == run[r].at = where
Go(r, where) == run' = [run EXCEPT ![r].at = where]
Fault == faults < MaxFaults /\ faults' = faults + 1

\* Nobody's promise is still to be awaited: what a caller that awaits each operation
\* before the next one knows, and a listener that looks at the phase does not.
Quiet ==
    /\ phase = "idle"
    /\ Reentrant \/ (runPromise = Nobody /\ caller = "free")
-----------------------------------------------------------------------------
(* Ends of a run.                                                           *)

\* An error of the loop is reported by emitRunFailure; one of that report, or an
\* earlier one, ends the run.
Throw(r) ==
    run' = [run EXCEPT ![r] =
              [Idle(IF @.failures = 0 THEN "failing" ELSE "final")
               EXCEPT !.failures = run[r].failures + 1, !.last = TRUE]]

\* prompt() rejects before the loop has started.
Reject(r) ==
    /\ run' = [run EXCEPT ![r] = Idle("over")]
    /\ phase' = "idle" /\ runPromise' = Nobody
    /\ UNCHANGED <<runAbortController, aborted>>

\* Faulty: those who wait are told only when nothing failed.
FinishUntold(r, raises) ==
    /\ run' = [run EXCEPT ![r] = Idle("over")]
    /\ runAbortController' = Nobody
    /\ runPromise' = IF run[r].failures > 0 THEN runPromise ELSE Nobody
    /\ phase' = IF raises THEN "idle" ELSE phase
    /\ aborted' = aborted \ {r}

\* The finally blocks of executeTurn and of prompt; the catch of prompt when an error
\* gets out.
Finish(r, raises) ==
    /\ run' = [run EXCEPT ![r] = Idle("over")]
    /\ runAbortController' = Nobody /\ runPromise' = Nobody
    /\ phase' = IF raises THEN "idle" ELSE phase
    /\ aborted' = aborted \ {r}
-----------------------------------------------------------------------------
(* Starting.                                                                *)

Prompt(r, m) ==
    /\ At(r, "new") /\ Quiet /\ m \in unused
    /\ phase' = "turn" /\ runPromise' = r
    /\ run' = [run EXCEPT ![r].at = "setup", ![r].todo = <<m>>]
    /\ unused' = unused \ {m}
    /\ UNCHANGED <<session, runAbortController, aborted, pendingSessionWrites, queues, caller,
                   bounds>>

\* createTurnState reads the session, and then awaits the system prompt.
CreateTurnState(r) ==
    /\ At(r, "setup")
    /\ run' = [run EXCEPT ![r].at = "snapshot", ![r].context = Context]
    /\ UNCHANGED <<session, control, pendingSessionWrites, queues, caller, unused, bounds>>

\* Faulty: the messages stay in the queue for the turn after.
TakeNextTurnToo(r) ==
    /\ At(r, "snapshot")
    /\ run' = [run EXCEPT ![r].at = IF nextTurnQueue = <<>> THEN "hook" ELSE "announced",
                          ![r].todo = nextTurnQueue \o @]
    /\ UNCHANGED <<session, control, pendingSessionWrites, queues, caller, unused, bounds>>

TakeNextTurn(r) ==
    /\ At(r, "snapshot")
    /\ run' = [run EXCEPT ![r].at = IF nextTurnQueue = <<>> THEN "hook" ELSE "announced",
                          ![r].todo = nextTurnQueue \o @]
    /\ nextTurnQueue' = <<>>
    /\ UNCHANGED <<session, control, pendingSessionWrites, steerQueue, followUpQueue, caller,
                   unused, bounds>>

Announced(r) ==
    /\ At(r, "announced") /\ Go(r, "hook")
    /\ UNCHANGED <<session, control, pendingSessionWrites, queues, caller, unused, bounds>>

\* before_agent_start has returned: the loop starts, and an abort reaches it from now on.
StartLoop(r) ==
    /\ At(r, "hook")
    /\ run' = [run EXCEPT ![r].at = "prompts", ![r].more = TRUE, ![r].context = @ \o run[r].todo]
    /\ runAbortController' = r
    /\ UNCHANGED <<session, phase, runPromise, aborted, pendingSessionWrites, queues, caller,
                   unused, bounds>>

\* The system prompt or a hook raises; only the queued messages that were just taken
\* are put back, and nothing is flushed.
SetupFails(r) ==
    /\ run[r].at \in {"setup", "snapshot", "announced", "hook"}
    /\ Reject(r)
    /\ nextTurnQueue' = IF At(r, "announced") THEN Front(run[r].todo) \o nextTurnQueue
                        ELSE nextTurnQueue
    /\ Fault
    /\ UNCHANGED <<session, pendingSessionWrites, steerQueue, followUpQueue, caller, unused,
                   structural>>
-----------------------------------------------------------------------------
(* Appends of a run.                                                        *)

\* What the run appends next, if anything.
Appends(r) ==
    CASE At(r, "streaming") ->
            {"answer", "failure"} \cup (IF run[r].turns < MaxTurns THEN {"calls"} ELSE {})
      [] At(r, "tools")   -> {"tool"}
      [] At(r, "failing") -> {"failure"}
      [] run[r].at \in Emitting -> ToSet(First(run[r].todo))
      [] run[r].at \in Flushing -> ToSet(First(pendingSessionWrites))
      [] OTHER -> {}

BeginAppend(r) ==
    /\ \E item \in Appends(r) : Begin(r, "message", item, 0)
    /\ UNCHANGED <<control, pendingSessionWrites, queues, run, caller, unused, bounds>>

\* The message is in the session; its listeners are told, and the loop goes on.
AppendLands(r) ==
    LET item == write[r].item
        injected == [run[r] EXCEPT !.context = Append(@, item)]
    IN  /\ Land(r)
        /\ \/ /\ run[r].at \in Emitting
              /\ run' = [run EXCEPT ![r] = [IF At(r, "inject") THEN injected ELSE run[r]
                                            EXCEPT !.todo = Tail(@)]]
              /\ UNCHANGED pendingSessionWrites
           \/ /\ run[r].at \in Flushing
              /\ pendingSessionWrites' = Rest(pendingSessionWrites)
              /\ UNCHANGED run
           \/ /\ At(r, "streaming")
              /\ run' = [run EXCEPT ![r] = [injected EXCEPT
                            !.at = IF item = "calls" THEN "tools" ELSE "turn_end",
                            !.turns = IF item = "calls" THEN @ + 1 ELSE @,
                            !.more = FALSE, !.last = item = "failure"]]
              /\ UNCHANGED pendingSessionWrites
           \/ /\ At(r, "tools")
              /\ \E terminate \in BOOLEAN :
                    run' = [run EXCEPT ![r] = [injected EXCEPT !.at = "turn_end",
                                                               !.more = ~ terminate]]
              /\ UNCHANGED pendingSessionWrites
           \/ /\ At(r, "failing")
              /\ Go(r, "turn_end")
              /\ UNCHANGED pendingSessionWrites
        /\ UNCHANGED <<control, queues, caller, unused, bounds>>

\* ... or a listener raises when it is told.
LandedUnheard(r) ==
    /\ Land(r) /\ run[r].at \notin Flushing
    /\ Throw(r) /\ Fault
    /\ UNCHANGED <<control, pendingSessionWrites, queues, caller, unused, structural>>

AppendFails(r) ==
    /\ Miss(r)
    /\ IF At(r, "final") THEN Finish(r, TRUE) ELSE Throw(r) /\ UNCHANGED control
    /\ Fault
    /\ UNCHANGED <<pendingSessionWrites, queues, caller, unused, structural>>
-----------------------------------------------------------------------------
(* The loop.                                                                *)

AtRest(r) == write[r] = None
Emitted(r) == run[r].todo = <<>> /\ AtRest(r)
Flushed(r) == pendingSessionWrites = <<>> /\ AtRest(r)

Drained(queue) == IF OneAtATime THEN First(queue) ELSE queue

Remaining(queue) == IF OneAtATime THEN Rest(queue) ELSE <<>>

\* getSteeringMessages, before each turn
Poll(r) ==
    /\ At(r, "poll") \/ (At(r, "prompts") /\ Emitted(r))
    /\ LET messages == Drained(steerQueue)
       IN  run' = [run EXCEPT ![r].todo = messages,
                              ![r].at = IF messages # <<>> THEN "polled"
                                        ELSE IF run[r].more THEN "inject" ELSE "followup"]
    /\ steerQueue' = Remaining(steerQueue)
    /\ UNCHANGED <<session, control, pendingSessionWrites, followUpQueue, nextTurnQueue, caller,
                   unused, bounds>>

\* getFollowUpMessages, when the agent would stop
PollFollowUp(r) ==
    /\ At(r, "followup")
    /\ LET messages == Drained(followUpQueue)
       IN  run' = [run EXCEPT ![r].todo = messages,
                              ![r].at = IF messages # <<>> THEN "followed" ELSE "agent_end"]
    /\ followUpQueue' = Remaining(followUpQueue)
    /\ UNCHANGED <<session, control, pendingSessionWrites, steerQueue, nextTurnQueue, caller,
                   unused, bounds>>

\* The queue update has been delivered.
Polled(r) ==
    /\ run[r].at \in {"polled", "followed"}
    /\ run' = [run EXCEPT ![r].at = "inject", ![r].detached = FALSE]
    /\ UNCHANGED <<session, control, pendingSessionWrites, queues, caller, unused, bounds>>

\* ... or its listener raises, and the messages go back: to an array that is no longer
\* the queue when an abort has replaced it meanwhile.
PollFails(r) ==
    /\ LET back == IF run[r].detached THEN <<>> ELSE run[r].todo
       IN  \/ /\ At(r, "polled")
              /\ steerQueue' = back \o steerQueue /\ UNCHANGED followUpQueue
           \/ /\ At(r, "followed")
              /\ followUpQueue' = back \o followUpQueue /\ UNCHANGED steerQueue
    /\ Throw(r)
    /\ Fault
    /\ UNCHANGED <<session, control, pendingSessionWrites, nextTurnQueue, caller, unused,
                   structural>>

\* The context hook and the request hooks run, then the Provider is called.
Send(r) ==
    /\ At(r, "inject") /\ Emitted(r) /\ Go(r, "streaming")
    /\ UNCHANGED <<session, control, pendingSessionWrites, queues, caller, unused, bounds>>

\* An aborted batch may end without its results.
ToolsAborted(r) ==
    /\ At(r, "tools") /\ AtRest(r) /\ r \in aborted
    /\ run' = [run EXCEPT ![r].at = "turn_end", ![r].more = TRUE]
    /\ UNCHANGED <<session, control, pendingSessionWrites, queues, caller, unused, bounds>>

TurnEnded(r) ==
    /\ At(r, "turn_end") /\ Flushed(r)
    /\ Go(r, IF run[r].last THEN "agent_end" ELSE "prepare")
    /\ UNCHANGED <<session, control, pendingSessionWrites, queues, caller, unused, bounds>>

\* Faulty: goes on with what the loop has in memory.
PreparedFromMemory(r) ==
    /\ At(r, "prepare") /\ Flushed(r) /\ Go(r, "poll")
    /\ UNCHANGED <<session, control, pendingSessionWrites, queues, caller, unused, bounds>>

\* prepareNextTurn: the session is read again, whatever the loop had in memory.
Prepared(r) ==
    /\ At(r, "prepare") /\ Flushed(r)
    /\ run' = [run EXCEPT ![r].at = "poll", ![r].context = Context]
    /\ UNCHANGED <<session, control, pendingSessionWrites, queues, caller, unused, bounds>>

\* A listener, a hook or the Provider call raises; after turn_end only when its flush
\* is done.
Raises(r) ==
    /\ run[r].at \in Emitting \cup {"streaming", "tools", "turn_end", "prepare",
                                    "settling", "failing"}
    /\ AtRest(r) /\ (run[r].at \in Flushing => Flushed(r))
    /\ Throw(r)
    /\ Fault
    /\ UNCHANGED <<session, control, pendingSessionWrites, queues, caller, unused, structural>>

AgentEnd(r) ==
    /\ At(r, "agent_end") /\ Flushed(r)
    /\ phase' = "idle"
    /\ run' = [run EXCEPT ![r] = [Idle("settling") EXCEPT !.failures = run[r].failures]]
    /\ UNCHANGED <<session, runAbortController, runPromise, aborted, pendingSessionWrites, queues,
                   caller, unused, bounds>>

\* The listeners of agent_end and settled have returned.
Settled(r) ==
    /\ At(r, "settling") /\ Go(r, "final")
    /\ UNCHANGED <<session, control, pendingSessionWrites, queues, caller, unused, bounds>>

Returns(r) ==
    /\ At(r, "final") /\ Flushed(r)
    /\ Finish(r, run[r].failures = 2)
    /\ UNCHANGED <<session, pendingSessionWrites, queues, caller, unused, bounds>>
-----------------------------------------------------------------------------
(* The other operations.                                                    *)

Submit(m) == m \in unused /\ unused' = unused \ {m}

Steer(m) ==
    /\ phase # "idle" /\ Submit(m)
    /\ steerQueue' = Append(steerQueue, m)
    /\ UNCHANGED <<session, control, pendingSessionWrites, followUpQueue, nextTurnQueue, run,
                   caller, bounds>>

FollowUp(m) ==
    /\ phase # "idle" /\ Submit(m)
    /\ followUpQueue' = Append(followUpQueue, m)
    /\ UNCHANGED <<session, control, pendingSessionWrites, steerQueue, nextTurnQueue, run, caller,
                   bounds>>

NextTurn(m) ==
    /\ Submit(m)
    /\ nextTurnQueue' = Append(nextTurnQueue, m)
    /\ UNCHANGED <<session, control, pendingSessionWrites, steerQueue, followUpQueue, run, caller,
                   bounds>>

\* appendMessage, and the session entries of the setters
Postpone(m) ==
    /\ phase # "idle" /\ Submit(m)
    /\ pendingSessionWrites' = Append(pendingSessionWrites, m)
    /\ UNCHANGED <<session, control, queues, run, caller, bounds>>

\* Faulty: does not ask whether the harness is idle.
AppendAnyTime(m) ==
    /\ caller = "free" /\ Submit(m)
    /\ Begin(Caller, "message", m, 0)
    /\ caller' = "appending"
    /\ UNCHANGED <<control, pendingSessionWrites, queues, run, bounds>>

\* appendMessage and the setters, while idle
AppendNow(m) ==
    /\ Quiet /\ caller = "free" /\ Submit(m)
    /\ Begin(Caller, "message", m, 0)
    /\ caller' = "appending"
    /\ UNCHANGED <<control, pendingSessionWrites, queues, run, bounds>>

Abort ==
    /\ steerQueue' = <<>> /\ followUpQueue' = <<>>
    /\ unused' = unused \cup ToSet(steerQueue) \cup ToSet(followUpQueue)
    /\ aborted' = aborted \cup ({runAbortController} \cap Runs)
    /\ run' = [r \in Runs |-> [run[r] EXCEPT !.detached = run[r].at \in {"polled", "followed"}]]
    /\ UNCHANGED <<session, phase, runAbortController, runPromise, pendingSessionWrites,
                   nextTurnQueue, caller, bounds>>

\* Faulty: does not ask whether the harness is idle.
StartAnyTime(operation) ==
    /\ caller = "free"
    /\ structural < MaxStructural /\ structural' = structural + 1
    /\ phase' = operation /\ caller' = operation
    /\ UNCHANGED <<session, runAbortController, runPromise, aborted, pendingSessionWrites, queues,
                   run, unused, faults>>

\* compact and navigateTree: the phase is theirs until their finally block.
StartStructural(operation) ==
    /\ Quiet /\ caller = "free"
    /\ structural < MaxStructural /\ structural' = structural + 1
    /\ phase' = operation /\ caller' = operation
    /\ UNCHANGED <<session, runAbortController, runPromise, aborted, pendingSessionWrites, queues,
                   run, unused, faults>>

\* Anything but a tool result may be the first entry a compaction keeps; the summary is
\* written by the Provider while others go on.
Compact ==
    /\ caller = "compaction" /\ Branch # <<>> /\ entries[leaf].kind # "compaction"
    /\ \E i \in ToSet(Branch) :
          /\ entries[i].kind = "message" /\ entries[i].item # "tool"
          /\ \A k \in ToSet(Branch) : entries[k].kind = "compaction" => entries[k].reference <= i
          /\ Begin(Caller, "compaction", "none", i)
    /\ UNCHANGED <<control, pendingSessionWrites, queues, run, caller, unused, bounds>>

\* A user message is given back to be edited: its parent becomes the leaf.
NavigateTree ==
    /\ caller = "branch_summary"
    /\ \E i \in DOMAIN entries \ {leaf} :
          Begin(Caller, "leaf", "none",
                IF entries[i].item \in Messages THEN entries[i].parent ELSE i)
    /\ UNCHANGED <<control, pendingSessionWrites, queues, run, caller, unused, bounds>>

\* The entry that moveTo was given and has moved to, which need not be the leaf any more.
MovedTo == entries[Max({i \in DOMAIN entries : entries[i].kind = "leaf"})].reference

Summarize ==
    /\ caller = "summarizing"
    /\ BeginAt(Caller, "message", "branch_summary", MovedTo, 0)
    /\ UNCHANGED <<control, pendingSessionWrites, queues, run, caller, unused, bounds>>

\* The finally block of compact and navigateTree.
CallerEnds ==
    /\ caller' = "free"
    /\ phase' = IF caller = "appending" THEN phase ELSE "idle"
    /\ UNCHANGED <<runAbortController, runPromise, aborted>>

CallerLands ==
    /\ Land(Caller)
    /\ \/ CallerEnds
       \/ caller = "branch_summary" /\ caller' = "summarizing" /\ UNCHANGED control
    /\ UNCHANGED <<pendingSessionWrites, queues, run, unused, bounds>>

\* A failed append; a summary that is refused, fails or has nothing to do.
CallerFails ==
    /\ \/ Miss(Caller) /\ Fault
       \/ /\ write[Caller] = None /\ caller \in {"compaction", "branch_summary"}
          /\ UNCHANGED <<session, faults>>
    /\ CallerEnds
    /\ UNCHANGED <<pendingSessionWrites, queues, run, unused, structural>>

Step(r) ==
    \/ CreateTurnState(r) \/ TakeNextTurn(r) \/ Announced(r) \/ StartLoop(r) \/ SetupFails(r)
    \/ BeginAppend(r) \/ AppendLands(r) \/ LandedUnheard(r) \/ AppendFails(r)
    \/ Poll(r) \/ PollFollowUp(r) \/ Polled(r) \/ PollFails(r) \/ Send(r) \/ ToolsAborted(r)
    \/ TurnEnded(r) \/ Prepared(r) \/ Raises(r) \/ AgentEnd(r) \/ Settled(r) \/ Returns(r)

Next ==
    \/ \E r \in Runs : Step(r) \/ \E m \in Messages : Prompt(r, m)
    \/ \E m \in Messages : Steer(m) \/ FollowUp(m) \/ NextTurn(m) \/ Postpone(m) \/ AppendNow(m)
    \/ Abort
    \/ \E operation \in {"compaction", "branch_summary"} : StartStructural(operation)
    \/ Compact \/ NavigateTree \/ Summarize \/ CallerLands \/ CallerFails

Spec == Init /\ [][Next]_vars

\* The event loop runs every continuation; Providers, tools, hooks and listeners end.
FairSpec == Spec /\ \A r \in Runs : WF_vars(Step(r))
-----------------------------------------------------------------------------
(* Properties.                                                              *)

\* What a run sends to the Provider is what the session would rebuild: the messages the
\* loop gathered in memory, those persisted meanwhile and the summaries are one history.
\* In it no message of anybody gets between an assistant message and its tool results,
\* which a Provider would refuse.
ContextIsBranch ==
    /\ \A r \in Runs : At(r, "streaming") /\ AtRest(r) => run[r].context = Context
    /\ \A i \in 1..Len(entries) :
          entries[i].item = "tool" =>
              /\ entries[i].parent # 0
              /\ entries[entries[i].parent].item = "calls"

\* Who holds messages, and what each of them holds, in order.
Held == [where \in Holders |->
           CASE where = "steering"  -> steerQueue
             [] where = "followUp"  -> followUpQueue
             [] where = "nextTurn"  -> nextTurnQueue
             [] where = "postponed" -> pendingSessionWrites
             [] where = "caller"    -> IF write[Caller] = None THEN <<>> ELSE <<write[Caller].item>>
             [] where = "session"   -> [i \in 1..Len(entries) |-> entries[i].item]
             [] OTHER               -> run[where].todo]

Places(m) ==
    UNION {{<<where, k>> : k \in {i \in DOMAIN Held[where] : Held[where][i] = m}} :
              where \in Holders}

\* A message somebody submitted is in one queue, on its way in one run or in the session,
\* never in two places and never twice; without a failure it is never nowhere, through
\* steering, aborts that hand it back, and flushes.
DeliveredOnce ==
    \A m \in Messages :
        /\ m \in unused => Places(m) = {}
        /\ \A p, q \in Places(m) : p = q
        /\ faults = 0 /\ m \notin unused => Places(m) # {}

\* Whatever is appended, by runs, flushes and callers, extends the branch: only a
\* navigation leaves entries out of it.
BranchGrows == [][IsPrefix(Branch, Branch') \/ caller = "branch_summary"]_vars

\* A process that reopens the file finds the leaf that memory had, after navigations and
\* refused lines too.
ReopenSameLeaf ==
    leaf = IF entries = <<>> THEN 0 ELSE leafIdAfterEntry(Len(entries))

\* Whatever raises, and however often: after a call of prompt the harness is idle again,
\* and those who wait for that, as abort does, go on.
IdleAgain == \A r \in Runs : At(r, "setup") ~> (phase = "idle" /\ runPromise # r)
=============================================================================
