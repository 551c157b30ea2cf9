------------------------------ MODULE AgentTools ------------------------------
(***************************************************************************)
(* The tool calls of one Agent (agent-loop.ts under agent.ts).  The calls of  *)
(* an assistant message are prepared in order and executed one after another *)
(* or all at once, while listeners are awaited for every event, the tools    *)
(* report progress, and the caller may abort.  A step is the code between     *)
(* two awaits.  A run is one batch: that a run has several, and the queues    *)
(* between them, is AgentHarness's; the names here differ from those there.   *)
(***************************************************************************)
EXTENDS Integers, Sequences

CONSTANTS
    AgentRuns,         \* calls of prompt or continue
    NoRun,
    N,            \* tool calls of an assistant message
    MaxUpdates,   \* bound on the progress reports of a call under delivery
    MaxRaised     \* bound on listeners that raise

ASSUME ToolsAssumption ==
    /\ NoRun \notin AgentRuns
    /\ N \in Nat \ {0} /\ MaxUpdates \in Nat /\ MaxRaised \in Nat

Calls == AgentRuns \X (1..N)

VARIABLES
    toolExecution,     \* "sequential", by option or for one of the tools, or "parallel"
    activeRun,
    signalled,         \* runs whose signal is aborted
    at,                \* position of each run
    next,              \* the call or the result a run is at
    call,              \* state of each call
    updates,           \* progress reports of each call that listeners are being told
    unheard,           \* calls with a report whose listener raised
    pendingToolCalls,
    messages,          \* tool results in the transcript
    failures,          \* errors of each run, and of its report
    raised

loopControl == <<toolExecution, activeRun, signalled>>
reports == <<updates, unheard>>
toolVars == <<loopControl, at, next, call, reports, pendingToolCalls, messages, failures, raised>>

\* A call waits, is announced, is ready when a parallel batch has prepared it, runs, has
\* returned, and is ended once its end is emitted; the listeners heard that, or it raised.
ToolsInit ==
    /\ toolExecution \in {"sequential", "parallel"}
    /\ activeRun = NoRun /\ signalled = {}
    /\ at = [r \in AgentRuns |-> "new"] /\ next = [r \in AgentRuns |-> 1]
    /\ call = [c \in Calls |-> "waiting"]
    /\ updates = [c \in Calls |-> 0] /\ unheard = {}
    /\ pendingToolCalls = {} /\ messages = <<>>
    /\ failures = [r \in AgentRuns |-> 0] /\ raised = 0

LoopAt(r, where) == at[r] = where
LoopGoes(r, where) == at' = [at EXCEPT ![r] = where]
Current(r) == <<r, next[r]>>
Reached(r) == {c \in Calls : c[1] = r /\ call[c] # "waiting"}
ListenerRaises == raised < MaxRaised /\ raised' = raised + 1
-----------------------------------------------------------------------------
(* A run.                                                                   *)

\* ... up to the assistant message with its calls.
AgentPrompt(r) ==
    /\ LoopAt(r, "new") /\ activeRun = NoRun
    /\ activeRun' = r
    /\ LoopGoes(r, "next")
    /\ UNCHANGED <<toolExecution, signalled, next, call, reports, pendingToolCalls, messages,
                   failures, raised>>

AgentAbort ==
    /\ activeRun # NoRun /\ signalled' = signalled \cup {activeRun}
    /\ UNCHANGED <<toolExecution, activeRun, at, next, call, reports, pendingToolCalls, messages,
                   failures, raised>>

\* finishRun
FinishRun(r) ==
    /\ LoopGoes(r, "over")
    /\ activeRun' = NoRun /\ pendingToolCalls' = {}

\* The loop raises: handleRunFailure reports it, unless it was raising itself.
LoopRaises(r) ==
    /\ failures' = [failures EXCEPT ![r] = @ + 1]
    /\ \/ /\ failures[r] = 0 /\ LoopGoes(r, "failing")
          /\ UNCHANGED <<activeRun, pendingToolCalls>>
       \/ failures[r] # 0 /\ FinishRun(r)

\* turn_end and what follows, or the report of a failure
TurnEnd(r) ==
    /\ at[r] \in {"turn_end", "failing"} /\ LoopGoes(r, "agent_end")
    /\ UNCHANGED <<loopControl, next, call, reports, pendingToolCalls, messages, failures, raised>>

AgentEndHeard(r) ==
    /\ LoopAt(r, "agent_end") /\ FinishRun(r)
    /\ UNCHANGED <<toolExecution, signalled, next, call, reports, messages, failures, raised>>

\* A listener of the event the run is emitting raises.
EventRaises(r) ==
    /\ at[r] \in {"start", "ended", "result", "turn_end", "failing", "agent_end"}
    /\ call' = IF LoopAt(r, "ended") THEN [call EXCEPT ![Current(r)] = "raised"] ELSE call
    /\ LoopRaises(r) /\ ListenerRaises
    /\ UNCHANGED <<toolExecution, signalled, next, reports, messages>>
-----------------------------------------------------------------------------
(* Preparing the calls, in order.                                           *)

\* tool_execution_start; an abort ends the batch, but not before its first call.
StartCall(r) ==
    /\ LoopAt(r, "next") /\ next[r] <= N /\ (next[r] = 1 \/ r \notin signalled)
    /\ call' = [call EXCEPT ![Current(r)] = "started"]
    /\ pendingToolCalls' = pendingToolCalls \cup {Current(r)}
    /\ LoopGoes(r, "start")
    /\ UNCHANGED <<loopControl, next, reports, messages, failures, raised>>

\* Faulty: does not look at the signal after the hook.
PreparedAnyway(r) ==
    /\ LoopAt(r, "start")
    /\ \/ /\ toolExecution = "sequential"
          /\ call' = [call EXCEPT ![Current(r)] = "running"]
          /\ LoopGoes(r, "execute") /\ UNCHANGED next
       \/ /\ toolExecution = "parallel"
          /\ call' = [call EXCEPT ![Current(r)] = "ready"]
          /\ next' = [next EXCEPT ![r] = @ + 1]
          /\ LoopGoes(r, "next")
    /\ UNCHANGED <<loopControl, reports, pendingToolCalls, messages, failures, raised>>

\* The tool exists, its arguments are valid, beforeToolCall allows it and nobody has
\* aborted: it executes at once, or with the others.
CallPrepared(r) ==
    /\ LoopAt(r, "start") /\ r \notin signalled
    /\ \/ /\ toolExecution = "sequential"
          /\ call' = [call EXCEPT ![Current(r)] = "running"]
          /\ LoopGoes(r, "execute") /\ UNCHANGED next
       \/ /\ toolExecution = "parallel"
          /\ call' = [call EXCEPT ![Current(r)] = "ready"]
          /\ next' = [next EXCEPT ![r] = @ + 1]
          /\ LoopGoes(r, "next")
    /\ UNCHANGED <<loopControl, reports, pendingToolCalls, messages, failures, raised>>

\* Otherwise its result is an error and its end is emitted.
Immediate(r) ==
    /\ LoopAt(r, "start")
    /\ call' = [call EXCEPT ![Current(r)] = "ended"]
    /\ pendingToolCalls' = pendingToolCalls \ {Current(r)}
    /\ LoopGoes(r, "ended")
    /\ UNCHANGED <<loopControl, next, reports, messages, failures, raised>>

ImmediateHeard(r) ==
    /\ LoopAt(r, "ended")
    /\ call' = [call EXCEPT ![Current(r)] = "heard"]
    /\ \/ toolExecution = "sequential" /\ LoopGoes(r, "execute") /\ UNCHANGED next
       \/ /\ toolExecution = "parallel" /\ LoopGoes(r, "next")
          /\ next' = [next EXCEPT ![r] = @ + 1]
    /\ UNCHANGED <<loopControl, reports, pendingToolCalls, messages, failures, raised>>

\* Nothing is left to prepare: a parallel batch starts everything that is ready.
BatchPrepared(r) ==
    /\ LoopAt(r, "next") /\ (next[r] > N \/ (next[r] > 1 /\ r \in signalled))
    /\ \/ /\ toolExecution = "sequential" /\ LoopGoes(r, "turn_end")
          /\ UNCHANGED <<next, call>>
       \/ /\ toolExecution = "parallel" /\ LoopGoes(r, "execute")
          /\ next' = [next EXCEPT ![r] = 1]
          /\ call' = [c \in Calls |-> IF c[1] = r /\ call[c] = "ready" THEN "running" ELSE call[c]]
    /\ UNCHANGED <<loopControl, reports, pendingToolCalls, messages, failures, raised>>
-----------------------------------------------------------------------------
(* Executing a call.  In a parallel batch these go on whatever became of the  *)
(* run.                                                                       *)

\* onUpdate, ignored unless the tool is still running
Update(c) ==
    /\ call[c] = "running" /\ updates[c] < MaxUpdates
    /\ updates' = [updates EXCEPT ![c] = @ + 1]
    /\ UNCHANGED <<loopControl, at, next, call, unheard, pendingToolCalls, messages, failures, raised>>

UpdateHeard(c) ==
    /\ updates[c] > 0
    /\ updates' = [updates EXCEPT ![c] = @ - 1]
    /\ \/ UNCHANGED <<unheard, raised>>
       \/ unheard' = unheard \cup {c} /\ ListenerRaises
    /\ UNCHANGED <<loopControl, at, next, call, pendingToolCalls, messages, failures>>

\* The tool returns or throws: both are results.
Return(c) ==
    /\ call[c] = "running"
    /\ call' = [call EXCEPT ![c] = "returned"]
    /\ UNCHANGED <<loopControl, at, next, reports, pendingToolCalls, messages, failures, raised>>

\* Faulty: does not wait for the listeners of its reports.
FinalizeEarly(c) ==
    /\ call[c] = "returned"
    /\ call' = [call EXCEPT ![c] = "ended"]
    /\ pendingToolCalls' = pendingToolCalls \ {c}
    /\ UNCHANGED <<loopControl, at, next, reports, messages, failures, raised>>

\* afterToolCall has returned or thrown, and the end is emitted.
Finalize(c) ==
    /\ call[c] = "returned" /\ updates[c] = 0 /\ c \notin unheard
    /\ call' = [call EXCEPT ![c] = "ended"]
    /\ pendingToolCalls' = pendingToolCalls \ {c}
    /\ UNCHANGED <<loopControl, at, next, reports, messages, failures, raised>>

EndHeard(c) ==
    /\ call[c] = "ended" /\ ~ LoopAt(c[1], "ended")
    /\ call' = [call EXCEPT ![c] = "heard"]
    /\ UNCHANGED <<loopControl, at, next, reports, pendingToolCalls, messages, failures, raised>>

\* Faulty: the batch waits for the other calls, and for this one.
CallRaisesUnseen(c) ==
    /\ \/ call[c] = "returned" /\ c \in unheard /\ UNCHANGED raised
       \/ call[c] = "ended" /\ ~ LoopAt(c[1], "ended") /\ ListenerRaises
    /\ call' = [call EXCEPT ![c] = "raised"]
    /\ UNCHANGED <<loopControl, at, next, failures, reports, pendingToolCalls, messages>>

\* A listener of a report or of the end raises: the first call that does ends the batch
\* for the run.
CallRaises(c) ==
    /\ \/ call[c] = "returned" /\ c \in unheard /\ UNCHANGED raised
       \/ call[c] = "ended" /\ ~ LoopAt(c[1], "ended") /\ ListenerRaises
    /\ call' = [call EXCEPT ![c] = "raised"]
    /\ \/ LoopAt(c[1], "execute") /\ LoopRaises(c[1])
       \/ ~ LoopAt(c[1], "execute") /\ UNCHANGED <<activeRun, at, failures, pendingToolCalls>>
    /\ UNCHANGED <<toolExecution, signalled, next, reports, messages>>
-----------------------------------------------------------------------------
(* The results.                                                             *)

\* Faulty: a parallel batch gives each result when it has it.
ExecutedAsTheyCome(r) ==
    /\ LoopAt(r, "execute")
    /\ \E c \in Reached(r) :
          /\ call[c] = "heard" /\ \A k \in DOMAIN messages : messages[k] # c
          /\ messages' = Append(messages, c)
    /\ LoopGoes(r, IF \E c \in Reached(r) : call[c] # "heard" THEN "execute" ELSE "result")
    /\ UNCHANGED <<loopControl, next, call, reports, pendingToolCalls, failures, raised>>

\* The one call has ended, or all have.
ResultDue(r) ==
    /\ LoopAt(r, "execute")
    /\ \/ toolExecution = "sequential" /\ call[Current(r)] = "heard"
       \/ toolExecution = "parallel" /\ \A c \in Reached(r) : call[c] = "heard"

\* emitToolResultMessage: message_start, and message_end which adds it
Executed(r) ==
    /\ ResultDue(r)
    /\ messages' = Append(messages, Current(r))
    /\ LoopGoes(r, "result")
    /\ UNCHANGED <<loopControl, next, call, reports, pendingToolCalls, failures, raised>>

\* A listener of message_start raises.
ResultUnheard(r) ==
    /\ ResultDue(r) /\ LoopRaises(r) /\ ListenerRaises
    /\ UNCHANGED <<toolExecution, signalled, next, call, reports, messages>>

ResultHeard(r) ==
    /\ LoopAt(r, "result")
    /\ \/ /\ toolExecution = "sequential" /\ LoopGoes(r, "next")
          /\ next' = [next EXCEPT ![r] = @ + 1]
       \/ /\ toolExecution = "parallel" /\ <<r, next[r] + 1>> \in Reached(r)
          /\ LoopGoes(r, "execute")
          /\ next' = [next EXCEPT ![r] = @ + 1]
       \/ /\ toolExecution = "parallel" /\ <<r, next[r] + 1>> \notin Reached(r)
          /\ LoopGoes(r, "turn_end") /\ UNCHANGED next
    /\ UNCHANGED <<loopControl, call, reports, pendingToolCalls, messages, failures, raised>>

LoopStep(r) ==
    \/ TurnEnd(r) \/ AgentEndHeard(r) \/ EventRaises(r)
    \/ StartCall(r) \/ CallPrepared(r) \/ Immediate(r) \/ ImmediateHeard(r) \/ BatchPrepared(r)
    \/ Executed(r) \/ ResultUnheard(r) \/ ResultHeard(r)

Execution(c) ==
    UpdateHeard(c) \/ Return(c) \/ Finalize(c) \/ EndHeard(c) \/ CallRaises(c)

ToolsNext ==
    \/ \E r \in AgentRuns : AgentPrompt(r) \/ LoopStep(r)
    \/ AgentAbort
    \/ \E c \in Calls : Update(c) \/ Execution(c)

ToolsSpec == ToolsInit /\ [][ToolsNext]_toolVars

\* The event loop runs every continuation, and tools, hooks and listeners end; nobody has
\* to ask for anything or to abort.
ToolsFairSpec ==
    /\ ToolsSpec
    /\ \A r \in AgentRuns : WF_toolVars(LoopStep(r))
    /\ \A c \in Calls :
          /\ WF_toolVars(UpdateHeard(c))
          /\ WF_toolVars(Return(c) \/ Finalize(c) \/ EndHeard(c) \/ CallRaises(c))
-----------------------------------------------------------------------------
(* Properties.                                                              *)

Given == {messages[i] : i \in DOMAIN messages}

\* However the tools finish, the results of a batch are in the transcript in the order of
\* its calls, none twice and none left out in between; a batch that nobody aborted and
\* nothing failed has all of them.  A listener is told the end of a call after all of its
\* progress.
ResultsInOrder ==
    /\ \A i, j \in DOMAIN messages : messages[i] = messages[j] => i = j
    /\ \A i \in DOMAIN messages : \A k \in 1..(messages[i][2] - 1) :
          \E j \in 1..(i - 1) : messages[j] = <<messages[i][1], k>>
    /\ \A r \in AgentRuns :
          LoopAt(r, "over") /\ r \notin signalled /\ failures[r] = 0 => {r} \X (1..N) \subseteq Given
    /\ \A c \in Calls : call[c] \in {"ended", "heard"} => updates[c] = 0

\* A call that was not prepared when its run was aborted never reaches its tool, and no
\* call of a run that is over does.
AbortedNeverStarts ==
    [][\A c \in Calls :
          call[c] # "running" /\ call'[c] = "running" =>
             /\ c[1] = activeRun
             /\ c[1] \in signalled => call[c] = "ready"]_toolVars

\* A run settles, and those who wait for it go on, whatever its tools, hooks and listeners
\* do and whenever it is aborted.
RunsSettle == \A r \in AgentRuns : activeRun = r ~> activeRun # r
=============================================================================
