------------------------------ MODULE ToolCalls ------------------------------
(***************************************************************************)
(* The steps of a plan that calls tools on the MCP servers:                *)
(* execute_plan_concurrent admits a few at a time and tries each several   *)
(* times (execution_engine.py); the gateway client waits for a short tool  *)
(* in one request that it repeats, and starts, polls and fetches a long    *)
(* one (gateway_client.py); the server keeps the executions in its memory  *)
(* (security-tools/server.py).  Requests and answers get lost, time-outs   *)
(* fire, the server restarts, the caller is stopped or dies.               *)
(***************************************************************************)
EXTENDS Integers, Sequences, FiniteSets

CONSTANTS
  Steps,       \* the steps of the plan
  Long,        \* those whose tool is one of ASYNC_TOOLS
  Limit,       \* max_concurrent
  Attempts,    \* max_retries of the engine: how often a step is tried
  Tries,       \* max_retries + 1 of the client: how often one try asks a short tool
  MaxTrouble   \* lost messages, restarts and deaths in all (a bound)

ASSUME ToolAssumption ==
  Long \subseteq Steps /\ {Limit, Attempts, Tries} \subseteq Nat \ {0} /\ MaxTrouble \in Nat

VARIABLES
  step,      \* [Steps -> ToolStep], where the caller is
  started,   \* [Steps -> Seq(ToolRun)], the executions the server started
  stopped,   \* somebody asked the plan to stop
  trouble    \* 0 .. MaxTrouble

toolVars == <<step, started, stopped, trouble>>

StepEnds == {"ok", "failed", "cancelled", "lost"}
ToolStep == [pc : {"new", "ready", "calling", "starting", "polling", "fetching", "cancelling"} \cup StepEnds,
             attempt : 1 .. Attempts, try : 1 .. Tries]
ToolRun == [status : {"running", "completed", "failed", "cancelled", "forgotten"}, alive : BOOLEAN]

ToolInit ==
  /\ step = [c \in Steps |-> [pc |-> "new", attempt |-> 1, try |-> 1]]
  /\ started = [c \in Steps |-> <<>>]
  /\ stopped = FALSE
  /\ trouble = 0

InPc(c, pc) == step[c].pc = pc
Admitted(c) == step[c].pc \notin {"new"} \cup StepEnds
\* The execution a step waits for is the last it started.
Status(c) == started[c][Len(started[c])].status
Trouble == trouble < MaxTrouble /\ trouble' = trouble + 1

Goto(c, pc) == step' = [step EXCEPT ![c].pc = pc]
AttemptsLeft(c) == step[c].attempt < Attempts
\* _execute_with_retry: any exception is tried again after a pause.
AttemptFails(c) ==
  step' = [step EXCEPT ![c] = IF AttemptsLeft(c)
                              THEN [pc |-> "ready", attempt |-> @.attempt + 1, try |-> 1]
                              ELSE [@ EXCEPT !.pc = "failed"]]
\* MCPGatewayClient.call: no answer and 5xx are asked again.
TryFails(c) ==
  IF step[c].try < Tries THEN step' = [step EXCEPT ![c].pc = "ready", ![c].try = @ + 1]
                         ELSE AttemptFails(c)
Launch(c) == started' = [started EXCEPT ![c] = Append(@, [status |-> "running", alive |-> TRUE])]

-----------------------------------------------------------------------------
(* The caller.                                                              *)

\* _execute_asset_task: the stop is seen before and after the semaphore.
Admit(c) ==
  /\ InPc(c, "new")
  /\ \/ stopped /\ Goto(c, "cancelled")
     \/ ~stopped /\ Cardinality({d \in Steps : Admitted(d)}) < Limit /\ Goto(c, "ready")
  /\ UNCHANGED <<started, stopped, trouble>>

\* The request arrives, or does not.
SendCall(c) ==
  /\ InPc(c, "ready") /\ c \notin Long
  /\ \/ Launch(c) /\ Goto(c, "calling") /\ UNCHANGED trouble
     \/ Trouble /\ TryFails(c) /\ UNCHANGED started
  /\ UNCHANGED stopped

\* call: an error of the tool is a 4xx that is not asked again, or a 5xx that is.
CallAnswered(c) ==
  /\ InPc(c, "calling")
  /\ \/ Status(c) = "completed" /\ Goto(c, "ok") /\ UNCHANGED trouble
     \/ Status(c) = "completed" /\ Trouble /\ TryFails(c)
     \/ Status(c) = "failed" /\ (AttemptFails(c) \/ TryFails(c)) /\ UNCHANGED trouble
  /\ UNCHANGED <<started, stopped>>

\* The gateway waits 90 seconds, the tool has up to 300: it goes on, the call is repeated.
CallTimesOut(c) ==
  /\ InPc(c, "calling") /\ Status(c) \in {"running", "forgotten"}
  /\ TryFails(c)
  /\ UNCHANGED <<started, stopped, trouble>>

\* call_async, the request.
SendStart(c) ==
  /\ InPc(c, "ready") /\ c \in Long
  /\ \/ Launch(c) /\ Goto(c, "starting") /\ UNCHANGED trouble
     \/ Trouble /\ AttemptFails(c) /\ UNCHANGED started
  /\ UNCHANGED stopped

\* call_async, the answer: without it nobody knows the task id.
StartAnswered(c) ==
  /\ InPc(c, "starting")
  /\ \/ Goto(c, "polling") /\ UNCHANGED trouble
     \/ Trouble /\ AttemptFails(c)
  /\ UNCHANGED <<started, stopped>>

PollTask(c) ==
  /\ InPc(c, "polling")
  /\ \/ Status(c) = "completed" /\ Goto(c, "fetching")
     \/ Status(c) \in {"failed", "cancelled"} /\ AttemptFails(c)
  /\ UNCHANGED <<started, stopped, trouble>>

\* No progress for MCP_PROGRESS_STALE_SECONDS: the server does not know the task any
\* more, or cannot be reached.  Nothing is cancelled.
MutantSilent(c) == Trouble
Silent(c) == IF Status(c) = "forgotten" THEN UNCHANGED trouble ELSE Trouble
PollStale(c) ==
  /\ InPc(c, "polling") /\ Silent(c)
  /\ AttemptFails(c)
  /\ UNCHANGED <<started, stopped>>

\* get_result is asked once.
Fetch(c) ==
  /\ InPc(c, "fetching")
  /\ \/ Status(c) = "completed" /\ Goto(c, "ok") /\ UNCHANGED trouble
     \/ Silent(c) /\ AttemptFails(c)
  /\ UNCHANGED <<started, stopped>>

\* CancelledError: call_with_progress cancels the task it polls; a request whose answer
\* is not there yet is dropped.
HearStop(c) ==
  /\ stopped /\ Admitted(c) /\ ~InPc(c, "cancelling")
  /\ Goto(c, IF step[c].pc \in {"polling", "fetching"} THEN "cancelling" ELSE "cancelled")
  /\ UNCHANGED <<started, stopped, trouble>>

\* cancel_scan, or the request is lost, which is only logged.
SendCancel(c) ==
  /\ InPc(c, "cancelling") /\ Goto(c, "cancelled")
  /\ \/ /\ started' = [started EXCEPT ![c][Len(started[c])].status = IF @ = "running" THEN "cancelled" ELSE @]
        /\ UNCHANGED trouble
     \/ Trouble /\ UNCHANGED started
  /\ UNCHANGED stopped

-----------------------------------------------------------------------------
(* The server and the world.                                                *)

\* _run_async_security_tool, or /execute: the tool ends; a cancelled one is killed.
ToolEnds(c, k) ==
  /\ started[c][k].alive
  /\ \E status \in IF started[c][k].status = "cancelled" THEN {"cancelled"} ELSE {"completed", "failed"} :
       started' = [started EXCEPT ![c] = [@ EXCEPT ![k] = [status |-> status, alive |-> FALSE]]]
  /\ UNCHANGED <<step, stopped, trouble>>

\* SCAN_TASKS and the processes are gone.
ServerRestarts ==
  /\ Trouble /\ \E c \in Steps : started[c] # <<>>
  /\ started' = [c \in Steps |-> [k \in DOMAIN started[c] |-> [status |-> "forgotten", alive |-> FALSE]]]
  /\ UNCHANGED <<step, stopped>>

\* stop_task, by the user, the API or the lease of the task.
StopPlan ==
  /\ ~stopped /\ stopped' = TRUE
  /\ UNCHANGED <<step, started, trouble>>

CallerDies ==
  /\ Trouble /\ \E c \in Steps : Admitted(c)
  /\ step' = [c \in Steps |-> IF step[c].pc \in StepEnds THEN step[c] ELSE [step[c] EXCEPT !.pc = "lost"]]
  /\ UNCHANGED <<started, stopped>>

-----------------------------------------------------------------------------
StepProgress(c) ==
  \/ Admit(c) \/ SendCall(c) \/ CallAnswered(c) \/ CallTimesOut(c)
  \/ SendStart(c) \/ StartAnswered(c) \/ PollTask(c) \/ PollStale(c) \/ Fetch(c)
  \/ HearStop(c) \/ SendCancel(c)
ToolNext ==
  \/ \E c \in Steps : StepProgress(c) \/ \E k \in DOMAIN started[c] : ToolEnds(c, k)
  \/ ServerRestarts \/ StopPlan \/ CallerDies

\* The event loop runs every step; time-outs and answers of a server come; a tool ends by
\* itself, which nothing in the code forces a long one to do.
ToolFairness ==
  \A c \in Steps : /\ WF_toolVars(StepProgress(c))
                   /\ WF_toolVars(\E k \in DOMAIN started[c] : ToolEnds(c, k))
ToolSpec == ToolInit /\ [][ToolNext]_toolVars /\ ToolFairness

-----------------------------------------------------------------------------
\* Every variable has its type.
ToolTypeOK ==
  /\ step \in [Steps -> ToolStep]
  /\ started \in [Steps -> Seq(ToolRun)]
  /\ stopped \in BOOLEAN
  /\ trouble \in 0 .. MaxTrouble

\* Every step ends, whatever is lost, forgotten or restarted, when every tool ends.
CallsEnd == \A c \in Steps : <>(step[c].pc \in StepEnds)
=============================================================================
