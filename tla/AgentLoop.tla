------------------------------ MODULE AgentLoop -------------------------------
(***************************************************************************)
(* One saved session driven by AgentSession.run, Agent.run and run_loop    *)
(* (mini_pi/session/runtime.py, agent/agent.py, agent/loop.py): the        *)
(* request loop with its step and budget limits, the serial tool batch,    *)
(* durable-first commits, compaction between turns, Ctrl+C wherever it can *)
(* land, failing writes, and a crash of the process followed by --resume.  *)
(*                                                                         *)
(* pc names the statement the single thread of the program is at:          *)
(*   idle        the host waits for the next task                          *)
(*   prepare     prepare_mcp() before the task                             *)
(*   precompact  window check and compaction before the prompt             *)
(*   begin       begin_run(), which asks for the MCP catalog again         *)
(*   system      _refresh_system_prompt                                    *)
(*   user        the commit of the user message                            *)
(*   loop        head of the while loop in run_loop                        *)
(*   stream      _stream_assistant up to and including its commit          *)
(*   reply       emit(MessageEnd) and what follows it up to the dispatch   *)
(*   batch       validate_batch                                            *)
(*   call        the try block of one tool call                            *)
(*   observe     the commit of its result                                  *)
(*   end         emit(ToolExecutionEnd)                                    *)
(*   fill        _append_failed_calls                                      *)
(*   cut         _record_truncated_calls                                   *)
(*   turn        emit(TurnEnd) after a tool batch                          *)
(*   hook, cost  the two halves of _compact_between_turns                  *)
(*   down        the process died;  refused: --resume raised SessionError  *)
(***************************************************************************)
EXTENDS Transcript, FiniteSets

CONSTANTS
  MaxRuns,      \* bound: tasks started by the host, over all processes
  MaxCrashes,   \* bound: deaths of the process
  MaxRules,     \* bound: versions of the system prompt's sections
  MaxSteps,     \* max_steps of one run
  MaxCalls,     \* bound: tool calls in one assistant message
  Budget,       \* max_run_input_tokens; 0 when the option is absent
  Drift,        \* provider-reported input minus the prediction
  InterruptAt,  \* program points at which Ctrl+C may land
  FailAt,       \* program points whose durable write may fail
  SplitAt       \* program points at which it may land inside a commit

Points == {"idle", "prepare", "precompact", "begin", "system", "user", "loop", "stream",
           "reply", "batch", "call", "observe", "end", "fill", "cut",
           "turn", "hook", "cost", "down", "refused"}

ASSUME AgentLoopAssumption ==
  /\ MaxRuns \in Nat /\ MaxCrashes \in Nat /\ MaxRules \in Nat \ {0}
  /\ MaxSteps \in Nat \ {0} /\ MaxCalls \in Nat /\ Budget \in Nat
  /\ Drift \subseteq Nat
  /\ InterruptAt \subseteq Points
  /\ FailAt \subseteq Points
  /\ SplitAt \subseteq Points

VARIABLES
  \* The session file: message entries, stepCount of the last one, position
  \* kept by the latest compaction, version of the recorded system prompt.
  log, saved, kept, rulesLog,
  \* AgentState of the process, and the system prompt it has applied.
  mem, step, rules,
  \* The run: where it is, steps_this_run, the input budget, `last is not
  \* None`, RunContext.cost_compaction_attempted.
  pc, steps, used, warned, predicted, last, attempted,
  \* The tool batch: its message, the next call, the rejection of the whole
  \* batch, the result in hand, and what _append_failed_calls writes.
  batch, next, rejected, result, filling,
  \* What the host was told: how run() ended, the reason of AgentEnd, and the
  \* turn and tool-execution events still without their end event.
  outcome, reason, turnOpen, toolOpen,
  \* History: calls whose tool took effect, whether Ctrl+C landed in the run.
  effects, interrupted,
  runs, crashes

file    == <<log, saved, kept, rulesLog>>
memory  == <<mem, step, rules>>
limits  == <<steps, used, warned, predicted, last, attempted>>
batchVars == <<batch, next, rejected, result, filling>>
told    == <<outcome, reason, turnOpen, toolOpen>>
history == <<effects, interrupted>>
bounds  == <<runs, crashes>>
vars == <<file, memory, pc, limits, batchVars, told, history, bounds>>

NoBatch == AssistantMessage(0, 0, "stop")

Init ==
  /\ log = <<>> /\ saved = 0 /\ kept = 0 /\ rulesLog = 0
  /\ mem = <<>> /\ step = 0 /\ rules = 0
  /\ pc = "idle"
  /\ steps = 0 /\ used = 0 /\ warned = FALSE /\ predicted = 0
  /\ last = FALSE /\ attempted = FALSE
  /\ batch = NoBatch /\ next = 1 /\ rejected = FALSE /\ result = "ok"
  /\ filling = "cancelled"
  /\ outcome = "none" /\ reason = "none" /\ turnOpen = FALSE /\ toolOpen = FALSE
  /\ effects = {} /\ interrupted = FALSE
  /\ runs = 0 /\ crashes = 0

-------------------------------------------------------------------------------
(* Leaving a run.                                                          *)

\* The locals of run_loop, and those of a batch, end with their call.
DropLimits ==
  /\ steps' = 0 /\ used' = 0 /\ warned' = FALSE /\ predicted' = 0
  /\ last' = FALSE /\ attempted' = FALSE
DropBatch ==
  /\ batch' = NoBatch /\ next' = 1 /\ rejected' = FALSE
  /\ result' = "ok" /\ filling' = "cancelled"

\* run() returns after AgentEnd(why).
Finish(why) ==
  /\ pc' = "idle"
  /\ outcome' = "returned"
  /\ reason' = why
  /\ DropLimits
  /\ DropBatch

\* run() goes on, at the statement there.
Continue(there) ==
  /\ pc' = there
  /\ UNCHANGED <<outcome, reason, limits, batchVars>>

\* An exception leaves run(): no AgentEnd; the registry is closed on the way.
Raise ==
  /\ pc' = "idle"
  /\ outcome' = "raised"
  /\ DropLimits
  /\ DropBatch
  /\ UNCHANGED <<reason, turnOpen, toolOpen>>

\* commit_message: the durable append first, the in-memory one after it.
Commit(m) ==
  /\ log' = Append(log, m)
  /\ saved' = step
  /\ mem' = Append(mem, m)
  /\ UNCHANGED <<kept, rulesLog, step, rules>>

-------------------------------------------------------------------------------
(* AgentSession.run and Agent.run, up to the loop.                         *)

Run ==
  /\ pc = "idle"
  /\ runs < MaxRuns
  /\ runs' = runs + 1
  /\ pc' = "prepare"
  /\ outcome' = "none" /\ reason' = "none" /\ turnOpen' = FALSE /\ toolOpen' = FALSE
  /\ interrupted' = FALSE
  /\ UNCHANGED <<file, memory, limits, batchVars, effects, crashes>>

\* The MCP catalog is ready, or its discovery fails and the run is aborted
\* before anything of it is recorded.  AgentSession.run asks first; begin_run
\* asks again, for a server may have gone away during the compaction.
Prepare ==
  /\ \/ pc = "prepare" /\ Continue("precompact")
     \/ pc = "begin" /\ Continue("system")
     \/ pc \in {"prepare", "begin"} /\ Finish("error")
  /\ UNCHANGED <<file, memory, turnOpen, toolOpen, history, bounds>>

\* What the recorded rules replay to once a patch of a file that holds other
\* rules than memory deletes a section twice: nothing.
Unreplayable == MaxRules + 1

\* The file can be projected: its kept region pairs up and its rules replay.
Projectable == Replayable(log, kept) /\ rulesLog # Unreplayable

\* A compaction that succeeds records where the kept region starts and then
\* rebuilds the messages from the file; the one that fails does neither.
Compact ==
  \E c \in CutPoints(log, kept) :
    /\ Projectable
    /\ rulesLog > 0
    /\ kept' = c
    /\ mem' = Projection(log, c)
    /\ rules' = rulesLog
    /\ UNCHANGED <<log, saved, rulesLog, step>>

\* Not needed; done and low enough; done and still above the threshold;
\* needed but without a cut, without a summary or not written.
PreCompact ==
  /\ pc = "precompact"
  /\ \/ Continue("begin") /\ UNCHANGED <<file, memory>>
     \/ Continue("begin") /\ Compact
     \/ Finish("error") /\ Compact
     \/ Finish("error") /\ UNCHANGED <<file, memory>>
  /\ UNCHANGED <<turnOpen, toolOpen, history, bounds>>

\* The /compact command, between tasks.
ManualCompact ==
  /\ pc = "idle"
  /\ Compact
  /\ UNCHANGED <<pc, limits, batchVars, told, history, bounds>>

\* What the file's rules may be after the wanted ones are appended: a snapshot
\* when memory has none, else a patch of memory's rules.  Applied to a file
\* that holds other rules (an interrupted commit) it gives a mixture of both,
\* or deletes a section the file no longer has.
Recorded(wanted) ==
  IF rulesLog = Unreplayable THEN {Unreplayable}
  ELSE IF rules \in {0, rulesLog} THEN {wanted}
  ELSE 1 .. Unreplayable

\* The sections wanted now are those memory has, or a snapshot or a patch of
\* them is committed before the task.
RefreshSystemPrompt ==
  /\ pc = "system"
  /\ \E wanted \in 1 .. MaxRules :
       \/ /\ wanted = rules
          /\ UNCHANGED <<rules, rulesLog, saved>>
       \/ /\ wanted # rules
          /\ rules' = wanted
          /\ rulesLog' \in Recorded(wanted)
          /\ saved' = step
  /\ pc' = "user"
  /\ UNCHANGED <<log, kept, mem, step, limits, batchVars, told, history, bounds>>

CommitUser ==
  /\ pc = "user"
  /\ Commit(UserMessage)
  /\ Continue("loop")
  /\ UNCHANGED <<turnOpen, toolOpen, history, bounds>>

-------------------------------------------------------------------------------
(* The head of run_loop: step limit, budget, request.                      *)

\* The estimate of a request grows with the messages it carries; the budget
\* notice is one more message, sent but never committed.
Estimate == Len(mem)
WithNotice == Estimate + 1
Fits(tokens) == Budget = 0 \/ used + tokens <= Budget
NoticeDue == Budget > 0 /\ last /\ ~warned /\ used + 2 * Estimate > Budget

StepLimit ==
  /\ pc = "loop"
  /\ steps = MaxSteps
  /\ Finish("step_limit")
  /\ UNCHANGED <<file, memory, turnOpen, toolOpen, history, bounds>>

BudgetLimit ==
  /\ pc = "loop"
  /\ steps < MaxSteps
  /\ ~Fits(Estimate) \/ (NoticeDue /\ ~Fits(WithNotice))
  /\ Finish("budget_limit")
  /\ UNCHANGED <<file, memory, turnOpen, toolOpen, history, bounds>>

StartTurn(tokens) ==
  /\ predicted' = tokens
  /\ steps' = steps + 1
  /\ step' = step + 1
  /\ turnOpen' = TRUE
  /\ pc' = "stream"
  /\ UNCHANGED <<file, mem, rules, used, last, attempted, batchVars,
                 outcome, reason, toolOpen, history, bounds>>

\* Mutant: the step limit is tested after the request instead of before it.
RequestUnlimited ==
  /\ pc = "loop"
  /\ ~NoticeDue
  /\ Fits(Estimate)
  /\ StartTurn(Estimate)
  /\ UNCHANGED warned

Request ==
  /\ pc = "loop"
  /\ steps < MaxSteps
  /\ ~NoticeDue
  /\ Fits(Estimate)
  /\ StartTurn(Estimate)
  /\ UNCHANGED warned

\* Mutant: the request is not estimated again with the notice in it.
RequestWithNoticeUnchecked ==
  /\ pc = "loop"
  /\ steps < MaxSteps
  /\ Fits(Estimate)
  /\ NoticeDue
  /\ StartTurn(WithNotice)
  /\ warned' = TRUE

RequestWithNotice ==
  /\ pc = "loop"
  /\ steps < MaxSteps
  /\ Fits(Estimate)
  /\ NoticeDue
  /\ Fits(WithNotice)
  /\ StartTurn(WithNotice)
  /\ warned' = TRUE

-------------------------------------------------------------------------------
(* The reply.                                                              *)

Replies ==
  {AssistantMessage(step, n, stop) : n \in 0 .. MaxCalls, stop \in {"stop", "length"}}
    \cup {AssistantMessage(step, 0, "error")}

CommitReply ==
  /\ pc = "stream"
  /\ \E m \in Replies : Commit(m) /\ batch' = m
  /\ pc' = "reply"
  /\ UNCHANGED <<limits, next, rejected, result, filling, told, history, bounds>>

\* A stream without a done event raises MiniPiError.
BrokenStream ==
  /\ pc = "stream"
  /\ Raise
  /\ UNCHANGED <<file, memory, history, bounds>>

\* What the request cost: the provider's count, or the prediction.
Charge ==
  \E d \in Drift \cup {0} : used' = IF Budget = 0 THEN 0 ELSE used + predicted + d

\* Mutant: the turn of a final reply is not ended.
EndRunInsideTurn ==
  /\ pc = "reply"
  /\ \/ batch.note = "error" /\ Finish("error")
     \/ batch.note = "stop" /\ batch.number = 0 /\ Finish("completed")
  /\ UNCHANGED <<file, memory, turnOpen, toolOpen, history, bounds>>

\* MessageEnd, then the dispatch on how the reply ended.
EndRun ==
  /\ pc = "reply"
  /\ \/ batch.note = "error" /\ Finish("error")
     \/ batch.note = "stop" /\ batch.number = 0 /\ Finish("completed")
  /\ turnOpen' = FALSE
  /\ UNCHANGED <<file, memory, toolOpen, history, bounds>>

Dispatch ==
  /\ pc = "reply"
  /\ \/ batch.note = "stop" /\ batch.number > 0 /\ pc' = "batch"
     \/ batch.note = "length" /\ pc' = "cut"
  /\ Charge
  /\ predicted' = 0
  /\ last' = TRUE
  /\ UNCHANGED <<file, memory, steps, warned, attempted, batchVars, told, history, bounds>>

-------------------------------------------------------------------------------
(* The tool batch.                                                         *)

CallId == <<batch.step, next>>
Observation(note) == ToolMessage(batch.step, next, note)

\* An exclusive tool among several calls rejects the batch as a whole.
ValidateBatch ==
  /\ pc = "batch"
  /\ rejected' \in (IF batch.number > 1 THEN BOOLEAN ELSE {FALSE})
  /\ pc' = "call"
  /\ UNCHANGED <<file, memory, limits, batch, next, result, filling, told, history, bounds>>

\* A call runs and takes effect; or fails, before or after its effect.
ExecuteCall ==
  /\ pc = "call"
  /\ ~rejected
  /\ result' \in {"ok", "error"}
  /\ \/ effects' = effects \cup {CallId}
     \/ result' = "error" /\ UNCHANGED effects
  /\ toolOpen' = TRUE
  /\ pc' = "observe"
  /\ UNCHANGED <<file, memory, limits, batch, next, rejected, filling, outcome,
                 reason, turnOpen, interrupted, bounds>>

\* Mutant: the exclusive tool is noticed only once its call has run.
RejectCallTooLate ==
  /\ pc = "call"
  /\ rejected
  /\ result' = "rejected"
  /\ effects' = effects \cup {CallId}
  /\ toolOpen' = TRUE
  /\ pc' = "observe"
  /\ UNCHANGED <<file, memory, limits, batch, next, rejected, filling, outcome,
                 reason, turnOpen, interrupted, bounds>>

RejectCall ==
  /\ pc = "call"
  /\ rejected
  /\ result' = "rejected"
  /\ toolOpen' = TRUE
  /\ pc' = "observe"
  /\ UNCHANGED <<file, memory, limits, batch, next, rejected, filling, outcome,
                 reason, turnOpen, history, bounds>>

\* InteractionUnavailableError: this call and the rest of the batch are
\* answered with errors before the exception goes on to run_loop.
CallUnavailable ==
  /\ pc = "call"
  /\ ~rejected
  /\ filling' = "unavailable"
  /\ toolOpen' = TRUE
  /\ pc' = "fill"
  /\ UNCHANGED <<file, memory, limits, batch, next, rejected, result, outcome,
                 reason, turnOpen, history, bounds>>

\* Mutant: the results of a batch are committed when all its calls have run.
CommitObservationDeferred ==
  /\ pc = "observe"
  /\ pc' = "end"
  /\ UNCHANGED <<file, memory, limits, batchVars, told, history, bounds>>

CommitObservation ==
  /\ pc = "observe"
  /\ Commit(Observation(result))
  /\ pc' = "end"
  /\ UNCHANGED <<limits, batchVars, told, history, bounds>>

EndCall ==
  /\ pc = "end"
  /\ toolOpen' = FALSE
  /\ next' = next + 1
  /\ pc' = IF next = batch.number THEN "turn" ELSE "call"
  /\ UNCHANGED <<file, memory, limits, batch, rejected, result, filling, outcome,
                 reason, turnOpen, history, bounds>>

\* Mutant: only the call at hand is answered when its batch is cancelled.
FillCurrentOnly ==
  /\ pc = "fill"
  /\ Commit(Observation(filling))
  /\ Finish(IF filling = "cancelled" THEN "cancelled" ELSE "error")
  /\ toolOpen' = FALSE
  /\ turnOpen' = FALSE
  /\ UNCHANGED <<history, bounds>>

\* Mutant: a cancelled batch is taken for a batch that ended.
FillThenCompleted ==
  /\ pc = "fill"
  /\ Commit(Observation(filling))
  /\ IF next < batch.number
       THEN /\ next' = next + 1
            /\ toolOpen' = TRUE
            /\ UNCHANGED <<pc, limits, batch, rejected, result, filling, outcome,
                           reason, turnOpen>>
       ELSE /\ Finish("completed")
            /\ toolOpen' = FALSE
            /\ turnOpen' = FALSE
  /\ UNCHANGED <<history, bounds>>

\* One call of calls[index:]; after the last one the turn ends and so does
\* the run.
Fill ==
  /\ pc = "fill"
  /\ Commit(Observation(filling))
  /\ IF next < batch.number
       THEN /\ next' = next + 1
            /\ toolOpen' = TRUE
            /\ UNCHANGED <<pc, limits, batch, rejected, result, filling, outcome,
                           reason, turnOpen>>
       ELSE /\ Finish(IF filling = "cancelled" THEN "cancelled" ELSE "error")
            /\ toolOpen' = FALSE
            /\ turnOpen' = FALSE
  /\ UNCHANGED <<history, bounds>>

\* A reply cut off by its length: no call runs, each gets an error, and the
\* loop goes on without the hook.
RecordTruncated ==
  /\ pc = "cut"
  /\ next <= batch.number
  /\ Commit(Observation("truncated"))
  /\ next' = next + 1
  /\ UNCHANGED <<pc, limits, batch, rejected, result, filling, told, history, bounds>>

\* Mutant: the calls of a reply that was cut off are passed over.
EndTruncatedUnanswered ==
  /\ pc = "cut"
  /\ turnOpen' = FALSE
  /\ DropBatch
  /\ pc' = "loop"
  /\ UNCHANGED <<file, memory, limits, outcome, reason, toolOpen, history, bounds>>

EndTruncated ==
  /\ pc = "cut"
  /\ next > batch.number
  /\ turnOpen' = FALSE
  /\ DropBatch
  /\ pc' = "loop"
  /\ UNCHANGED <<file, memory, limits, outcome, reason, toolOpen, history, bounds>>

EndTurn ==
  /\ pc = "turn"
  /\ turnOpen' = FALSE
  /\ DropBatch
  /\ pc' = "hook"
  /\ UNCHANGED <<file, memory, limits, outcome, reason, toolOpen, history, bounds>>

-------------------------------------------------------------------------------
(* prepare_next_turn: the window first, the cost of old results after it.  *)

WindowCompaction ==
  /\ pc = "hook"
  /\ \/ Continue("cost") /\ UNCHANGED <<file, memory>>
     \/ Continue("cost") /\ Compact
     \/ Finish("error") /\ Compact
     \/ Finish("error") /\ UNCHANGED <<file, memory>>
  /\ UNCHANGED <<turnOpen, toolOpen, history, bounds>>

\* Mutant: a failed summary is tried again before the loop goes on.
CostCompactionRetried ==
  /\ pc = "cost"
  /\ \/ Continue("loop") /\ UNCHANGED <<file, memory>>
     \/ Continue("loop") /\ Compact
     \/ Continue("hook") /\ UNCHANGED <<file, memory>>
  /\ UNCHANGED <<turnOpen, toolOpen, history, bounds>>

\* Not worth it; or the one attempt of this run: done, given up because the
\* summary failed, or fatal because the write failed.
CostCompaction ==
  /\ pc = "cost"
  /\ \/ Continue("loop") /\ UNCHANGED <<file, memory>>
     \/ /\ ~attempted
        /\ attempted' = TRUE
        /\ pc' = "loop"
        /\ Compact \/ UNCHANGED <<file, memory>>
        /\ UNCHANGED <<steps, used, warned, predicted, last, batchVars, outcome, reason>>
     \/ /\ ~attempted
        /\ "cost" \in FailAt \/ ~Projectable
        /\ Finish("error")
        /\ UNCHANGED <<file, memory>>
  /\ UNCHANGED <<turnOpen, toolOpen, history, bounds>>

-------------------------------------------------------------------------------
(* What the user, the disk and the machine do to it.                       *)

\* Points whose KeyboardInterrupt the code turns into AgentEnd(cancelled).  At
\* "reply" it does so while MessageEnd is emitted and no longer after that.
CancelPoints == {"prepare", "begin", "stream", "reply", "hook", "cost"}

Interrupt ==
  /\ pc \in InterruptAt \ {"idle", "down", "refused"}
  /\ interrupted' = TRUE
  /\ \/ /\ pc \in CancelPoints
        /\ Finish("cancelled")
        /\ turnOpen' = FALSE
        /\ UNCHANGED <<effects, toolOpen>>
     \/ /\ pc = "call"
        /\ filling' = "cancelled"
        /\ pc' = "fill"
        /\ toolOpen' = TRUE
        /\ effects' \in {effects, IF rejected THEN effects ELSE effects \cup {CallId}}
        /\ UNCHANGED <<limits, batch, next, rejected, result, outcome, reason, turnOpen>>
     \/ /\ pc \notin (CancelPoints \ {"reply"}) \cup {"call"}
        /\ Raise
        /\ UNCHANGED effects
  /\ UNCHANGED <<file, memory, bounds>>

\* The message a commit point has in hand.
InHand ==
  CASE pc = "user" -> {UserMessage}
    [] pc = "stream" -> Replies
    [] pc = "observe" -> {Observation(result)}
    [] pc = "fill" -> {Observation(filling)}
    [] pc = "cut" /\ next <= batch.number -> {Observation("truncated")}
    [] OTHER -> {}

\* Ctrl+C between the durable half of a commit and the in-memory half.
InterruptedCommit ==
  /\ pc \in SplitAt
  /\ interrupted' = TRUE
  /\ \/ /\ \E m \in InHand : log' = Append(log, m)
        /\ saved' = step
        /\ UNCHANGED <<kept, rulesLog>>
     \/ /\ pc = "system"
        /\ \E wanted \in (1 .. MaxRules) \ {rules} : rulesLog' \in Recorded(wanted)
        /\ saved' = step
        /\ UNCHANGED <<log, kept>>
     \/ /\ pc \in {"precompact", "hook", "cost"}
        /\ Projectable
        /\ rulesLog > 0
        /\ kept' \in CutPoints(log, kept)
        /\ UNCHANGED <<log, saved, rulesLog>>
  /\ IF pc \in {"stream", "hook", "cost"}
       THEN Finish("cancelled") /\ turnOpen' = FALSE /\ UNCHANGED toolOpen
       ELSE Raise
  /\ UNCHANGED <<memory, effects, bounds>>

\* Mutant: the message is in memory before the write that fails.
CommitFailsInMemory ==
  /\ pc \in FailAt \cap {"system", "user", "stream", "observe", "fill", "cut"}
  /\ pc = "cut" => next <= batch.number
  /\ \E m \in InHand : mem' = Append(mem, m)
  /\ Raise
  /\ UNCHANGED <<file, step, rules, history, bounds>>

\* SessionError at a commit is no ToolError: it leaves run() at once.
CommitFails ==
  /\ pc \in FailAt \cap {"system", "user", "stream", "observe", "fill", "cut"}
  /\ pc = "cut" => next <= batch.number
  /\ Raise
  /\ UNCHANGED <<file, memory, history, bounds>>

Crash ==
  /\ pc \notin {"down", "refused"}
  /\ crashes < MaxCrashes
  /\ crashes' = crashes + 1
  /\ pc' = "down"
  /\ mem' = <<>> /\ step' = 0 /\ rules' = 0
  /\ DropLimits /\ DropBatch
  /\ outcome' = "none" /\ reason' = "none" /\ turnOpen' = FALSE /\ toolOpen' = FALSE
  /\ UNCHANGED <<file, history, runs>>

\* AgentSession.resume.
Resume ==
  /\ pc = "down"
  /\ IF Projectable
       THEN /\ pc' = "idle"
            /\ mem' = Projection(log, kept)
            /\ step' = saved
            /\ rules' = rulesLog
       ELSE /\ pc' = "refused"
            /\ UNCHANGED memory
  /\ UNCHANGED <<file, limits, batchVars, told, history, bounds>>

-------------------------------------------------------------------------------
LoopStep ==
  \/ StepLimit \/ BudgetLimit \/ Request \/ RequestWithNotice
  \/ CommitReply \/ BrokenStream \/ EndRun \/ Dispatch
  \/ ValidateBatch \/ ExecuteCall \/ RejectCall \/ CallUnavailable
  \/ CommitObservation \/ EndCall \/ Fill \/ RecordTruncated \/ EndTruncated
  \/ EndTurn \/ WindowCompaction \/ CostCompaction

RunStep == Prepare \/ PreCompact \/ RefreshSystemPrompt \/ CommitUser \/ LoopStep

Next == Run \/ ManualCompact \/ RunStep \/ Interrupt \/ InterruptedCommit \/ CommitFails \/ Crash \/ Resume

Spec == Init /\ [][Next]_vars

\* The program is one thread that never waits for another part of itself: a
\* run in progress goes on.  Nothing is assumed of the user or the machine.
FairSpec == Spec /\ WF_vars(RunStep)

-------------------------------------------------------------------------------
FileType ==
  /\ log \in Seq(Message) /\ saved \in Nat /\ kept \in Nat
  /\ rulesLog \in 0 .. Unreplayable
MemoryType ==
  /\ mem \in Seq(Message) /\ step \in Nat /\ rules \in 0 .. MaxRules
LimitsType ==
  /\ steps \in 0 .. MaxSteps /\ used \in Nat /\ predicted \in Nat
  /\ warned \in BOOLEAN /\ last \in BOOLEAN /\ attempted \in BOOLEAN
BatchType ==
  /\ batch \in Message /\ next \in Nat \ {0} /\ rejected \in BOOLEAN
  /\ result \in Observations /\ filling \in Observations
ToldType ==
  /\ outcome \in {"none", "returned", "raised"}
  /\ reason \in {"none", "completed", "error", "cancelled", "step_limit", "budget_limit"}
  /\ turnOpen \in BOOLEAN /\ toolOpen \in BOOLEAN
HistoryType ==
  /\ effects \subseteq Nat \X Nat /\ interrupted \in BOOLEAN
  /\ runs \in 0 .. MaxRuns /\ crashes \in 0 .. MaxCrashes

TypeOK ==
  /\ pc \in Points
  /\ FileType
  /\ MemoryType
  /\ LimitsType
  /\ BatchType
  /\ ToldType
  /\ HistoryType

-------------------------------------------------------------------------------
(* What the session promises.                                              *)

\* Points at which a tool batch may be open, and the ones of them the code
\* does not guard: a Ctrl+C or a failed write there leaves the batch open.
BatchPoints == {"reply", "batch", "call", "observe", "end", "fill", "cut"}
UnguardedInterrupts == BatchPoints \ {"call"}
UnguardedWrites == {"observe", "fill", "cut"}

\* Points at which no tool batch is open.
RestPoints == {"idle", "prepare", "precompact", "begin", "system", "user",
               "loop", "stream", "turn", "hook", "cost"}

\* Whatever happened to the batch, rejected, cut off, cancelled or left
\* without its user, every call of every reply has exactly one result right
\* after it before the next request is sent, the context is compacted or
\* control returns to the host (run_loop's docstring, loop.py:149-151).
PairedAtRest == pc \in RestPoints => PairsValid(log)

\* No compaction ever keeps a region that begins inside a tool batch: what a
\* resumed process would rebuild from it passes the pair validation.
KeptRegionReplayable == pc \in RestPoints => Replayable(log, kept)

\* --resume refuses a file only for the documented reason (README.md:572):
\* the process died inside a tool batch, and all before that batch is sound.
\* Two versions of the rules and a Ctrl+C inside the commit that records them
\* break it: the file can then hold patches that no longer replay.
RefusedOnlyMidBatch ==
  pc = "refused" =>
    \E p \in DOMAIN log :
      /\ log[p].role = "assistant"
      /\ PairsValidIn(log, 1, p - 1)
      /\ \A j \in p + 1 .. Len(log) : log[j].role = "tool"
      /\ Len(log) - p < log[p].number

\* The messages in memory are those a new process would rebuild from the
\* file, after a failed write, a compaction or an interrupt as well
\* (commit_message: durable first, state.py:36).
MemoryMatchesLog ==
  pc \notin {"down", "refused"} =>
    /\ mem = Projection(log, kept)
    /\ rules = rulesLog

\* A tool acts only after its call is durable, on no call twice, and the result
\* of one call is durable before the next call acts: whatever stops the process
\* and however often it resumes, at most one effect of a batch is missing from
\* the file.
EffectsRecorded ==
  /\ effects \subseteq Called(log)
  /\ pc = "call" => CallId \notin effects
  /\ \A a, b \in effects \ Answered(log) : a[1] = b[1] => a = b

\* A call reported as not executed had no effect: a rejected batch, a reply
\* cut off, a batch stopped for want of a user, and in a cancelled batch
\* every call after the interrupted one.
UnexecutedHadNoEffect ==
  \A j \in DOMAIN log :
    log[j].role = "tool" /\ ResultId(log[j]) \in effects =>
      /\ log[j].note \in {"ok", "error", "cancelled"}
      /\ log[j].note = "cancelled" /\ j > 1 => log[j - 1].note # "cancelled"

\* A run that returns reports cancelled exactly when Ctrl+C landed in it, and
\* completed only on a final reply that asks for nothing.
EndReasonFaithful ==
  pc = "idle" /\ outcome = "returned" =>
    /\ interrupted <=> reason = "cancelled"
    /\ reason = "completed" =>
         log[Len(log)].note = "stop" /\ log[Len(log)].number = 0

\* A run that returns has closed every turn and every tool execution it
\* announced, and has said why it ended.
EventsPaired ==
  pc = "idle" /\ outcome = "returned" => ~turnOpen /\ ~toolOpen /\ reason # "none"

\* A request in flight fits the budget with the notice it carries, so the
\* run overshoots by no more than the provider's drift on the last request.
WithinBudget ==
  Budget > 0 =>
    /\ pc \in {"stream", "reply"} => used + predicted <= Budget
    /\ \E d \in Drift \cup {0} : used <= Budget + d

\* No Ctrl+C, and no failing write, where it leaves a batch open.
Guarded ==
  /\ InterruptAt \cap UnguardedInterrupts = {}
  /\ FailAt \cap UnguardedWrites = {}
  /\ SplitAt \cap (BatchPoints \cup {"stream"}) = {}

C == INSTANCE Conversation WITH MayAbandon <- ~Guarded

\* The messages and the effects of the session are a conversation of the
\* abstract specification at every step, through compactions, interrupts,
\* failing writes and restarts: one call at a time acts and is answered, each
\* as what became of it (run_loop, commit_message, AgentSession.run).
ConversationKept == C!Spec

\* A run that starts comes back to the host.
RunEnds == pc = "prepare" ~> pc \in {"idle", "down", "refused"}

===============================================================================
