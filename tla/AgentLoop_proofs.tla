--------------------------- MODULE AgentLoop_proofs ---------------------------
(***************************************************************************)
(* Theorems of AgentLoop, for every number of runs, crashes, steps and     *)
(* calls and every budget, up to its implementing Conversation; then those *)
(* of LlmStream, among them that the messages it commits are the replies   *)
(* AgentLoop reckons with.  The two modules share no variable.             *)
(***************************************************************************)
EXTENDS AgentLoop, LlmStream, Integers, SequenceTheorems, FiniteSetTheorems, FunctionTheorems, TLAPS

(* The transcript.                                                         *)

(* The constructors build messages. *)
LEMMA UserIsMessage == UserMessage \in Message /\ SummaryMessage \in Message
  BY DEF UserMessage, SummaryMessage, Message, Roles, Notes

LEMMA AssistantIsMessage ==
  ASSUME NEW s \in Nat, NEW n \in Nat, NEW stop \in StopReasons
  PROVE  AssistantMessage(s, n, stop) \in Message
  BY DEF AssistantMessage, Message, Roles, Notes

LEMMA ToolIsMessage ==
  ASSUME NEW s \in Nat, NEW n \in Nat, NEW obs \in Observations
  PROVE  ToolMessage(s, n, obs) \in Message
  BY DEF ToolMessage, Message, Roles, Notes

(* The projection of a sequence of messages is one. *)
LEMMA ProjectionType ==
  ASSUME NEW s \in Seq(Message), NEW k \in Nat
  PROVE  Projection(s, k) \in Seq(Message)
<1>1. CASE k = 0
  BY <1>1 DEF Projection
<1>2. CASE k # 0
  <2>1. \A i \in k .. Len(s) : s[i] \in Message
    BY <1>2
  <2>2. SubSeq(s, k, Len(s)) \in Seq(Message)
    BY <1>2, <2>1, SubSeqProperties
  <2>3. <<SummaryMessage>> \in Seq(Message)
    BY UserIsMessage
  <2> QED BY <1>2, <2>2, <2>3, ConcatProperties DEF Projection
<1> QED BY <1>1, <1>2

(* A message appended to the log is appended to its projection. *)
LEMMA ProjectionAppend ==
  ASSUME NEW s \in Seq(Message), NEW k \in 0 .. Len(s), NEW m \in Message
  PROVE  Projection(Append(s, m), k) = Append(Projection(s, k), m)
<1>1. CASE k = 0
  BY <1>1 DEF Projection
<1>2. CASE k # 0
  <2> DEFINE L == Len(s)
             old == SubSeq(s, k, L)
             new == SubSeq(Append(s, m), k, L + 1)
  <2>1. old \in Seq(Message) /\ Len(old) = L - k + 1
    BY <1>2
  <2>2. Append(s, m) \in Seq(Message) /\ Len(Append(s, m)) = L + 1
    OBVIOUS
  <2>3. new \in Seq(Message) /\ Len(new) = L - k + 2
    BY <1>2, <2>2
  <2>4. Append(old, m) \in Seq(Message) /\ Len(Append(old, m)) = L - k + 2
    BY <2>1
  <2>5. ASSUME NEW i \in 1 .. L - k + 2
        PROVE  new[i] = Append(old, m)[i]
    BY <1>2, <2>1, <2>2, <2>3
  <2>6. new = Append(old, m)
    BY <2>3, <2>4, <2>5, SeqEqual
  <2>7. <<SummaryMessage>> \o Append(old, m) = Append(<<SummaryMessage>> \o old, m)
    BY <2>1, UserIsMessage
  <2> QED BY <1>2, <2>2, <2>6, <2>7 DEF Projection
<1> QED BY <1>1, <1>2

-------------------------------------------------------------------------------

(* What the constants are assumed to be, for the leaves that need it. *)
LEMMA Constants ==
  /\ MaxRuns \in Nat /\ MaxCrashes \in Nat /\ MaxRules \in Nat \ {0}
  /\ MaxSteps \in Nat \ {0} /\ MaxCalls \in Nat /\ Budget \in Nat
  /\ Drift \subseteq Nat
  /\ SplitAt \subseteq Points
  BY AgentLoopAssumption

-------------------------------------------------------------------------------
(* Type correctness.                                                       *)

LEMMA NoBatchIsMessage == NoBatch \in Message
  BY AssistantIsMessage DEF NoBatch, StopReasons

LEMMA RepliesAreMessages ==
  ASSUME step \in Nat, NEW m \in Replies
  PROVE  m \in Message
<1>1. CASE \E n \in 0 .. MaxCalls, stop \in {"stop", "length"} :
             m = AssistantMessage(step, n, stop)
  BY <1>1, Constants, AssistantIsMessage DEF StopReasons
<1>2. CASE m = AssistantMessage(step, 0, "error")
  BY <1>2, AssistantIsMessage DEF StopReasons
<1> QED BY <1>1, <1>2 DEF Replies

LEMMA ObservationIsMessage ==
  ASSUME BatchType, NEW note \in Observations
  PROVE  Observation(note) \in Message
<1>1. batch.step \in Nat /\ next \in Nat
  BY DEF BatchType, Message
<1> QED BY <1>1, ToolIsMessage DEF Observation

LEMMA CommitTypes ==
  ASSUME FileType, MemoryType, NEW m \in Message, Commit(m)
  PROVE  FileType' /\ MemoryType'
  BY DEF FileType, MemoryType, Commit

LEMMA CompactTypes ==
  ASSUME FileType, MemoryType, Compact
  PROVE  FileType' /\ MemoryType'
<1>1. PICK c \in CutPoints(log, kept) :
        /\ kept' = c
        /\ mem' = Projection(log, c)
        /\ rules' = rulesLog
        /\ UNCHANGED <<log, saved, rulesLog, step>>
  BY DEF Compact
<1>a. rulesLog # Unreplayable
  BY DEF Compact, Projectable
<1>2. c \in Nat
  BY DEF CutPoints, FirstKept, FileType
<1>3. Projection(log, c) \in Seq(Message)
  BY <1>2, ProjectionType DEF FileType
<1> QED BY <1>1, <1>a, <1>2, <1>3, Constants DEF FileType, MemoryType, Unreplayable

\* What a snapshot or a patch leaves in the file is one of its versions.
LEMMA RecordedType ==
  ASSUME NEW wanted \in 1 .. MaxRules
  PROVE  Recorded(wanted) \subseteq 1 .. Unreplayable
  BY Constants DEF Recorded, Unreplayable

LEMMA DropTypes ==
  ASSUME DropLimits, DropBatch
  PROVE  LimitsType' /\ BatchType'
<1>1. steps' \in 0 .. MaxSteps /\ used' \in Nat /\ predicted' \in Nat
  BY Constants DEF DropLimits
<1>2. warned' \in BOOLEAN /\ last' \in BOOLEAN /\ attempted' \in BOOLEAN
  BY Zenon DEF DropLimits
<1>3. batch' \in Message /\ next' \in Nat \ {0}
  BY NoBatchIsMessage DEF DropBatch
<1>4. rejected' \in BOOLEAN
  BY Zenon DEF DropBatch
<1>5. result' \in Observations /\ filling' \in Observations
  BY DEF DropBatch, Observations
<1> QED BY <1>1, <1>2, <1>3, <1>4, <1>5, Zenon DEF LimitsType, BatchType

LEMMA FinishTypes ==
  ASSUME NEW why \in {"completed", "error", "cancelled", "step_limit", "budget_limit"},
         Finish(why)
  PROVE  /\ pc' \in Points /\ LimitsType' /\ BatchType'
         /\ outcome' = "returned" /\ reason' = why
<1>1. pc' \in Points /\ outcome' = "returned" /\ reason' = why
  BY DEF Finish, Points
<1> QED BY <1>1, DropTypes, Zenon DEF Finish

LEMMA RaiseTypes ==
  ASSUME ToldType, Raise
  PROVE  pc' \in Points /\ LimitsType' /\ BatchType' /\ ToldType'
<1>1. pc' \in Points
  BY DEF Raise, Points
<1>2. outcome' \in {"none", "returned", "raised"}
  BY DEF Raise
<1>3. ToldType'
  BY <1>2, Zenon DEF Raise, ToldType
<1> QED BY <1>1, <1>3, DropTypes, Zenon DEF Raise

LEMMA ContinueTypes ==
  ASSUME LimitsType, BatchType, NEW there \in Points, Continue(there)
  PROVE  pc' \in Points /\ LimitsType' /\ BatchType' /\ UNCHANGED <<outcome, reason>>
  BY DEF Continue, limits, batchVars, LimitsType, BatchType

(* A group of variables left alone keeps its type. *)
LEMMA Unchanged ==
  ASSUME TypeOK
  PROVE  /\ UNCHANGED file => FileType'
         /\ UNCHANGED memory => MemoryType'
         /\ UNCHANGED limits => LimitsType'
         /\ UNCHANGED batchVars => BatchType'
         /\ UNCHANGED told => ToldType'
         /\ UNCHANGED <<history, bounds>> => HistoryType'
  BY ZenonT(60) DEF TypeOK, file, memory, limits, batchVars, told, history, bounds,
     FileType, MemoryType, LimitsType, BatchType, ToldType, HistoryType

(* ToldType from its four variables. *)
LEMMA ToldTypes ==
  ASSUME outcome' \in {"none", "returned", "raised"},
         reason' \in {"none", "completed", "error", "cancelled", "step_limit", "budget_limit"},
         turnOpen' \in BOOLEAN, toolOpen' \in BOOLEAN
  PROVE  ToldType'
  BY DEF ToldType

LEMMA TypeInit == Init => TypeOK
<1> SUFFICES ASSUME Init PROVE TypeOK
  OBVIOUS
<1>1. pc \in Points
  BY DEF Init, Points
<1>2. FileType /\ MemoryType
  BY Constants DEF Init, FileType, MemoryType, Unreplayable
<1>3. LimitsType
  <2>1. steps \in 0 .. MaxSteps /\ used \in Nat /\ predicted \in Nat
    BY Constants DEF Init
  <2> QED BY <2>1, Zenon DEF Init, LimitsType
<1>4. BatchType
  <2>1. next \in Nat \ {0} /\ result \in Observations /\ filling \in Observations
    BY DEF Init, Observations
  <2> QED BY <2>1, NoBatchIsMessage, Zenon DEF Init, BatchType
<1>5. ToldType
  BY DEF Init, ToldType
<1>6. HistoryType
  <2>1. runs \in 0 .. MaxRuns /\ crashes \in 0 .. MaxCrashes /\ effects \subseteq Nat \X Nat
    BY Constants DEF Init
  <2> QED BY <2>1, Zenon DEF Init, HistoryType
<1> QED BY <1>1, <1>2, <1>3, <1>4, <1>5, <1>6 DEF TypeOK
LEMMA TypeStep == TypeOK /\ [Next]_vars => TypeOK'
<1> SUFFICES ASSUME TypeOK, [Next]_vars PROVE TypeOK'
  OBVIOUS
<1> USE DEF TypeOK
<1>1. CASE Run
  <2>1. runs' \in 0 .. MaxRuns /\ crashes' \in 0 .. MaxCrashes /\ effects' \subseteq Nat \X Nat
    BY <1>1, Constants DEF Run, HistoryType
  <2>2. HistoryType'
    BY <1>1, <2>1, Zenon DEF Run, HistoryType
  <2>3. outcome' \in {"none", "returned", "raised"} /\ reason' = "none" /\ pc' \in Points
    BY <1>1 DEF Run, Points
  <2>4. turnOpen' \in BOOLEAN /\ toolOpen' \in BOOLEAN
    BY <1>1, Zenon DEF Run
  <2>5. UNCHANGED file /\ UNCHANGED memory /\ UNCHANGED limits /\ UNCHANGED batchVars
    BY <1>1 DEF Run
  <2> QED BY <2>2, <2>3, <2>4, <2>5, Unchanged, ToldTypes
<1>2. CASE ManualCompact
  <2>1. pc' = pc /\ UNCHANGED limits /\ UNCHANGED batchVars /\ UNCHANGED told
        /\ UNCHANGED <<history, bounds>>
    BY <1>2 DEF ManualCompact
  <2> QED BY <1>2, <2>1, Unchanged, CompactTypes DEF ManualCompact
<1>3. CASE Prepare
  <2>1. pc' \in Points /\ LimitsType' /\ BatchType'
        /\ outcome' \in {"none", "returned", "raised"}
        /\ reason' \in {"none", "completed", "error", "cancelled", "step_limit", "budget_limit"}
    BY <1>3, ContinueTypes, FinishTypes DEF Prepare, Points, ToldType
  <2>2. turnOpen' \in BOOLEAN /\ toolOpen' \in BOOLEAN
    BY <1>3 DEF Prepare, ToldType
  <2>3. UNCHANGED <<history, bounds>>
    BY <1>3 DEF Prepare
  <2>4. FileType' /\ MemoryType'
    BY <1>3, Unchanged DEF Prepare
  <2> QED BY <2>1, <2>2, <2>3, <2>4, ToldTypes, Unchanged
<1>4. CASE PreCompact
  <2>1. pc' \in Points /\ LimitsType' /\ BatchType'
        /\ outcome' \in {"none", "returned", "raised"}
        /\ reason' \in {"none", "completed", "error", "cancelled", "step_limit", "budget_limit"}
    BY <1>4, ContinueTypes, FinishTypes DEF PreCompact, Points, ToldType
  <2>2. turnOpen' \in BOOLEAN /\ toolOpen' \in BOOLEAN
    BY <1>4 DEF PreCompact, ToldType
  <2>3. UNCHANGED <<history, bounds>>
    BY <1>4 DEF PreCompact
  <2>4. FileType' /\ MemoryType'
    BY <1>4, CompactTypes, Unchanged DEF PreCompact
  <2> QED BY <2>1, <2>2, <2>3, <2>4, ToldTypes, Unchanged
<1>5. CASE RefreshSystemPrompt
  <2>1. PICK wanted \in 1 .. MaxRules :
          \/ UNCHANGED <<rules, rulesLog, saved>>
          \/ rules' = wanted /\ rulesLog' \in Recorded(wanted) /\ saved' = step
    BY <1>5 DEF RefreshSystemPrompt
  <2>2. UNCHANGED <<log, kept, mem, step, limits, batchVars, told, history, bounds>>
        /\ pc' \in Points
    BY <1>5 DEF RefreshSystemPrompt, Points
  <2>3. FileType' /\ MemoryType'
    BY <2>1, <2>2, Constants, RecordedType DEF FileType, MemoryType
  <2> QED BY <2>2, <2>3, Unchanged
<1>6. CASE CommitUser
  <2>1. FileType' /\ MemoryType'
    BY <1>6, CommitTypes, UserIsMessage DEF CommitUser
  <2>2. pc' \in Points /\ LimitsType' /\ BatchType' /\ UNCHANGED <<outcome, reason>>
    BY <1>6, ContinueTypes DEF CommitUser, Points
  <2>3. UNCHANGED <<turnOpen, toolOpen, history, bounds>>
    BY <1>6 DEF CommitUser
  <2> QED BY <2>1, <2>2, <2>3, Unchanged DEF told
<1>7. CASE StepLimit
  <2>1. pc' \in Points /\ LimitsType' /\ BatchType' /\ outcome' = "returned" /\ reason' = "step_limit"
    BY <1>7, FinishTypes DEF StepLimit
  <2>2. UNCHANGED <<file, memory, turnOpen, toolOpen, history, bounds>>
    BY <1>7 DEF StepLimit
  <2>3. turnOpen' \in BOOLEAN /\ toolOpen' \in BOOLEAN
    BY <2>2, Zenon DEF ToldType
  <2> QED BY <2>1, <2>2, <2>3, ToldTypes, Unchanged
<1>8. CASE BudgetLimit
  <2>1. pc' \in Points /\ LimitsType' /\ BatchType' /\ outcome' = "returned" /\ reason' = "budget_limit"
    BY <1>8, FinishTypes DEF BudgetLimit
  <2>2. UNCHANGED <<file, memory, turnOpen, toolOpen, history, bounds>>
    BY <1>8 DEF BudgetLimit
  <2>3. turnOpen' \in BOOLEAN /\ toolOpen' \in BOOLEAN
    BY <2>2, Zenon DEF ToldType
  <2> QED BY <2>1, <2>2, <2>3, ToldTypes, Unchanged
<1>9. ASSUME NEW tokens \in Nat, steps < MaxSteps, StartTurn(tokens), warned' \in BOOLEAN
      PROVE  TypeOK'
  <2>1. steps' \in 0 .. MaxSteps /\ used' \in Nat /\ predicted' \in Nat
    BY <1>9, Constants DEF StartTurn, LimitsType
  <2>2. LimitsType'
    BY <1>9, <2>1, Zenon DEF StartTurn, LimitsType
  <2>3. FileType'
    BY <1>9, Unchanged DEF StartTurn
  <2>4. MemoryType'
    BY <1>9 DEF StartTurn, MemoryType
  <2>5. BatchType' /\ HistoryType'
    BY <1>9, Unchanged DEF StartTurn
  <2>6. ToldType'
    BY <1>9, Zenon DEF StartTurn, ToldType
  <2>7. pc' \in Points
    BY <1>9 DEF StartTurn, Points
  <2> QED BY <2>2, <2>3, <2>4, <2>5, <2>6, <2>7
<1>10. CASE Request \/ RequestWithNotice
  <2>1. Estimate \in Nat /\ WithNotice \in Nat
    BY DEF Estimate, WithNotice, MemoryType
  <2>2. warned' \in BOOLEAN
    BY <1>10, Zenon DEF Request, RequestWithNotice, LimitsType
  <2>3. \E tokens \in Nat : steps < MaxSteps /\ StartTurn(tokens)
    BY <1>10, <2>1 DEF Request, RequestWithNotice
  <2> QED BY <1>9, <2>2, <2>3
<1>11. CASE CommitReply
  <2>1. PICK m \in Replies : Commit(m) /\ batch' = m
    BY <1>11 DEF CommitReply
  <2>2. m \in Message
    BY RepliesAreMessages DEF MemoryType
  <2>3. FileType' /\ MemoryType'
    BY <2>1, <2>2, CommitTypes
  <2>4. UNCHANGED <<limits, next, rejected, result, filling, told, history, bounds>>
        /\ pc' \in Points
    BY <1>11 DEF CommitReply, Points
  <2>5. BatchType'
    BY <2>1, <2>2, <2>4, Zenon DEF BatchType
  <2> QED BY <2>3, <2>4, <2>5, Unchanged
<1>12. CASE BrokenStream
  <2>1. UNCHANGED <<file, memory, history, bounds>>
    BY <1>12 DEF BrokenStream
  <2> QED BY <1>12, <2>1, RaiseTypes, Unchanged DEF BrokenStream
<1>13. CASE EndRun
  <2>1. pc' \in Points /\ LimitsType' /\ BatchType' /\ outcome' = "returned"
        /\ reason' \in {"error", "completed"}
    BY <1>13, FinishTypes DEF EndRun
  <2>2. UNCHANGED <<file, memory, toolOpen, history, bounds>>
    BY <1>13 DEF EndRun
  <2>3. turnOpen' \in BOOLEAN /\ toolOpen' \in BOOLEAN
    BY <1>13, <2>2, Zenon DEF EndRun, ToldType
  <2> QED BY <2>1, <2>2, <2>3, ToldTypes, Unchanged
<1>14. CASE Dispatch
  <2>1. UNCHANGED <<file, memory, steps, warned, attempted, batchVars, told, history, bounds>>
        /\ pc' \in Points
    BY <1>14 DEF Dispatch, Points
  <2>2. PICK d \in Drift \cup {0} : used' = IF Budget = 0 THEN 0 ELSE used + predicted + d
    BY <1>14 DEF Dispatch, Charge
  <2>3. steps' \in 0 .. MaxSteps /\ used' \in Nat /\ predicted' \in Nat
    BY <1>14, <2>1, <2>2, Constants DEF Dispatch, LimitsType
  <2>4. LimitsType'
    BY <1>14, <2>1, <2>3, Zenon DEF Dispatch, LimitsType
  <2> QED BY <2>1, <2>4, Unchanged
<1>15. CASE ValidateBatch
  <2>1. UNCHANGED <<file, memory, limits, batch, next, result, filling, told, history, bounds>>
        /\ pc' \in Points
    BY <1>15 DEF ValidateBatch, Points
  <2>2. rejected' \in BOOLEAN
    BY <1>15, Zenon DEF ValidateBatch
  <2>3. BatchType'
    BY <2>1, <2>2, Zenon DEF BatchType
  <2> QED BY <2>1, <2>3, Unchanged
<1>16. CASE ExecuteCall
  <2>1. UNCHANGED <<file, memory, limits, batch, next, rejected, filling, outcome,
                    reason, turnOpen, interrupted, bounds>>
        /\ pc' \in Points /\ result' \in Observations
    BY <1>16 DEF ExecuteCall, Points, Observations
  <2>2. BatchType'
    BY <2>1, Zenon DEF BatchType
  <2>3. ToldType'
    BY <1>16, <2>1, Zenon DEF ExecuteCall, ToldType
  <2>4. CallId \in Nat \X Nat
    BY DEF CallId, BatchType, Message
  <2>5. effects' \subseteq Nat \X Nat
    BY <1>16, <2>4 DEF ExecuteCall, HistoryType
  <2>6. HistoryType'
    BY <2>1, <2>5, Zenon DEF HistoryType, bounds
  <2> QED BY <2>1, <2>2, <2>3, <2>6, Unchanged
<1>17. CASE RejectCall \/ CallUnavailable
  <2>1. UNCHANGED <<file, memory, limits, batch, next, rejected, outcome,
                    reason, turnOpen, history, bounds>>
        /\ pc' \in Points
    BY <1>17 DEF RejectCall, CallUnavailable, Points
  <2>2. result' \in Observations /\ filling' \in Observations
    BY <1>17 DEF RejectCall, CallUnavailable, Observations, BatchType
  <2>3. BatchType'
    BY <2>1, <2>2, Zenon DEF BatchType
  <2>4. ToldType'
    BY <1>17, <2>1, Zenon DEF RejectCall, CallUnavailable, ToldType
  <2> QED BY <2>1, <2>3, <2>4, Unchanged
<1>18. CASE CommitObservation
  <2>1. UNCHANGED <<limits, batchVars, told, history, bounds>> /\ pc' \in Points
    BY <1>18 DEF CommitObservation, Points
  <2>2. FileType' /\ MemoryType'
    BY <1>18, CommitTypes, ObservationIsMessage DEF CommitObservation, BatchType
  <2> QED BY <2>1, <2>2, Unchanged
<1>19. CASE EndCall
  <2>1. UNCHANGED <<file, memory, limits, batch, rejected, result, filling, outcome,
                    reason, turnOpen, history, bounds>>
        /\ pc' \in Points
    BY <1>19 DEF EndCall, Points
  <2>2. next' \in Nat \ {0}
    BY <1>19 DEF EndCall, BatchType
  <2>3. BatchType'
    BY <2>1, <2>2, Zenon DEF BatchType
  <2>4. ToldType'
    BY <1>19, <2>1, Zenon DEF EndCall, ToldType
  <2> QED BY <2>1, <2>3, <2>4, Unchanged
<1>20. CASE Fill
  <2>1. FileType' /\ MemoryType'
    BY <1>20, CommitTypes, ObservationIsMessage DEF Fill, BatchType
  <2>2. CASE next < batch.number
    <3>1. UNCHANGED <<pc, limits, batch, rejected, result, filling, outcome, reason, turnOpen>>
          /\ UNCHANGED <<history, bounds>>
      BY <1>20, <2>2 DEF Fill
    <3>2. next' \in Nat \ {0}
      BY <1>20, <2>2 DEF Fill, BatchType
    <3>3. BatchType'
      BY <3>1, <3>2, Zenon DEF BatchType
    <3>4. ToldType'
      BY <1>20, <2>2, <3>1, Zenon DEF Fill, ToldType
    <3> QED BY <2>1, <3>1, <3>3, <3>4, Unchanged
  <2>3. CASE ~(next < batch.number)
    <3>1. PICK why \in {"cancelled", "error"} : Finish(why)
      BY <1>20, <2>3 DEF Fill
    <3>2. pc' \in Points /\ LimitsType' /\ BatchType' /\ outcome' = "returned" /\ reason' = why
      BY <3>1, FinishTypes
    <3>3. UNCHANGED <<history, bounds>> /\ turnOpen' \in BOOLEAN /\ toolOpen' \in BOOLEAN
      BY <1>20, <2>3, Zenon DEF Fill
    <3> QED BY <2>1, <3>2, <3>3, ToldTypes, Unchanged
  <2> QED BY <2>2, <2>3
<1>21. CASE RecordTruncated
  <2>1. UNCHANGED <<pc, limits, batch, rejected, result, filling, told, history, bounds>>
    BY <1>21 DEF RecordTruncated
  <2>2. FileType' /\ MemoryType'
    BY <1>21, CommitTypes, ObservationIsMessage DEF RecordTruncated, Observations
  <2>3. next' \in Nat \ {0}
    BY <1>21 DEF RecordTruncated, BatchType
  <2>4. BatchType'
    BY <2>1, <2>3, Zenon DEF BatchType
  <2> QED BY <2>1, <2>2, <2>4, Unchanged
<1>22. CASE EndTruncated \/ EndTurn
  <2>1. UNCHANGED <<file, memory, limits, outcome, reason, toolOpen, history, bounds>>
        /\ pc' \in Points
    BY <1>22 DEF EndTruncated, EndTurn, Points
  <2>2. next' \in Nat \ {0} /\ result' \in Observations /\ filling' \in Observations
    BY <1>22 DEF EndTruncated, EndTurn, DropBatch, Observations
  <2>3. BatchType'
    BY <1>22, <2>2, NoBatchIsMessage, Zenon DEF EndTruncated, EndTurn, DropBatch, BatchType
  <2>4. ToldType'
    BY <1>22, <2>1, Zenon DEF EndTruncated, EndTurn, ToldType
  <2> QED BY <2>1, <2>3, <2>4, Unchanged
<1>23. CASE WindowCompaction
  <2>1. pc' \in Points /\ LimitsType' /\ BatchType'
        /\ outcome' \in {"none", "returned", "raised"}
        /\ reason' \in {"none", "completed", "error", "cancelled", "step_limit", "budget_limit"}
    BY <1>23, ContinueTypes, FinishTypes DEF WindowCompaction, Points, ToldType
  <2>2. UNCHANGED <<turnOpen, toolOpen, history, bounds>>
    BY <1>23 DEF WindowCompaction
  <2>3. FileType' /\ MemoryType'
    BY <1>23, CompactTypes, Unchanged DEF WindowCompaction
  <2>4. turnOpen' \in BOOLEAN /\ toolOpen' \in BOOLEAN
    BY <2>2, Zenon DEF ToldType
  <2> QED BY <2>1, <2>2, <2>3, <2>4, ToldTypes, Unchanged
<1>24. CASE CostCompaction
  <2>1. UNCHANGED <<turnOpen, toolOpen, history, bounds>>
    BY <1>24 DEF CostCompaction
  <2>2. FileType' /\ MemoryType'
    BY <1>24, CompactTypes, Unchanged DEF CostCompaction
  <2>3. /\ pc' \in Points /\ LimitsType' /\ BatchType'
        /\ outcome' \in {"none", "returned", "raised"}
        /\ reason' \in {"none", "completed", "error", "cancelled", "step_limit", "budget_limit"}
    <3>1. CASE Continue("loop") \/ Finish("error")
      BY <3>1, ContinueTypes, FinishTypes DEF Points, ToldType
    <3>2. CASE /\ attempted' = TRUE
               /\ pc' = "loop"
               /\ UNCHANGED <<steps, used, warned, predicted, last, batchVars, outcome, reason>>
      <4>1. LimitsType'
        BY <3>2, Zenon DEF LimitsType
      <4>2. BatchType'
        BY <3>2, Unchanged
      <4> QED BY <3>2, <4>1, <4>2 DEF Points, ToldType
    <3> QED BY <1>24, <3>1, <3>2 DEF CostCompaction
  <2>4. turnOpen' \in BOOLEAN /\ toolOpen' \in BOOLEAN
    BY <2>1, Zenon DEF ToldType
  <2> QED BY <2>1, <2>2, <2>3, <2>4, ToldTypes, Unchanged
<1>25. CASE Interrupt
  <2>1. UNCHANGED file /\ UNCHANGED memory /\ UNCHANGED bounds
    BY <1>25 DEF Interrupt
  <2>2. interrupted' \in BOOLEAN
    BY <1>25, Zenon DEF Interrupt
  <2>3. CASE Finish("cancelled") /\ turnOpen' = FALSE /\ UNCHANGED <<effects, toolOpen>>
    <3>1. pc' \in Points /\ LimitsType' /\ BatchType' /\ outcome' = "returned"
          /\ reason' = "cancelled"
      BY <2>3, FinishTypes
    <3>2. turnOpen' \in BOOLEAN /\ toolOpen' \in BOOLEAN
      BY <2>3, Zenon DEF ToldType
    <3>3. HistoryType'
      BY <2>1, <2>2, <2>3, Zenon DEF HistoryType, bounds
    <3> QED BY <2>1, <3>1, <3>2, <3>3, ToldTypes, Unchanged
  <2>4. CASE Raise /\ UNCHANGED effects
    <3>1. HistoryType'
      BY <2>1, <2>2, <2>4, Zenon DEF HistoryType, bounds
    <3> QED BY <2>1, <2>4, <3>1, RaiseTypes, Unchanged
  <2>5. CASE /\ filling' = "cancelled"
             /\ pc' = "fill"
             /\ toolOpen' = TRUE
             /\ effects' \in {effects, IF rejected THEN effects ELSE effects \cup {CallId}}
             /\ UNCHANGED <<limits, batch, next, rejected, result, outcome, reason, turnOpen>>
    <3>1. pc' \in Points /\ filling' \in Observations
      BY <2>5 DEF Points, Observations
    <3>2. BatchType'
      BY <2>5, <3>1, Zenon DEF BatchType
    <3>3. ToldType'
      BY <2>5, Zenon DEF ToldType
    <3>4. CallId \in Nat \X Nat
      BY DEF CallId, BatchType, Message
    <3>5. effects' \subseteq Nat \X Nat
      BY <2>5, <3>4 DEF HistoryType
    <3>6. HistoryType'
      BY <2>1, <2>2, <3>5, Zenon DEF HistoryType, bounds
    <3> QED BY <2>1, <2>5, <3>1, <3>2, <3>3, <3>6, Unchanged
  <2> QED BY <1>25, <2>3, <2>4, <2>5 DEF Interrupt
<1>26. CASE InterruptedCommit
  <2>1. UNCHANGED memory /\ UNCHANGED effects /\ UNCHANGED bounds
    BY <1>26 DEF InterruptedCommit
  <2>2. interrupted' \in BOOLEAN
    BY <1>26, Zenon DEF InterruptedCommit
  <2>3. HistoryType'
    BY <2>1, <2>2, Zenon DEF HistoryType, bounds
  <2>4. FileType'
    <3>1. CASE /\ \E m \in InHand : log' = Append(log, m)
               /\ saved' = step
               /\ UNCHANGED <<kept, rulesLog>>
      <4>1. InHand \subseteq Message
        BY UserIsMessage, RepliesAreMessages, ObservationIsMessage
        DEF InHand, MemoryType, BatchType, Observations
      <4> QED BY <2>1, <3>1, <4>1 DEF FileType, MemoryType
    <3>2. CASE kept' \in CutPoints(log, kept) /\ UNCHANGED <<log, saved, rulesLog>>
      BY <2>1, <3>2 DEF FileType, CutPoints, FirstKept
    <3>3. CASE /\ \E wanted \in (1 .. MaxRules) \ {rules} : rulesLog' \in Recorded(wanted)
               /\ saved' = step
               /\ UNCHANGED <<log, kept>>
      BY <2>1, <3>3, RecordedType DEF FileType, MemoryType
    <3> QED BY <1>26, <3>1, <3>2, <3>3 DEF InterruptedCommit
  <2>5. CASE Finish("cancelled") /\ turnOpen' = FALSE /\ UNCHANGED toolOpen
    <3>1. pc' \in Points /\ LimitsType' /\ BatchType' /\ outcome' = "returned"
          /\ reason' = "cancelled"
      BY <2>5, FinishTypes
    <3>2. turnOpen' \in BOOLEAN /\ toolOpen' \in BOOLEAN
      BY <2>5, Zenon DEF ToldType
    <3> QED BY <2>1, <2>3, <2>4, <3>1, <3>2, ToldTypes, Unchanged
  <2>6. CASE Raise
    BY <2>1, <2>3, <2>4, <2>6, RaiseTypes, Unchanged
  <2> QED BY <1>26, <2>5, <2>6 DEF InterruptedCommit
<1>27. CASE CommitFails
  <2>1. UNCHANGED <<file, memory, history, bounds>>
    BY <1>27 DEF CommitFails
  <2> QED BY <1>27, <2>1, RaiseTypes, Unchanged DEF CommitFails
<1>28. CASE Crash
  <2>1. crashes' \in 0 .. MaxCrashes /\ pc' \in Points
    BY <1>28, Constants DEF Crash, HistoryType, Points
  <2>2. HistoryType'
    BY <1>28, <2>1, Zenon DEF Crash, HistoryType, history
  <2>3. MemoryType'
    BY <1>28, Constants DEF Crash, MemoryType
  <2>4. FileType'
    BY <1>28, Unchanged DEF Crash
  <2>5. LimitsType' /\ BatchType'
    BY <1>28, DropTypes DEF Crash
  <2>6. turnOpen' \in BOOLEAN /\ toolOpen' \in BOOLEAN
    BY <1>28, Zenon DEF Crash
  <2>7. outcome' = "none" /\ reason' = "none"
    BY <1>28 DEF Crash
  <2> QED BY <2>1, <2>2, <2>3, <2>4, <2>5, <2>6, <2>7, ToldTypes
<1>29. CASE Resume
  <2>1. UNCHANGED <<file, limits, batchVars, told, history, bounds>> /\ pc' \in Points
    BY <1>29 DEF Resume, Points
  <2>2. Projection(log, kept) \in Seq(Message)
    BY ProjectionType DEF FileType
  <2>3. MemoryType'
    BY <1>29, <2>2, Constants, Unchanged
    DEF Resume, Projectable, Unreplayable, MemoryType, FileType
  <2> QED BY <2>1, <2>3, Unchanged
<1>30. CASE UNCHANGED vars
  BY <1>30, Unchanged DEF vars
<1> QED BY <1>1, <1>2, <1>3, <1>4, <1>5, <1>6, <1>7, <1>8, <1>10, <1>11, <1>12, <1>13,
          <1>14, <1>15, <1>16, <1>17, <1>18, <1>19, <1>20, <1>21, <1>22, <1>23, <1>24,
          <1>25, <1>26, <1>27, <1>28, <1>29, <1>30 DEF Next, RunStep, LoopStep

\* Every reachable state has the types TypeOK gives: the step limit is never
\* exceeded, and the log holds messages only.
THEOREM TypeCorrect == Spec => []TypeOK
  BY TypeInit, TypeStep, PTL DEF Spec

-------------------------------------------------------------------------------
(* Memory and file.                                                        *)

\* Memory can only be the projection if kept names an entry of the log.
MemoryInv ==
  /\ TypeOK
  /\ kept <= Len(log)
  /\ MemoryMatchesLog

Up == pc \notin {"down", "refused"}

\* What one step of the program does to the file and to the memory: nothing,
\* one commit, one compaction or one version of the system prompt; or the
\* process dies, or another one resumes.
LEMMA StepKinds ==
  ASSUME TypeOK, Next, ~InterruptedCommit
  PROVE  \/ Up /\ UNCHANGED <<file, mem, rules>>
         \/ Up /\ \E m \in Message : Commit(m)
         \/ Up /\ Compact
         \/ Up /\ RefreshSystemPrompt
         \/ Crash
         \/ Resume
<1> USE DEF Up, TypeOK
<1>1. CASE Run \/ Prepare \/ StepLimit \/ BudgetLimit \/ BrokenStream \/ EndRun
           \/ Dispatch \/ ValidateBatch \/ ExecuteCall \/ RejectCall
           \/ CallUnavailable \/ EndCall \/ EndTruncated \/ EndTurn
  <2>1. UNCHANGED <<file, memory>>
    BY <1>1 DEF Run, Prepare, StepLimit, BudgetLimit, BrokenStream, EndRun, Dispatch,
       ValidateBatch, ExecuteCall, RejectCall, CallUnavailable, EndCall, EndTruncated,
       EndTurn
  <2>2. Up
    BY <1>1 DEF Run, Prepare, StepLimit, BudgetLimit, BrokenStream, EndRun, Dispatch,
       ValidateBatch, ExecuteCall, RejectCall, CallUnavailable, EndCall, EndTruncated,
       EndTurn
  <2> QED BY <2>1, <2>2 DEF memory
<1>2. CASE Interrupt \/ CommitFails
  <2>1. UNCHANGED <<file, memory>>
    BY <1>2 DEF Interrupt, CommitFails
  <2>2. Up
    BY <1>2 DEF Interrupt, CommitFails
  <2> QED BY <2>1, <2>2 DEF memory
<1>3. CASE ManualCompact \/ PreCompact \/ WindowCompaction \/ CostCompaction
  <2>1. Compact \/ UNCHANGED <<file, memory>>
    BY <1>3 DEF ManualCompact, PreCompact, WindowCompaction, CostCompaction
  <2>2. Up
    BY <1>3 DEF ManualCompact, PreCompact, WindowCompaction, CostCompaction
  <2> QED BY <2>1, <2>2 DEF memory
<1>4. CASE CommitUser
  BY <1>4, UserIsMessage DEF CommitUser
<1>5. CASE CommitReply
  BY <1>5, RepliesAreMessages DEF CommitReply, MemoryType
<1>6. CASE CommitObservation \/ Fill \/ RecordTruncated
  <2>1. \E note \in Observations : Commit(Observation(note))
    BY <1>6 DEF CommitObservation, Fill, RecordTruncated, BatchType, Observations
  <2> QED BY <1>6, <2>1, ObservationIsMessage DEF CommitObservation, Fill, RecordTruncated
<1>7. CASE Request \/ RequestWithNotice
  BY <1>7 DEF Request, RequestWithNotice, StartTurn
<1>8. CASE RefreshSystemPrompt
  BY <1>8 DEF RefreshSystemPrompt
<1> QED BY <1>1, <1>2, <1>3, <1>4, <1>5, <1>6, <1>7, <1>8 DEF Next, RunStep, LoopStep

LEMMA CompactKeeps ==
  ASSUME TypeOK, Compact
  PROVE  kept' \in 1 .. Len(log) /\ log' = log /\ mem' = Projection(log', kept')
         /\ rules' = rulesLog'
  BY DEF Compact, CutPoints, FirstKept, TypeOK, FileType

LEMMA MemoryStep ==
  SplitAt = {} /\ MemoryInv /\ [Next]_vars => MemoryInv'
<1> SUFFICES ASSUME SplitAt = {}, MemoryInv, [Next]_vars PROVE MemoryInv'
  OBVIOUS
<1>1. TypeOK /\ TypeOK'
  BY TypeStep DEF MemoryInv
<1>2. ASSUME Up, UNCHANGED <<file, mem, rules>> PROVE MemoryInv'
  BY <1>1, <1>2 DEF MemoryInv, MemoryMatchesLog, Up, file
<1>3. ASSUME Up, NEW m \in Message, Commit(m) PROVE MemoryInv'
  <2>1. kept \in 0 .. Len(log) /\ log \in Seq(Message)
    BY <1>1 DEF MemoryInv, TypeOK, FileType
  <2>2. Projection(Append(log, m), kept) = Append(Projection(log, kept), m)
    BY <2>1, ProjectionAppend
  <2>3. mem = Projection(log, kept) /\ rules = rulesLog
    BY <1>3 DEF MemoryInv, MemoryMatchesLog, Up
  <2>4. kept' <= Len(log')
    BY <1>3, <2>1 DEF Commit
  <2> QED BY <1>1, <1>3, <2>2, <2>3, <2>4 DEF MemoryInv, MemoryMatchesLog, Commit
<1>4. ASSUME Compact PROVE MemoryInv'
  BY <1>1, <1>4, CompactKeeps DEF MemoryInv, MemoryMatchesLog, TypeOK, FileType
<1>5. ASSUME Up, RefreshSystemPrompt PROVE MemoryInv'
  <2>1. rules = rulesLog /\ rules # Unreplayable
    BY <1>1, <1>5, Constants DEF MemoryInv, MemoryMatchesLog, Up, TypeOK, MemoryType, Unreplayable
  <2>2. rules' = rulesLog' /\ UNCHANGED <<log, kept, mem>>
    BY <1>5, <2>1 DEF RefreshSystemPrompt, Recorded
  <2>3. mem = Projection(log, kept) /\ kept <= Len(log)
    BY <1>5 DEF MemoryInv, MemoryMatchesLog, Up
  <2> QED BY <1>1, <2>2, <2>3 DEF MemoryInv, MemoryMatchesLog
<1>6. ASSUME Crash PROVE MemoryInv'
  BY <1>1, <1>6 DEF MemoryInv, MemoryMatchesLog, Crash, file
<1>7. ASSUME Resume PROVE MemoryInv'
  BY <1>1, <1>7 DEF MemoryInv, MemoryMatchesLog, Resume, file
<1>8. CASE UNCHANGED vars
  BY <1>1, <1>8 DEF MemoryInv, MemoryMatchesLog, vars, file, memory
<1>9. ~InterruptedCommit
  BY DEF InterruptedCommit
<1> QED BY <1>1, <1>2, <1>3, <1>4, <1>5, <1>6, <1>7, <1>8, <1>9, StepKinds

\* When no Ctrl+C lands between the two halves of a commit, the messages the
\* process works with are at every moment those another process would rebuild
\* from the session file.
THEOREM MemoryFollowsFile == SplitAt = {} => (Spec => []MemoryMatchesLog)
<1>1. Init => MemoryInv
  BY TypeInit DEF Init, MemoryInv, MemoryMatchesLog, Projection
<1>2. MemoryInv => MemoryMatchesLog
  BY DEF MemoryInv
<1>3. ASSUME SplitAt = {} PROVE MemoryInv /\ [Next]_vars => MemoryInv'
  BY <1>3, MemoryStep
<1> SUFFICES ASSUME SplitAt = {} PROVE Spec => []MemoryMatchesLog
  OBVIOUS
<1> QED BY <1>1, <1>2, <1>3, PTL DEF Spec

-------------------------------------------------------------------------------
(* Events.  A turn or a tool execution that was announced is open only      *)
(* where the loop still has its end before it, or where an exception left.  *)

TurnPlaces == {"stream", "reply", "batch", "call", "observe", "end", "fill", "cut", "turn"}
Raised == pc = "idle" /\ outcome = "raised"

EventsInv ==
  /\ turnOpen => pc \in TurnPlaces \/ Raised
  /\ toolOpen => pc \in {"observe", "end", "fill"} \/ Raised
  /\ pc = "idle" /\ outcome = "returned" => reason # "none"
  /\ pc = "down" => outcome = "none"

\* run() returns from a point where both are closed, or closes them.
LEMMA EventsFinish ==
  ASSUME NEW why, why # "none", Finish(why), ~turnOpen', ~toolOpen'
  PROVE  EventsInv'
BY DEF Finish, EventsInv

LEMMA EventsRaise ==
  ASSUME Raise
  PROVE  EventsInv'
BY DEF Raise, EventsInv, Raised

\* A step within a run that opens nothing where it must not be open.
LEMMA EventsOnward ==
  ASSUME EventsInv, pc' \notin {"idle", "down"},
         turnOpen' => pc' \in TurnPlaces,
         toolOpen' => pc' \in {"observe", "end", "fill"}
  PROVE  EventsInv'
BY DEF EventsInv

LEMMA EventsStep == EventsInv /\ [Next]_vars => EventsInv'
<1>. SUFFICES ASSUME EventsInv, [Next]_vars PROVE EventsInv'
  OBVIOUS
<1>0. /\ pc # "idle" /\ pc \notin TurnPlaces => ~turnOpen
      /\ pc # "idle" /\ pc \notin {"observe", "end", "fill"} => ~toolOpen
  BY DEF EventsInv, Raised
<1>1. CASE Run
  BY <1>1, EventsOnward DEF Run
<1>2. CASE ManualCompact
  BY <1>2 DEF ManualCompact, told, EventsInv, Raised
<1>3. CASE Prepare \/ PreCompact
  BY <1>0, <1>3, EventsOnward, EventsFinish
  DEF Prepare, PreCompact, Continue, TurnPlaces
<1>4. CASE RefreshSystemPrompt \/ CommitUser
  BY <1>0, <1>4, EventsOnward
  DEF RefreshSystemPrompt, CommitUser, Continue, told, TurnPlaces
<1>5. CASE StepLimit \/ BudgetLimit
  BY <1>0, <1>5, EventsFinish DEF StepLimit, BudgetLimit, TurnPlaces
<1>6. CASE Request \/ RequestWithNotice
  BY <1>0, <1>6, EventsOnward DEF Request, RequestWithNotice, StartTurn, TurnPlaces
<1>7. CASE BrokenStream
  BY <1>7, EventsRaise DEF BrokenStream
<1>8. CASE EndRun
  BY <1>0, <1>8, EventsFinish DEF EndRun
<1>9. CASE CommitReply \/ Dispatch \/ ValidateBatch
  <2>1. /\ pc \in {"stream", "reply", "batch"} /\ pc' \in {"reply", "batch", "cut", "call"}
        /\ UNCHANGED <<turnOpen, toolOpen>>
    BY <1>9 DEF CommitReply, Dispatch, ValidateBatch, told
  <2>. QED  BY <1>0, <2>1, EventsOnward DEF TurnPlaces
<1>10. CASE ExecuteCall \/ RejectCall \/ CallUnavailable
  BY <1>0, <1>10, EventsOnward DEF ExecuteCall, RejectCall, CallUnavailable, TurnPlaces
<1>11. CASE CommitObservation \/ EndCall
  BY <1>0, <1>11, EventsOnward DEF CommitObservation, EndCall, told, TurnPlaces
<1>12. CASE Fill
  BY <1>0, <1>12, EventsOnward, EventsFinish DEF Fill, TurnPlaces
<1>13. CASE RecordTruncated \/ EndTruncated \/ EndTurn
  BY <1>0, <1>13, EventsOnward DEF RecordTruncated, EndTruncated, EndTurn, told, TurnPlaces
<1>14. CASE WindowCompaction \/ CostCompaction
  BY <1>0, <1>14, EventsOnward, EventsFinish
  DEF WindowCompaction, CostCompaction, Continue, TurnPlaces
<1>15. CASE Interrupt
  BY <1>0, <1>15, EventsOnward, EventsFinish, EventsRaise
  DEF Interrupt, CancelPoints, TurnPlaces
<1>16. CASE InterruptedCommit
  BY <1>0, <1>16, EventsFinish, EventsRaise DEF InterruptedCommit
<1>17. CASE CommitFails
  BY <1>17, EventsRaise DEF CommitFails
<1>18. CASE Crash
  BY <1>18 DEF Crash, EventsInv
<1>19. CASE Resume
  BY <1>0, <1>19 DEF Resume, told, EventsInv, Raised, TurnPlaces
<1>20. CASE UNCHANGED vars
  BY <1>20 DEF vars, told, EventsInv, Raised
<1>. QED
  BY <1>1, <1>2, <1>3, <1>4, <1>5, <1>6, <1>7, <1>8, <1>9, <1>10, <1>11, <1>12, <1>13,
     <1>14, <1>15, <1>16, <1>17, <1>18, <1>19, <1>20 DEF Next, RunStep, LoopStep

\* A run that returns has ended every turn and every tool execution it announced
\* and has said why it ended, wherever Ctrl+C and failing writes land (run_loop,
\* Agent.run).
THEOREM EventsAlwaysPaired == Spec => []EventsPaired
<1>1. Init => EventsInv
  BY DEF Init, EventsInv
<1>2. EventsInv => EventsPaired
  BY DEF EventsInv, EventsPaired, TurnPlaces, Raised
<1>. QED  BY <1>1, <1>2, EventsStep, PTL DEF Spec

-------------------------------------------------------------------------------
(* How a run ends.  Before it ends only a batch being filled can have been  *)
(* interrupted, and the reply looked at is the last message of the file.    *)

ReasonInv ==
  /\ pc \notin {"idle", "down", "refused", "fill"} => ~interrupted
  /\ pc = "fill" => (interrupted <=> filling = "cancelled")
  /\ pc = "reply" => Len(log) > 0 /\ log[Len(log)] = batch
  /\ pc = "down" => outcome = "none"
  /\ EndReasonFaithful

\* Points of a run without a fill or a reply in hand.
Plain == Points \ {"idle", "down", "refused", "fill", "reply"}

LEMMA ReasonOnward ==
  ASSUME ReasonInv, pc \in Plain \cup {"reply"}, pc' \in Plain, UNCHANGED interrupted
  PROVE  ReasonInv'
BY DEF ReasonInv, EndReasonFaithful, Plain

\* run() returns, cancelled exactly when Ctrl+C landed.
LEMMA ReasonFinish ==
  ASSUME NEW why, why # "completed", Finish(why), interrupted' <=> why = "cancelled"
  PROVE  ReasonInv'
BY DEF Finish, ReasonInv, EndReasonFaithful

LEMMA ReasonRaise ==
  ASSUME Raise
  PROVE  ReasonInv'
BY DEF Raise, ReasonInv, EndReasonFaithful

LEMMA ReasonStep == TypeOK /\ ReasonInv /\ [Next]_vars => ReasonInv'
<1>. SUFFICES ASSUME TypeOK, ReasonInv, [Next]_vars PROVE ReasonInv'
  OBVIOUS
<1>. USE DEF history
<1>0. pc \in Plain \cup {"reply"} => ~interrupted
  BY DEF ReasonInv, Plain
<1>1. CASE Run
  BY <1>1 DEF Run, ReasonInv, EndReasonFaithful
<1>2. CASE ManualCompact
  BY <1>2 DEF ManualCompact, Compact, told, ReasonInv, EndReasonFaithful
<1>3. CASE Prepare \/ PreCompact
  BY <1>0, <1>3, ReasonOnward, ReasonFinish DEF Prepare, PreCompact, Continue, Plain, Points
<1>4. CASE RefreshSystemPrompt \/ CommitUser
  BY <1>4, ReasonOnward DEF RefreshSystemPrompt, CommitUser, Continue, Plain, Points
<1>5. CASE StepLimit \/ BudgetLimit
  BY <1>0, <1>5, ReasonFinish DEF StepLimit, BudgetLimit, Plain, Points
<1>6. CASE Request \/ RequestWithNotice
  BY <1>6, ReasonOnward DEF Request, RequestWithNotice, StartTurn, Plain, Points
<1>7. CASE CommitReply
  <2>1. PICK m \in Replies : Commit(m) /\ batch' = m
    BY <1>7 DEF CommitReply
  <2>2. Len(log') > 0 /\ log'[Len(log')] = batch'
    BY <2>1 DEF Commit, TypeOK, FileType
  <2>. QED
    BY <1>0, <1>7, <2>2 DEF CommitReply, ReasonInv, EndReasonFaithful, Plain, Points
<1>8. CASE BrokenStream
  BY <1>8, ReasonRaise DEF BrokenStream
<1>9. CASE EndRun
  <2>1. ~interrupted /\ log[Len(log)] = batch /\ UNCHANGED <<log, interrupted>>
    BY <1>0, <1>9 DEF EndRun, ReasonInv, file
  <2>2. CASE Finish("error")
    BY <2>1, <2>2, ReasonFinish
  <2>3. CASE batch.note = "stop" /\ batch.number = 0 /\ Finish("completed")
    BY <2>1, <2>3 DEF Finish, ReasonInv, EndReasonFaithful
  <2>. QED  BY <1>9, <2>2, <2>3 DEF EndRun
<1>10. CASE Dispatch
  BY <1>10, ReasonOnward DEF Dispatch, Plain, Points
<1>11. CASE ValidateBatch \/ ExecuteCall \/ RejectCall
  BY <1>11, ReasonOnward DEF ValidateBatch, ExecuteCall, RejectCall, Plain, Points
<1>12. CASE CallUnavailable
  BY <1>0, <1>12 DEF CallUnavailable, ReasonInv, EndReasonFaithful, Plain, Points
<1>13. CASE CommitObservation \/ EndCall
  BY <1>13, ReasonOnward DEF CommitObservation, EndCall, Plain, Points
<1>14. CASE Fill
  <2>1. (interrupted <=> filling = "cancelled") /\ UNCHANGED interrupted
    BY <1>14 DEF Fill, ReasonInv
  <2>2. CASE next < batch.number
    BY <1>14, <2>1, <2>2 DEF Fill, ReasonInv, EndReasonFaithful
  <2>3. CASE ~(next < batch.number)
    BY <1>14, <2>1, <2>3, ReasonFinish DEF Fill
  <2>. QED  BY <2>2, <2>3
<1>15. CASE RecordTruncated \/ EndTruncated \/ EndTurn
  BY <1>15, ReasonOnward DEF RecordTruncated, EndTruncated, EndTurn, Plain, Points
<1>16. CASE WindowCompaction \/ CostCompaction
  BY <1>0, <1>16, ReasonOnward, ReasonFinish
  DEF WindowCompaction, CostCompaction, Continue, Plain, Points
<1>17. CASE Interrupt
  <2>1. CASE Finish("cancelled")
    BY <1>17, <2>1, ReasonFinish DEF Interrupt
  <2>2. CASE filling' = "cancelled" /\ pc' = "fill"
    BY <1>17, <2>2 DEF Interrupt, ReasonInv, EndReasonFaithful
  <2>3. CASE Raise
    BY <2>3, ReasonRaise
  <2>. QED  BY <1>17, <2>1, <2>2, <2>3 DEF Interrupt
<1>18. CASE InterruptedCommit
  BY <1>18, ReasonFinish, ReasonRaise DEF InterruptedCommit
<1>19. CASE CommitFails
  BY <1>19, ReasonRaise DEF CommitFails
<1>20. CASE Crash
  BY <1>20 DEF Crash, ReasonInv, EndReasonFaithful
<1>21. CASE Resume
  BY <1>21 DEF Resume, told, ReasonInv, EndReasonFaithful
<1>22. CASE UNCHANGED vars
  BY <1>22 DEF vars, told, file, batchVars, ReasonInv, EndReasonFaithful
<1>. QED
  BY <1>1, <1>2, <1>3, <1>4, <1>5, <1>6, <1>7, <1>8, <1>9, <1>10, <1>11, <1>12, <1>13,
     <1>14, <1>15, <1>16, <1>17, <1>18, <1>19, <1>20, <1>21, <1>22
  DEF Next, RunStep, LoopStep

\* A run that returns says cancelled exactly when Ctrl+C landed in it, and completed
\* only on a final reply that asks for nothing (Agent.run, run_loop).
THEOREM EndReasonsFaithful == Spec => []EndReasonFaithful
<1>1. Init => ReasonInv
  BY DEF Init, ReasonInv, EndReasonFaithful
<1>2. ReasonInv => EndReasonFaithful
  BY DEF ReasonInv
<1>. QED  BY <1>1, <1>2, TypeInit, TypeStep, ReasonStep, PTL DEF Spec

-------------------------------------------------------------------------------
(* The budget.                                                             *)

BudgetInv ==
  /\ WithinBudget
  /\ pc \in {"stream", "reply"} /\ Budget > 0 => used + predicted <= Budget

\* A request is counted only when it fits.
LEMMA BudgetStart ==
  ASSUME TypeOK, BudgetInv, NEW tokens \in Nat, Fits(tokens), StartTurn(tokens)
  PROVE  BudgetInv'
<1>1. predicted' = tokens /\ UNCHANGED used
  BY DEF StartTurn
<1>. QED  BY <1>1 DEF Fits, BudgetInv, WithinBudget

\* A step that leaves the count alone and sends nothing.
LEMMA BudgetOnward ==
  ASSUME BudgetInv, UNCHANGED used,
         pc' \in {"stream", "reply"} => pc \in {"stream", "reply"} /\ UNCHANGED predicted
  PROVE  BudgetInv'
BY DEF BudgetInv, WithinBudget

\* The count starts again.
LEMMA BudgetDrop ==
  ASSUME DropLimits, pc' \notin {"stream", "reply"}
  PROVE  BudgetInv'
BY Constants DEF DropLimits, BudgetInv, WithinBudget

LEMMA BudgetStep == TypeOK /\ BudgetInv /\ [Next]_vars => BudgetInv'
<1>. SUFFICES ASSUME TypeOK, BudgetInv, [Next]_vars PROVE BudgetInv'
  OBVIOUS
<1>. USE DEF limits
<1>0. ASSUME (\E why : Finish(why)) \/ Raise PROVE BudgetInv'
  BY <1>0, BudgetDrop DEF Finish, Raise
<1>1. CASE Run \/ ManualCompact \/ Resume
  BY <1>1, BudgetOnward DEF Run, ManualCompact, Resume
<1>2. CASE Prepare \/ PreCompact \/ RefreshSystemPrompt \/ CommitUser
  BY <1>0, <1>2, BudgetOnward DEF Prepare, PreCompact, RefreshSystemPrompt, CommitUser, Continue
<1>3. CASE StepLimit \/ BudgetLimit \/ BrokenStream \/ EndRun \/ CommitFails
  BY <1>0, <1>3 DEF StepLimit, BudgetLimit, BrokenStream, EndRun, CommitFails
<1>4. CASE Request \/ RequestWithNotice
  <2>1. Estimate \in Nat /\ WithNotice \in Nat
    BY DEF TypeOK, MemoryType, Estimate, WithNotice
  <2>. QED  BY <1>4, <2>1, BudgetStart DEF Request, RequestWithNotice
<1>5. CASE CommitReply
  BY <1>5, BudgetOnward DEF CommitReply
<1>6. CASE Dispatch
  <2>1. CASE Budget = 0
    BY <2>1 DEF BudgetInv, WithinBudget
  <2>2. CASE Budget # 0
    <3>1. PICK d \in Drift \cup {0} : used' = used + predicted + d
      BY <1>6, <2>2 DEF Dispatch, Charge
    <3>2. used \in Nat /\ predicted \in Nat /\ d \in Nat /\ Budget \in Nat /\ Budget > 0
      BY <2>2, Constants DEF TypeOK, LimitsType
    <3>3. used + predicted <= Budget
      BY <1>6, <3>2 DEF Dispatch, BudgetInv
    <3>4. used' <= Budget + d
      BY <3>1, <3>2, <3>3
    <3>5. pc' \notin {"stream", "reply"}
      BY <1>6 DEF Dispatch
    <3>. QED  BY <3>4, <3>5 DEF BudgetInv, WithinBudget
  <2>. QED  BY <2>1, <2>2
<1>7. CASE ValidateBatch \/ ExecuteCall \/ RejectCall \/ CallUnavailable
  BY <1>7, BudgetOnward DEF ValidateBatch, ExecuteCall, RejectCall, CallUnavailable
<1>8. CASE CommitObservation \/ EndCall \/ RecordTruncated \/ EndTruncated \/ EndTurn
  BY <1>8, BudgetOnward
  DEF CommitObservation, EndCall, RecordTruncated, EndTruncated, EndTurn
<1>9. CASE Fill
  BY <1>0, <1>9, BudgetOnward DEF Fill
<1>10. CASE WindowCompaction \/ CostCompaction
  BY <1>0, <1>10, BudgetOnward DEF WindowCompaction, CostCompaction, Continue
<1>11. CASE Interrupt \/ InterruptedCommit
  BY <1>0, <1>11, BudgetOnward DEF Interrupt, InterruptedCommit
<1>12. CASE Crash
  BY <1>12, BudgetDrop DEF Crash
<1>13. CASE UNCHANGED vars
  BY <1>13, BudgetOnward DEF vars
<1>. QED
  BY <1>1, <1>2, <1>3, <1>4, <1>5, <1>6, <1>7, <1>8, <1>9, <1>10, <1>11, <1>12, <1>13
  DEF Next, RunStep, LoopStep

\* A request in flight fits the budget, and a run never goes over it by more than
\* one provider's drift from one prediction (run_loop).
THEOREM BudgetKept == Spec => []WithinBudget
<1>1. Init => BudgetInv
  BY Constants DEF Init, BudgetInv, WithinBudget
<1>2. BudgetInv => WithinBudget
  BY DEF BudgetInv
<1>. QED  BY <1>1, <1>2, TypeInit, TypeStep, BudgetStep, PTL DEF Spec

-------------------------------------------------------------------------------
(***************************************************************************)
(* The tool batch of AgentLoop.  Two inductive invariants:                 *)
(*                                                                         *)
(* PairingInv, behind PairedAtRest, KeptRegionReplayable and               *)
(* RefusedOnlyMidBatch.  PairedAtRest says nothing of the points inside a  *)
(* batch, so it is not inductive; PairingInv says what is true there: the  *)
(* log is paired up to the assistant message of the batch, and the results *)
(* of its first calls, in order, are all that follows (BatchInv).  That a  *)
(* resumed process accepts no open batch rests on where a compaction may   *)
(* cut (KeptInv).  It holds where interrupts and failing writes are        *)
(* Guarded.                                                                *)
(*                                                                         *)
(* EffectsInv, behind EffectsRecorded and UnexecutedHadNoEffect.  It looks *)
(* at the batch in hand only, needs no pairing of what is before it, and   *)
(* so holds wherever interrupts and failing writes land.                   *)
(*                                                                         *)
(* Both rest on the step counter, which only grows and which a resumed     *)
(* process takes up from the file (StepsInv): no call id is issued twice.  *)
(***************************************************************************)
-------------------------------------------------------------------------------
(* Pairing in a transcript.                                                *)

\* The assistant message at p has the results of its first d calls after it.
BatchAt(s, p, d) ==
  /\ s[p].role = "assistant"
  /\ \A k \in 1 .. d :
       /\ s[p + k].role = "tool"
       /\ s[p + k].step = s[p].step
       /\ s[p + k].number = k

\* No assistant message up to position n is of step w.
StepFresh(s, n, w) ==
  \A i \in 1 .. n : s[i].role = "assistant" => s[i].step # w

(* Answering only looks at the positions between the call and its result. *)
LEMMA AnswersAgree ==
  ASSUME NEW s, NEW t, NEW c \in Nat, NEW d \in Nat,
         \A i \in c .. d : s[i] = t[i],
         NEW i \in c .. d, NEW j \in c .. d, Answers(s, i, j)
  PROVE  Answers(t, i, j)
  BY DEF Answers

(* Pairing between two positions depends on the messages between them. *)
LEMMA PairsAgree ==
  ASSUME NEW s, NEW t, NEW c \in Nat, NEW d \in Nat,
         \A i \in c .. d : s[i] = t[i], PairsValidIn(s, c, d)
  PROVE  PairsValidIn(t, c, d)
<1>1. ASSUME NEW i \in c .. d, NEW j \in c .. d,
             i < j, t[i].role = "assistant", t[j].role = "assistant"
      PROVE  CallIds(t[i]) \cap CallIds(t[j]) = {}
  BY <1>1 DEF PairsValidIn
<1>2. ASSUME NEW j \in c .. d, t[j].role = "tool"
      PROVE  \E i \in c .. d : Answers(t, i, j)
  <2>1. PICK i \in c .. d : Answers(s, i, j)
    BY <1>2 DEF PairsValidIn
  <2> QED BY <2>1, AnswersAgree
<1>3. ASSUME NEW i \in c .. d, t[i].role = "assistant", NEW id \in CallIds(t[i])
      PROVE  \E j \in c .. d :
               t[j].role = "tool" /\ ResultId(t[j]) = id /\ Answers(t, i, j)
  <2>1. PICK j \in c .. d :
          s[j].role = "tool" /\ ResultId(s[j]) = id /\ Answers(s, i, j)
    BY <1>3 DEF PairsValidIn
  <2>2. Answers(t, i, j)
    BY <2>1, AnswersAgree
  <2> QED BY <2>1, <2>2
<1> QED BY <1>1, <1>2, <1>3 DEF PairsValidIn

(* A region that does not begin with a tool message is paired if all is. *)
LEMMA PairsSuffix ==
  ASSUME NEW s, NEW c \in Nat, NEW d \in Nat, NEW b \in 1 .. c,
         s[c].role # "tool", PairsValidIn(s, b, d)
  PROVE  PairsValidIn(s, c, d)
<1>1. \A i \in c .. d : i \in b .. d
  OBVIOUS
<1>2. ASSUME NEW j \in c .. d, s[j].role = "tool"
      PROVE  \E i \in c .. d : Answers(s, i, j)
  <2>1. PICK i \in b .. d : Answers(s, i, j)
    BY <1>2 DEF PairsValidIn
  <2>2. i >= c
    BY <2>1 DEF Answers
  <2> QED BY <2>1, <2>2
<1>3. ASSUME NEW i \in c .. d, s[i].role = "assistant", NEW id \in CallIds(s[i])
      PROVE  \E j \in c .. d :
               s[j].role = "tool" /\ ResultId(s[j]) = id /\ Answers(s, i, j)
  <2>1. PICK j \in b .. d :
          s[j].role = "tool" /\ ResultId(s[j]) = id /\ Answers(s, i, j)
    BY <1>1, <1>3 DEF PairsValidIn
  <2>2. j \in c .. d
    BY <2>1 DEF Answers
  <2> QED BY <2>1, <2>2
<1>4. \A i, j \in c .. d :
        (i < j /\ s[i].role = "assistant" /\ s[j].role = "assistant")
          => CallIds(s[i]) \cap CallIds(s[j]) = {}
  BY <1>1 DEF PairsValidIn
<1> QED BY <1>2, <1>3, <1>4 DEF PairsValidIn

(* A user message after complete batches leaves them complete. *)
LEMMA PairsExtendUser ==
  ASSUME NEW s, NEW n \in Nat, PairsValidIn(s, 1, n), s[n + 1].role = "user"
  PROVE  PairsValidIn(s, 1, n + 1)
<1>1. \A i \in 1 .. n + 1 : s[i].role # "user" => i \in 1 .. n
  OBVIOUS
<1> QED BY <1>1 DEF PairsValidIn

(* A complete batch of a fresh step after complete batches: all complete. *)
LEMMA PairsExtendBatch ==
  ASSUME NEW s, NEW p \in Nat \ {0}, PairsValidIn(s, 1, p - 1),
         s[p].number \in Nat, BatchAt(s, p, s[p].number),
         StepFresh(s, p - 1, s[p].step)
  PROVE  PairsValidIn(s, 1, p + s[p].number)
<1> DEFINE n == s[p].number
<1>1. \A k \in 1 .. n : ResultId(s[p + k]) = <<s[p].step, k>>
  BY DEF BatchAt, ResultId
<1>2. \A i \in 1 .. p + n : s[i].role = "assistant" => i \in 1 .. p - 1 \/ i = p
  <2>1. \A i \in p + 1 .. p + n : i - p \in 1 .. n /\ i = p + (i - p)
    OBVIOUS
  <2>2. \A i \in p + 1 .. p + n : s[i].role = "tool"
    BY <2>1 DEF BatchAt
  <2> QED BY <2>2
<1>3. \A k \in 1 .. n : Answers(s, p, p + k)
  <2> SUFFICES ASSUME NEW k \in 1 .. n PROVE Answers(s, p, p + k)
    OBVIOUS
  <2>1. \A i \in p + 1 .. p + k : i - p \in 1 .. n /\ i = p + (i - p)
    OBVIOUS
  <2>2. \A i \in p + 1 .. p + k : s[i].role = "tool"
    BY <2>1 DEF BatchAt
  <2>3. \A i \in p + 1 .. p + k - 1 : ResultId(s[i]) # ResultId(s[p + k])
    <3> SUFFICES ASSUME NEW i \in p + 1 .. p + k - 1
                 PROVE  ResultId(s[i]) # ResultId(s[p + k])
      OBVIOUS
    <3>1. ResultId(s[i]) = <<s[p].step, i - p>>
      BY <1>1, <2>1
    <3>2. ResultId(s[p + k]) = <<s[p].step, k>>
      BY <1>1
    <3> QED BY <3>1, <3>2
  <2>4. ResultId(s[p + k]) \in CallIds(s[p])
    BY <1>1 DEF CallIds
  <2> QED BY <2>2, <2>3, <2>4 DEF Answers, BatchAt
<1>4. ASSUME NEW i \in 1 .. p + n, NEW j \in 1 .. p + n,
             i < j, s[i].role = "assistant", s[j].role = "assistant"
      PROVE  CallIds(s[i]) \cap CallIds(s[j]) = {}
  <2>1. CASE j \in 1 .. p - 1
    BY <1>4, <2>1 DEF PairsValidIn
  <2>2. CASE j = p
    <3>1. s[i].step # s[p].step
      BY <1>4, <2>2 DEF StepFresh
    <3> QED BY <2>2, <3>1 DEF CallIds
  <2> QED BY <1>2, <1>4, <2>1, <2>2
<1>5. ASSUME NEW j \in 1 .. p + n, s[j].role = "tool"
      PROVE  \E i \in 1 .. p + n : Answers(s, i, j)
  <2>1. CASE j \in 1 .. p - 1
    BY <1>5, <2>1 DEF PairsValidIn
  <2>2. CASE j = p
    BY <1>5, <2>2 DEF BatchAt
  <2>3. CASE j \in p + 1 .. p + n
    <3>1. j - p \in 1 .. n /\ j = p + (j - p)
      BY <2>3
    <3> QED BY <1>3, <3>1
  <2> QED BY <2>1, <2>2, <2>3
<1>6. ASSUME NEW i \in 1 .. p + n, s[i].role = "assistant", NEW id \in CallIds(s[i])
      PROVE  \E j \in 1 .. p + n :
               s[j].role = "tool" /\ ResultId(s[j]) = id /\ Answers(s, i, j)
  <2>1. CASE i \in 1 .. p - 1
    BY <1>6, <2>1 DEF PairsValidIn
  <2>2. CASE i = p
    <3>1. PICK k \in 1 .. n : id = <<s[p].step, k>>
      BY <1>6, <2>2 DEF CallIds
    <3>2. p + k \in 1 .. p + n /\ s[p + k].role = "tool"
      BY DEF BatchAt
    <3> QED BY <1>1, <1>3, <2>2, <3>1, <3>2
  <2> QED BY <1>2, <1>6, <2>1, <2>2
<1> QED BY <1>4, <1>5, <1>6 DEF PairsValidIn

(* A batch with a result missing at the end of the log is not paired, from *)
(* whatever position up to its assistant message one looks.                *)
LEMMA PairsIncomplete ==
  ASSUME NEW s, NEW p \in Nat \ {0}, NEW d \in Nat, NEW c \in 1 .. p,
         s[p].number \in Nat, d < s[p].number, BatchAt(s, p, d)
  PROVE  ~PairsValidIn(s, c, p + d)
<1> SUFFICES ASSUME PairsValidIn(s, c, p + d) PROVE FALSE
  OBVIOUS
<1> DEFINE id == <<s[p].step, s[p].number>>
<1>1. id \in CallIds(s[p]) /\ s[p].role = "assistant"
  BY DEF CallIds, BatchAt
<1>2. PICK j \in c .. p + d : ResultId(s[j]) = id /\ Answers(s, p, j)
  BY <1>1 DEF PairsValidIn
<1>3. j - p \in 1 .. d /\ j = p + (j - p)
  BY <1>2 DEF Answers
<1>4. ResultId(s[j]) = <<s[p].step, j - p>>
  BY <1>3 DEF BatchAt, ResultId
<1> QED BY <1>2, <1>3, <1>4

-------------------------------------------------------------------------------
(* The step counter.                                                       *)

\* No message, no effect and no open batch is of a step beyond the one the
\* file records, and the reply awaited is of a step beyond it.
StepsInv ==
  /\ \A i \in 1 .. Len(log) : log[i].step <= saved
  /\ \A e \in effects : e[1] <= saved
  /\ pc \in BatchPoints => batch.step <= saved
  /\ Up => saved <= step
  /\ pc = "stream" => saved < step

\* A commit, or the durable half of one.
LEMMA StepsCommit ==
  ASSUME TypeOK, StepsInv, Up, NEW m \in Message, m.step <= step,
         log' = Append(log, m), saved' = step, step' = step, effects' = effects,
         pc' \in BatchPoints => batch'.step <= step,
         pc' # "stream"
  PROVE  StepsInv'
<1>1. saved \in Nat /\ step \in Nat /\ saved <= step
  BY DEF StepsInv, TypeOK, FileType, MemoryType
<1>2. \A i \in 1 .. Len(log) : log'[i] = log[i] /\ log[i].step \in Nat
  <2>1. \A i \in 1 .. Len(log) : log[i] \in Message
    BY DEF TypeOK, FileType
  <2> QED BY <2>1 DEF TypeOK, FileType, Message
<1>3. Len(log') = Len(log) + 1 /\ log'[Len(log) + 1] = m /\ Len(log) \in Nat
  BY DEF TypeOK, FileType
<1>4. ASSUME NEW i \in 1 .. Len(log')
      PROVE  log'[i].step <= saved'
  <2>1. CASE i \in 1 .. Len(log)
    BY <1>1, <1>2, <2>1 DEF StepsInv
  <2>2. CASE i = Len(log) + 1
    BY <1>3, <2>2
  <2> QED BY <1>3, <2>1, <2>2
<1>5. \A e \in effects' : e[1] <= saved'
  <2>1. \A e \in effects : e[1] \in Nat
    BY DEF TypeOK, HistoryType
  <2> QED BY <1>1, <2>1 DEF StepsInv
<1> QED BY <1>1, <1>4, <1>5 DEF StepsInv

\* A step that commits no message.
LEMMA StepsQuiet ==
  ASSUME TypeOK, StepsInv, Up, log' = log, saved' \in {saved, step}, step' = step,
         pc' \in BatchPoints => pc \in BatchPoints /\ batch' = batch,
         effects' # effects => pc \in BatchPoints /\ effects' \subseteq effects \cup {CallId},
         pc' # "stream"
  PROVE  StepsInv'
<1>1. saved \in Nat /\ step \in Nat /\ saved <= step /\ saved <= saved'
  BY DEF StepsInv, TypeOK, FileType, MemoryType
<1>2. \A i \in 1 .. Len(log) : log[i].step <= saved'
  <2>1. \A i \in 1 .. Len(log) : log[i] \in Message
    BY DEF TypeOK, FileType
  <2> QED BY <1>1, <2>1 DEF StepsInv, Message
<1>3. batch.step \in Nat
  BY DEF TypeOK, BatchType, Message
<1>4. ASSUME NEW e \in effects' PROVE e[1] <= saved'
  <2>1. CASE e \in effects
    BY <1>1, <2>1 DEF StepsInv, TypeOK, HistoryType
  <2>2. CASE e \notin effects
    BY <1>1, <1>3, <1>4, <2>2 DEF StepsInv, CallId
  <2> QED BY <2>1, <2>2
<1> QED BY <1>1, <1>2, <1>3, <1>4 DEF StepsInv

\* What a commit point has in hand is a message of no later step.
LEMMA InHandSteps ==
  ASSUME TypeOK, StepsInv, Up, NEW m \in InHand
  PROVE  m \in Message /\ m.step <= step
<1> USE DEF TypeOK
<1>1. saved \in Nat /\ step \in Nat /\ saved <= step /\ batch.step \in Nat /\ next \in Nat
  BY DEF StepsInv, FileType, MemoryType, BatchType, Message
<1>2. CASE pc = "user"
  BY <1>1, <1>2, UserIsMessage DEF InHand, UserMessage
<1>3. CASE pc = "stream"
  BY <1>1, <1>3, RepliesAreMessages DEF InHand, Replies, AssistantMessage
<1>4. CASE pc \in {"observe", "fill", "cut"}
  <2>1. PICK note \in Observations : m = Observation(note)
    BY <1>4 DEF InHand, BatchType, Observations
  <2>2. m.step = batch.step /\ batch.step <= saved
    BY <1>4, <2>1 DEF Observation, ToolMessage, StepsInv, BatchPoints
  <2> QED BY <1>1, <2>1, <2>2, ObservationIsMessage
<1> QED BY <1>2, <1>3, <1>4 DEF InHand

LEMMA StepsInit == Init => StepsInv
<1> SUFFICES ASSUME Init PROVE StepsInv
  OBVIOUS
<1>1. Len(log) = 0 /\ saved = 0 /\ step = 0 /\ pc = "idle" /\ effects = {}
  BY DEF Init
<1> QED BY <1>1 DEF StepsInv, BatchPoints

LEMMA StepsStep ==
  ASSUME TypeOK, StepsInv, [Next]_vars
  PROVE  StepsInv'
<1> USE DEF Up, BatchPoints
<1>1. CASE Run \/ Prepare \/ StepLimit \/ BudgetLimit \/ BrokenStream \/ EndRun
           \/ EndTruncated \/ EndTurn \/ CommitFails
  <2>1. UNCHANGED <<log, saved, step, effects>> /\ Up
    BY <1>1 DEF Run, Prepare, StepLimit, BudgetLimit, BrokenStream, EndRun, EndTruncated,
       EndTurn, CommitFails, file, memory, history
  <2>2. pc' \notin BatchPoints \cup {"stream"}
    BY <1>1 DEF Run, Prepare, StepLimit, BudgetLimit, BrokenStream, EndRun, EndTruncated,
       EndTurn, CommitFails, Continue, Finish, Raise
  <2> QED BY <2>1, <2>2, StepsQuiet
<1>2. CASE Dispatch \/ ValidateBatch \/ ExecuteCall \/ RejectCall \/ CallUnavailable \/ EndCall
  <2>1. UNCHANGED <<log, saved, step, batch>> /\ pc \in BatchPoints /\ pc' # "stream"
    BY <1>2 DEF Dispatch, ValidateBatch, ExecuteCall, RejectCall, CallUnavailable, EndCall,
       file, memory, batchVars
  <2>2. effects' = effects \/ effects' = effects \cup {CallId}
    BY <1>2 DEF Dispatch, ValidateBatch, ExecuteCall, RejectCall, CallUnavailable, EndCall,
       history
  <2> QED BY <2>1, <2>2, StepsQuiet
<1>3. CASE Interrupt
  <2>1. UNCHANGED <<log, saved, step>> /\ Up
    BY <1>3 DEF Interrupt, file, memory
  <2>2. CASE pc' = "idle" /\ effects' = effects
    BY <2>1, <2>2, StepsQuiet
  <2>3. CASE pc = "call" /\ pc' = "fill" /\ batch' = batch
             /\ effects' \in {effects, IF rejected THEN effects ELSE effects \cup {CallId}}
    BY <2>1, <2>3, StepsQuiet
  <2> QED BY <1>3, <2>2, <2>3 DEF Interrupt, Finish, Raise
<1>4. CASE InterruptedCommit
  <2>1. step' = step /\ effects' = effects /\ pc' = "idle"
    BY <1>4 DEF InterruptedCommit, memory, Finish, Raise
  <2>2. ASSUME ~Up PROVE InHand = {}
    BY <2>2 DEF InHand
  <2>3. Up
    BY <1>4, <2>2 DEF InterruptedCommit
  <2>4. CASE \E m \in InHand : log' = Append(log, m) /\ saved' = step
    BY <2>1, <2>3, <2>4, InHandSteps, StepsCommit
  <2>5. CASE log' = log /\ saved' \in {saved, step}
    BY <2>1, <2>3, <2>5, StepsQuiet
  <2> QED BY <1>4, <2>4, <2>5 DEF InterruptedCommit
<1>5. CASE ManualCompact \/ PreCompact \/ WindowCompaction \/ CostCompaction
  <2>1. Compact \/ UNCHANGED <<file, memory>>
    BY <1>5 DEF ManualCompact, PreCompact, WindowCompaction, CostCompaction
  <2>2. log' = log /\ saved' = saved /\ step' = step
    BY <2>1 DEF Compact, file, memory
  <2>3. Up /\ effects' = effects /\ pc' \notin BatchPoints \cup {"stream"}
    BY <1>5 DEF ManualCompact, PreCompact, WindowCompaction, CostCompaction, Continue,
       Finish, history
  <2> QED BY <2>2, <2>3, StepsQuiet
<1>6. CASE CommitUser \/ CommitReply \/ CommitObservation \/ Fill \/ RecordTruncated
  <2>1. PICK m \in InHand : Commit(m)
    BY <1>6 DEF CommitUser, CommitReply, CommitObservation, Fill, RecordTruncated, InHand
  <2>2. m \in Message /\ m.step <= step
    BY <1>6, InHandSteps DEF CommitUser, CommitReply, CommitObservation, Fill, RecordTruncated
  <2>3. pc' \in BatchPoints => batch'.step <= step
    <3>1. CASE CommitReply
      BY <3>1 DEF CommitReply, Replies, AssistantMessage, TypeOK, MemoryType
    <3>2. CASE CommitUser
      BY <3>2 DEF CommitUser, Continue
    <3>3. CASE CommitObservation \/ Fill \/ RecordTruncated
      <4>1. pc' \in BatchPoints => batch' = batch /\ pc \in BatchPoints
        BY <3>3 DEF CommitObservation, Fill, RecordTruncated, Finish, batchVars
      <4>2. batch.step \in Nat /\ saved \in Nat /\ step \in Nat
        BY DEF TypeOK, BatchType, FileType, MemoryType, Message
      <4> QED BY <1>6, <4>1, <4>2
          DEF StepsInv, CommitUser, CommitReply, CommitObservation, Fill, RecordTruncated
    <3> QED BY <1>6, <3>1, <3>2, <3>3
  <2>4. effects' = effects /\ pc' # "stream" /\ Up
    BY <1>6 DEF CommitUser, CommitReply, CommitObservation, Fill, RecordTruncated, Continue,
       Finish, history
  <2> QED BY <2>1, <2>2, <2>3, <2>4, StepsCommit DEF Commit
<1>7. CASE Request \/ RequestWithNotice
  <2>1. UNCHANGED <<log, saved, effects>> /\ step' = step + 1 /\ Up /\ pc' = "stream"
    BY <1>7 DEF Request, RequestWithNotice, StartTurn, file, history
  <2> QED BY <2>1 DEF StepsInv, TypeOK, FileType, MemoryType
<1>8. CASE RefreshSystemPrompt
  <2>1. log' = log /\ step' = step /\ saved' \in {saved, step} /\ effects' = effects
        /\ Up /\ pc' = "user"
    BY <1>8 DEF RefreshSystemPrompt, history
  <2> QED BY <2>1, StepsQuiet
<1>9. CASE Crash \/ Resume
  <2>1. UNCHANGED <<log, saved, effects>> /\ pc' \in {"down", "refused", "idle"}
        /\ (pc' = "idle" => step' = saved)
    BY <1>9 DEF Crash, Resume, file, history
  <2> QED BY <2>1 DEF StepsInv, TypeOK, FileType
<1>10. CASE UNCHANGED vars
  <2>1. UNCHANGED <<log, saved, step, effects, batch, pc>>
    BY <1>10 DEF vars, file, memory, history, batchVars
  <2>2. StepsInv
    OBVIOUS
  <2> QED BY <2>1, <2>2 DEF StepsInv
<1> QED BY <1>1, <1>2, <1>3, <1>4, <1>5, <1>6, <1>7, <1>8, <1>9, <1>10
        DEF Next, RunStep, LoopStep

-------------------------------------------------------------------------------
(* The inductive invariant of the pairing.                                 *)

KeptInv ==
  /\ kept <= Len(log)
  /\ kept # 0 => log[kept].role # "tool"

\* The last d messages answer the first d calls of the message at p, and all
\* before p is paired.
OpenBatch(p, d) ==
  /\ p \in 1 .. Len(log) /\ d \in Nat /\ p + d = Len(log)
  /\ d <= log[p].number
  /\ FirstKept(kept) <= p
  /\ PairsValidIn(log, 1, p - 1)
  /\ BatchAt(log, p, d)
  /\ StepFresh(log, p - 1, log[p].step)

\* How many calls of the batch are answered.
Done == IF pc = "end" THEN next ELSE next - 1

BatchInv ==
  /\ pc \in RestPoints => PairsValid(log)
  /\ pc \in RestPoints \ {"turn"} => next = 1
  /\ pc \in BatchPoints => OpenBatch(Len(log) - Done, Done) /\ log[Len(log) - Done] = batch
  /\ pc \in {"reply", "batch"} => next = 1
  /\ pc = "reply" /\ batch.note = "error" => batch.number = 0
  /\ pc = "batch" => batch.number > 0
  /\ pc \in {"call", "observe", "end", "fill"} => next <= batch.number
  /\ pc = "down" =>
       next = 1 /\ (PairsValid(log) \/ \E p, d \in 0 .. Len(log) : OpenBatch(p, d))
  /\ pc = "refused" /\ rulesLog # Unreplayable =>
       \E p, d \in 0 .. Len(log) : OpenBatch(p, d) /\ d < log[p].number

PairingInv == TypeOK /\ StepsInv /\ KeptInv /\ BatchInv

-------------------------------------------------------------------------------
(* Where a compaction may cut.                                             *)

LEMMA KeptStep ==
  ASSUME TypeOK, StepsInv, KeptInv, [Next]_vars
  PROVE  KeptInv'
<1>1. CASE UNCHANGED <<log, kept>>
  BY <1>1 DEF KeptInv
<1>2. ASSUME NEW m \in Message, log' = Append(log, m), kept' = kept PROVE KeptInv'
  BY <1>2 DEF KeptInv, TypeOK, FileType
<1>3. ASSUME log' = log, kept' \in CutPoints(log, kept) PROVE KeptInv'
  BY <1>3 DEF CutPoints, FirstKept, KeptInv, TypeOK, FileType
<1>4. CASE InterruptedCommit
  <2>1. \A m \in InHand : m \in Message
    BY InHandSteps DEF InHand, Up
  <2> QED BY <1>1, <1>2, <1>3, <1>4, <2>1 DEF InterruptedCommit
<1>5. CASE Next /\ ~InterruptedCommit
  <2>1. \/ UNCHANGED file
        \/ \E m \in Message : Commit(m)
        \/ Compact
        \/ RefreshSystemPrompt \/ Crash \/ Resume
    BY <1>5, StepKinds
  <2>2. ASSUME NEW m \in Message, Commit(m) PROVE KeptInv'
    BY <1>2, <2>2 DEF Commit
  <2> QED BY <1>1, <1>3, <2>1, <2>2 DEF Compact, RefreshSystemPrompt, Crash, Resume, file
<1> QED BY <1>1, <1>4, <1>5 DEF vars, file

-------------------------------------------------------------------------------
(* The batch.                                                              *)

\* What BatchInv asks of a state inside a batch, with its message at p.
LEMMA InBatchNext ==
  ASSUME pc' \in BatchPoints, NEW p, NEW d, OpenBatch(p, d)', Done' = d,
         log'[p] = batch',
         pc' \in {"reply", "batch"} => next' = 1,
         pc' = "reply" /\ batch'.note = "error" => batch'.number = 0,
         pc' = "batch" => batch'.number > 0,
         pc' \in {"call", "observe", "end", "fill"} => next' <= batch'.number
  PROVE  BatchInv'
<1>1. Len(log') - Done' = p
  BY DEF OpenBatch
<1>2. pc' \notin RestPoints \cup {"down", "refused"}
  BY DEF BatchPoints, RestPoints
<1> QED BY <1>1, <1>2 DEF BatchInv

\* And of one outside every batch.
LEMMA AtRestNext ==
  ASSUME pc' \in RestPoints, PairsValid(log'), pc' # "turn" => next' = 1
  PROVE  BatchInv'
<1>1. pc' \notin BatchPoints \cup {"down", "refused"}
  BY DEF BatchPoints, RestPoints
<1> QED BY <1>1 DEF BatchInv, BatchPoints

LEMMA OpenStays ==
  ASSUME NEW p, NEW d, OpenBatch(p, d), UNCHANGED <<log, kept>>
  PROVE  OpenBatch(p, d)'
  BY DEF OpenBatch

\* A batch whose last call is answered closes: the whole log is paired.
LEMMA OpenCloses ==
  ASSUME TypeOK, NEW p, NEW d, OpenBatch(p, d), d = log[p].number
  PROVE  PairsValid(log)
<1>1. p \in Nat \ {0} /\ log[p].number \in Nat /\ p + log[p].number = Len(log)
  BY DEF OpenBatch
<1> QED BY <1>1, PairsExtendBatch DEF OpenBatch, PairsValid

\* What is paired is also paired from where the kept region starts.
LEMMA PairedReplayable ==
  ASSUME TypeOK, KeptInv, PairsValid(log)
  PROVE  Replayable(log, kept)
<1>1. CASE kept = 0
  BY <1>1 DEF Replayable, FirstKept, PairsValid
<1>2. CASE kept # 0
  BY <1>2, PairsSuffix DEF Replayable, FirstKept, PairsValid, KeptInv, TypeOK, FileType
<1> QED BY <1>1, <1>2

\* The result of the next call extends the batch by one.
LEMMA OpenGrows ==
  ASSUME TypeOK, NEW p, NEW d, OpenBatch(p, d), d < log[p].number,
         NEW m \in Message, log' = Append(log, m), kept' = kept,
         m.role = "tool", m.step = log[p].step, m.number = d + 1
  PROVE  OpenBatch(p, d + 1)' /\ log'[p] = log[p]
<1>1. p \in 1 .. Len(log) /\ d \in Nat /\ p + d = Len(log)
  BY DEF OpenBatch
<1>2. \A i \in 1 .. Len(log) : log'[i] = log[i]
  BY DEF TypeOK, FileType
<1>3. Len(log') = Len(log) + 1 /\ log'[Len(log) + 1] = m
  BY DEF TypeOK, FileType
<1>4. log'[p] = log[p] /\ log[p] \in Message
  BY <1>1, <1>2 DEF TypeOK, FileType
<1>5. log[p].number \in Nat
  BY <1>4 DEF Message
<1>6. PairsValidIn(log', 1, p - 1)
  <2>1. \A i \in 1 .. p - 1 : log[i] = log'[i]
    BY <1>1, <1>2
  <2>2. p - 1 \in Nat /\ PairsValidIn(log, 1, p - 1)
    BY <1>1 DEF OpenBatch
  <2> QED BY <2>1, <2>2, PairsAgree
<1>7. BatchAt(log', p, d + 1)
  <2>1. ASSUME NEW k \in 1 .. d + 1
        PROVE  /\ log'[p + k].role = "tool"
               /\ log'[p + k].step = log'[p].step
               /\ log'[p + k].number = k
    <3>1. CASE k \in 1 .. d
      <4>1. log'[p + k] = log[p + k]
        BY <1>1, <1>2, <3>1
      <4> QED BY <1>4, <3>1, <4>1 DEF OpenBatch, BatchAt
    <3>2. CASE k = d + 1
      BY <1>1, <1>3, <1>4, <3>2
    <3> QED BY <1>1, <3>1, <3>2
  <2>2. log'[p].role = "assistant"
    BY <1>4 DEF OpenBatch, BatchAt
  <2> QED BY <2>1, <2>2 DEF BatchAt
<1>8. StepFresh(log', p - 1, log'[p].step)
  BY <1>1, <1>2, <1>4 DEF OpenBatch, StepFresh
<1>9. FirstKept(kept') <= p
  BY DEF OpenBatch
<1>10. /\ p \in 1 .. Len(log') /\ d + 1 \in Nat /\ p + (d + 1) = Len(log')
       /\ d + 1 <= log'[p].number
  BY <1>1, <1>3, <1>4, <1>5
<1> QED BY <1>4, <1>6, <1>7, <1>8, <1>9, <1>10, Zenon DEF OpenBatch

\* A reply of a new step opens its batch.
LEMMA OpenBegins ==
  ASSUME TypeOK, StepsInv, KeptInv, PairsValid(log), saved < step,
         NEW m \in Message, m.role = "assistant", m.step = step,
         log' = Append(log, m), kept' = kept
  PROVE  \E q : OpenBatch(q, 0)' /\ log'[q] = m
<1> DEFINE p == Len(log) + 1
<1>1. \A i \in 1 .. Len(log) : log'[i] = log[i]
  BY DEF TypeOK, FileType
<1>2. Len(log') = p /\ log'[p] = m /\ Len(log) \in Nat
  BY DEF TypeOK, FileType
<1>3. PairsValidIn(log', 1, Len(log))
  BY <1>1, <1>2, PairsAgree DEF PairsValid
<1>4. StepFresh(log', Len(log), m.step)
  <2>1. \A i \in 1 .. Len(log) : log[i] \in Message
    BY DEF TypeOK, FileType
  <2>2. \A i \in 1 .. Len(log) : log[i].step \in Nat
    BY <2>1 DEF Message
  <2> QED BY <1>1, <2>2 DEF StepFresh, StepsInv, TypeOK, FileType, MemoryType
<1>5. FirstKept(kept') <= p
  BY <1>2 DEF FirstKept, KeptInv, TypeOK, FileType
<1>6. m.number \in Nat
  BY DEF Message
<1>7. BatchAt(log', p, 0)
  BY <1>2 DEF BatchAt
<1>8. PICK q : q = p
  OBVIOUS
<1>9. OpenBatch(q, 0)'
  BY <1>2, <1>3, <1>4, <1>5, <1>6, <1>7, <1>8 DEF OpenBatch
<1> QED BY <1>2, <1>8, <1>9

\* A task after complete batches.
LEMMA UserPaired ==
  ASSUME TypeOK, PairsValid(log), log' = Append(log, UserMessage)
  PROVE  PairsValid(log')
<1>1. /\ Len(log) \in Nat /\ Len(log') = Len(log) + 1
      /\ \A i \in 1 .. Len(log) : log[i] = log'[i]
      /\ log'[Len(log) + 1].role = "user"
  BY UserIsMessage DEF UserMessage, TypeOK, FileType
<1>2. PairsValidIn(log', 1, Len(log))
  BY <1>1, PairsAgree DEF PairsValid
<1> QED BY <1>1, <1>2, PairsExtendUser DEF PairsValid

-------------------------------------------------------------------------------
(* One step.                                                               *)

LEMMA BatchStep ==
  ASSUME Guarded, PairingInv, TypeOK', [Next]_vars
  PROVE  BatchInv'
<1> USE DEF PairingInv
<1>a. ASSUME pc \in BatchPoints
      PROVE  \E p, d : OpenBatch(p, d) /\ log[p] = batch /\ d = Done
  BY <1>a DEF BatchInv
<1>b. ASSUME pc \in RestPoints, pc' \in RestPoints \ {"turn"}, log' = log, next' = 1
      PROVE  BatchInv'
  BY <1>b, AtRestNext DEF BatchInv
<1>1. CASE Run \/ ManualCompact \/ Prepare \/ PreCompact \/ RefreshSystemPrompt
           \/ StepLimit \/ BudgetLimit \/ Request \/ RequestWithNotice \/ BrokenStream
           \/ EndTurn \/ WindowCompaction \/ CostCompaction
  <2>1. log' = log
    BY <1>1 DEF Run, ManualCompact, Prepare, PreCompact, RefreshSystemPrompt, StepLimit,
       BudgetLimit, Request, RequestWithNotice, StartTurn, BrokenStream, EndTurn,
       WindowCompaction, CostCompaction, Compact, file
  <2>2. pc \in RestPoints /\ pc' \in RestPoints \ {"turn"}
    BY <1>1 DEF Run, ManualCompact, Prepare, PreCompact, RefreshSystemPrompt, StepLimit,
       BudgetLimit, Request, RequestWithNotice, StartTurn, BrokenStream, EndTurn,
       WindowCompaction, CostCompaction, Continue, Finish, Raise, RestPoints
  <2>3. next' = 1 \/ (next' = next /\ pc # "turn")
    BY <1>1 DEF Run, ManualCompact, Prepare, PreCompact, RefreshSystemPrompt, StepLimit,
       BudgetLimit, Request, RequestWithNotice, StartTurn, BrokenStream, EndTurn,
       WindowCompaction, CostCompaction, Continue, Finish, Raise, DropBatch, batchVars
  <2> QED BY <1>b, <2>1, <2>2, <2>3 DEF BatchInv
<1>2. CASE CommitUser
  <2>1. log' = Append(log, UserMessage) /\ pc' = "loop" /\ next' = next
    BY <1>2 DEF CommitUser, Commit, Continue, batchVars
  <2>2. PairsValid(log) /\ next = 1
    BY <1>2 DEF CommitUser, BatchInv, RestPoints
  <2> QED BY <2>1, <2>2, UserPaired, AtRestNext DEF RestPoints
<1>3. CASE CommitReply
  <2>1. PICK m \in Replies : Commit(m) /\ batch' = m
    BY <1>3 DEF CommitReply
  <2>2. /\ m \in Message /\ m.role = "assistant" /\ m.step = step
        /\ m.note = "error" => m.number = 0
    BY RepliesAreMessages DEF TypeOK, MemoryType, Replies, AssistantMessage
  <2>3. PairsValid(log) /\ next = 1 /\ saved < step
    BY <1>3 DEF CommitReply, BatchInv, RestPoints, StepsInv
  <2>4. PICK p : OpenBatch(p, 0)' /\ log'[p] = m
    BY <2>1, <2>2, <2>3, OpenBegins DEF Commit
  <2>5. pc' = "reply" /\ next' = next
    BY <1>3 DEF CommitReply
  <2>6. Done' = 0
    BY <2>3, <2>5 DEF Done
  <2> QED BY <2>1, <2>2, <2>3, <2>4, <2>5, <2>6, InBatchNext DEF BatchPoints
<1>4. CASE EndRun
  <2>1. PICK p, d : OpenBatch(p, d) /\ log[p] = batch /\ d = Done
    BY <1>4, <1>a DEF EndRun, BatchPoints
  <2>2. d = log[p].number
    BY <1>4, <2>1 DEF EndRun, BatchInv, Done
  <2>3. PairsValid(log')
    BY <1>4, <2>1, <2>2, OpenCloses DEF EndRun, file
  <2>4. pc' = "idle" /\ next' = 1
    BY <1>4 DEF EndRun, Finish, DropBatch
  <2> QED BY <2>3, <2>4, AtRestNext DEF RestPoints
<1>5. CASE Dispatch \/ ValidateBatch \/ ExecuteCall \/ RejectCall \/ CallUnavailable
           \/ (Interrupt /\ pc = "call")
  <2>1. UNCHANGED <<log, kept, batch, next>>
    BY <1>5 DEF Dispatch, ValidateBatch, ExecuteCall, RejectCall, CallUnavailable, Interrupt,
       CancelPoints, file, batchVars
  <2>2. \/ pc = "reply" /\ pc' = "batch" /\ batch.number > 0
        \/ pc = "reply" /\ pc' = "cut"
        \/ pc = "batch" /\ pc' = "call"
        \/ pc = "call" /\ pc' \in {"observe", "fill"}
    BY <1>5 DEF Dispatch, ValidateBatch, ExecuteCall, RejectCall, CallUnavailable, Interrupt,
       CancelPoints
  <2>3. PICK p, d : OpenBatch(p, d) /\ log[p] = batch /\ d = Done
    BY <1>a, <2>2 DEF BatchPoints
  <2>4. OpenBatch(p, d)'
    BY <2>1, <2>3, OpenStays
  <2>5. Done' = d
    BY <2>1, <2>2, <2>3 DEF Done
  <2>6. batch.number \in Nat
    BY DEF TypeOK, BatchType, Message
  <2>7. pc' = "call" => next' <= batch'.number
    BY <2>1, <2>2, <2>6 DEF BatchInv
  <2>8. pc' \in {"observe", "fill"} => next' <= batch'.number
    BY <2>1, <2>2 DEF BatchInv
  <2>9. pc' \in {"reply", "batch"} => next' = 1
    BY <2>1, <2>2 DEF BatchInv
  <2> QED BY <2>1, <2>2, <2>3, <2>4, <2>5, <2>7, <2>8, <2>9, InBatchNext DEF BatchPoints
<1>6. CASE CommitObservation \/ Fill \/ RecordTruncated
  <2>1. PICK p, d : OpenBatch(p, d) /\ log[p] = batch /\ d = Done
    BY <1>6, <1>a DEF CommitObservation, Fill, RecordTruncated, BatchPoints
  <2>2. d = next - 1 /\ next \in Nat /\ next <= batch.number
    BY <1>6, <2>1 DEF CommitObservation, Fill, RecordTruncated, BatchInv, Done, TypeOK,
       BatchType
  <2>3. PICK note \in Observations : Commit(Observation(note))
    BY <1>6 DEF CommitObservation, Fill, RecordTruncated, TypeOK, BatchType, Observations
  <2>4. Observation(note) \in Message
    BY ObservationIsMessage DEF TypeOK
  <2>5. /\ Observation(note).role = "tool"
        /\ Observation(note).step = log[p].step
        /\ Observation(note).number = d + 1
    BY <2>1, <2>2 DEF Observation, ToolMessage
  <2>6. log' = Append(log, Observation(note)) /\ kept' = kept
    BY <2>3 DEF Commit
  <2>7. d < log[p].number
    BY <2>1, <2>2 DEF TypeOK, BatchType, Message
  <2>8. OpenBatch(p, d + 1)' /\ log'[p] = batch
    BY <2>1, <2>4, <2>5, <2>6, <2>7, OpenGrows
  <2>9. CASE CommitObservation
    <3>1. pc' = "end" /\ next' = next /\ batch' = batch
      BY <2>9 DEF CommitObservation, batchVars
    <3>2. Done' = d + 1
      BY <2>2, <3>1 DEF Done
    <3> QED BY <2>2, <2>8, <3>1, <3>2, InBatchNext DEF BatchPoints
  <2>10. CASE RecordTruncated
    <3>1. pc' = "cut" /\ next' = next + 1 /\ batch' = batch
      BY <2>10 DEF RecordTruncated
    <3>2. Done' = d + 1
      BY <2>2, <3>1 DEF Done
    <3> QED BY <2>8, <3>1, <3>2, InBatchNext DEF BatchPoints
  <2>11. CASE Fill /\ next < batch.number
    <3>1. pc' = "fill" /\ next' = next + 1 /\ batch' = batch
      BY <2>11 DEF Fill
    <3>2. Done' = d + 1
      BY <2>2, <3>1 DEF Done
    <3>3. next' <= batch'.number
      BY <2>11, <2>2, <3>1 DEF TypeOK, BatchType, Message
    <3> QED BY <2>8, <3>1, <3>2, <3>3, InBatchNext DEF BatchPoints
  <2>12. CASE Fill /\ ~(next < batch.number)
    <3>1. pc' = "idle" /\ next' = 1
      BY <2>12 DEF Fill, Finish, DropBatch
    <3>2. d + 1 = log'[p].number
      BY <2>2, <2>8, <2>12 DEF TypeOK, BatchType, Message
    <3>3. PairsValid(log')
      <4>1. p \in Nat \ {0} /\ p + (d + 1) = Len(log')
        BY <2>8 DEF OpenBatch
      <4>2. PairsValidIn(log', 1, p - 1) /\ BatchAt(log', p, d + 1)
            /\ StepFresh(log', p - 1, log'[p].step)
        BY <2>8 DEF OpenBatch
      <4>3. log'[p].number \in Nat
        BY <2>2, <3>2
      <4> QED BY <3>2, <4>1, <4>2, <4>3, PairsExtendBatch DEF PairsValid
    <3> QED BY <3>1, <3>3, AtRestNext DEF RestPoints
  <2> QED BY <1>6, <2>9, <2>10, <2>11, <2>12
<1>7. CASE EndCall
  <2>1. PICK p, d : OpenBatch(p, d) /\ log[p] = batch /\ d = Done
    BY <1>7, <1>a DEF EndCall, BatchPoints
  <2>2. d = next /\ next \in Nat /\ next <= batch.number /\ batch.number \in Nat
    BY <1>7, <2>1 DEF EndCall, BatchInv, Done, TypeOK, BatchType, Message
  <2>3. UNCHANGED <<log, kept, batch>> /\ next' = next + 1
    BY <1>7 DEF EndCall, file
  <2>4. CASE next = batch.number
    <3>1. pc' = "turn"
      BY <1>7, <2>4 DEF EndCall
    <3>2. PairsValid(log')
      BY <2>1, <2>2, <2>3, <2>4, OpenCloses
    <3> QED BY <3>1, <3>2, AtRestNext DEF RestPoints
  <2>5. CASE next # batch.number
    <3>1. pc' = "call"
      BY <1>7, <2>5 DEF EndCall
    <3>2. OpenBatch(p, d)'
      BY <2>1, <2>3, OpenStays
    <3>3. Done' = d /\ next' <= batch'.number
      BY <2>2, <2>3, <2>5, <3>1 DEF Done
    <3> QED BY <2>1, <2>3, <3>1, <3>2, <3>3, InBatchNext DEF BatchPoints
  <2> QED BY <2>4, <2>5
<1>8. CASE EndTruncated
  <2>1. PICK p, d : OpenBatch(p, d) /\ log[p] = batch /\ d = Done
    BY <1>8, <1>a DEF EndTruncated, BatchPoints
  <2>2. d = batch.number
    BY <1>8, <2>1 DEF EndTruncated, Done, OpenBatch, TypeOK, BatchType, Message
  <2>3. PairsValid(log')
    BY <1>8, <2>1, <2>2, OpenCloses DEF EndTruncated, file
  <2>4. pc' = "loop" /\ next' = 1
    BY <1>8 DEF EndTruncated, DropBatch
  <2> QED BY <2>3, <2>4, AtRestNext DEF RestPoints
<1>9. CASE Interrupt /\ pc # "call"
  <2>1. pc \in RestPoints /\ log' = log
    BY <1>9 DEF Interrupt, Guarded, UnguardedInterrupts, BatchPoints, RestPoints, TypeOK,
       Points, file
  <2>2. pc' = "idle" /\ next' = 1
    BY <1>9 DEF Interrupt, Finish, Raise, DropBatch
  <2> QED BY <1>b, <2>1, <2>2 DEF RestPoints
<1>10. CASE CommitFails
  <2>1. pc \in RestPoints /\ log' = log
    BY <1>10 DEF CommitFails, Guarded, UnguardedWrites, RestPoints, file
  <2>2. pc' = "idle" /\ next' = 1
    BY <1>10 DEF CommitFails, Raise, DropBatch
  <2> QED BY <1>b, <2>1, <2>2 DEF RestPoints
<1>11. CASE Crash
  <2>1. pc' = "down" /\ UNCHANGED <<log, kept>>
    BY <1>11 DEF Crash, file
  <2>2. next' = 1
    BY <1>11 DEF Crash, DropBatch
  <2>3. CASE pc \in RestPoints
    <3>1. PairsValid(log')
      BY <2>1, <2>3 DEF BatchInv
    <3> QED BY <2>1, <2>2, <3>1 DEF BatchInv, RestPoints, BatchPoints
  <2>4. CASE pc \in BatchPoints
    <3>1. PICK p, d : OpenBatch(p, d)
      BY <1>a, <2>4
    <3>2. OpenBatch(p, d)'
      BY <2>1, <3>1, OpenStays
    <3>3. p \in 0 .. Len(log') /\ d \in 0 .. Len(log')
      BY <3>2 DEF OpenBatch
    <3> QED BY <2>1, <2>2, <3>2, <3>3 DEF BatchInv, RestPoints, BatchPoints
  <2> QED BY <1>11, <2>3, <2>4 DEF Crash, TypeOK, Points, RestPoints, BatchPoints
<1>12. CASE Resume
  <2>1. pc = "down" /\ UNCHANGED <<log, kept>> /\ next' = 1
    BY <1>12 DEF Resume, file, batchVars, BatchInv
  <2>2. PairsValid(log) \/ \E p, d \in 0 .. Len(log) : OpenBatch(p, d)
    BY <2>1 DEF BatchInv
  <2>3. CASE Projectable
    <3>1. ASSUME NEW p, NEW d, OpenBatch(p, d) PROVE PairsValid(log)
      <4>1. /\ p \in Nat \ {0} /\ d \in Nat /\ p + d = Len(log)
            /\ log[p] \in Message /\ BatchAt(log, p, d) /\ d <= log[p].number
        BY <3>1 DEF OpenBatch, TypeOK, FileType
      <4>2. log[p].number \in Nat /\ FirstKept(kept) \in 1 .. p
        BY <3>1, <4>1, SMTT(30) DEF Message, OpenBatch, FirstKept, TypeOK, FileType
      <4>3. ~(d < log[p].number)
        BY <2>3, <4>1, <4>2, PairsIncomplete DEF Projectable, Replayable
      <4> QED BY <3>1, <4>1, <4>2, <4>3, OpenCloses
    <3>2. PairsValid(log') /\ pc' = "idle"
      BY <1>12, <2>1, <2>2, <2>3, <3>1 DEF Resume
    <3> QED BY <2>1, <3>2, AtRestNext DEF RestPoints
  <2>4. CASE ~Projectable /\ ~Replayable(log, kept)
    <3>1. PICK p \in 0 .. Len(log), d \in 0 .. Len(log) : OpenBatch(p, d)
      BY <2>2, <2>4, PairedReplayable
    <3>2. d # log[p].number
      BY <2>4, <3>1, OpenCloses, PairedReplayable
    <3>3. log[p] \in Message /\ d <= log[p].number
      BY <3>1 DEF OpenBatch, TypeOK, FileType
    <3>4. d < log[p].number
      BY <3>1, <3>2, <3>3 DEF Message
    <3>5. OpenBatch(p, d)'
      BY <2>1, <3>1, OpenStays
    <3>6. pc' = "refused"
      BY <1>12, <2>4 DEF Resume
    <3> QED BY <2>1, <3>1, <3>4, <3>5, <3>6 DEF BatchInv, RestPoints, BatchPoints
  <2>5. CASE rulesLog = Unreplayable
    <3>1. pc' = "refused" /\ rulesLog' = Unreplayable
      BY <1>12, <2>5 DEF Resume, Projectable, Unreplayable, file
    <3> QED BY <2>1, <3>1 DEF BatchInv, RestPoints, BatchPoints, Unreplayable
  <2> QED BY <2>3, <2>4, <2>5 DEF Projectable
<1>13. CASE UNCHANGED vars
  <2>1. UNCHANGED <<log, kept, rulesLog, pc, batch, next>>
    BY <1>13 DEF vars, file, batchVars
  <2>2. BatchInv
    OBVIOUS
  <2> QED BY <2>1, <2>2 DEF BatchInv, OpenBatch, Done, Unreplayable
<1>14. CASE InterruptedCommit
  <2>1. pc \notin BatchPoints \cup {"stream"} /\ pc' = "idle" /\ next' = 1
    BY <1>14 DEF InterruptedCommit, Guarded, Finish, Raise, DropBatch
  <2>2. \/ pc = "user" /\ log' = Append(log, UserMessage)
        \/ pc \in {"system", "precompact", "hook", "cost"} /\ log' = log
    BY <1>14, <2>1 DEF InterruptedCommit, InHand, BatchPoints
  <2>3. CASE log' = log
    BY <1>b, <2>1, <2>2, <2>3 DEF RestPoints
  <2>4. CASE pc = "user" /\ log' = Append(log, UserMessage)
    BY <2>1, <2>4, UserPaired, AtRestNext DEF BatchInv, RestPoints
  <2> QED BY <2>2, <2>3, <2>4
<1> QED BY <1>1, <1>2, <1>3, <1>4, <1>5, <1>6, <1>7, <1>8, <1>9, <1>10, <1>11, <1>12,
          <1>13, <1>14 DEF Next, RunStep, LoopStep

LEMMA PairingInit == Init => PairingInv
<1> SUFFICES ASSUME Init PROVE PairingInv
  OBVIOUS
<1>1. log = <<>> /\ Len(log) = 0 /\ kept = 0 /\ saved = 0 /\ step = 0 /\ pc = "idle"
      /\ next = 1
  BY DEF Init
<1>2. StepsInv /\ KeptInv
  BY <1>1, StepsInit DEF KeptInv
<1>3. PairsValid(log)
  BY <1>1 DEF PairsValid, PairsValidIn
<1>4. BatchInv
  BY <1>1, <1>3 DEF BatchInv, BatchPoints, RestPoints
<1> QED BY <1>2, <1>4, TypeInit DEF PairingInv

LEMMA PairingStep == Guarded /\ PairingInv /\ [Next]_vars => PairingInv'
<1> SUFFICES ASSUME Guarded, PairingInv, [Next]_vars PROVE PairingInv'
  OBVIOUS
<1>1. TypeOK'
  BY TypeStep DEF PairingInv
<1>2. StepsInv'
  BY StepsStep DEF PairingInv
<1>3. KeptInv'
  BY KeptStep DEF PairingInv
<1>4. BatchInv'
  BY <1>1, BatchStep
<1> QED BY <1>1, <1>2, <1>3, <1>4 DEF PairingInv

LEMMA PairingAlways == Guarded => (Spec => []PairingInv)
<1> SUFFICES ASSUME Guarded PROVE Spec => []PairingInv
  OBVIOUS
<1>1. PairingInv /\ [Next]_vars => PairingInv'
  BY PairingStep
<1> QED BY <1>1, PairingInit, PTL DEF Spec

\* Unless Ctrl+C or a failing write hits a point the code leaves unguarded,
\* every call of every reply has its one result right after it whenever no
\* batch is open.
THEOREM CallsAlwaysPaired == Guarded => (Spec => []PairedAtRest)
<1>1. PairingInv => PairedAtRest
  BY DEF PairingInv, BatchInv, PairedAtRest
<1> QED BY <1>1, PairingAlways, PTL

\* Under the same condition what a compaction keeps can be replayed.
THEOREM KeptRegionSound == Guarded => (Spec => []KeptRegionReplayable)
<1>1. PairingInv => KeptRegionReplayable
  BY PairedReplayable DEF PairingInv, BatchInv, KeptRegionReplayable
<1> QED BY <1>1, PairingAlways, PTL

\* A Ctrl+C inside the commit of the rules leaves no second version of them.
RulesWhole == "system" \in SplitAt => MaxRules = 1

\* Then memory has the rules of the file, or none yet, and they replay.
RulesInv == rulesLog # Unreplayable /\ rules \in {0, rulesLog}

LEMMA RulesStep ==
  RulesWhole /\ TypeOK /\ RulesInv /\ [Next]_vars => RulesInv'
<1> SUFFICES ASSUME RulesWhole, TypeOK, RulesInv, [Next]_vars PROVE RulesInv'
  OBVIOUS
<1> USE DEF RulesInv, Unreplayable
<1>1. CASE UNCHANGED <<rules, rulesLog>>
  BY <1>1
<1>2. ASSUME NEW wanted \in 1 .. MaxRules, rulesLog' \in Recorded(wanted)
      PROVE  rulesLog' = wanted /\ rulesLog' # Unreplayable
  BY <1>2, Constants DEF Recorded
<1>3. CASE RefreshSystemPrompt
  BY <1>1, <1>2, <1>3 DEF RefreshSystemPrompt
<1>4. CASE InterruptedCommit
  <2>1. rules' = rules
    BY <1>4 DEF InterruptedCommit, memory
  <2>2. CASE rulesLog' = rulesLog
    BY <1>1, <2>1, <2>2
  <2>3. ASSUME pc = "system", pc \in SplitAt,
               NEW wanted \in (1 .. MaxRules) \ {rules}, rulesLog' \in Recorded(wanted)
        PROVE  RulesInv'
    <3>1. MaxRules = 1 /\ rules = 0
      BY <2>3 DEF RulesWhole, TypeOK, MemoryType
    <3> QED BY <1>2, <2>1, <2>3, <3>1
  <2> QED BY <1>4, <2>2, <2>3 DEF InterruptedCommit
<1>5. CASE Crash
  BY <1>5 DEF Crash, file
<1>6. CASE Resume
  BY <1>1, <1>6 DEF Resume, file, memory
<1>7. CASE Next /\ ~InterruptedCommit
  BY <1>1, <1>3, <1>5, <1>6, <1>7, StepKinds DEF Compact, Commit, file
<1> QED BY <1>1, <1>4, <1>7 DEF vars, file, memory

\* And --resume refuses a file only if the process died inside a batch, as long
\* as no Ctrl+C lands inside the commit that changes the rules.
THEOREM RefusalJustified == Guarded /\ RulesWhole => (Spec => []RefusedOnlyMidBatch)
<1>1. PairingInv /\ RulesInv => RefusedOnlyMidBatch
  <2> SUFFICES ASSUME PairingInv, RulesInv, pc = "refused" PROVE RefusedOnlyMidBatch
    BY DEF RefusedOnlyMidBatch
  <2>1. PICK p \in 0 .. Len(log), d \in 0 .. Len(log) :
          OpenBatch(p, d) /\ d < log[p].number
    BY DEF PairingInv, BatchInv, RulesInv
  <2>2. p \in DOMAIN log /\ log[p].role = "assistant" /\ PairsValidIn(log, 1, p - 1)
        /\ Len(log) - p = d
    BY <2>1 DEF OpenBatch, BatchAt, PairingInv, TypeOK, FileType
  <2>3. ASSUME NEW j \in p + 1 .. Len(log) PROVE log[j].role = "tool"
    <3>1. j - p \in 1 .. d /\ j = p + (j - p)
      BY <2>1 DEF OpenBatch
    <3> QED BY <2>1, <3>1 DEF OpenBatch, BatchAt
  <2> QED BY <2>1, <2>2, <2>3 DEF RefusedOnlyMidBatch
<1> SUFFICES ASSUME Guarded, RulesWhole PROVE Spec => []RefusedOnlyMidBatch
  OBVIOUS
<1>2. Init => RulesInv
  BY Constants DEF Init, RulesInv, Unreplayable
<1>3. TypeOK /\ RulesInv /\ [Next]_vars => RulesInv'
  BY RulesStep
<1>4. Spec => []PairingInv
  BY PairingAlways
<1> QED BY <1>1, <1>2, <1>3, <1>4, TypeInit, TypeStep, PTL DEF Spec
-------------------------------------------------------------------------------
(* What the calls did.  Wherever Ctrl+C and failing writes land, guarded or  *)
(* not, the open batch has acted in the order of its calls: those before    *)
(* the one at hand acted and are answered, those after it did neither.      *)

RunningPoints == {"call", "observe", "end", "fill"}

CallsInv ==
  /\ pc \notin {"call", "observe", "end", "fill", "cut", "turn"} => next = 1
  /\ pc \in BatchPoints => CallIds(batch) \subseteq Called(log)
  /\ pc = "batch" => batch.number > 0
  /\ pc \in RunningPoints => next <= batch.number

BatchEffects ==
  /\ pc \in {"reply", "batch", "cut"} => \A e \in effects : e[1] # batch.step
  /\ pc \in RunningPoints =>
       \A e \in effects : e[1] = batch.step =>
         /\ e[2] <= next
         /\ pc = "call" => e[2] < next
         /\ e[2] <= Done => e \in Answered(log)

BatchResults ==
  /\ pc \in BatchPoints =>
       \A j \in 1 .. Len(log) :
         log[j].role = "tool" /\ log[j].step = batch.step => log[j].number <= Done
  /\ pc \in {"reply", "batch", "call", "observe", "end"} =>
       log[Len(log)].note # "cancelled"
  /\ pc = "observe" =>
       /\ result \in {"ok", "error", "rejected"}
       /\ CallId \in effects => result # "rejected"
  /\ pc = "fill" /\ CallId \in effects =>
       filling = "cancelled" /\ log[Len(log)].note # "cancelled"

EffectsInFile ==
  /\ effects \subseteq Called(log)
  /\ \A a, b \in effects \ Answered(log) : a[1] = b[1] => a = b

EffectsInv ==
  /\ TypeOK
  /\ StepsInv
  /\ CallsInv
  /\ BatchEffects
  /\ BatchResults
  /\ EffectsInFile
  /\ UnexecutedHadNoEffect

(* What is called or answered in a log still is when the log has grown. *)
LEMMA CalledGrows ==
  ASSUME NEW s \in Seq(Message), NEW m \in Message
  PROVE  /\ Called(s) \subseteq Called(Append(s, m))
         /\ Answered(s) \subseteq Answered(Append(s, m))
         /\ m.role = "assistant" => CallIds(m) \subseteq Called(Append(s, m))
         /\ m.role = "tool" => ResultId(m) \in Answered(Append(s, m))
<1> DEFINE t == Append(s, m)
<1>1. DOMAIN s = 1 .. Len(s) /\ DOMAIN t = 1 .. Len(s) + 1 /\ Len(s) \in Nat
  OBVIOUS
<1>2. (\A i \in DOMAIN s : t[i] = s[i]) /\ t[Len(s) + 1] = m /\ DOMAIN s \subseteq DOMAIN t
  BY <1>1
<1>3. Len(s) + 1 \in DOMAIN t
  BY <1>1
<1> HIDE DEF t
<1>4. Called(s) \subseteq Called(t)
  BY <1>2 DEF Called
<1>5. Answered(s) \subseteq Answered(t)
  BY <1>2 DEF Answered
<1>6. m.role = "assistant" => CallIds(m) \subseteq Called(t)
  BY <1>2, <1>3 DEF Called
<1>7. m.role = "tool" => ResultId(m) \in Answered(t)
  BY <1>2, <1>3 DEF Answered
<1> QED BY <1>4, <1>5, <1>6, <1>7 DEF t

\* A step that neither acts nor records.
LEMMA EffectsQuiet ==
  ASSUME EffectsInFile, UnexecutedHadNoEffect, UNCHANGED <<log, effects>>
  PROVE  EffectsInFile' /\ UnexecutedHadNoEffect'
  BY DEF EffectsInFile, UnexecutedHadNoEffect

\* What a commit point has in hand tells the truth about its call.
LEMMA InHandTrue ==
  ASSUME EffectsInv, NEW m \in InHand, m.role = "tool", ResultId(m) \in effects
  PROVE  /\ m.note \in {"ok", "error", "cancelled"}
         /\ m.note = "cancelled" => log[Len(log)].note # "cancelled"
<1>1. CASE pc = "user"
  BY <1>1 DEF InHand, UserMessage
<1>2. CASE pc = "stream"
  BY <1>2 DEF InHand, Replies, AssistantMessage
<1>3. CASE pc = "observe"
  <2>1. m = Observation(result)
    BY <1>3 DEF InHand
  <2>2. ResultId(m) = CallId /\ m.note = result
    BY <2>1 DEF Observation, ToolMessage, ResultId, CallId
  <2> QED BY <1>3, <2>2 DEF EffectsInv, BatchResults
<1>4. CASE pc = "fill"
  <2>1. m = Observation(filling)
    BY <1>4 DEF InHand
  <2>2. ResultId(m) = CallId /\ m.note = filling
    BY <2>1 DEF Observation, ToolMessage, ResultId, CallId
  <2> QED BY <1>4, <2>2 DEF EffectsInv, BatchResults
<1>5. CASE pc = "cut"
  <2>1. m = Observation("truncated")
    BY <1>5 DEF InHand
  <2>2. ResultId(m)[1] = batch.step
    BY <2>1 DEF Observation, ToolMessage, ResultId
  <2> QED BY <1>5, <2>2 DEF EffectsInv, BatchEffects
<1> QED BY <1>1, <1>2, <1>3, <1>4, <1>5 DEF InHand

\* A commit, or the durable half of one.
LEMMA EffectsCommit ==
  ASSUME EffectsInv, Up, NEW m \in InHand, log' = Append(log, m), effects' = effects
  PROVE  EffectsInFile' /\ UnexecutedHadNoEffect'
<1>1. m \in Message /\ log \in Seq(Message)
  BY InHandSteps DEF EffectsInv, TypeOK, FileType
<1>2. EffectsInFile'
  BY <1>1, CalledGrows DEF EffectsInv, EffectsInFile
<1>3. Len(log) \in Nat /\ DOMAIN log = 1 .. Len(log) /\ DOMAIN log' = 1 .. Len(log) + 1
      /\ log'[Len(log) + 1] = m /\ \A i \in 1 .. Len(log) : log'[i] = log[i]
  BY <1>1
<1>4. ASSUME NEW j \in DOMAIN log', log'[j].role = "tool", ResultId(log'[j]) \in effects'
      PROVE  /\ log'[j].note \in {"ok", "error", "cancelled"}
             /\ log'[j].note = "cancelled" /\ j > 1 => log'[j - 1].note # "cancelled"
  <2>1. CASE j \in 1 .. Len(log)
    <3>1. log'[j] = log[j] /\ (j > 1 => log'[j - 1] = log[j - 1])
      BY <1>3, <2>1
    <3> QED BY <1>3, <1>4, <2>1, <3>1 DEF EffectsInv, UnexecutedHadNoEffect
  <2>2. CASE j = Len(log) + 1
    <3>1. log'[j] = m
      BY <1>3, <2>2
    <3>2. j > 1 => j - 1 = Len(log) /\ Len(log) \in 1 .. Len(log)
      BY <1>3, <2>2
    <3>3. j > 1 => log'[j - 1] = log[Len(log)]
      BY <1>3, <3>2
    <3>4. /\ m.note \in {"ok", "error", "cancelled"}
          /\ m.note = "cancelled" => log[Len(log)].note # "cancelled"
      BY <1>4, <3>1, InHandTrue
    <3> QED BY <3>1, <3>3, <3>4
  <2> QED BY <1>3, <2>1, <2>2
<1>5. UnexecutedHadNoEffect'
  BY <1>4 DEF UnexecutedHadNoEffect
<1> QED BY <1>2, <1>5

\* The call at hand acts, or stops before it could.
LEMMA EffectsAct ==
  ASSUME EffectsInv, pc = "call", log' = log, effects' \subseteq effects \cup {CallId},
         effects \subseteq effects'
  PROVE  EffectsInFile' /\ UnexecutedHadNoEffect'
<1>1. batch.step \in Nat /\ batch.number \in Nat /\ next \in Nat \ {0}
  BY DEF EffectsInv, TypeOK, BatchType, Message
<1>2. CallId \in Called(log)
  <2>1. next \in 1 .. batch.number
    BY <1>1 DEF EffectsInv, CallsInv, RunningPoints
  <2>2. CallId \in CallIds(batch)
    BY <2>1 DEF CallId, CallIds
  <2> QED BY <2>2 DEF EffectsInv, CallsInv, BatchPoints
<1>3. \A e \in effects : e[1] = CallId[1] => e \in Answered(log)
  <2>1. Done = next - 1
    BY DEF Done
  <2>2. SUFFICES ASSUME NEW e \in effects, e[1] = batch.step PROVE e \in Answered(log)
    BY DEF CallId
  <2>3. e[2] \in Nat
    BY DEF EffectsInv, TypeOK, HistoryType
  <2>4. e[2] < next /\ (e[2] <= Done => e \in Answered(log))
    BY <2>2 DEF EffectsInv, BatchEffects, RunningPoints
  <2> QED BY <1>1, <2>1, <2>3, <2>4
<1>4. EffectsInFile'
  BY <1>2, <1>3 DEF EffectsInv, EffectsInFile
<1>5. \A j \in 1 .. Len(log) : log[j].role = "tool" => ResultId(log[j]) # CallId
  BY <1>1 DEF EffectsInv, BatchResults, BatchPoints, Done, ResultId, CallId
<1>6. UnexecutedHadNoEffect'
  <2>1. DOMAIN log = 1 .. Len(log)
    BY DEF EffectsInv, TypeOK, FileType
  <2> QED BY <1>5, <2>1 DEF EffectsInv, UnexecutedHadNoEffect
<1> QED BY <1>4, <1>6

\* What is asked of a state with no batch open.
LEMMA EffectsOutside ==
  ASSUME pc' \notin BatchPoints, pc' # "turn" => next' = 1
  PROVE  CallsInv' /\ BatchEffects' /\ BatchResults'
  BY DEF CallsInv, BatchEffects, BatchResults, BatchPoints, RunningPoints

LEMMA EffectsInit == Init => EffectsInv
<1> SUFFICES ASSUME Init PROVE EffectsInv
  OBVIOUS
<1>1. log = <<>> /\ Len(log) = 0 /\ DOMAIN log = {} /\ pc = "idle" /\ next = 1 /\ effects = {}
  BY DEF Init
<1>2. CallsInv /\ BatchEffects /\ BatchResults
  BY <1>1 DEF CallsInv, BatchEffects, BatchResults, BatchPoints, RunningPoints
<1>3. EffectsInFile /\ UnexecutedHadNoEffect
  BY <1>1 DEF EffectsInFile, UnexecutedHadNoEffect
<1> QED BY <1>2, <1>3, TypeInit, StepsInit DEF EffectsInv

\* One step, as the file and the tools see it.
LEMMA RecordStep ==
  ASSUME EffectsInv, Next
  PROVE  EffectsInFile' /\ UnexecutedHadNoEffect'
<1> USE DEF EffectsInv
<1>1. CASE Run \/ ManualCompact \/ Prepare \/ PreCompact \/ RefreshSystemPrompt
           \/ WindowCompaction \/ CostCompaction
  <2>1. log' = log /\ effects' = effects
    BY <1>1 DEF Run, ManualCompact, Prepare, PreCompact, RefreshSystemPrompt,
       WindowCompaction, CostCompaction, Compact, file, history
  <2> QED BY <2>1, EffectsQuiet
<1>2. CASE StepLimit \/ BudgetLimit \/ Request \/ RequestWithNotice \/ BrokenStream
           \/ EndRun \/ Dispatch \/ EndTruncated \/ EndTurn \/ CommitFails \/ Crash \/ Resume
  <2>1. log' = log /\ effects' = effects
    BY <1>2 DEF StepLimit, BudgetLimit, Request, RequestWithNotice, StartTurn, BrokenStream,
       EndRun, Dispatch, EndTruncated, EndTurn, CommitFails, Crash, Resume, file, history
  <2> QED BY <2>1, EffectsQuiet
<1>3. CASE ValidateBatch \/ RejectCall \/ CallUnavailable \/ EndCall
  <2>1. log' = log /\ effects' = effects
    BY <1>3 DEF ValidateBatch, RejectCall, CallUnavailable, EndCall, file, history
  <2> QED BY <2>1, EffectsQuiet
<1>4. CASE CommitUser \/ CommitReply \/ CommitObservation \/ Fill \/ RecordTruncated
  <2>1. PICK m \in InHand : Commit(m)
    BY <1>4 DEF CommitUser, CommitReply, CommitObservation, Fill, RecordTruncated, InHand
  <2>2. Up /\ effects' = effects
    BY <1>4 DEF CommitUser, CommitReply, CommitObservation, Fill, RecordTruncated, Up, history
  <2> QED BY <2>1, <2>2, EffectsCommit DEF Commit
<1>5. CASE ExecuteCall
  <2>1. pc = "call" /\ log' = log /\ (effects' = effects \/ effects' = effects \cup {CallId})
    BY <1>5 DEF ExecuteCall, file
  <2> QED BY <2>1, EffectsAct
<1>6. CASE Interrupt
  <2>1. log' = log
    BY <1>6 DEF Interrupt, file
  <2>2. CASE effects' = effects
    BY <2>1, <2>2, EffectsQuiet
  <2>3. CASE pc = "call" /\ effects' \in {effects, IF rejected THEN effects ELSE effects \cup {CallId}}
    BY <2>1, <2>3, EffectsAct
  <2> QED BY <1>6, <2>2, <2>3 DEF Interrupt
<1>7. CASE InterruptedCommit
  <2>1. effects' = effects
    BY <1>7 DEF InterruptedCommit
  <2>2. CASE \E m \in InHand : log' = Append(log, m)
    <3>1. Up
      BY <2>2 DEF InHand, Up
    <3> QED BY <2>1, <2>2, <3>1, EffectsCommit
  <2>3. CASE log' = log
    BY <2>1, <2>3, EffectsQuiet
  <2> QED BY <1>7, <2>2, <2>3 DEF InterruptedCommit
<1> QED BY <1>1, <1>2, <1>3, <1>4, <1>5, <1>6, <1>7 DEF Next, RunStep, LoopStep

\* One step, as the open batch sees it.
LEMMA CallsStep ==
  ASSUME EffectsInv, Next
  PROVE  CallsInv' /\ BatchEffects' /\ BatchResults'
<1> USE DEF EffectsInv
<1>1. /\ log \in Seq(Message) /\ Len(log) \in Nat /\ next \in Nat \ {0}
      /\ batch.step \in Nat /\ batch.number \in Nat
      /\ \A e \in effects : e \in Nat \X Nat
  BY DEF TypeOK, FileType, BatchType, HistoryType, Message
<1>2. CASE Run \/ ManualCompact \/ Prepare \/ PreCompact \/ RefreshSystemPrompt \/ CommitUser
           \/ WindowCompaction \/ CostCompaction
  <2>1. pc' \notin BatchPoints \cup {"turn"} /\ pc \notin BatchPoints \cup {"turn"}
    BY <1>2 DEF Run, ManualCompact, Prepare, PreCompact, RefreshSystemPrompt, CommitUser,
       WindowCompaction, CostCompaction, Continue, Finish, BatchPoints
  <2>2. next' = 1 \/ next' = next
    BY <1>2 DEF Run, ManualCompact, Prepare, PreCompact, RefreshSystemPrompt, CommitUser,
       WindowCompaction, CostCompaction, Continue, Finish, DropBatch, batchVars
  <2> QED BY <2>1, <2>2, EffectsOutside DEF CallsInv, BatchPoints
<1>3. CASE StepLimit \/ BudgetLimit \/ Request \/ RequestWithNotice \/ BrokenStream \/ EndRun
           \/ EndTruncated \/ EndTurn
  <2>1. pc' \notin BatchPoints \cup {"turn"}
    BY <1>3 DEF StepLimit, BudgetLimit, Request, RequestWithNotice, StartTurn, BrokenStream,
       EndRun, EndTruncated, EndTurn, Finish, Raise, BatchPoints
  <2>2. CASE Request \/ RequestWithNotice
    <3>1. pc = "loop" /\ next' = next
      BY <2>2 DEF Request, RequestWithNotice, StartTurn, batchVars
    <3> QED BY <2>1, <3>1, EffectsOutside DEF CallsInv
  <2>3. CASE ~(Request \/ RequestWithNotice)
    <3>1. DropBatch
      BY <1>3, <2>3 DEF StepLimit, BudgetLimit, BrokenStream, EndRun, EndTruncated, EndTurn,
         Finish, Raise
    <3> QED BY <2>1, <3>1, EffectsOutside DEF DropBatch
  <2> QED BY <2>2, <2>3
<1>4. CASE InterruptedCommit \/ CommitFails \/ Crash \/ Resume \/ (Interrupt /\ pc' # "fill")
  <2>1. pc' \in {"idle", "down", "refused"}
    BY <1>4 DEF InterruptedCommit, CommitFails, Crash, Resume, Interrupt, Finish, Raise
  <2>2. CASE Resume
    <3>1. pc = "down" /\ next' = next
      BY <2>2 DEF Resume, batchVars
    <3> QED BY <2>1, <3>1, EffectsOutside DEF CallsInv, BatchPoints
  <2>3. CASE ~Resume
    <3>1. DropBatch
      BY <1>4, <2>3 DEF InterruptedCommit, CommitFails, Crash, Interrupt, Finish, Raise
    <3> QED BY <2>1, <3>1, EffectsOutside DEF DropBatch, BatchPoints
  <2> QED BY <2>2, <2>3
<1>5. CASE CommitReply
  <2>1. PICK m \in Replies : Commit(m) /\ batch' = m
    BY <1>5 DEF CommitReply
  <2>2. /\ m \in Message /\ m.role = "assistant" /\ m.step = step
        /\ m.note # "cancelled"
    BY RepliesAreMessages DEF TypeOK, MemoryType, Replies, AssistantMessage
  <2>3. pc = "stream" /\ pc' = "reply" /\ next' = 1 /\ effects' = effects
    BY <1>5 DEF CommitReply, CallsInv, history
  <2>4. log' = Append(log, m) /\ Len(log') = Len(log) + 1 /\ log'[Len(log) + 1] = m
        /\ \A j \in 1 .. Len(log) : log'[j] = log[j]
    BY <1>1, <2>1, <2>2 DEF Commit
  <2>5. CallIds(m) \subseteq Called(log')
    BY <1>1, <2>2, <2>4, CalledGrows
  <2>6. saved \in Nat /\ step \in Nat /\ saved < step
    BY <2>3 DEF StepsInv, TypeOK, FileType, MemoryType
  <2>7. \A e \in effects' : e[1] # batch'.step
    BY <1>1, <2>1, <2>2, <2>3, <2>6 DEF StepsInv
  <2>8. \A j \in 1 .. Len(log') : ~(log'[j].role = "tool" /\ log'[j].step = batch'.step)
    <3>1. \A j \in 1 .. Len(log) : log[j].step \in Nat /\ log[j].step <= saved
      <4>1. \A j \in 1 .. Len(log) : log[j] \in Message
        BY <1>1
      <4> QED BY <4>1 DEF StepsInv, Message
    <3>2. \A j \in 1 .. Len(log) : log'[j].step # step
      BY <2>4, <2>6, <3>1
    <3>3. log'[Len(log) + 1].role # "tool"
      BY <2>2, <2>4
    <3> QED BY <1>1, <2>1, <2>2, <2>4, <3>2, <3>3
  <2>9. CallsInv'
    BY <2>1, <2>3, <2>5 DEF CallsInv, RunningPoints
  <2>10. BatchEffects'
    BY <2>3, <2>7 DEF BatchEffects, RunningPoints
  <2>11. BatchResults'
    BY <2>2, <2>3, <2>4, <2>8 DEF BatchResults
  <2> QED BY <2>9, <2>10, <2>11
<1>6. CASE Dispatch \/ ValidateBatch
  <2>1. UNCHANGED <<log, batch, next, effects>>
    BY <1>6 DEF Dispatch, ValidateBatch, file, batchVars, history
  <2>2. \/ pc = "reply" /\ (\/ pc' = "batch" /\ batch.number > 0
                            \/ pc' = "cut")
        \/ pc = "batch" /\ pc' = "call"
    BY <1>6 DEF Dispatch, ValidateBatch
  <2>3. next = 1 /\ Done = 0 /\ Done' = 0
    BY <2>1, <2>2 DEF CallsInv, Done
  <2>4. CallsInv'
    BY <1>1, <2>1, <2>2, <2>3 DEF CallsInv, BatchPoints, RunningPoints
  <2>5. BatchEffects'
    BY <2>1, <2>2 DEF BatchEffects, RunningPoints
  <2>6. BatchResults'
    BY <2>1, <2>2, <2>3 DEF BatchResults, BatchPoints
  <2> QED BY <2>4, <2>5, <2>6
<1>7. CASE ExecuteCall \/ RejectCall \/ CallUnavailable \/ (Interrupt /\ pc' = "fill")
  <2>1. UNCHANGED <<log, batch, next>> /\ pc = "call"
    BY <1>7 DEF ExecuteCall, RejectCall, CallUnavailable, Interrupt, Finish, Raise, file
  <2>2. effects' = effects \/ effects' = effects \cup {CallId}
    BY <1>7 DEF ExecuteCall, RejectCall, CallUnavailable, Interrupt, Finish, Raise, history
  <2>3. CallId \notin effects
    BY <1>1, <2>1 DEF BatchEffects, RunningPoints, CallId
  <2>4. \/ pc' = "observe" /\ result' \in {"ok", "error"}
        \/ pc' = "observe" /\ result' = "rejected" /\ effects' = effects
        \/ pc' = "fill" /\ effects' = effects
        \/ pc' = "fill" /\ filling' = "cancelled"
    BY <1>7 DEF ExecuteCall, RejectCall, CallUnavailable, Interrupt, Finish, Raise, history
  <2>5. Done = next - 1 /\ Done' = next - 1 /\ CallId' = CallId
    BY <2>1, <2>4 DEF Done, CallId
  <2>6. CallsInv'
    BY <2>1, <2>4 DEF CallsInv, BatchPoints, RunningPoints
  <2>7. BatchEffects'
    <3>1. ASSUME NEW e \in effects', e[1] = batch.step
          PROVE  e[2] <= next /\ (e[2] <= next - 1 => e \in Answered(log))
      <4>1. CASE e \in effects
        BY <1>1, <2>1, <2>5, <3>1, <4>1 DEF BatchEffects, RunningPoints
      <4>2. CASE e = CallId
        BY <1>1, <4>2 DEF CallId
      <4> QED BY <2>2, <4>1, <4>2
    <3> QED BY <2>1, <2>4, <2>5, <3>1 DEF BatchEffects
  <2>8. BatchResults'
    BY <2>1, <2>3, <2>4, <2>5 DEF BatchResults, BatchPoints
  <2> QED BY <2>6, <2>7, <2>8
<1>8. CASE CommitObservation \/ Fill \/ RecordTruncated
  <2>1. PICK m \in InHand : Commit(m)
    BY <1>8 DEF CommitObservation, Fill, RecordTruncated, InHand
  <2>2. /\ m.role = "tool" /\ m.step = batch.step /\ m.number = next
        /\ m.note \in {result, filling, "truncated"}
        /\ pc = "observe" => m.note = result
        /\ pc = "fill" => m.note = filling
    BY <1>8 DEF CommitObservation, Fill, RecordTruncated, InHand, Observation, ToolMessage
  <2>3. m \in Message
    BY <1>8, InHandSteps DEF Up, CommitObservation, Fill, RecordTruncated
  <2>4. effects' = effects /\ pc \in {"observe", "fill", "cut"} /\ Done = next - 1
    BY <1>8 DEF CommitObservation, Fill, RecordTruncated, history, Done
  <2>5. Len(log') = Len(log) + 1 /\ log'[Len(log) + 1] = m
        /\ \A j \in 1 .. Len(log) : log'[j] = log[j]
    BY <1>1, <2>1, <2>3 DEF Commit
  <2>6. /\ Called(log) \subseteq Called(log')
        /\ Answered(log) \subseteq Answered(log')
        /\ CallId \in Answered(log')
    <3>1. ResultId(m) = CallId
      BY <2>2 DEF ResultId, CallId
    <3> QED BY <1>1, <2>1, <2>2, <2>3, <3>1, CalledGrows DEF Commit
  <2>7. \A j \in 1 .. Len(log') :
          log'[j].role = "tool" /\ log'[j].step = batch.step => log'[j].number <= next
    <3>1. ASSUME NEW j \in 1 .. Len(log), log[j].role = "tool", log[j].step = batch.step
          PROVE  log[j].number <= next
      <4>1. log[j] \in Message
        BY <1>1, <3>1
      <4>2. log[j].number \in Nat
        BY <4>1 DEF Message
      <4>3. log[j].number <= next - 1
        BY <2>4, <3>1 DEF BatchResults, BatchPoints
      <4> QED BY <1>1, <4>2, <4>3
    <3> QED BY <1>1, <2>2, <2>5, <3>1
  <2>8. ASSUME pc \in RunningPoints, NEW e \in effects', e[1] = batch.step
        PROVE  e[2] <= next /\ e \in Answered(log')
    <3>1. e \in Nat \X Nat /\ e \in effects
      BY <1>1, <2>4, <2>8
    <3>2. e[2] <= next /\ (e[2] <= next - 1 => e \in Answered(log))
      BY <2>4, <2>8, <3>1 DEF BatchEffects
    <3>3. e[2] = next => e = CallId
      BY <2>8, <3>1 DEF CallId
    <3> QED BY <1>1, <2>6, <3>1, <3>2, <3>3
  <2>9. CASE CommitObservation
    <3>1. pc = "observe" /\ pc' = "end" /\ UNCHANGED <<batch, next>> /\ Done' = next
      BY <2>9 DEF CommitObservation, batchVars, Done
    <3>2. CallsInv'
      BY <2>6, <3>1 DEF CallsInv, BatchPoints, RunningPoints
    <3>3. BatchEffects'
      BY <2>8, <3>1 DEF BatchEffects, RunningPoints
    <3>4. log'[Len(log')].note # "cancelled"
      BY <2>2, <2>5, <3>1 DEF BatchResults
    <3>5. BatchResults'
      BY <2>7, <3>1, <3>4 DEF BatchResults
    <3> QED BY <3>2, <3>3, <3>5
  <2>10. CASE RecordTruncated
    <3>1. pc = "cut" /\ pc' = "cut" /\ batch' = batch /\ next' = next + 1 /\ Done' = next
      BY <1>1, <2>10 DEF RecordTruncated, Done
    <3>2. CallsInv'
      BY <2>6, <3>1 DEF CallsInv, BatchPoints, RunningPoints
    <3>3. BatchEffects'
      BY <2>4, <3>1 DEF BatchEffects, RunningPoints
    <3>4. BatchResults'
      BY <2>7, <3>1 DEF BatchResults
    <3> QED BY <3>2, <3>3, <3>4
  <2>11. CASE Fill /\ next < batch.number
    <3>1. pc = "fill" /\ pc' = "fill" /\ batch' = batch /\ next' = next + 1 /\ Done' = next
      BY <1>1, <2>11 DEF Fill, Done
    <3>2. CallsInv'
      BY <1>1, <2>6, <2>11, <3>1 DEF CallsInv, BatchPoints, RunningPoints
    <3>3. BatchEffects'
      <4>1. \A e \in effects' : e[2] \in Nat
        BY <1>1, <2>4
      <4> QED BY <1>1, <2>8, <3>1, <4>1 DEF BatchEffects, RunningPoints
    <3>4. CallId' \notin effects'
      BY <1>1, <2>8, <3>1 DEF CallId, RunningPoints
    <3>5. BatchResults'
      BY <2>7, <3>1, <3>4 DEF BatchResults
    <3> QED BY <3>2, <3>3, <3>5
  <2>12. CASE Fill /\ ~(next < batch.number)
    <3>1. pc' = "idle" /\ next' = 1
      BY <2>12 DEF Fill, Finish, DropBatch
    <3> QED BY <3>1, EffectsOutside DEF BatchPoints
  <2> QED BY <1>8, <2>9, <2>10, <2>11, <2>12
<1>9. CASE EndCall
  <2>1. pc = "end" /\ UNCHANGED <<log, batch, effects>> /\ next' = next + 1 /\ Done = next
    BY <1>9 DEF EndCall, file, history, Done
  <2>2. CASE next = batch.number
    <3>1. pc' = "turn"
      BY <1>9, <2>2 DEF EndCall
    <3> QED BY <3>1, EffectsOutside DEF BatchPoints
  <2>3. CASE next # batch.number
    <3>1. pc' = "call" /\ Done' = next
      BY <1>1, <1>9, <2>1, <2>3 DEF EndCall, Done
    <3>2. CallsInv'
      BY <1>1, <2>1, <2>3, <3>1 DEF CallsInv, BatchPoints, RunningPoints
    <3>3. BatchEffects'
      BY <1>1, <2>1, <3>1 DEF BatchEffects, RunningPoints
    <3>4. BatchResults'
      BY <2>1, <3>1 DEF BatchResults, BatchPoints
    <3> QED BY <3>2, <3>3, <3>4
  <2> QED BY <2>2, <2>3
<1> QED BY <1>2, <1>3, <1>4, <1>5, <1>6, <1>7, <1>8, <1>9 DEF Next, RunStep, LoopStep

LEMMA EffectsStep == EffectsInv /\ [Next]_vars => EffectsInv'
<1> SUFFICES ASSUME EffectsInv, [Next]_vars PROVE EffectsInv'
  OBVIOUS
<1>1. TypeOK' /\ StepsInv'
  BY TypeStep, StepsStep DEF EffectsInv
<1>2. CASE Next
  BY <1>1, <1>2, RecordStep, CallsStep DEF EffectsInv
<1>3. CASE UNCHANGED vars
  <2>1. UNCHANGED <<log, pc, batch, next, result, filling, effects>>
    BY <1>3 DEF vars, file, batchVars, history
  <2>2. EffectsInFile' /\ UnexecutedHadNoEffect'
    BY <2>1, EffectsQuiet DEF EffectsInv
  <2>3. CallsInv /\ BatchEffects /\ BatchResults
    BY DEF EffectsInv
  <2>4. CallsInv' /\ BatchEffects' /\ BatchResults'
    BY <2>1, <2>3 DEF CallsInv, BatchEffects, BatchResults, Done, CallId
  <2> QED BY <1>1, <2>2, <2>4 DEF EffectsInv
<1> QED BY <1>2, <1>3

\* A tool acts only on a call that is in the file, never twice on one, and at
\* most one effect of a batch is not, or not yet, answered there: wherever Ctrl+C lands, whatever
\* write fails and however often the process dies (run_loop, commit_message).
THEOREM EffectsAlwaysRecorded == Spec => []EffectsRecorded
<1>1. EffectsInv /\ pc = "call" => CallId \notin effects
  BY DEF EffectsInv, TypeOK, BatchType, BatchEffects, RunningPoints, CallId
<1>2. EffectsInv => EffectsRecorded
  BY <1>1 DEF EffectsInv, EffectsInFile, EffectsRecorded
<1> QED BY <1>2, EffectsInit, EffectsStep, PTL DEF Spec

\* And a call the file reports as rejected, cut off, unavailable or cancelled
\* after another one had no effect (_append_failed_calls,
\* _record_truncated_calls, validate_batch).
THEOREM UnexecutedAreHarmless == Spec => []UnexecutedHadNoEffect
<1>1. EffectsInv => UnexecutedHadNoEffect
  BY DEF EffectsInv
<1> QED BY <1>1, EffectsInit, EffectsStep, PTL DEF Spec

-------------------------------------------------------------------------------
(* The conversation that AgentLoop implements (Conversation).  TalkInv adds  *)
(* to EffectsInv where the batch in hand stands in the file and with what    *)
(* note the next call may be answered; PairingInv, where it holds, leaves no *)
(* call due between batches.                                                 *)

\* The results a call may have had, once the batch was looked at.
Ran == IF rejected THEN {"rejected"} ELSE {"ok", "error"}

\* The batch in hand is the last reply of the file, answered up to Done; its note,
\* and that of the last answer, say how the next call may be answered.
HandInv ==
  /\ pc \in BatchPoints =>
       /\ Done \in Nat /\ Done < Len(log)
       /\ log[Len(log) - Done] = batch
       /\ BatchAt(log, Len(log) - Done, Done)
  /\ pc \in {"batch"} \cup RunningPoints => batch.note = "stop"
  /\ pc = "cut" => batch.note = "length"

NotesInv ==
  /\ pc \in {"call", "observe"} => log[Len(log)].note \in {"stop"} \cup Ran
  /\ pc \in {"observe", "end"} => result \in Ran
  /\ pc = "observe" /\ result = "ok" => CallId \in effects
  /\ pc = "end" => log[Len(log)].note = result
  /\ pc = "fill" =>
       /\ filling \in {"cancelled", "unavailable"}
       /\ log[Len(log)].note \in {"stop", "ok", "error", "rejected", filling}
       /\ log[Len(log)].note = "rejected" => filling = "cancelled"
  /\ pc = "cut" => log[Len(log)].note \in {"length", "truncated"}

TalkInv == EffectsInv /\ HandInv /\ NotesInv

\* The words of the transcript mean in the conversation what they mean here.
LEMMA SameWords ==
  /\ C!UserMessage = UserMessage
  /\ C!StopReasons = StopReasons
  /\ \A m : C!ResultId(m) = ResultId(m) /\ C!CallIds(m) = CallIds(m)
  /\ C!Called(log) = Called(log)
<1>1. C!UserMessage = UserMessage
  BY DEF C!UserMessage, UserMessage
<1>2. C!StopReasons = StopReasons
  BY DEF C!StopReasons, StopReasons
<1>3. \A m : C!ResultId(m) = ResultId(m) /\ C!CallIds(m) = CallIds(m)
  BY DEF C!ResultId, ResultId, C!CallIds, CallIds
<1>4. C!Called(log) = Called(log)
  BY DEF C!Called, Called, C!CallIds, CallIds
<1> QED BY <1>1, <1>2, <1>3, <1>4

LEMMA SamePairs ==
  ASSUME NEW a \in Int, NEW b \in Int
  PROVE  C!PairsValidIn(log, a, b) <=> PairsValidIn(log, a, b)
<1>1. \A i, j : C!Answers(log, i, j) <=> Answers(log, i, j)
  BY DEF C!Answers, Answers, C!CallIds, CallIds, C!ResultId, ResultId
<1> QED BY <1>1 DEF C!PairsValidIn, PairsValidIn, C!CallIds, CallIds, C!ResultId, ResultId

\* With no batch open.
LEMMA TalkOutside == pc' \notin BatchPoints => HandInv' /\ NotesInv'
  BY DEF HandInv, NotesInv, BatchPoints, RunningPoints

\* The reply opens its batch.
LEMMA TalkReplied ==
  ASSUME TalkInv, CommitReply
  PROVE  HandInv' /\ NotesInv'
<1>1. PICK m \in Replies : Commit(m) /\ batch' = m
  BY DEF CommitReply
<1>2. m \in Message /\ m.role = "assistant"
  BY RepliesAreMessages DEF TalkInv, EffectsInv, TypeOK, MemoryType, Replies, AssistantMessage
<1>3. pc = "stream" /\ pc' = "reply" /\ next' = 1
  BY DEF CommitReply, TalkInv, EffectsInv, CallsInv
<1>4. Len(log') = Len(log) + 1 /\ log'[Len(log) + 1] = m /\ Len(log) \in Nat /\ Done' = 0
  BY <1>1, <1>2, <1>3 DEF Commit, TalkInv, EffectsInv, TypeOK, FileType, Done
<1>5. BatchAt(log', Len(log'), 0)
  BY <1>2, <1>4 DEF BatchAt
<1>6. HandInv'
  BY <1>1, <1>3, <1>4, <1>5 DEF HandInv, RunningPoints
<1>7. NotesInv'
  BY <1>3 DEF NotesInv
<1> QED BY <1>6, <1>7

\* From the reply to the result of a call, nothing is committed.
LEMMA TalkCalls ==
  ASSUME TalkInv,
         Dispatch \/ ValidateBatch \/ ExecuteCall \/ RejectCall \/ CallUnavailable
           \/ (Interrupt /\ pc' = "fill")
  PROVE  HandInv' /\ NotesInv'
<1>1. UNCHANGED <<log, batch, next>>
  BY DEF Dispatch, ValidateBatch, ExecuteCall, RejectCall, CallUnavailable, Interrupt, Finish,
         Raise, file, batchVars
<1>2. \/ pc = "reply" /\ pc' = "batch" /\ batch.note = "stop"
      \/ pc = "reply" /\ pc' = "cut" /\ batch.note = "length"
      \/ pc = "batch" /\ pc' = "call"
      \/ pc = "call" /\ pc' = "observe"
      \/ pc = "call" /\ pc' = "fill"
  BY DEF Dispatch, ValidateBatch, ExecuteCall, RejectCall, CallUnavailable, Interrupt, Finish, Raise
<1>3. Done' = Done /\ CallId' = CallId
  BY <1>1, <1>2 DEF Done, CallId
<1>4. HandInv'
  BY <1>1, <1>2, <1>3 DEF TalkInv, HandInv, BatchPoints, RunningPoints
<1>5. pc \in {"reply", "batch"} => log[Len(log)] = batch
  <2> SUFFICES ASSUME pc \in {"reply", "batch"} PROVE log[Len(log)] = batch
    OBVIOUS
  <2>1. Done = 0 /\ Len(log) \in Nat
    BY DEF TalkInv, EffectsInv, CallsInv, Done, TypeOK, FileType
  <2> QED BY <2>1 DEF TalkInv, HandInv, BatchPoints
<1>6. NotesInv'
  <2>1. CASE pc' = "batch"
    BY <2>1 DEF NotesInv
  <2>2. CASE pc' = "cut"
    BY <1>1, <1>2, <1>5, <2>2 DEF NotesInv
  <2>3. CASE pc' = "call"
    <3>1. batch.note = "stop"
      BY <1>2, <2>3 DEF TalkInv, HandInv
    <3> QED BY <1>1, <1>2, <1>5, <2>3, <3>1 DEF NotesInv
  <2>4. CASE pc' = "observe"
    <3>1. /\ ExecuteCall \/ RejectCall
          /\ rejected' = rejected /\ result' \in Ran /\ (result' = "ok" => CallId \in effects')
      BY <1>2, <2>4 DEF Dispatch, ValidateBatch, ExecuteCall, RejectCall, CallUnavailable, Interrupt, Ran
    <3>2. log[Len(log)].note \in {"stop"} \cup Ran /\ Ran' = Ran
      BY <1>2, <2>4, <3>1 DEF TalkInv, NotesInv, Ran
    <3> QED BY <1>1, <1>3, <2>4, <3>1, <3>2 DEF NotesInv
  <2>5. CASE pc' = "fill"
    <3>1. pc = "call" /\ (filling' = "cancelled" \/ (filling' = "unavailable" /\ ~rejected))
      BY <1>2, <2>5 DEF Dispatch, ValidateBatch, ExecuteCall, RejectCall, CallUnavailable, Interrupt,
                        Finish, Raise
    <3>2. log[Len(log)].note \in {"stop"} \cup Ran
      BY <3>1 DEF TalkInv, NotesInv
    <3> QED BY <1>1, <2>5, <3>1, <3>2 DEF NotesInv, Ran
  <2> QED BY <1>2, <2>1, <2>2, <2>3, <2>4, <2>5
<1> QED BY <1>4, <1>6

\* A result is committed.
LEMMA TalkAnswered ==
  ASSUME TalkInv, CommitObservation \/ Fill \/ RecordTruncated
  PROVE  HandInv' /\ NotesInv'
<1> DEFINE p == Len(log) - Done
<1>1. /\ log \in Seq(Message) /\ Len(log) \in Nat /\ next \in Nat \ {0}
      /\ pc \in {"observe", "fill", "cut"} /\ Done = next - 1
  BY DEF TalkInv, EffectsInv, TypeOK, FileType, BatchType, CommitObservation, Fill, RecordTruncated, Done
<1>2. PICK m \in InHand : Commit(m)
  BY DEF CommitObservation, Fill, RecordTruncated, InHand
<1>3. /\ m.role = "tool" /\ m.step = batch.step /\ m.number = next
      /\ CommitObservation => m.note = result
      /\ Fill => m.note = filling
      /\ RecordTruncated => m.note = "truncated"
  BY <1>1, <1>2 DEF CommitObservation, Fill, RecordTruncated, InHand, Observation, ToolMessage
<1>4. m \in Message
  BY <1>1, InHandSteps DEF TalkInv, EffectsInv, Up
<1>5. /\ Len(log') = Len(log) + 1 /\ log'[Len(log) + 1] = m
      /\ \A j \in 1 .. Len(log) : log'[j] = log[j]
  BY <1>1, <1>2, <1>4 DEF Commit
<1>6. /\ p \in 1 .. Len(log) /\ p + Done = Len(log) /\ log[p] = batch /\ BatchAt(log, p, Done)
  BY <1>1 DEF TalkInv, HandInv, BatchPoints
<1>7. log'[p] = batch /\ BatchAt(log', p, next)
  <2> HIDE DEF p
  <2>1. log'[p] = batch
    BY <1>5, <1>6
  <2>2. ASSUME NEW k \in 1 .. next
        PROVE  log'[p + k].role = "tool" /\ log'[p + k].step = batch.step /\ log'[p + k].number = k
    <3>1. CASE k \in 1 .. Done
      <4>1. p + k \in 1 .. Len(log)
        BY <1>1, <1>6, <3>1
      <4> QED BY <1>5, <1>6, <3>1, <4>1 DEF BatchAt
    <3>2. CASE k = next
      BY <1>1, <1>3, <1>5, <1>6, <3>2
    <3> QED BY <1>1, <3>1, <3>2
  <2> QED BY <1>6, <2>1, <2>2 DEF BatchAt
<1>8. p = Len(log') - next /\ next < Len(log')
  BY <1>1, <1>5, <1>6
<1> HIDE DEF p
<1>9. CASE CommitObservation
  <2>1. pc = "observe" /\ pc' = "end" /\ UNCHANGED <<batch, next, result, rejected>> /\ Done' = next
    BY <1>9 DEF CommitObservation, batchVars, Done
  <2>2. HandInv'
    BY <1>1, <1>7, <1>8, <2>1 DEF TalkInv, HandInv, RunningPoints
  <2>3. result \in Ran /\ Ran' = Ran /\ log'[Len(log')].note = result
    BY <1>3, <1>5, <1>9, <2>1 DEF TalkInv, NotesInv, Ran
  <2>4. NotesInv'
    BY <2>1, <2>3 DEF NotesInv
  <2> QED BY <2>2, <2>4
<1>10. CASE Fill /\ pc' # "idle"
  <2>1. pc = "fill" /\ pc' = "fill" /\ UNCHANGED <<batch, filling>> /\ next' = next + 1 /\ Done' = next
    BY <1>1, <1>10 DEF Fill, Finish, Done
  <2>2. HandInv'
    BY <1>1, <1>7, <1>8, <2>1 DEF TalkInv, HandInv, RunningPoints
  <2>3. log'[Len(log')].note = filling /\ filling \in {"cancelled", "unavailable"}
    BY <1>3, <1>5, <1>10, <2>1 DEF TalkInv, NotesInv
  <2>4. NotesInv'
    BY <2>1, <2>3 DEF NotesInv
  <2> QED BY <2>2, <2>4
<1>11. CASE RecordTruncated
  <2>1. pc = "cut" /\ pc' = "cut" /\ batch' = batch /\ next' = next + 1 /\ Done' = next
    BY <1>1, <1>11 DEF RecordTruncated, Done
  <2>2. HandInv'
    BY <1>1, <1>7, <1>8, <2>1 DEF TalkInv, HandInv, RunningPoints
  <2>3. log'[Len(log')].note = "truncated"
    BY <1>3, <1>5, <1>11
  <2>4. NotesInv'
    BY <2>1, <2>3 DEF NotesInv
  <2> QED BY <2>2, <2>4
<1>12. CASE pc' = "idle"
  BY <1>12, TalkOutside DEF BatchPoints
<1> QED BY <1>9, <1>10, <1>11, <1>12

LEMMA TalkEnded ==
  ASSUME TalkInv, EndCall
  PROVE  HandInv' /\ NotesInv'
<1>1. /\ pc = "end" /\ UNCHANGED <<log, batch, result, rejected>> /\ next' = next + 1 /\ Done = next
      /\ next \in Nat \ {0} /\ pc' \in {"turn", "call"}
  BY DEF EndCall, file, Done, TalkInv, EffectsInv, TypeOK, BatchType
<1>2. CASE pc' = "call"
  <2>1. Done' = Done
    BY <1>1, <1>2 DEF Done
  <2>2. HandInv'
    BY <1>1, <1>2, <2>1 DEF TalkInv, HandInv, BatchPoints, RunningPoints
  <2>3. log[Len(log)].note \in Ran /\ Ran' = Ran
    BY <1>1 DEF TalkInv, NotesInv, Ran
  <2>4. NotesInv'
    BY <1>1, <1>2, <2>3 DEF NotesInv
  <2> QED BY <2>2, <2>4
<1>3. CASE pc' = "turn"
  BY <1>3, TalkOutside DEF BatchPoints
<1> QED BY <1>1, <1>2, <1>3

LEMMA TalkStep == TalkInv /\ [Next]_vars => TalkInv'
<1> SUFFICES ASSUME TalkInv, [Next]_vars PROVE TalkInv'
  OBVIOUS
<1>1. EffectsInv'
  BY EffectsStep DEF TalkInv
<1>2. CASE Run \/ ManualCompact \/ Prepare \/ PreCompact \/ RefreshSystemPrompt \/ CommitUser
           \/ WindowCompaction \/ CostCompaction
  <2>1. pc' \notin BatchPoints
    BY <1>2 DEF Run, ManualCompact, Prepare, PreCompact, RefreshSystemPrompt, CommitUser,
       WindowCompaction, CostCompaction, Continue, Finish, BatchPoints
  <2> QED BY <1>1, <2>1, TalkOutside DEF TalkInv
<1>3. CASE StepLimit \/ BudgetLimit \/ Request \/ RequestWithNotice \/ BrokenStream \/ EndRun
           \/ EndTruncated \/ EndTurn \/ InterruptedCommit \/ CommitFails \/ Crash \/ Resume
           \/ (Interrupt /\ pc' # "fill")
  <2>1. pc' \notin BatchPoints
    BY <1>3 DEF StepLimit, BudgetLimit, Request, RequestWithNotice, StartTurn, BrokenStream,
       EndRun, EndTruncated, EndTurn, InterruptedCommit, CommitFails, Crash, Resume, Interrupt,
       Finish, Raise, BatchPoints
  <2> QED BY <1>1, <2>1, TalkOutside DEF TalkInv
<1>4. CASE CommitReply
  BY <1>1, <1>4, TalkReplied DEF TalkInv
<1>5. CASE Dispatch \/ ValidateBatch \/ ExecuteCall \/ RejectCall \/ CallUnavailable
           \/ (Interrupt /\ pc' = "fill")
  BY <1>1, <1>5, TalkCalls DEF TalkInv
<1>6. CASE CommitObservation \/ Fill \/ RecordTruncated
  BY <1>1, <1>6, TalkAnswered DEF TalkInv
<1>7. CASE EndCall
  BY <1>1, <1>7, TalkEnded DEF TalkInv
<1>8. CASE UNCHANGED vars
  <2>1. UNCHANGED <<log, pc, batch, next, rejected, result, filling, effects>>
    BY <1>8 DEF vars, file, batchVars, history
  <2>2. HandInv /\ NotesInv
    BY DEF TalkInv
  <2>3. HandInv' /\ NotesInv'
    BY <2>1, <2>2 DEF HandInv, NotesInv, Done, CallId, Ran
  <2> QED BY <1>1, <2>3 DEF TalkInv
<1> QED BY <1>2, <1>3, <1>4, <1>5, <1>6, <1>7, <1>8 DEF Next, RunStep, LoopStep

LEMMA TalkInit == Init => TalkInv
<1> SUFFICES ASSUME Init PROVE TalkInv
  OBVIOUS
<1>1. pc = "idle" /\ EffectsInv
  BY EffectsInit DEF Init
<1> QED BY <1>1 DEF TalkInv, HandInv, NotesInv, BatchPoints, RunningPoints

\* A message that is committed is new in the conversation.
LEMMA TalkGrows ==
  ASSUME TalkInv, NEW m \in Message, log' = Append(log, m), UNCHANGED <<kept, effects>>
  PROVE  C!Adds /\ C!New = m
<1>1. log \in Seq(Message)
  BY DEF TalkInv, EffectsInv, TypeOK, FileType
<1>2. Len(log') = Len(log) + 1 /\ log'[Len(log')] = m /\ Len(log) \in Nat
  BY <1>1
<1> QED BY <1>2 DEF C!Adds, C!New

\* The call the batch is at is the one to be answered next.
LEMMA CallIsDue ==
  ASSUME TalkInv, pc \in {"call", "observe", "fill", "cut"}, next <= batch.number
  PROVE  CallId \in C!Due
<1> DEFINE p == Len(log) - Done
<1>1. /\ Done = next - 1 /\ next \in Nat \ {0} /\ batch.number \in Nat /\ Len(log) \in Nat
      /\ DOMAIN log = 1 .. Len(log)
  BY DEF TalkInv, EffectsInv, TypeOK, BatchType, FileType, Message, Done
<1>2. /\ p \in 1 .. Len(log) /\ Len(log) - p = next - 1 /\ log[p] = batch
      /\ BatchAt(log, p, next - 1)
  BY <1>1 DEF TalkInv, HandInv, BatchPoints
<1> HIDE DEF p
<1>3. \A k \in 1 .. next - 1 :
        log[p + k].role = "tool" /\ ResultId(log[p + k]) = <<log[p].step, k>>
  BY <1>2 DEF BatchAt, ResultId
<1>4. log[p].role = "assistant" /\ Len(log) - p < log[p].number
  BY <1>1, <1>2 DEF BatchAt
<1>5. C!Unfinished(p)
  BY <1>2, <1>3, <1>4, SameWords DEF C!Unfinished
<1>6. CallId = <<log[p].step, Len(log) - p + 1>>
  BY <1>1, <1>2 DEF CallId
<1> QED BY <1>1, <1>2, <1>5, <1>6 DEF C!Due

\* Between batches none is, where interrupts and failing writes are guarded.
LEMMA NothingIsDue ==
  ASSUME Guarded => PairingInv, TalkInv, pc \in RestPoints
  PROVE  C!Free
<1> SUFFICES ASSUME PairingInv PROVE C!Due = {}
  BY DEF C!Free
<1>1. PairsValidIn(log, 1, Len(log))
  BY DEF PairingInv, BatchInv, PairsValid
<1>2. ASSUME NEW p \in DOMAIN log, C!Unfinished(p) PROVE FALSE
  <2> DEFINE d == Len(log) - p
  <2>1. /\ p \in Nat \ {0} /\ d \in Nat /\ p + d = Len(log) /\ 1 \in 1 .. p
        /\ log[p] \in Message
    <3>1. log \in Seq(Message)
      BY DEF TalkInv, EffectsInv, TypeOK, FileType
    <3>2. DOMAIN log = 1 .. Len(log) /\ Len(log) \in Nat /\ p \in DOMAIN log
      BY <3>1, <1>2
    <3>3. log[p] \in Message
      BY <3>1, <3>2
    <3> QED BY <3>2, <3>3
  <2>2. log[p].role = "assistant" /\ d < log[p].number
        /\ \A k \in 1 .. d : log[p + k].role = "tool" /\ ResultId(log[p + k]) = <<log[p].step, k>>
    BY <1>2, SameWords DEF C!Unfinished
  <2> HIDE DEF d
  <2>3. BatchAt(log, p, d)
    BY <2>2 DEF BatchAt, ResultId
  <2>4. log[p].number \in Nat
    BY <2>1 DEF Message
  <2> QED BY <1>1, <2>1, <2>2, <2>3, <2>4, PairsIncomplete
<1> QED BY <1>2 DEF C!Due

\* What a commit point has in hand continues the conversation.
LEMMA TalkCommits ==
  ASSUME Guarded => PairingInv, TalkInv, NEW m \in InHand, log' = Append(log, m),
         UNCHANGED <<kept, effects>>,
         pc \in {"observe", "fill", "cut"} => next <= batch.number
  PROVE  C!Next
<1>1. m \in Message /\ C!Adds /\ C!New = m
  <2>1. m \in Message
    BY InHandSteps DEF InHand, Up, TalkInv, EffectsInv
  <2> QED BY <2>1, TalkGrows
<1>2. CASE pc = "user"
  <2>1. m = UserMessage
    BY <1>2 DEF InHand
  <2>2. C!Free
    BY <1>2, NothingIsDue DEF RestPoints
  <2> QED BY <1>1, <2>1, <2>2, SameWords DEF C!Next, C!Say
<1>3. CASE pc = "stream"
  <2>1. C!Free
    BY <1>3, NothingIsDue DEF RestPoints
  <2>2. /\ m.role = "assistant" /\ m.note \in StopReasons /\ m.step = step
        /\ m.note = "error" => m.number = 0
    BY <1>3 DEF InHand, Replies, AssistantMessage, StopReasons
  <2>3. CallIds(m) \cap Called(log) = {}
    <3> SUFFICES ASSUME NEW i \in DOMAIN log, NEW id \in CallIds(m), id \in CallIds(log[i])
                 PROVE  FALSE
      BY DEF Called
    <3>1. id[1] = step /\ id[1] = log[i].step
      BY <2>2 DEF CallIds
    <3>2. log[i] \in Message /\ log[i].step <= saved /\ saved < step /\ saved \in Nat /\ step \in Nat
      BY <1>3 DEF TalkInv, EffectsInv, StepsInv, TypeOK, FileType, MemoryType
    <3> QED BY <3>1, <3>2 DEF Message
  <2> QED BY <1>1, <2>1, <2>2, <2>3, SameWords DEF C!Next, C!Reply
<1>4. CASE pc \in {"observe", "fill", "cut"}
  <2>1. m.role = "tool" /\ ResultId(m) = CallId
        /\ (pc = "observe" => m.note = result)
        /\ (pc = "fill" => m.note = filling)
        /\ (pc = "cut" => m.note = "truncated")
    BY <1>4 DEF InHand, Observation, ToolMessage, ResultId, CallId
  <2>2. CallId \in C!Due
    BY <1>4, CallIsDue
  <2>3. m.note \in C!After[C!Last.note]
    <3>1. CASE pc = "observe"
      BY <2>1, <3>1 DEF TalkInv, NotesInv, Ran, C!After, C!Last
    <3>2. CASE pc = "fill"
      BY <2>1, <3>2 DEF TalkInv, NotesInv, C!After, C!Last
    <3>3. CASE pc = "cut"
      BY <2>1, <3>3 DEF TalkInv, NotesInv, C!After, C!Last
    <3> QED BY <1>4, <3>1, <3>2, <3>3
  <2>4. m.note = "ok" => ResultId(m) \in effects
    BY <1>4, <2>1 DEF TalkInv, NotesInv
  <2>5. ResultId(m) \in effects => m.note \in {"ok", "error", "cancelled"}
    BY <2>1, InHandTrue DEF TalkInv
  <2> QED BY <1>1, <2>1, <2>2, <2>3, <2>4, <2>5, SameWords DEF C!Next, C!Answer
<1> QED BY <1>2, <1>3, <1>4 DEF InHand

\* The call at hand acts, for the first time.
LEMMA TalkActs ==
  ASSUME TalkInv, pc = "call", ~rejected, effects' = effects \cup {CallId}, UNCHANGED <<log, kept>>
  PROVE  C!Next
<1>1. next <= batch.number /\ CallId \notin effects
  BY DEF TalkInv, EffectsInv, CallsInv, RunningPoints, TypeOK, BatchType, BatchEffects, CallId
<1>2. CallId \in C!Due
  BY <1>1, CallIsDue
<1>3. C!Last.note \in {"stop", "ok", "error"}
  BY DEF TalkInv, NotesInv, Ran, C!Last
<1> QED BY <1>1, <1>2, <1>3 DEF C!Next, C!Act

\* A compaction keeps what can be replayed.
LEMMA TalkCompacts ==
  ASSUME TalkInv, Replayable(log, kept), kept' \in CutPoints(log, kept), UNCHANGED <<log, effects>>
  PROVE  C!Next
<1>1. /\ kept \in Nat /\ Len(log) \in Nat /\ FirstKept(kept) \in Nat \ {0} /\ kept <= FirstKept(kept)
      /\ kept' \in FirstKept(kept) + 1 .. Len(log) /\ log[kept'].role # "tool"
  BY DEF TalkInv, EffectsInv, TypeOK, FileType, FirstKept, CutPoints
<1>2. kept' \in Nat /\ FirstKept(kept) \in 1 .. kept' /\ kept' \in kept + 1 .. Len(log)
  BY <1>1
<1>3. PairsValidIn(log, kept', Len(log))
  BY <1>1, <1>2, PairsSuffix DEF Replayable
<1>4. C!PairsValidIn(log, kept', Len(log))
  BY <1>1, <1>2, <1>3, SamePairs
<1> QED BY <1>2, <1>4 DEF C!Next, C!Compact

LEMMA TalkMapped ==
  ASSUME Guarded => PairingInv, TalkInv, [Next]_vars
  PROVE  C!Next \/ UNCHANGED C!conversation
<1> USE DEF C!conversation
<1>1. CASE Run \/ Prepare \/ RefreshSystemPrompt \/ StepLimit \/ BudgetLimit \/ Request
           \/ RequestWithNotice \/ BrokenStream \/ EndRun \/ Dispatch \/ ValidateBatch
           \/ RejectCall \/ CallUnavailable \/ EndCall \/ EndTruncated \/ EndTurn \/ CommitFails
           \/ Crash \/ Resume \/ UNCHANGED vars
  BY <1>1 DEF Run, Prepare, RefreshSystemPrompt, StepLimit, BudgetLimit, Request,
     RequestWithNotice, StartTurn, BrokenStream, EndRun, Dispatch, ValidateBatch, RejectCall,
     CallUnavailable, EndCall, EndTruncated, EndTurn, CommitFails, Crash, Resume, vars, file, history
<1>2. CASE ManualCompact \/ PreCompact \/ WindowCompaction \/ CostCompaction
  <2>1. effects' = effects /\ (Compact \/ UNCHANGED file)
    BY <1>2 DEF ManualCompact, PreCompact, WindowCompaction, CostCompaction, history
  <2>2. CASE Compact
    BY <2>1, <2>2, TalkCompacts DEF Compact, Projectable
  <2> QED BY <2>1, <2>2 DEF file
<1>3. CASE CommitUser \/ CommitReply \/ CommitObservation \/ Fill \/ RecordTruncated
  <2>1. PICK m \in InHand : Commit(m)
    BY <1>3 DEF CommitUser, CommitReply, CommitObservation, Fill, RecordTruncated, InHand
  <2>2. effects' = effects
    BY <1>3 DEF CommitUser, CommitReply, CommitObservation, Fill, RecordTruncated, history
  <2>3. pc \in {"observe", "fill", "cut"} => next <= batch.number
    BY <1>3 DEF CommitUser, CommitReply, CommitObservation, Fill, RecordTruncated, TalkInv,
       EffectsInv, CallsInv, RunningPoints
  <2> QED BY <2>1, <2>2, <2>3, TalkCommits DEF Commit
<1>4. CASE ExecuteCall
  <2>1. pc = "call" /\ ~rejected /\ UNCHANGED <<log, kept>>
        /\ (effects' = effects \/ effects' = effects \cup {CallId})
    BY <1>4 DEF ExecuteCall, file
  <2> QED BY <2>1, TalkActs
<1>5. CASE Interrupt
  <2>1. UNCHANGED <<log, kept>>
    BY <1>5 DEF Interrupt, file
  <2>2. effects' = effects \/ (pc = "call" /\ ~rejected /\ effects' = effects \cup {CallId})
    BY <1>5 DEF Interrupt
  <2> QED BY <2>1, <2>2, TalkActs
<1>6. CASE InterruptedCommit
  <2>1. effects' = effects
    BY <1>6 DEF InterruptedCommit
  <2>2. ASSUME NEW m \in InHand, log' = Append(log, m), kept' = kept PROVE C!Next
    <3>1. pc \in {"observe", "fill", "cut"} => next <= batch.number
      BY <2>2 DEF InHand, TalkInv, EffectsInv, CallsInv, RunningPoints
    <3> QED BY <2>1, <2>2, <3>1, TalkCommits
  <2>3. CASE Replayable(log, kept) /\ kept' \in CutPoints(log, kept) /\ log' = log
    BY <2>1, <2>3, TalkCompacts
  <2> QED BY <1>6, <2>1, <2>2, <2>3 DEF InterruptedCommit, Projectable
<1> QED BY <1>1, <1>2, <1>3, <1>4, <1>5, <1>6 DEF Next, RunStep, LoopStep

\* Whatever is interrupted, fails or dies, and however often the session is
\* resumed, the agent's messages and what its tools do are a conversation: a
\* tool acts on the call that is due and never twice, its result follows and is
\* true, a stopped batch is answered to its end, a compaction keeps whole
\* batches.  With interrupts and failing writes where the code guards, no reply
\* is left with calls unanswered (run_loop, commit_message, AgentSession.run).
THEOREM AgentConverses == Spec => ConversationKept
<1>1. Init => C!Init
  BY DEF Init, C!Init
<1>2. (Guarded => PairingInv) /\ TalkInv /\ [Next]_vars => [C!Next]_(C!conversation)
  BY TalkMapped
<1>3. Spec => []TalkInv
  BY TalkInit, TalkStep, PTL DEF Spec
<1>4. CASE Guarded
  <2>1. Spec => []PairingInv
    BY <1>4, PairingAlways
  <2>2. PairingInv /\ TalkInv /\ [Next]_vars => [C!Next]_(C!conversation)
    BY <1>2
  <2> QED BY <1>1, <1>3, <2>1, <2>2, PTL DEF Spec, ConversationKept, C!Spec
<1>5. CASE ~Guarded
  <2>1. TalkInv /\ [Next]_vars => [C!Next]_(C!conversation)
    BY <1>2, <1>5
  <2> QED BY <1>1, <1>3, <2>1, PTL DEF Spec, ConversationKept, C!Spec
<1> QED BY <1>4, <1>5

-------------------------------------------------------------------------------

(* What a conversation comes to.                                             *)

Asks(s, i, id) == s[i].role = "assistant" /\ id \in CallIds(s[i])

\* A result follows the reply that asked for it, is the only one of its call,
\* and says ok only of a tool that acted.
AnswersHonest ==
  \A j \in DOMAIN log : log[j].role = "tool" =>
    /\ \E i \in 1 .. j - 1 : Asks(log, i, ResultId(log[j]))
    /\ \A k \in DOMAIN log \ {j} : log[k].role = "tool" => ResultId(log[k]) # ResultId(log[j])
    /\ log[j].note = "ok" => ResultId(log[j]) \in effects

\* No call is asked for twice.
AskedOnce ==
  \A i, k \in DOMAIN log, id \in Called(log) : Asks(log, i, id) /\ Asks(log, k, id) => i = k

HonestInv == AskedOnce /\ AnswersHonest

LEMMA HonestGrows ==
  ASSUME FileType, NEW m \in Message, log' = Append(log, m), effects' = effects, HonestInv,
         m.role = "assistant" => CallIds(m) \cap Called(log) = {},
         m.role = "tool" => /\ \E i \in DOMAIN log : Asks(log, i, ResultId(m))
                            /\ \A k \in DOMAIN log : log[k].role = "tool" => ResultId(log[k]) # ResultId(m)
                            /\ m.note = "ok" => ResultId(m) \in effects
  PROVE  HonestInv'
<1>1. /\ DOMAIN log = 1 .. Len(log) /\ Len(log) \in Nat /\ DOMAIN log' = 1 .. Len(log) + 1
      /\ log'[Len(log) + 1] = m /\ \A j \in DOMAIN log : log'[j] = log[j]
  BY DEF FileType
<1>2. \A id : \A i \in DOMAIN log : Asks(log', i, id) <=> Asks(log, i, id)
  BY <1>1 DEF Asks
<1>3. \A id : \A i \in DOMAIN log : Asks(log, i, id) => id \in Called(log)
  BY DEF Asks, Called
<1>4. ASSUME NEW id, Asks(log', Len(log) + 1, id), NEW i \in DOMAIN log, Asks(log, i, id)
      PROVE  FALSE
  BY <1>1, <1>3, <1>4 DEF Asks
<1>5. AskedOnce'
  <2> SUFFICES ASSUME NEW i \in DOMAIN log', NEW k \in DOMAIN log', NEW id,
                      Asks(log', i, id), Asks(log', k, id)
               PROVE  i = k
    BY DEF AskedOnce
  <2>1. CASE i \in DOMAIN log /\ k \in DOMAIN log
    <3>1. Asks(log, i, id) /\ Asks(log, k, id) /\ id \in Called(log)
      BY <1>2, <1>3, <2>1
    <3> QED BY <2>1, <3>1 DEF HonestInv, AskedOnce
  <2>2. CASE i = Len(log) + 1 /\ k \in DOMAIN log
    BY <1>2, <1>4, <2>2
  <2>3. CASE i \in DOMAIN log /\ k = Len(log) + 1
    BY <1>2, <1>4, <2>3
  <2> QED BY <1>1, <2>1, <2>2, <2>3
<1>6. AnswersHonest'
  <2> SUFFICES ASSUME NEW j \in DOMAIN log', log'[j].role = "tool"
               PROVE  /\ \E i \in 1 .. j - 1 : Asks(log', i, ResultId(log'[j]))
                      /\ \A k \in DOMAIN log' \ {j} :
                           log'[k].role = "tool" => ResultId(log'[k]) # ResultId(log'[j])
                      /\ log'[j].note = "ok" => ResultId(log'[j]) \in effects
    BY DEF AnswersHonest
  <2>1. CASE j \in DOMAIN log
    <3>1. /\ log'[j] = log[j]
          /\ \E i \in 1 .. j - 1 : Asks(log, i, ResultId(log[j]))
          /\ \A k \in DOMAIN log \ {j} : log[k].role = "tool" => ResultId(log[k]) # ResultId(log[j])
          /\ log[j].note = "ok" => ResultId(log[j]) \in effects
      BY <1>1, <2>1 DEF HonestInv, AnswersHonest
    <3>2. PICK i \in 1 .. j - 1 : Asks(log, i, ResultId(log[j]))
      BY <3>1
    <3>3. i \in DOMAIN log /\ Asks(log', i, ResultId(log'[j]))
      <4>1. i \in DOMAIN log
        BY <1>1, <2>1
      <4> QED BY <1>2, <3>1, <3>2, <4>1
    <3>4. \A k \in DOMAIN log' \ {j} :
            log'[k].role = "tool" => ResultId(log'[k]) # ResultId(log'[j])
      BY <1>1, <2>1, <3>1
    <3> QED BY <3>1, <3>3, <3>4
  <2>2. CASE j = Len(log) + 1
    <3>1. PICK i \in DOMAIN log : Asks(log, i, ResultId(m))
      BY <1>1, <2>2
    <3>2. i \in 1 .. j - 1 /\ Asks(log', i, ResultId(log'[j]))
      BY <1>1, <1>2, <2>2, <3>1
    <3>3. \A k \in DOMAIN log' \ {j} : k \in DOMAIN log /\ log'[k] = log[k]
      BY <1>1, <2>2
    <3> QED BY <1>1, <2>2, <3>2, <3>3
  <2> QED BY <1>1, <2>1, <2>2
<1> QED BY <1>5, <1>6 DEF HonestInv

\* The call due next is one of the reply it follows, and has no result yet.
LEMMA DueIsOpen ==
  ASSUME FileType, HonestInv, NEW id \in C!Due
  PROVE  /\ \E i \in DOMAIN log : Asks(log, i, id)
         /\ \A k \in DOMAIN log : log[k].role = "tool" => ResultId(log[k]) # id
<1>1. PICK p \in DOMAIN log : C!Unfinished(p) /\ id = <<log[p].step, Len(log) - p + 1>>
  BY DEF C!Due
<1>2. DOMAIN log = 1 .. Len(log) /\ Len(log) \in Nat /\ log[p] \in Message
  BY DEF FileType
<1>3. /\ log[p].role = "assistant" /\ Len(log) - p < log[p].number
      /\ \A k \in 1 .. Len(log) - p : ResultId(log[p + k]) = <<log[p].step, k>>
  BY <1>1, SameWords DEF C!Unfinished
<1>4. Asks(log, p, id)
  <2>1. Len(log) - p + 1 \in 1 .. log[p].number
    BY <1>2, <1>3 DEF Message
  <2> QED BY <1>1, <1>3, <2>1 DEF Asks, CallIds
<1>5. ASSUME NEW k \in DOMAIN log, log[k].role = "tool", ResultId(log[k]) = id PROVE FALSE
  <2>1. PICK i \in 1 .. k - 1 : Asks(log, i, id)
    BY <1>5 DEF HonestInv, AnswersHonest
  <2>2. i \in DOMAIN log /\ id \in Called(log)
    BY <1>2, <1>4, <2>1 DEF Asks, Called
  <2>3. i = p
    BY <1>4, <2>1, <2>2 DEF HonestInv, AskedOnce
  <2>4. k - p \in 1 .. Len(log) - p /\ p + (k - p) = k
    BY <1>2, <2>1, <2>3
  <2>5. ResultId(log[k]) = <<log[p].step, k - p>>
    BY <1>3, <2>4
  <2>6. k - p # Len(log) - p + 1
    BY <1>2, <2>4
  <2> QED BY <1>1, <1>5, <2>5, <2>6
<1> QED BY <1>4, <1>5

LEMMA HonestStep ==
  FileType /\ FileType' /\ HonestInv /\ [C!Next]_(C!conversation) => HonestInv'
<1> SUFFICES ASSUME FileType, FileType', HonestInv, [C!Next]_(C!conversation) PROVE HonestInv'
  OBVIOUS
<1>1. CASE log' = log /\ effects \subseteq effects'
  BY <1>1 DEF HonestInv, AskedOnce, AnswersHonest, Asks
<1>2. ASSUME C!Adds, C!New.role = "assistant" => CallIds(C!New) \cap Called(log) = {},
             C!New.role = "tool" => /\ ResultId(C!New) \in C!Due
                                    /\ C!New.note = "ok" => ResultId(C!New) \in effects
      PROVE  HonestInv'
  <2>1. log' = Append(log, C!New) /\ effects' = effects /\ C!New \in Message
    BY <1>2 DEF C!Adds, C!New, FileType
  <2> QED BY <1>2, <2>1, HonestGrows, DueIsOpen
<1>3. CASE C!Say
  <2>1. C!Adds /\ C!New.role = "user"
    BY <1>3, SameWords DEF C!Say, UserMessage
  <2> QED BY <1>2, <2>1
<1>4. CASE C!Reply
  BY <1>2, <1>4, SameWords DEF C!Reply
<1>5. CASE C!Answer
  BY <1>2, <1>5, SameWords DEF C!Answer
<1>6. CASE C!Act \/ C!Compact \/ UNCHANGED C!conversation
  BY <1>1, <1>6 DEF C!Act, C!Compact, C!conversation
<1> QED BY <1>3, <1>4, <1>5, <1>6 DEF C!Next

\* In any conversation of Conversation's, so in every session whatever fails in
\* it: no call is answered twice or without having been asked for, none is asked
\* for twice, and what is said to have worked did (run_loop, commit_message).
THEOREM AnswersAreHonest == Spec => [](AskedOnce /\ AnswersHonest)
<1>1. Init => HonestInv
  BY DEF Init, HonestInv, AskedOnce, AnswersHonest
<1>2. TypeOK => FileType
  BY DEF TypeOK
<1> QED BY <1>1, <1>2, HonestStep, AgentConverses, TypeCorrect, PTL
         DEF ConversationKept, C!Spec, Spec, HonestInv

-------------------------------------------------------------------------------
(* A run is finite.  Fuel bounds the steps it has left: what the turns to     *)
(* come may cost, and what is left of this one.                               *)

TurnCost == 3 * MaxCalls + 7
TurnFuel(s) == (MaxSteps - s) * TurnCost

PointFuel ==
  CASE pc = "prepare"        -> 5
    [] pc = "precompact"     -> 4
    [] pc = "begin"          -> 3
    [] pc = "system"         -> 2
    [] pc = "user"           -> 1
    [] pc = "loop"           -> 0
    [] pc = "stream"         -> 3 * MaxCalls + 6
    [] pc = "reply"          -> 3 * batch.number + 5
    [] pc = "batch"          -> 3 * batch.number + 4
    [] pc = "call"           -> 3 * (batch.number - next) + 6
    [] pc = "observe"        -> 3 * (batch.number - next) + 5
    [] pc = "end"            -> 3 * (batch.number - next) + 4
    [] pc \in {"fill", "cut"} -> batch.number - next + 2
    [] pc = "turn"           -> 3
    [] pc = "hook"           -> 2
    [] pc = "cost"           -> 1
    [] OTHER                 -> 0

Fuel == TurnFuel(steps) + PointFuel

InRun == pc \notin {"idle", "down", "refused"}

\* Every step of a run, those that go wrong included, ends it or leaves it fewer
\* steps to make, of a number that the limits give.
RunsDown ==
  /\ [](InRun => Fuel \in 0 .. MaxSteps * TurnCost + 5)
  /\ [][InRun => ~InRun' \/ Fuel' < Fuel]_vars

\* A turn has begun where one is under way; the batch in hand has no more calls
\* than a message, and none past them is being answered.
BatchBounded ==
  /\ pc \in BatchPoints \cup {"stream"} => steps > 0
  /\ pc \in BatchPoints => batch.number <= MaxCalls
  /\ pc = "cut" => next <= batch.number + 1

FuelInv == EffectsInv /\ BatchBounded

LEMMA TurnFuels ==
  ASSUME NEW s \in 0 .. MaxSteps
  PROVE  /\ TurnCost \in Nat /\ TurnFuel(s) \in Nat
         /\ TurnFuel(s) <= MaxSteps * TurnCost /\ MaxSteps * TurnCost \in Nat
         /\ s < MaxSteps => TurnFuel(s + 1) + TurnCost = TurnFuel(s)
<1>1. MaxSteps \in Nat /\ MaxCalls \in Nat /\ TurnCost \in Nat
  BY AgentLoopAssumption DEF TurnCost
<1>2. ASSUME NEW a \in Nat, NEW b \in Nat, NEW w \in Nat, a <= b
      PROVE  a * w \in Nat /\ b * w \in Nat /\ a * w <= b * w
  <2>1. b = a + (b - a) /\ b - a \in Nat
    BY <1>2
  <2>2. ASSUME NEW d \in Nat PROVE (a + d) * w = a * w + d * w /\ d * w \in Nat /\ a * w \in Nat
    OBVIOUS
  <2> QED BY <2>1, <2>2
<1>3. ASSUME NEW a \in Nat, NEW w \in Nat PROVE (a - 1) * w + w = a * w
  OBVIOUS
<1>4. MaxSteps - s \in Nat /\ MaxSteps - s <= MaxSteps /\ MaxSteps - (s + 1) = (MaxSteps - s) - 1
  BY <1>1
<1>5. (MaxSteps - s) * TurnCost \in Nat /\ MaxSteps * TurnCost \in Nat
      /\ (MaxSteps - s) * TurnCost <= MaxSteps * TurnCost
  BY <1>1, <1>2, <1>4
<1>6. ((MaxSteps - s) - 1) * TurnCost + TurnCost = (MaxSteps - s) * TurnCost
  BY <1>1, <1>3, <1>4
<1> QED BY <1>1, <1>4, <1>5, <1>6 DEF TurnFuel

LEMMA BoundedStep == FuelInv /\ [Next]_vars => BatchBounded'
<1> SUFFICES ASSUME EffectsInv, BatchBounded, [Next]_vars PROVE BatchBounded'
  BY DEF FuelInv
<1>1. CASE pc' \notin BatchPoints \cup {"stream"}
  BY <1>1 DEF BatchBounded, BatchPoints
<1>2. CASE UNCHANGED <<pc, batch, next, steps>>
  BY <1>2 DEF BatchBounded
<1>3. CASE Request \/ RequestWithNotice
  <2>1. steps' = steps + 1 /\ pc' = "stream" /\ steps \in Nat
    BY <1>3, AgentLoopAssumption DEF Request, RequestWithNotice, StartTurn, EffectsInv, TypeOK, LimitsType
  <2> QED BY <2>1 DEF BatchBounded, BatchPoints
<1>4. CASE CommitReply
  <2>1. batch'.number \in 0 .. MaxCalls /\ pc = "stream" /\ pc' = "reply" /\ steps' = steps
    BY <1>4, AgentLoopAssumption DEF CommitReply, Replies, AssistantMessage, limits
  <2> QED BY <2>1, AgentLoopAssumption DEF BatchBounded
<1>5. CASE Dispatch
  <2>1. /\ batch' = batch /\ next' = 1 /\ pc = "reply" /\ batch.number \in Nat /\ steps' = steps
    BY <1>5 DEF Dispatch, batchVars, EffectsInv, CallsInv, TypeOK, BatchType, Message
  <2> QED BY <2>1 DEF BatchBounded, BatchPoints
<1>6. CASE RecordTruncated
  <2>1. /\ pc = "cut" /\ pc' = "cut" /\ batch' = batch /\ next' = next + 1 /\ next <= batch.number
        /\ next \in Nat /\ batch.number \in Nat /\ steps' = steps
    BY <1>6 DEF RecordTruncated, EffectsInv, TypeOK, BatchType, Message, limits
  <2> QED BY <2>1 DEF BatchBounded, BatchPoints
<1>7. CASE /\ pc \in BatchPoints /\ batch' = batch /\ steps' = steps
           /\ pc' \in BatchPoints \ {"cut"}
  BY <1>7 DEF BatchBounded
<1>8. CASE Run \/ ManualCompact \/ Prepare \/ PreCompact \/ RefreshSystemPrompt \/ CommitUser
           \/ WindowCompaction \/ CostCompaction
  <2>1. pc' \notin BatchPoints \cup {"stream"}
    BY <1>8 DEF Run, ManualCompact, Prepare, PreCompact, RefreshSystemPrompt, CommitUser,
       WindowCompaction, CostCompaction, Continue, Finish, BatchPoints
  <2> QED BY <1>1, <2>1
<1>9. CASE StepLimit \/ BudgetLimit \/ BrokenStream \/ EndRun \/ EndTruncated \/ EndTurn
           \/ InterruptedCommit \/ CommitFails \/ Crash \/ Resume
  <2>1. pc' \notin BatchPoints \cup {"stream"}
    BY <1>9 DEF StepLimit, BudgetLimit, BrokenStream, EndRun, EndTruncated, EndTurn,
       InterruptedCommit, CommitFails, Crash, Resume, Finish, Raise, BatchPoints
  <2> QED BY <1>1, <2>1
<1>10. CASE ValidateBatch \/ ExecuteCall \/ RejectCall \/ CallUnavailable \/ CommitObservation
           \/ EndCall \/ Interrupt \/ Fill
  <2>1. /\ pc' \in BatchPoints => pc \in BatchPoints /\ batch' = batch /\ steps' = steps
        /\ pc' \notin {"cut", "stream"}
    BY <1>10 DEF ValidateBatch, ExecuteCall, RejectCall, CallUnavailable, CommitObservation,
       EndCall, Interrupt, Fill, Finish, Raise, batchVars, limits, BatchPoints
  <2> QED BY <1>1, <1>7, <2>1
<1>11. CASE UNCHANGED vars
  BY <1>2, <1>11 DEF vars, batchVars, limits
<1> QED BY <1>3, <1>4, <1>5, <1>6, <1>8, <1>9, <1>10, <1>11 DEF Next, RunStep, LoopStep

LEMMA FuelStep == FuelInv /\ [Next]_vars => FuelInv'
  BY EffectsStep, BoundedStep DEF FuelInv

LEMMA FuelInit == Init => FuelInv
<1> SUFFICES ASSUME Init PROVE FuelInv
  OBVIOUS
<1>1. pc = "idle" /\ EffectsInv
  BY EffectsInit DEF Init
<1> QED BY <1>1 DEF FuelInv, BatchBounded, BatchPoints

\* What is left of this turn is less than what a turn may cost.
LEMMA PointFuels ==
  FuelInv /\ InRun =>
    /\ PointFuel \in Nat
    /\ PointFuel <= 5 \/ (PointFuel <= TurnCost /\ steps > 0)
<1> SUFFICES ASSUME FuelInv, InRun
             PROVE  /\ PointFuel \in Nat
                    /\ PointFuel <= 5 \/ (PointFuel <= TurnCost /\ steps > 0)
  OBVIOUS
<1>1. /\ pc \in Points /\ batch.number \in Nat /\ next \in Nat \ {0} /\ MaxCalls \in Nat
      /\ pc \in BatchPoints => batch.number <= MaxCalls
      /\ pc \in BatchPoints \cup {"stream"} => steps > 0
      /\ pc \in {"call", "observe", "end", "fill"} => next <= batch.number
      /\ pc = "cut" => next <= batch.number + 1
  BY AgentLoopAssumption
  DEF FuelInv, BatchBounded, EffectsInv, TypeOK, BatchType, Message, CallsInv, RunningPoints
<1> QED BY <1>1, SMTT(30) DEF InRun, Points, PointFuel, TurnCost, BatchPoints

LEMMA PointFuelsNext == (FuelInv /\ InRun => PointFuel \in Nat)'
<1>1. FuelInv /\ InRun => PointFuel \in Nat
  BY PointFuels
<1> QED BY <1>1, PTL

LEMMA PointFalls ==
  ASSUME FuelInv, Next, InRun, InRun'
  PROVE  \/ steps' = steps /\ PointFuel' < PointFuel
         \/ steps < MaxSteps /\ steps' = steps + 1 /\ pc = "loop" /\ pc' = "stream"
<1> DEFINE Falls == steps' = steps /\ PointFuel' < PointFuel
<1>1. /\ batch.number \in Nat /\ next \in Nat \ {0} /\ MaxCalls \in Nat
      /\ pc \in BatchPoints => batch.number <= MaxCalls
      /\ pc \in {"call", "observe", "end", "fill"} => next <= batch.number
      /\ pc \in {"reply", "batch"} => next = 1
      /\ pc = "batch" => batch.number > 0
  BY AgentLoopAssumption
  DEF FuelInv, BatchBounded, EffectsInv, TypeOK, BatchType, Message, CallsInv, RunningPoints
<1>2. CASE Prepare \/ PreCompact \/ RefreshSystemPrompt \/ CommitUser \/ WindowCompaction \/ CostCompaction
  <2>1. /\ steps' = steps
        /\ \/ pc = "prepare" /\ pc' = "precompact"
           \/ pc = "begin" /\ pc' = "system"
           \/ pc = "precompact" /\ pc' = "begin"
           \/ pc = "system" /\ pc' = "user"
           \/ pc = "user" /\ pc' = "loop"
           \/ pc = "hook" /\ pc' = "cost"
           \/ pc = "cost" /\ pc' = "loop"
    BY <1>2 DEF Prepare, PreCompact, RefreshSystemPrompt, CommitUser, WindowCompaction,
       CostCompaction, Continue, Finish, limits, InRun
  <2> QED BY <2>1 DEF PointFuel
<1>3. CASE Request \/ RequestWithNotice
  BY <1>3 DEF Request, RequestWithNotice, StartTurn
<1>4. CASE CommitReply
  <2>1. /\ steps' = steps /\ pc = "stream" /\ pc' = "reply" /\ batch'.number \in 0 .. MaxCalls
    BY <1>1, <1>4 DEF CommitReply, Replies, AssistantMessage, limits
  <2> QED BY <1>1, <2>1 DEF PointFuel
<1>5. CASE Dispatch
  <2>1. /\ steps' = steps /\ pc = "reply" /\ pc' \in {"batch", "cut"} /\ batch' = batch /\ next' = 1
    BY <1>1, <1>5 DEF Dispatch, batchVars
  <2> QED BY <1>1, <2>1 DEF PointFuel
<1>6. CASE ValidateBatch \/ ExecuteCall \/ RejectCall \/ CallUnavailable \/ CommitObservation
  <2>1. /\ steps' = steps /\ batch' = batch /\ next' = next
        /\ \/ pc = "batch" /\ pc' = "call"
           \/ pc = "call" /\ pc' \in {"observe", "fill"}
           \/ pc = "observe" /\ pc' = "end"
    BY <1>6 DEF ValidateBatch, ExecuteCall, RejectCall, CallUnavailable, CommitObservation, limits, batchVars
  <2> QED BY <1>1, <2>1 DEF PointFuel, BatchPoints
<1>7. CASE EndCall
  <2>1. /\ steps' = steps /\ batch' = batch /\ next' = next + 1 /\ pc = "end" /\ pc' \in {"call", "turn"}
    BY <1>7 DEF EndCall, limits
  <2> QED BY <1>1, <2>1 DEF PointFuel
<1>8. CASE Fill \/ RecordTruncated
  <2>1. /\ steps' = steps /\ batch' = batch /\ next' = next + 1 /\ pc \in {"fill", "cut"} /\ pc' = pc
    BY <1>8 DEF Fill, RecordTruncated, Finish, limits, InRun
  <2> QED BY <1>1, <2>1 DEF PointFuel
<1>9. CASE EndTruncated \/ EndTurn
  <2>1. /\ steps' = steps
        /\ \/ pc = "cut" /\ pc' = "loop"
           \/ pc = "turn" /\ pc' = "hook"
    BY <1>9 DEF EndTruncated, EndTurn, limits
  <2>2. pc = "cut" => next <= batch.number + 1
    BY DEF FuelInv, BatchBounded
  <2> QED BY <1>1, <2>1, <2>2 DEF PointFuel
<1>10. CASE Interrupt
  <2>1. pc = "call" /\ pc' = "fill" /\ UNCHANGED <<steps, batch, next>>
    BY <1>10 DEF Interrupt, Finish, Raise, InRun, limits
  <2> QED BY <1>1, <2>1 DEF PointFuel
<1>11. ~(StepLimit \/ BudgetLimit \/ BrokenStream \/ EndRun \/ Run \/ ManualCompact
           \/ InterruptedCommit \/ CommitFails \/ Crash \/ Resume)
  BY DEF StepLimit, BudgetLimit, BrokenStream, EndRun, Run, ManualCompact, InterruptedCommit,
     CommitFails, Crash, Resume, Finish, Raise, InRun
<1> QED BY <1>2, <1>3, <1>4, <1>5, <1>6, <1>7, <1>8, <1>9, <1>10, <1>11 DEF Next, RunStep, LoopStep

LEMMA FuelFalls == FuelInv /\ FuelInv' /\ [Next]_vars => [InRun => ~InRun' \/ Fuel' < Fuel]_vars
<1> SUFFICES ASSUME FuelInv, FuelInv', Next, InRun, InRun' PROVE Fuel' < Fuel
  OBVIOUS
<1>1. steps \in 0 .. MaxSteps /\ MaxSteps \in Nat
  BY AgentLoopAssumption DEF FuelInv, EffectsInv, TypeOK, LimitsType
<1>2. TurnFuel(steps) \in Nat /\ TurnCost \in Nat /\ PointFuel \in Nat
  BY <1>1, TurnFuels, PointFuels
<1>3. PointFuel' \in Nat /\ TurnCost = 3 * MaxCalls + 7 /\ MaxCalls \in Nat
  <2>1. PointFuel' \in Nat
    BY PointFuelsNext
  <2> QED BY <2>1, AgentLoopAssumption DEF TurnCost
<1>4. CASE steps' = steps /\ PointFuel' < PointFuel
  <2>1. Fuel' = TurnFuel(steps) + PointFuel'
    BY <1>4 DEF Fuel, TurnFuel, TurnCost
  <2> QED BY <1>2, <1>3, <1>4, <2>1 DEF Fuel
<1>5. CASE steps < MaxSteps /\ steps' = steps + 1 /\ pc = "loop" /\ pc' = "stream"
  <2>1. TurnFuel(steps + 1) + TurnCost = TurnFuel(steps) /\ TurnFuel(steps + 1) \in Nat
    <3>1. steps + 1 \in 0 .. MaxSteps
      BY <1>1, <1>5
    <3> QED BY <1>1, <1>5, <3>1, TurnFuels
  <2>2. Fuel' = TurnFuel(steps + 1) + PointFuel' /\ PointFuel' = 3 * MaxCalls + 6 /\ PointFuel = 0
    BY <1>5 DEF Fuel, TurnFuel, TurnCost, PointFuel
  <2> QED BY <1>2, <1>3, <2>1, <2>2 DEF Fuel
<1> QED BY <1>4, <1>5, PointFalls

LEMMA FuelBounded == FuelInv /\ InRun => Fuel \in 0 .. MaxSteps * TurnCost + 5
<1> SUFFICES ASSUME FuelInv, InRun PROVE Fuel \in 0 .. MaxSteps * TurnCost + 5
  OBVIOUS
<1>1. steps \in 0 .. MaxSteps /\ MaxSteps \in Nat
  BY AgentLoopAssumption DEF FuelInv, EffectsInv, TypeOK, LimitsType
<1>2. /\ TurnFuel(steps) \in Nat /\ TurnCost \in Nat /\ MaxSteps * TurnCost \in Nat
      /\ TurnFuel(steps) <= MaxSteps * TurnCost
  BY <1>1, TurnFuels
<1>3. steps > 0 => TurnFuel(steps) + TurnCost <= MaxSteps * TurnCost
  <2> SUFFICES ASSUME steps > 0 PROVE TurnFuel(steps) + TurnCost <= MaxSteps * TurnCost
    OBVIOUS
  <2>1. steps - 1 \in 0 .. MaxSteps /\ steps - 1 < MaxSteps /\ (steps - 1) + 1 = steps
    BY <1>1
  <2>2. /\ TurnFuel((steps - 1) + 1) + TurnCost = TurnFuel(steps - 1)
        /\ TurnFuel(steps - 1) <= MaxSteps * TurnCost
    BY <2>1, TurnFuels
  <2> QED BY <2>1, <2>2
<1> QED BY <1>2, <1>3, PointFuels DEF Fuel

\* Every run is finite, whatever the provider answers, fails or is interrupted:
\* each of its steps ends it or brings it nearer to its end, which max_steps and
\* the calls of its replies put at most so far away (run_loop).
THEOREM RunsAreFinite == Spec => RunsDown
<1>1. Spec => []FuelInv
  BY FuelInit, FuelStep, PTL DEF Spec
<1>2. FuelInv => (InRun => Fuel \in 0 .. MaxSteps * TurnCost + 5)
  BY FuelBounded
<1> QED BY <1>1, <1>2, FuelFalls, PTL DEF Spec, RunsDown

-------------------------------------------------------------------------------
(* The provider's stream (LlmStream).  What is gathered of an answer is what *)
(* was sent of it (Gathered), and the ids committed are those the provider   *)
(* sent last or made up of the index, of streams that are over (IdsInv).     *)

\* Ascending order exists, so InOrder gives it: the place of a member is the
\* number of members below it.
LEMMA Sorted ==
  ASSUME NEW S \in SUBSET Nat, IsFiniteSet(S)
  PROVE  /\ InOrder(S) \in [1 .. Cardinality(S) -> S] /\ Cardinality(S) \in Nat
         /\ \A j, k \in 1 .. Cardinality(S) : j < k => InOrder(S)[j] < InOrder(S)[k]
<1> DEFINE n == Cardinality(S)
           Below(i) == {j \in S : j < i}
           rank == [i \in S |-> Cardinality(Below(i))]
           s == [k \in 1 .. n |-> CHOOSE i \in S : rank[i] = k - 1]
<1>1. n \in Nat
  BY FS_CardinalityType
<1>2. \A i \in S : rank[i] \in 0 .. n - 1
  <2> TAKE i \in S
  <2>1. Below(i) \in SUBSET S /\ i \notin Below(i)
    OBVIOUS
  <2>2. Cardinality(Below(i)) \in Nat /\ Cardinality(Below(i)) <= n /\ Cardinality(Below(i)) # n
    <3> HIDE DEF Below
    <3> QED BY <2>1, FS_Subset, FS_CardinalityType
  <2> HIDE DEF Below, n
  <2> QED BY <1>1, <2>2
<1>3. \A i, j \in S : i < j => rank[i] < rank[j]
  <2> SUFFICES ASSUME NEW i \in S, NEW j \in S, i < j PROVE rank[i] < rank[j]
    OBVIOUS
  <2>1. Below(i) \in SUBSET Below(j) /\ i \in Below(j) \ Below(i) /\ Below(j) \in SUBSET S
    <3>1. \A k \in S : k < i => k < j
      OBVIOUS
    <3>2. ~(i < i)
      OBVIOUS
    <3> QED BY <3>1, <3>2, Zenon
  <2>2. /\ Cardinality(Below(i)) <= Cardinality(Below(j)) /\ Cardinality(Below(i)) # Cardinality(Below(j))
        /\ Cardinality(Below(i)) \in Nat /\ Cardinality(Below(j)) \in Nat
    <3> HIDE DEF Below
    <3> QED BY <2>1, FS_Subset, FS_CardinalityType
  <2> HIDE DEF Below
  <2> QED BY <2>2
<1> HIDE DEF rank
<1>4. \A k \in 1 .. n : \E i \in S : rank[i] = k - 1
  <2>1. rank \in Injection(S, 0 .. n - 1)
    <3>1. rank \in [S -> 0 .. n - 1]
      BY <1>2 DEF rank
    <3>2. \A i, j \in S : rank[i] = rank[j] => i = j
      <4> TAKE i, j \in S
      <4>1. i < j \/ j < i \/ i = j
        OBVIOUS
      <4>2. rank[i] \in Nat /\ rank[j] \in Nat
        BY <1>1, <1>2
      <4> QED BY <1>3, <4>1, <4>2
    <3> QED BY <3>1, <3>2 DEF Injection, IsInjective
  <2>2. IsFiniteSet(0 .. n - 1) /\ Cardinality(0 .. n - 1) = n
    <3>1. 0 \in Int /\ n - 1 \in Int
      BY <1>1
    <3>2. Cardinality(0 .. n - 1) = IF 0 > n - 1 THEN 0 ELSE (n - 1) - 0 + 1
      BY <3>1, FS_Interval
    <3> QED BY <1>1, <3>1, <3>2, FS_Interval
  <2>3. rank \in Surjection(S, 0 .. n - 1)
    BY <2>1, <2>2, FS_Injection
  <2>4. \A k \in 1 .. n : k - 1 \in 0 .. n - 1
    BY <1>1
  <2> QED BY <2>3, <2>4 DEF Surjection
<1>5. \A k \in 1 .. n : s[k] \in S /\ rank[s[k]] = k - 1
  BY <1>4
<1> HIDE DEF s
<1>6. \A j, k \in 1 .. n : j < k => s[j] < s[k]
  <2> SUFFICES ASSUME NEW j \in 1 .. n, NEW k \in 1 .. n, j < k, ~(s[j] < s[k]) PROVE FALSE
    OBVIOUS
  <2>1. s[k] \in S /\ s[j] \in S /\ rank[s[k]] = k - 1 /\ rank[s[j]] = j - 1
    BY <1>5
  <2>2. s[k] \in Nat /\ s[j] \in Nat
    BY <2>1
  <2>3. s[k] < s[j] \/ s[k] = s[j]
    BY <2>2
  <2>4. k - 1 < j - 1 \/ k - 1 = j - 1
    BY <1>3, <2>1, <2>3
  <2> QED BY <1>1, <2>4
<1>7. s \in SetToSeqs(S) /\ DOMAIN s = 1 .. n
  <2>1. s \in [1 .. n -> S]
    BY <1>5 DEF s
  <2>2. \A j, k \in 1 .. n : j # k => s[j] # s[k]
    BY <1>1, <1>5
  <2> QED BY <2>1, <2>2 DEF SetToSeqs
<1>8. InOrder(S) \in SetToSeqs(S) /\ \A j, k \in DOMAIN InOrder(S) : j < k => InOrder(S)[j] < InOrder(S)[k]
  BY <1>6, <1>7 DEF InOrder
<1> QED BY <1>1, <1>8 DEF SetToSeqs

\* A call being put together, and what is known of the ids committed.
Buffer == [id : Ids, name : BOOLEAN, args : Arguments]
IdEntry == [id : Ids, sent : Ids, index : Indexes, request : Nat]

\* The id of a call, of the one sent with it.
OwnId(i, given) == IF given = {} THEN {MadeUp(i)} ELSE given

LEMMA OwnIds ==
  ASSUME NEW i \in Indexes
  PROVE  {MadeUp(i)} \in Ids /\ {} \in Ids /\ \A given \in Ids : OwnId(i, given) \in Ids
BY DEF Ids, OwnId

StreamType ==
  /\ requests \in Nat /\ phase \in {"idle", "request", "stream"} /\ caller \in {"turn", "summary"}
  /\ acc.text \in Nat /\ acc.finish \in Finishes
  /\ acc = [text |-> acc.text, calls |-> acc.calls, finish |-> acc.finish]
  /\ sent = [text |-> sent.text, calls |-> sent.calls]
  /\ IsFiniteSet(DOMAIN acc.calls) /\ DOMAIN acc.calls \subseteq Indexes
  /\ acc.calls \in [DOMAIN acc.calls -> Buffer]
  /\ sent.calls \in [DOMAIN acc.calls -> Buffer]

\* What was gathered is what was sent, a turn shows it, and a call has the id it
\* was given or one of its own.
Gathered ==
  /\ acc.text = sent.text
  /\ caller = "turn" => shown = sent.text
  /\ \A i \in DOMAIN acc.calls :
       /\ acc.calls[i].name = sent.calls[i].name
       /\ acc.calls[i].args = sent.calls[i].args
       /\ acc.calls[i].id = OwnId(i, sent.calls[i].id)

StreamInv ==
  /\ StreamType
  /\ Gathered
  /\ phase # "stream" => acc = Empty /\ sent = NotSent /\ shown = 0
  /\ phase # "idle" => requests > 0
  /\ phase = "stream" => started

\* Every id committed is of a stream that is over; within one the indexes differ.
IdsInv ==
  /\ ids \in Seq(IdEntry)
  /\ \A j \in DOMAIN ids :
       /\ ids[j].request \in 1 .. (IF phase = "idle" THEN requests ELSE requests - 1)
       /\ ids[j].id = OwnId(ids[j].index, ids[j].sent)
  /\ \A j, k \in DOMAIN ids :
       j # k /\ ids[j].request = ids[k].request => ids[j].index # ids[k].index

LEMMA StreamBegins == StreamInit => StreamInv /\ IdsInv
<1> SUFFICES ASSUME StreamInit PROVE StreamInv /\ IdsInv
  OBVIOUS
<1>1. DOMAIN acc.calls = {} /\ DOMAIN sent.calls = {} /\ acc.calls = NoCalls /\ sent.calls = NoCalls
  BY DEF StreamInit, Empty, NotSent, NoCalls
<1>2. NoCalls \in [{} -> Buffer]
  BY DEF NoCalls
<1>3. StreamType
  BY <1>1, <1>2, FS_EmptySet DEF StreamType, StreamInit, Empty, NotSent, Finishes
<1>4. Gathered
  BY <1>1 DEF Gathered, StreamInit, Empty, NotSent
<1>5. StreamInv
  BY <1>3, <1>4 DEF StreamInv, StreamInit
<1>6. IdsInv
  BY DEF IdsInv, StreamInit
<1> QED BY <1>5, <1>6


\* With nothing gathered.
LEMMA EmptyGathers ==
  ASSUME acc' = Empty, sent' = NotSent, shown' = 0, requests' \in Nat,
         caller' \in {"turn", "summary"}, phase' \in {"idle", "request", "stream"},
         phase' # "idle" => requests' > 0, phase' = "stream" => started'
  PROVE  StreamInv'
<1>1. DOMAIN acc'.calls = {} /\ DOMAIN sent'.calls = {} /\ acc'.calls = NoCalls /\ sent'.calls = NoCalls
  BY DEF Empty, NotSent, NoCalls
<1>2. NoCalls \in [{} -> Buffer]
  BY DEF NoCalls
<1>3. StreamType'
  BY <1>1, <1>2, FS_EmptySet DEF StreamType, Empty, NotSent, Finishes
<1>4. Gathered'
  BY <1>1 DEF Gathered, Empty, NotSent
<1> QED BY <1>3, <1>4 DEF StreamInv

\* A piece of a call.
LEMMA CallGathers ==
  ASSUME StreamInv, NEW i \in Indexes, CallPiece(i)
  PROVE  StreamInv'
<1> DEFINE D == DOMAIN acc.calls
<1>1. /\ phase = "stream" /\ phase' = "stream" /\ requests' = requests /\ caller' = caller
      /\ started' = started /\ shown' = shown /\ requests \in Nat /\ i \in Nat
  BY LlmStreamAssumption DEF CallPiece, Piece, StreamInv, StreamType
<1>2. PICK piece \in CallPieces(i) :
        /\ acc' = [acc EXCEPT !.calls = With(acc.calls, i, Joined(i, piece))]
        /\ sent' = [sent EXCEPT !.calls = With(sent.calls, i, SentOf(i, piece))]
  BY DEF CallPiece
<1> DEFINE after == SentOf(i, piece)
<1>3. DOMAIN sent.calls = D
  BY DEF StreamInv, StreamType
<1>4. /\ acc' = [text |-> acc.text, calls |-> With(acc.calls, i, Joined(i, piece)), finish |-> acc.finish]
      /\ sent' = [text |-> sent.text, calls |-> With(sent.calls, i, after)]
  BY <1>2 DEF StreamInv, StreamType
<1>5. piece \in [id : Ids, name : BOOLEAN, args : Arguments]
  BY DEF CallPieces
<1>6. after \in Buffer
  <2>1. CASE i \notin D
    BY <1>3, <1>5, <2>1 DEF SentOf, Buffer
  <2>2. CASE i \in D
    <3>1. sent.calls[i] \in Buffer
      BY <2>2 DEF StreamInv, StreamType
    <3> QED BY <1>3, <1>5, <2>2, <3>1 DEF SentOf, Buffer
  <2> QED BY <2>1, <2>2
<1>7. /\ Joined(i, piece) \in Buffer
      /\ Joined(i, piece).name = after.name /\ Joined(i, piece).args = after.args
      /\ Joined(i, piece).id = OwnId(i, after.id)
  <2>1. CASE i \notin D
    <3>1. /\ Joined(i, piece) = [piece EXCEPT !.id = IF @ = {} THEN {MadeUp(i)} ELSE @]
          /\ after = piece
      BY <1>3, <2>1 DEF Joined, SentOf
    <3>2. Joined(i, piece) = [id |-> OwnId(i, piece.id), name |-> piece.name, args |-> piece.args]
      BY <1>5, <3>1 DEF OwnId
    <3>3. OwnId(i, piece.id) \in Ids
      BY <1>5, OwnIds
    <3> QED BY <1>5, <3>1, <3>2, <3>3 DEF Buffer
  <2>2. CASE i \in D
    <3>1. acc.calls[i] \in Buffer /\ sent.calls[i] \in Buffer
      BY <2>2 DEF StreamInv, StreamType
    <3>2. /\ Joined(i, piece) = [id |-> IF piece.id = {} THEN acc.calls[i].id ELSE piece.id,
                                 name |-> acc.calls[i].name \/ piece.name, args |-> piece.args]
          /\ after = [id |-> IF piece.id = {} THEN sent.calls[i].id ELSE piece.id,
                      name |-> sent.calls[i].name \/ piece.name, args |-> piece.args]
      BY <1>3, <2>2, <3>1 DEF Joined, SentOf, Buffer
    <3>3. /\ acc.calls[i].name = sent.calls[i].name
          /\ acc.calls[i].id = OwnId(i, sent.calls[i].id)
      BY <2>2 DEF StreamInv, Gathered
    <3>4. Joined(i, piece) \in Buffer
      BY <1>5, <3>1, <3>2 DEF Buffer
    <3>5. Joined(i, piece).name = after.name /\ Joined(i, piece).args = after.args
      BY <3>2, <3>3
    <3>6. Joined(i, piece).id = OwnId(i, after.id)
      BY <3>2, <3>3 DEF OwnId
    <3> QED BY <3>4, <3>5, <3>6
  <2> QED BY <2>1, <2>2
<1> HIDE DEF after
<1>8. /\ DOMAIN acc'.calls = D \cup {i} /\ DOMAIN sent'.calls = D \cup {i}
      /\ acc'.calls = [j \in D \cup {i} |-> IF j = i THEN Joined(i, piece) ELSE acc.calls[j]]
      /\ sent'.calls = [j \in D \cup {i} |-> IF j = i THEN after ELSE sent.calls[j]]
      /\ acc'.text = acc.text /\ acc'.finish = acc.finish /\ sent'.text = sent.text
  BY <1>3, <1>4 DEF With
<1>9. StreamType'
  <2>1. IsFiniteSet(D \cup {i}) /\ D \cup {i} \subseteq Indexes
    BY FS_AddElement DEF StreamInv, StreamType
  <2>2. acc.calls \in [D -> Buffer] /\ sent.calls \in [D -> Buffer]
    BY DEF StreamInv, StreamType
  <2>3. acc'.calls \in [D \cup {i} -> Buffer] /\ sent'.calls \in [D \cup {i} -> Buffer]
    <3> HIDE DEF D
    <3> QED BY <1>6, <1>7, <1>8, <2>2
  <2> HIDE DEF D
  <2> QED BY <1>1, <1>4, <1>8, <2>1, <2>3 DEF StreamInv, StreamType
<1>10. Gathered'
  <2>1. acc'.text = sent'.text /\ (caller' = "turn" => shown' = sent'.text)
    BY <1>1, <1>8 DEF StreamInv, Gathered
  <2>2. ASSUME NEW j \in D \cup {i}
        PROVE  /\ acc'.calls[j].name = sent'.calls[j].name
               /\ acc'.calls[j].args = sent'.calls[j].args
               /\ acc'.calls[j].id = OwnId(j, sent'.calls[j].id)
    <3>1. CASE j = i
      BY <1>6, <1>7, <1>8, <3>1
    <3>2. CASE j # i
      BY <1>8, <3>2 DEF StreamInv, Gathered
    <3> QED BY <3>1, <3>2
  <2> HIDE DEF D
  <2> QED BY <1>1, <1>8, <2>1, <2>2 DEF Gathered, OwnId, MadeUp
<1> QED BY <1>1, <1>9, <1>10 DEF StreamInv

\* The calls of the message, in the order of their indexes.
Calls == [index : Indexes, id : Ids, args : Arguments]

OwnCalls(calls) ==
  /\ \E n \in Nat : calls \in [1 .. n -> Calls]
  /\ \A k \in DOMAIN calls :
       LET given == sent.calls[calls[k].index].id IN
       given \in Ids /\ calls[k].id = OwnId(calls[k].index, given)
  /\ \A j, k \in DOMAIN calls : j # k => calls[j].index # calls[k].index

LEMMA CallsInOrder ==
  ASSUME StreamInv, phase # "idle", NEW n, n = Cardinality(DOMAIN acc.calls),
         NEW order, order = InOrder(DOMAIN acc.calls)
  PROVE  /\ n \in Nat /\ order \in [1 .. n -> DOMAIN acc.calls]
         /\ ToolCalls = [k \in 1 .. n |-> [index |-> order[k], id |-> acc.calls[order[k]].id,
                                           args |-> acc.calls[order[k]].args]]
         /\ OwnCalls(ToolCalls)
<1>1. n \in Nat /\ order \in [1 .. n -> DOMAIN acc.calls]
      /\ \A j, k \in 1 .. n : j < k => order[j] < order[k]
  <2>1. DOMAIN acc.calls \in SUBSET Nat /\ IsFiniteSet(DOMAIN acc.calls)
    BY LlmStreamAssumption DEF StreamInv, StreamType
  <2> QED BY <2>1, Sorted
<1>2. ToolCalls = [k \in 1 .. n |-> [index |-> order[k], id |-> acc.calls[order[k]].id,
                                     args |-> acc.calls[order[k]].args]]
  BY <1>1 DEF ToolCalls
<1>3. \A k \in 1 .. n : /\ order[k] \in Indexes /\ order[k] \in Nat
                        /\ acc.calls[order[k]] \in Buffer
                        /\ sent.calls[order[k]] \in Buffer
                        /\ acc.calls[order[k]].id = OwnId(order[k], sent.calls[order[k]].id)
  BY <1>1, LlmStreamAssumption DEF StreamInv, StreamType, Gathered
<1>4. \A j, k \in 1 .. n : j # k => order[j] # order[k]
  <2> SUFFICES ASSUME NEW j \in 1 .. n, NEW k \in 1 .. n, j # k PROVE order[j] # order[k]
    OBVIOUS
  <2>1. j < k \/ k < j
    BY <1>1
  <2> QED BY <1>1, <1>3, <2>1
<1>5. ToolCalls \in [1 .. n -> Calls]
  BY <1>2, <1>3 DEF Buffer, Calls
<1>6. DOMAIN ToolCalls = 1 .. n /\ \A k \in 1 .. n : /\ ToolCalls[k].index = order[k]
                                                    /\ ToolCalls[k].id = acc.calls[order[k]].id
  BY <1>2
<1>7. OwnCalls(ToolCalls)
  <2>1. \E l \in Nat : ToolCalls \in [1 .. l -> Calls]
    BY <1>1, <1>5
  <2>2. \A k \in 1 .. n :
          LET given == sent.calls[ToolCalls[k].index].id IN
          given \in Ids /\ ToolCalls[k].id = OwnId(ToolCalls[k].index, given)
    <3>1. \A k \in 1 .. n : sent.calls[order[k]].id \in Ids
      BY <1>3 DEF Buffer
    <3> HIDE DEF ToolCalls
    <3> QED BY <1>3, <1>6, <3>1
  <2>3. \A j, k \in 1 .. n : j # k => ToolCalls[j].index # ToolCalls[k].index
    BY <1>4, <1>6
  <2> QED BY <1>6, <2>1, <2>2, <2>3, Zenon DEF OwnCalls
<1> QED BY <1>1, <1>2, <1>7

\* The ids of a message that is committed.
LEMMA IdsDelivered ==
  ASSUME IdsInv, requests \in Nat \ {0}, phase # "idle", phase' = "idle", requests' = requests,
         NEW calls, OwnCalls(calls),
         ids' = ids \o [k \in DOMAIN calls |->
                  [id |-> calls[k].id, sent |-> sent.calls[calls[k].index].id,
                   index |-> calls[k].index, request |-> requests]]
  PROVE  IdsInv'
<1>1. PICK n \in Nat : calls \in [1 .. n -> Calls]
  BY DEF OwnCalls
<1> DEFINE new == [k \in 1 .. n |->
                     [id |-> calls[k].id, sent |-> sent.calls[calls[k].index].id,
                      index |-> calls[k].index, request |-> requests]]
           m == Len(ids)
<1>2. \A k \in 1 .. n : /\ calls[k].index \in Indexes /\ calls[k].id \in Ids
                        /\ sent.calls[calls[k].index].id \in Ids
                        /\ calls[k].id = OwnId(calls[k].index, sent.calls[calls[k].index].id)
  BY <1>1 DEF OwnCalls, Calls
<1>3. \A k \in 1 .. n : /\ new[k] \in IdEntry
                        /\ new[k].index = calls[k].index /\ new[k].request = requests
                        /\ new[k].id = OwnId(new[k].index, new[k].sent)
  BY <1>2 DEF IdEntry
<1>4. new \in Seq(IdEntry) /\ Len(new) = n
  <2>1. new = [k \in 1 .. n |-> new[k]]
    OBVIOUS
  <2> HIDE DEF new
  <2>2. new \in [1 .. n -> IdEntry]
    BY <1>3, <2>1
  <2> QED BY <1>1, <2>2
<1>5. ids \in Seq(IdEntry) /\ m \in Nat /\ ids' = ids \o new
  BY <1>1 DEF IdsInv
<1> HIDE DEF new
<1>6. /\ ids' \in Seq(IdEntry) /\ Len(ids') = m + n /\ DOMAIN ids' = 1 .. m + n /\ DOMAIN ids = 1 .. m
      /\ \A j \in 1 .. m : ids'[j] = ids[j]
      /\ \A k \in 1 .. n : ids'[m + k] = new[k]
  <2>1. ids' \in Seq(IdEntry) /\ Len(ids') = Len(ids) + Len(new)
        /\ \A j \in 1 .. Len(ids) + Len(new) :
             ids'[j] = IF j <= Len(ids) THEN ids[j] ELSE new[j - Len(ids)]
    <3>1. \A s, t \in Seq(IdEntry) :
            /\ s \o t \in Seq(IdEntry) /\ Len(s \o t) = Len(s) + Len(t)
            /\ \A j \in 1 .. Len(s) + Len(t) : (s \o t)[j] = IF j <= Len(s) THEN s[j] ELSE t[j - Len(s)]
      BY ConcatProperties, Zenon
    <3>2. /\ ids \o new \in Seq(IdEntry) /\ Len(ids \o new) = Len(ids) + Len(new)
          /\ \A j \in 1 .. Len(ids) + Len(new) :
               (ids \o new)[j] = IF j <= Len(ids) THEN ids[j] ELSE new[j - Len(ids)]
      BY <1>4, <1>5, <3>1, Zenon
    <3>3. ids' = ids \o new
      BY <1>5
    <3> QED BY <3>2, <3>3, Zenon
  <2>2. DOMAIN ids' = 1 .. m + n /\ DOMAIN ids = 1 .. m
    BY <1>4, <1>5, <2>1
  <2>3. \A j \in 1 .. m : ids'[j] = ids[j]
    BY <1>1, <1>4, <1>5, <2>1
  <2>4. \A k \in 1 .. n : m + k \in 1 .. m + n /\ ~(m + k <= m) /\ (m + k) - m = k
    BY <1>1, <1>5
  <2>5. \A k \in 1 .. n : ids'[m + k] = new[k]
    BY <1>4, <2>1, <2>4
  <2> QED BY <1>4, <2>1, <2>2, <2>3, <2>5
<1>7. \A j \in 1 .. m + n : j \in 1 .. m \/ \E k \in 1 .. n : j = m + k
  <2> TAKE j \in 1 .. m + n
  <2>1. CASE j > m
    <3>1. j - m \in 1 .. n /\ j = m + (j - m)
      BY <1>5, <2>1
    <3> QED BY <3>1
  <2> HIDE DEF m
  <2> QED BY <1>5, <2>1
<1> HIDE DEF m
<1>8. \A j \in 1 .. m : /\ ids[j].request \in 1 .. requests - 1
                        /\ ids[j].id = OwnId(ids[j].index, ids[j].sent)
  BY <1>6 DEF IdsInv
<1>9. ASSUME NEW j \in 1 .. m + n
      PROVE  /\ ids'[j].request \in 1 .. requests
             /\ ids'[j].id = OwnId(ids'[j].index, ids'[j].sent)
  <2>1. CASE j \in 1 .. m
    <3>1. ids'[j] = ids[j]
      BY <1>6, <2>1
    <3>2. ids[j].request \in 1 .. requests
      BY <1>8, <2>1
    <3> QED BY <1>8, <2>1, <3>1, <3>2
  <2>2. ASSUME NEW k \in 1 .. n, j = m + k
        PROVE  /\ ids'[j].request \in 1 .. requests
               /\ ids'[j].id = OwnId(ids'[j].index, ids'[j].sent)
    <3>1. ids'[j] = new[k]
      BY <1>6, <2>2
    <3>2. requests \in 1 .. requests
      OBVIOUS
    <3> QED BY <1>3, <3>1, <3>2
  <2> QED BY <1>7, <2>1, <2>2
<1>10. \A j \in 1 .. m, k \in 1 .. n : ids'[j].request # ids'[m + k].request
  <2> TAKE j \in 1 .. m, k \in 1 .. n
  <2>1. ids'[j] = ids[j] /\ ids'[m + k] = new[k]
    BY <1>6
  <2>2. ids[j].request \in 1 .. requests - 1 /\ new[k].request = requests
    BY <1>3, <1>8
  <2>3. requests \notin 1 .. requests - 1
    OBVIOUS
  <2> QED BY <2>1, <2>2, <2>3, Zenon
<1>11. \A j, k \in 1 .. n : j # k => new[j].index # new[k].index
  BY <1>1, <1>3 DEF OwnCalls
<1>12. ASSUME NEW j \in 1 .. m + n, NEW k \in 1 .. m + n, j # k, ids'[j].request = ids'[k].request
       PROVE  ids'[j].index # ids'[k].index
  <2>1. CASE j \in 1 .. m /\ k \in 1 .. m
    <3>1. ids'[j] = ids[j] /\ ids'[k] = ids[k]
      BY <1>6, <2>1
    <3>2. ids[j].request = ids[k].request => ids[j].index # ids[k].index
      BY <1>6, <1>12, <2>1 DEF IdsInv
    <3> QED BY <1>12, <3>1, <3>2
  <2>2. ASSUME NEW a \in 1 .. n, NEW b \in 1 .. n, j = m + a, k = m + b
        PROVE  ids'[j].index # ids'[k].index
    <3>1. a # b /\ ids'[j] = new[a] /\ ids'[k] = new[b]
      BY <1>6, <1>12, <2>2
    <3> QED BY <1>11, <3>1
  <2> QED BY <1>7, <1>10, <1>12, <2>1, <2>2
<1>13. \A j \in DOMAIN ids' :
         /\ ids'[j].request \in 1 .. (IF phase' = "idle" THEN requests' ELSE requests' - 1)
         /\ ids'[j].id = OwnId(ids'[j].index, ids'[j].sent)
  BY <1>6, <1>9
<1>14. \A j, k \in DOMAIN ids' : j # k /\ ids'[j].request = ids'[k].request => ids'[j].index # ids'[k].index
  BY <1>6, <1>12
<1> QED BY <1>6, <1>13, <1>14 DEF IdsInv

LEMMA IdsKept ==
  ASSUME IdsInv, requests \in Nat, UNCHANGED ids,
         \/ requests' = requests /\ (phase # "idle" \/ phase' = "idle")
         \/ requests' = requests + 1 /\ phase = "idle"
  PROVE  IdsInv'
<1>1. \A j \in DOMAIN ids : ids[j].request \in 1 .. (IF phase' = "idle" THEN requests' ELSE requests' - 1)
  BY DEF IdsInv
<1> QED BY <1>1 DEF IdsInv

LEMMA Delivered ==
  ASSUME StreamInv, IdsInv, phase # "idle", UNCHANGED <<requests, caller>>,
         NEW m, OwnCalls(m.calls), Deliver(m), Reset
  PROVE  StreamInv' /\ IdsInv'
<1>1. requests \in Nat \ {0} /\ caller \in {"turn", "summary"} /\ phase' = "idle"
  BY DEF StreamInv, StreamType, Deliver
<1>2. StreamInv'
  BY <1>1, EmptyGathers DEF Reset
<1>3. CASE UNCHANGED ids
  BY <1>1, <1>2, <1>3, IdsKept
<1>4. CASE ids' = ids \o [k \in DOMAIN m.calls |->
                 [id |-> m.calls[k].id, sent |-> sent.calls[m.calls[k].index].id,
                  index |-> m.calls[k].index, request |-> requests]]
  BY <1>1, <1>2, <1>4, IdsDelivered
<1> QED BY <1>3, <1>4 DEF Deliver

LEMMA NoCallsOwn == OwnCalls(ErrorMessage.calls)
<1>1. ErrorMessage.calls = <<>> /\ 1 .. 0 = {}
  BY DEF ErrorMessage
<1>2. <<>> \in [1 .. 0 -> Calls]
  BY <1>1
<1> QED BY <1>1, <1>2 DEF OwnCalls

\* A failure ends the stream with an error, or is tried again before its start.
LEMMA Failing ==
  ASSUME StreamInv, IdsInv, phase # "idle", UNCHANGED <<requests, caller>>,
         NEW retryable \in BOOLEAN, Failure(retryable)
  PROVE  StreamInv' /\ IdsInv'
<1>1. CASE Deliver(ErrorMessage) /\ Reset
  BY <1>1, NoCallsOwn, Delivered
<1>2. CASE ~started /\ phase' = "request" /\ UNCHANGED <<started, acc, reply, ids, pieces, sent, shown>>
  <2>1. phase = "request" /\ requests \in Nat /\ requests > 0 /\ caller \in {"turn", "summary"}
        /\ acc = Empty /\ sent = NotSent /\ shown = 0
    BY <1>2 DEF StreamInv, StreamType
  <2>2. StreamInv'
    BY <1>2, <2>1, EmptyGathers
  <2>3. IdsInv'
    BY <1>2, <2>1, IdsKept
  <2> QED BY <2>2, <2>3
<1> QED BY <1>1, <1>2 DEF Failure

LEMMA StreamStep == StreamInv /\ IdsInv /\ [StreamNext]_streamVars => StreamInv' /\ IdsInv'
<1> SUFFICES ASSUME StreamInv, IdsInv, [StreamNext]_streamVars
             PROVE  StreamInv' /\ IdsInv'
  OBVIOUS
<1>0. requests \in Nat /\ caller \in {"turn", "summary"} /\ phase \in {"idle", "request", "stream"}
      /\ (phase # "idle" => requests > 0)
  BY DEF StreamInv, StreamType
<1>1. CASE Ask
  <2>1. acc' = Empty /\ sent' = NotSent /\ shown' = 0 /\ phase' = "request" /\ requests' = requests + 1
        /\ caller' \in {"turn", "summary"} /\ UNCHANGED ids /\ phase = "idle"
    BY <1>1 DEF Ask, StreamInv
  <2> QED BY <1>0, <2>1, EmptyGathers, IdsKept
<1>2. CASE RequestFails
  BY <1>2, Failing DEF RequestFails
<1>3. CASE Open
  <2>1. acc' = Empty /\ sent' = NotSent /\ shown' = 0 /\ phase = "request" /\ phase' = "stream" /\ started'
        /\ UNCHANGED <<requests, caller, ids>>
    BY <1>3 DEF Open, StreamInv
  <2> QED BY <1>0, <2>1, EmptyGathers, IdsKept
<1>4. CASE TextPiece
  <2>1. phase = "stream" /\ UNCHANGED <<phase, requests, caller, ids, started>> /\ acc.text = sent.text
        /\ acc.text \in Nat
    BY <1>4 DEF TextPiece, Piece, StreamInv, StreamType, Gathered
  <2>2. /\ acc' = [text |-> acc.text + 1, calls |-> acc.calls, finish |-> acc.finish]
        /\ sent' = [text |-> sent.text + 1, calls |-> sent.calls]
        /\ shown' = IF caller = "turn" THEN shown + 1 ELSE shown
    BY <1>4 DEF TextPiece, StreamInv, StreamType
  <2>3. StreamType'
    BY <2>1, <2>2 DEF StreamInv, StreamType
  <2>4. Gathered'
    BY <2>1, <2>2 DEF StreamInv, Gathered, OwnId, MadeUp
  <2>5. StreamInv'
    BY <2>1, <2>3, <2>4 DEF StreamInv
  <2> QED BY <1>0, <2>1, <2>5, IdsKept
<1>5. ASSUME NEW i \in Indexes, CallPiece(i)
      PROVE  StreamInv' /\ IdsInv'
  <2>1. phase = "stream" /\ UNCHANGED <<phase, requests, ids>>
    BY <1>5 DEF CallPiece, Piece
  <2> QED BY <1>0, <1>5, <2>1, CallGathers, IdsKept
<1>6. CASE FinishPiece
  <2>1. phase = "stream" /\ UNCHANGED <<phase, requests, caller, ids, started, sent, shown>>
    BY <1>6 DEF FinishPiece, Piece
  <2>2. PICK f \in Finishes \ {"none"} : acc' = [text |-> acc.text, calls |-> acc.calls, finish |-> f]
    BY <1>6 DEF FinishPiece, StreamInv, StreamType
  <2>3. StreamType'
    BY <2>1, <2>2 DEF StreamInv, StreamType
  <2>4. Gathered'
    BY <2>1, <2>2 DEF StreamInv, Gathered, OwnId, MadeUp
  <2>5. StreamInv'
    BY <2>1, <2>3, <2>4 DEF StreamInv
  <2> QED BY <1>0, <2>1, <2>5, IdsKept
<1>7. CASE Finalize
  <2>1. phase # "idle" /\ UNCHANGED <<requests, caller>>
    BY <1>7 DEF Finalize
  <2>2. CASE Deliver([text |-> acc.text, calls |-> ToolCalls, stop |-> StopReason]) /\ Reset
    <3>1. OwnCalls([text |-> acc.text, calls |-> ToolCalls, stop |-> StopReason].calls)
      BY <2>1, CallsInOrder
    <3> QED BY <2>1, <2>2, <3>1, Delivered
  <2>3. CASE Failure(FALSE)
    BY <2>1, <2>3, Failing
  <2> QED BY <1>7, <2>2, <2>3 DEF Finalize
<1>8. CASE StreamFails
  BY <1>8, Failing DEF StreamFails
<1>9. CASE Leave
  <2>1. acc' = Empty /\ sent' = NotSent /\ shown' = 0 /\ phase' = "idle" /\ phase # "idle"
        /\ UNCHANGED <<requests, caller, ids>>
    BY <1>9 DEF Leave, Reset
  <2> QED BY <1>0, <2>1, EmptyGathers, IdsKept
<1>10. CASE UNCHANGED streamVars
  <2>1. UNCHANGED <<requests, phase, caller, acc, sent, shown, ids, started>>
    BY <1>10 DEF streamVars
  <2>2. StreamInv'
    BY <2>1 DEF StreamInv, StreamType, Gathered, OwnId, MadeUp
  <2>3. IdsInv'
    BY <2>1 DEF IdsInv
  <2> QED BY <2>2, <2>3
<1> QED BY <1>1, <1>2, <1>3, <1>4, <1>5, <1>6, <1>7, <1>8, <1>9, <1>10 DEF StreamNext

LEMMA StreamAlways == StreamSpec => [](StreamInv /\ IdsInv)
  BY StreamBegins, StreamStep, PTL DEF StreamSpec

\* Two calls that the program committed, in whatever requests and after whatever
\* retries, share an id only when the provider sent it with both, or sent with one what
\* the client makes up for the other, or sent none with either at one index of two
\* answers: the client alone gives the calls of one answer different ids
\* (_AssistantAccumulator.consume).
THEOREM IdsDiffer == StreamSpec => []IdsOwn
<1>1. IdsInv => IdsOwn
  <2> SUFFICES ASSUME IdsInv, NEW j \in DOMAIN ids, NEW k \in DOMAIN ids, j # k,
                      ids[j].id = ids[k].id
               PROVE  \/ ids[j].sent # {} /\ ids[j].sent = ids[k].sent
                      \/ ids[j].sent = {} /\ ids[k].sent = {MadeUp(ids[j].index)}
                      \/ ids[k].sent = {} /\ ids[j].sent = {MadeUp(ids[k].index)}
                      \/ /\ ids[j].sent = {} /\ ids[k].sent = {}
                         /\ ids[j].index = ids[k].index /\ ids[j].request # ids[k].request
    BY DEF IdsOwn
  <2>1. /\ OwnId(ids[j].index, ids[j].sent) = OwnId(ids[k].index, ids[k].sent)
        /\ ids[j].request = ids[k].request => ids[j].index # ids[k].index
    BY DEF IdsInv
  <2>2. CASE ids[j].sent = {} /\ ids[k].sent = {}
    <3>1. {MadeUp(ids[j].index)} = {MadeUp(ids[k].index)}
      BY <2>1, <2>2 DEF OwnId
    <3>2. MadeUp(ids[j].index) = MadeUp(ids[k].index)
      BY <3>1
    <3>3. ids[j].index = ids[k].index
      BY <3>2 DEF MadeUp
    <3> QED BY <2>1, <2>2, <3>3
  <2>3. CASE ids[j].sent # {} \/ ids[k].sent # {}
    BY <2>1, <2>3 DEF OwnId
  <2> QED BY <2>2, <2>3
<1> QED BY <1>1, StreamAlways, PTL

\* The reply is set by a new request, an error, or an answer that ends as a message.
LEMMA ReplyMade ==
  ASSUME StreamInv, StreamNext, reply' # reply
  PROVE  \/ reply' = NoReply
         \/ reply' = [by |-> caller, text |-> 0, calls |-> <<>>, stop |-> "error"]
         \/ /\ Finalize /\ Built /\ acc.finish # "refused"
            /\ reply' = [by |-> caller, text |-> acc.text, calls |-> ToolCalls, stop |-> StopReason]
            /\ caller = "turn" \/ IsSummary([text |-> acc.text, calls |-> ToolCalls, stop |-> StopReason])
<1>1. ASSUME NEW m, Deliver(m)
      PROVE  /\ reply' = [by |-> caller, text |-> m.text, calls |-> m.calls, stop |-> m.stop]
             /\ caller = "turn" \/ (m.stop # "error" /\ IsSummary(m))
  BY <1>1 DEF Deliver
<1>2. ASSUME NEW retryable, Failure(retryable)
      PROVE  reply' = [by |-> caller, text |-> 0, calls |-> <<>>, stop |-> "error"]
  <2>1. Deliver(ErrorMessage)
    BY <1>2 DEF Failure
  <2> QED BY <1>1, <2>1 DEF ErrorMessage
<1>3. CASE Ask
  BY <1>3 DEF Ask
<1>4. CASE RequestFails \/ StreamFails
  BY <1>2, <1>4 DEF RequestFails, StreamFails
<1>5. ~Open /\ ~Leave /\ ~Piece
  BY DEF Open, Leave, Piece
<1>6. CASE Finalize
  <2>1. CASE Failure(FALSE)
    BY <1>2, <2>1
  <2>2. CASE /\ Built /\ acc.finish # "refused"
             /\ Deliver([text |-> acc.text, calls |-> ToolCalls, stop |-> StopReason])
    BY <1>1, <1>6, <2>2
  <2> QED BY <1>6, <2>1, <2>2 DEF Finalize
<1> QED BY <1>3, <1>4, <1>5, <1>6 DEF StreamNext, TextPiece, CallPiece, FinishPiece

\* A message that is no error is the answer to one request: all of its text,
\* which in a turn is what the user saw, and all of its calls, in the order of
\* their indexes, whole; a summary asked for nothing and was not cut
\* (BaseLLMClient.stream, finalize, summarize_transcript).
THEOREM RepliesAreSent == StreamSpec => ReplyAsSent
<1> DEFINE n == Cardinality(DOMAIN acc.calls)
           order == InOrder(DOMAIN acc.calls)
           whole == [text |-> acc.text, calls |-> ToolCalls, stop |-> StopReason]
<1>1. ASSUME StreamInv, StreamNext, reply' # reply, reply'.stop # "error"
      PROVE  /\ DOMAIN sent.calls = DOMAIN acc.calls
             /\ reply'.text = sent.text
             /\ reply'.by = "turn" => reply'.text = shown
             /\ Len(reply'.calls) = Len(order)
             /\ \A k \in DOMAIN order :
                  LET call == sent.calls[order[k]] IN
                  /\ call.name /\ call.args \in {"empty", "object"}
                  /\ reply'.calls[k].args = call.args
                  /\ call.id # {} => reply'.calls[k].id = call.id
             /\ reply'.by = "summary" => order = <<>> /\ acc.finish # "length"
  <2>1. /\ Finalize /\ Built /\ acc.finish # "refused"
        /\ reply' = [by |-> caller, text |-> acc.text, calls |-> ToolCalls, stop |-> StopReason]
        /\ caller = "turn" \/ IsSummary(whole)
    BY <1>1, ReplyMade DEF NoReply
  <2>2. phase # "idle" /\ DOMAIN sent.calls = DOMAIN acc.calls
    BY <1>1, <2>1 DEF Finalize, StreamInv, StreamType
  <2>3. /\ n \in Nat /\ order \in [1 .. n -> DOMAIN acc.calls]
        /\ ToolCalls = [k \in 1 .. n |-> [index |-> order[k], id |-> acc.calls[order[k]].id,
                                          args |-> acc.calls[order[k]].args]]
    BY <1>1, <2>2, CallsInOrder
  <2> HIDE DEF n, order
  <2>4. Len(order) = n /\ DOMAIN order = 1 .. n /\ Len(ToolCalls) = n
    BY <2>3
  <2>5. ASSUME NEW k \in 1 .. n
        PROVE  LET call == sent.calls[order[k]] IN
               /\ call.name /\ call.args \in {"empty", "object"}
               /\ ToolCalls[k].args = call.args
               /\ call.id # {} => ToolCalls[k].id = call.id
    <3>1. order[k] \in DOMAIN acc.calls
      BY <2>3
    <3>2. /\ acc.calls[order[k]].name = sent.calls[order[k]].name
          /\ acc.calls[order[k]].args = sent.calls[order[k]].args
          /\ sent.calls[order[k]].id # {} => acc.calls[order[k]].id = sent.calls[order[k]].id
      BY <1>1, <3>1 DEF StreamInv, Gathered, OwnId
    <3>3. acc.calls[order[k]].name /\ acc.calls[order[k]].args \in {"empty", "object"}
      BY <2>1, <3>1 DEF Built
    <3>4. ToolCalls[k].args = acc.calls[order[k]].args /\ ToolCalls[k].id = acc.calls[order[k]].id
      BY <2>3
    <3> HIDE DEF ToolCalls
    <3> QED BY <3>2, <3>3, <3>4
  <2>6. caller = "summary" => order = <<>> /\ acc.finish # "length"
    <3> SUFFICES ASSUME caller = "summary" PROVE order = <<>> /\ acc.finish # "length"
      OBVIOUS
    <3>1. ToolCalls = <<>> /\ StopReason # "length"
      BY <2>1 DEF IsSummary
    <3>2. n = 0
      BY <2>4, <3>1
    <3>3. order = <<>>
      BY <2>3, <3>2
    <3> QED BY <3>1, <3>3 DEF StopReason
  <2>7. acc.text = sent.text /\ (caller = "turn" => shown = sent.text)
    BY <1>1 DEF StreamInv, Gathered
  <2> HIDE DEF ToolCalls
  <2> QED BY <2>1, <2>2, <2>4, <2>5, <2>6, <2>7
<1>2. ASSUME StreamInv, [StreamNext]_streamVars
      PROVE  [reply' # reply /\ reply'.stop # "error" =>
               LET m == reply'
                   o == InOrder(DOMAIN sent.calls)
               IN  /\ m.text = sent.text
                   /\ m.by = "turn" => m.text = shown
                   /\ Len(m.calls) = Len(o)
                   /\ \A k \in DOMAIN o :
                        LET call == sent.calls[o[k]] IN
                        /\ call.name /\ call.args \in {"empty", "object"}
                        /\ m.calls[k].args = call.args
                        /\ call.id # {} => m.calls[k].id = call.id
                   /\ m.by = "summary" => o = <<>> /\ acc.finish # "length"]_streamVars
  BY <1>1, <1>2
<1> QED BY <1>2, StreamAlways, PTL DEF StreamSpec, ReplyAsSent

\* What a turn committed, by how it ended and the number of its calls.
ReplySuits ==
  reply.by = "turn" =>
    \/ reply.stop \in {"stop", "length"} /\ Len(reply.calls) \in 0 .. MaxCalls
    \/ reply.stop = "error" /\ reply.calls = <<>>

\* What AgentLoop takes from LlmStream: the message of a turn is among its Replies, in
\* the number of its calls and in how it ended.  There calls are numbers, all different;
\* their ids are as IdsDiffer says.
ReplyFits == reply.by = "turn" => AssistantMessage(step, Len(reply.calls), reply.stop) \in Replies

\* Whatever the provider sends, a turn commits a message that AgentLoop reckons
\* with, when an answer has no more indexes than a message may have calls: never
\* a refused answer, and an error only without calls (finalize, _stream_assistant).
THEOREM RepliesFit ==
  ASSUME IsFiniteSet(Indexes), Cardinality(Indexes) <= MaxCalls
  PROVE  StreamSpec => []ReplyFits
<1>1. StreamInit => ReplySuits
  BY DEF StreamInit, NoReply, ReplySuits
<1>2. StreamInv /\ [StreamNext]_streamVars /\ ReplySuits => ReplySuits'
  <2> SUFFICES ASSUME StreamInv, [StreamNext]_streamVars, ReplySuits PROVE ReplySuits'
    OBVIOUS
  <2>1. CASE UNCHANGED reply
    BY <2>1 DEF ReplySuits
  <2>2. CASE reply' = NoReply \/ reply' = [by |-> caller, text |-> 0, calls |-> <<>>, stop |-> "error"]
    BY <2>2 DEF NoReply, ReplySuits
  <2>3. CASE /\ Finalize /\ acc.finish # "refused"
             /\ reply' = [by |-> caller, text |-> acc.text, calls |-> ToolCalls, stop |-> StopReason]
    <3>1. StopReason \in {"stop", "length"}
      BY <2>3 DEF StreamInv, StreamType, Finishes, StopReason
    <3>2. Cardinality(DOMAIN acc.calls) \in Nat /\ Cardinality(DOMAIN acc.calls) <= MaxCalls
      <4>1. Cardinality(DOMAIN acc.calls) <= Cardinality(Indexes)
        BY FS_Subset DEF StreamInv, StreamType
      <4>2. Cardinality(DOMAIN acc.calls) \in Nat /\ Cardinality(Indexes) \in Nat
        BY FS_CardinalityType DEF StreamInv, StreamType
      <4> QED BY <4>1, <4>2, AgentLoopAssumption
    <3>3. Len(ToolCalls) = Cardinality(DOMAIN acc.calls)
      BY <2>3, <3>2, CallsInOrder DEF Finalize
    <3> QED BY <2>3, <3>1, <3>2, <3>3 DEF ReplySuits
  <2> QED BY <2>1, <2>2, <2>3, ReplyMade DEF streamVars
<1>3. ReplySuits => ReplyFits
  BY DEF ReplySuits, ReplyFits, Replies
<1> QED BY <1>1, <1>2, <1>3, StreamAlways, PTL DEF StreamSpec
===============================================================================
