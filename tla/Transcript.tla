------------------------------ MODULE Transcript ------------------------------
(***************************************************************************)
(* The messages of a session and the projection that rebuilds the model's  *)
(* context from the durable entries (mini_pi/context/projection.py).       *)
(*                                                                         *)
(* A message keeps what the tool-call protocol tells apart: its role, the  *)
(* step that produced it, a number and a note.  An assistant message with  *)
(* number n asks for the n tool calls <<step, 1>> .. <<step, n>>; a tool   *)
(* message with number i is the observation of call <<step, i>>.  Text,    *)
(* arguments and timestamps are left out, and the system entries are not   *)
(* messages here: the rules they add up to are a version number kept beside *)
(* the transcript.  Before the first compaction they stand where they were  *)
(* recorded, afterwards they are one snapshot; where they stand matters to  *)
(* the choice of a cut alone, and CutPoint puts them there.                *)
(***************************************************************************)
EXTENDS Integers, Sequences

Roles == {"user", "assistant", "tool"}

\* Why an assistant message stopped, and what a tool message reports.
StopReasons == {"stop", "length", "error"}
Observations == {"ok", "error", "rejected", "truncated", "cancelled", "unavailable"}
Notes == StopReasons \cup Observations \cup {"task", "summary"}

Message == [role : Roles, step : Nat, number : Nat, note : Notes]

UserMessage ==
  [role |-> "user", step |-> 0, number |-> 0, note |-> "task"]
SummaryMessage ==
  [role |-> "user", step |-> 0, number |-> 0, note |-> "summary"]
AssistantMessage(step, calls, stop) ==
  [role |-> "assistant", step |-> step, number |-> calls, note |-> stop]
ToolMessage(step, call, observation) ==
  [role |-> "tool", step |-> step, number |-> call, note |-> observation]

\* The ids an assistant message issues, and the id a tool message answers.
CallIds(m) == {<<m.step, i>> : i \in 1 .. m.number}
ResultId(m) == <<m.step, m.number>>

-------------------------------------------------------------------------------
\* The tool message at j answers a call of the assistant message at i: only
\* tool messages stand between them, and none of those answered it before.
Answers(s, i, j) ==
  /\ i < j
  /\ s[i].role = "assistant"
  /\ ResultId(s[j]) \in CallIds(s[i])
  /\ \A k \in i + 1 .. j : s[k].role = "tool"
  /\ \A k \in i + 1 .. j - 1 : ResultId(s[k]) # ResultId(s[j])

\* Between positions c and d, every call has exactly one result that follows
\* it immediately, no result is without its call, no call id is used twice.
PairsValidIn(s, c, d) ==
  /\ \A i, j \in c .. d :
       (i < j /\ s[i].role = "assistant" /\ s[j].role = "assistant")
         => CallIds(s[i]) \cap CallIds(s[j]) = {}
  /\ \A j \in c .. d :
       s[j].role = "tool" => \E i \in c .. d : Answers(s, i, j)
  /\ \A i \in c .. d :
       s[i].role = "assistant" =>
         \A id \in CallIds(s[i]) :
           \E j \in c .. d :
             s[j].role = "tool" /\ ResultId(s[j]) = id /\ Answers(s, i, j)

PairsValid(s) == PairsValidIn(s, 1, Len(s))

-------------------------------------------------------------------------------
\* kept is 0 before the first compaction and then firstKeptEntryId of the
\* latest one, as a position of the log: earlier entries are in the summary.
FirstKept(kept) == IF kept = 0 THEN 1 ELSE kept

Projection(log, kept) ==
  IF kept = 0 THEN log ELSE <<SummaryMessage>> \o SubSeq(log, kept, Len(log))

\* Loading a session replays it, and replaying validates the tool pairs of
\* the projected messages.
Replayable(log, kept) == PairsValidIn(log, FirstKept(kept), Len(log))

\* Mutant: a tool result may open the kept region.
CutPointsInBatch(log, kept) == FirstKept(kept) + 1 .. Len(log)

\* Positions a compaction may keep from: a user or assistant message (an
\* assistant's results stay with it), with something new before it.
CutPoints(log, kept) ==
  {c \in FirstKept(kept) + 1 .. Len(log) : log[c].role \in {"user", "assistant"}}

\* Calls asked for and calls answered anywhere in the log.
Called(log) ==
  UNION {CallIds(log[i]) : i \in {i \in DOMAIN log : log[i].role = "assistant"}}
Answered(log) ==
  {ResultId(log[i]) : i \in {i \in DOMAIN log : log[i].role = "tool"}}
===============================================================================
