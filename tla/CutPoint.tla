------------------------------- MODULE CutPoint -------------------------------
(***************************************************************************)
(* Where a compaction cuts (mini_pi/context/compaction.py): find_cut_point *)
(* on the projected messages, prepare_compaction on the entries behind     *)
(* them, what it costs (cost.py), and a session that grows, whose rules    *)
(* change, and which is compacted again and again.                         *)
(* AgentLoop lets a compaction keep from any of Transcript's CutPoints;    *)
(* this module says which one it is.                                       *)
(***************************************************************************)
EXTENDS Transcript, FiniteSetsExt, Functions

CONSTANTS
  MaxMessages,   \* bound: length of the log
  MaxCalls,      \* bound: tool calls in one assistant message
  MaxRules,      \* bound: places of the log with a system entry
  Weights,       \* tokens a message may have: none when its text is empty
  RuleWeights,   \* and a system entry: none when a patch only deletes
  SystemTokens,  \* tokens of the rendered system prompt, and of a summary
  SummaryTokens,
  Keeps,         \* the values keep_recent_tokens may take
  WindowKeep,    \* DEFAULT_KEEP_RECENT_TOKENS and COST_KEEP_RECENT_TOKENS
  CostKeep,
  Threshold,     \* threshold_tokens
  Remaining,     \* ASSUMED_REMAINING_REQUESTS
  AssumedSummary,\* ASSUMED_SUMMARY_TOKENS
  TemplateTokens,\* what build_summary_messages adds to the transcript
  ResultTokens   \* TOOL_RESULT_LIMIT

ASSUME CutPointAssumption ==
  /\ MaxMessages \in Nat /\ MaxCalls \in Nat /\ MaxRules \in Nat
  /\ Weights \subseteq Nat /\ RuleWeights \subseteq Nat /\ Keeps \subseteq Nat \ {0}
  /\ SystemTokens \in Nat \ {0} /\ SummaryTokens \in Nat \ {0}
  /\ {WindowKeep, CostKeep} \subseteq Keeps
  /\ {Threshold, Remaining, AssumedSummary, TemplateTokens, ResultTokens} \subseteq Nat

VARIABLES
  log, kept,  \* as in AgentLoop
  tokens,     \* of each message of the log
  rules       \* rules[p]: tokens of the system entry right before log[p]; the
              \* first is the snapshot, the others are patches of it

vars == <<log, kept, tokens, rules>>

Init == log = <<>> /\ kept = 0 /\ tokens = <<>> /\ rules = <<>>

-------------------------------------------------------------------------------
(* find_cut_point(messages, keep_recent_tokens).  ms are the messages and ws *)
(* their tokens, as functions on positions: increasing numbers, with gaps.  *)

Between(ms, i, j) == {k \in DOMAIN ms : i < k /\ k <= j}

\* _segment: an assistant message with calls takes its results with it.
Starts(ms) ==
  {i \in DOMAIN ms :
     ~ \E a \in DOMAIN ms :
         /\ a < i /\ ms[a].role = "assistant" /\ ms[a].number > 0
         /\ \A k \in Between(ms, a, i) : ms[k].role = "tool"}
Results(ms, i) == {k \in DOMAIN ms : k > i /\ \A j \in Between(ms, i, k) : ms[j].role = "tool"}
Incomplete(ms, i) ==
  /\ ms[i].role = "assistant" /\ ms[i].number > 0
  /\ {ResultId(ms[k]) : k \in Results(ms, i)} # CallIds(ms[i])
Splittable(ms, i) == ms[i].role \in {"user", "assistant"} /\ ~Incomplete(ms, i)

TokensFrom(ws, i) == SumFunctionOnSet(ws, {k \in DOMAIN ws : k >= i})

\* The tokens of the segments after the one that starts at i.
TokensAfter(ms, ws, starts, i) ==
  SumFunctionOnSet(ws, {k \in DOMAIN ms : \E j \in starts : i < j /\ j <= k})

\* _previous_user_segment, _turn_segments, _turn_tokens.
PreviousUser(ms, i) ==
  {u \in DOMAIN ms :
     u < i /\ ms[u].role = "user" /\ \A k \in Between(ms, u, i) \ {i} : ms[k].role # "user"}
Turn(ms, u) == {k \in DOMAIN ms : k >= u /\ \A j \in Between(ms, u, k) : ms[j].role # "user"}

\* Mutant: a turn stays whole whatever its size.
TurnAlwaysStays(ms, ws, u, keep) == TRUE

TurnStays(ms, ws, u, keep) ==
  \/ \E i \in Turn(ms, u) : i \in Starts(ms) /\ Incomplete(ms, i)
  \/ SumFunctionOnSet(ws, Turn(ms, u)) <= keep

\* From the newest segment back as long as the budget holds; the newest one
\* that has tokens is taken in any case.
WalkedBack(ms, ws, keep) ==
  LET starts == Starts(ms) IN
  Min({i \in starts : TokensFrom(ws, i) <= keep \/ TokensAfter(ms, ws, starts, i) = 0})

\* A segment no cut can be at: back to its turn when results are missing, on
\* to the next one otherwise.
Candidate(ms, i) ==
  IF Splittable(ms, i) THEN {i}
  ELSE IF Incomplete(ms, i) THEN PreviousUser(ms, i)
  ELSE {j \in Starts(ms) : j >= i /\ Splittable(ms, j)}

\* Mutant: a turn that fits is cut inside all the same.
WholeTurnNever(ms, ws, c, keep) == {c}

\* A turn that fits, or lacks results, is kept whole.
WholeTurn(ms, ws, c, keep) ==
  LET user == {u \in PreviousUser(ms, c) : TurnStays(ms, ws, u, keep)}
  IN  IF ms[c].role = "assistant" /\ user # {} THEN user ELSE {c}

\* The cut as a set: empty when there is none.
FindCutPoint(ms, ws, keep) ==
  LET first == Min(DOMAIN ms)
      back == WalkedBack(ms, ws, keep)
      candidates == Candidate(ms, back)
  IN  IF DOMAIN ms = {} \/ back = first \/ candidates = {} THEN {}
      ELSE {c \in WholeTurn(ms, ws, Min(candidates), keep) :
              c # first /\ ms[c].role \in {"user", "assistant"}}

-------------------------------------------------------------------------------
(* prepare_compaction.                                                     *)

SystemMessage == [role |-> "system", step |-> 0, number |-> 0, note |-> "task"]

\* Where the projected messages stand: log[p] at 2 * p, the system entry right
\* before it at 2 * p - 1.  A compaction folds the system entries into one
\* snapshot, and leaves the summary after it, in front of the kept entries.
Positions ==
  IF kept = 0 THEN {2 * p : p \in DOMAIN log} \cup {2 * p - 1 : p \in DOMAIN rules}
  ELSE {2 * kept - 3, 2 * kept - 2} \cup {2 * p : p \in kept .. Len(log)}

\* The entry a position belongs to (_source_entry_ids).
EntryAt(i) == i \div 2

IsRules(i) == i % 2 = 1
IsSummary(i) == EntryAt(i) < FirstKept(kept)

Messages ==
  [i \in Positions |-> IF IsRules(i) THEN SystemMessage
                       ELSE IF IsSummary(i) THEN SummaryMessage ELSE log[EntryAt(i)]]
MessageTokens ==
  [i \in Positions |-> IF IsRules(i) THEN (IF kept = 0 THEN rules[EntryAt(i + 1)] ELSE SystemTokens)
                       ELSE IF IsSummary(i) THEN SummaryTokens ELSE tokens[EntryAt(i)]]

\* What a request sends of them: the rules are replayed into one prompt.
RequestTokens ==
  SystemTokens + (IF kept = 0 THEN 0 ELSE SummaryTokens) + TokensFrom(tokens, FirstKept(kept))

Cuts(keep) == FindCutPoint(Messages, MessageTokens, keep)

\* Mutant: a cut at the first kept message is taken for one with something new
\* before it.
PlanOfNothing(keep) == {EntryAt(c) : c \in {x \in Cuts(keep) : EntryAt(x) >= FirstKept(kept)}}

\* firstKeptEntryId, when there is something new before it to summarise.  The
\* projection has refused a kept region with an unpaired call.
Plan(keep) ==
  {EntryAt(c) : c \in {x \in Cuts(keep) :
                         Replayable(log, kept) /\ EntryAt(x) > FirstKept(kept)}}

-------------------------------------------------------------------------------
(* The cost of a compaction that would cut at entry c (cost.py).            *)

Region(c) == FirstKept(kept) .. c - 1
ToolResults(c) == {i \in Region(c) : log[i].role = "tool"}
RegionTokens(c) == SumFunctionOnSet(tokens, Region(c))

\* The summary takes its predecessor along, and the beginning of tool results.
SummaryInput(c) ==
  LET shortened == [i \in Region(c) |->
        IF log[i].role = "tool" THEN Min({tokens[i], ResultTokens}) ELSE tokens[i]]
  IN  TemplateTokens + SumFunction(shortened) + (IF kept = 0 THEN 0 ELSE SummaryTokens)

SummaryOutput == IF kept = 0 THEN AssumedSummary ELSE SummaryTokens

\* Mutant: the summary is taken to cost nothing in the requests after it.
WholeRegion(c) == RegionTokens(c)

SavedPerRequest(c) == Max({0, RegionTokens(c) - SummaryOutput})

\* decide_cost_aware_compaction; the floor of the share is one half.
WorthIt(c) ==
  /\ 2 * SumFunctionOnSet(tokens, ToolResults(c)) >= RegionTokens(c)
  /\ SavedPerRequest(c) > 0
  /\ SavedPerRequest(c) * Remaining > SummaryInput(c) + SummaryOutput

-------------------------------------------------------------------------------
(* The session.                                                            *)

Record(ms) ==
  /\ Len(log) + Len(ms) <= MaxMessages
  /\ log' = log \o ms
  /\ \E ws \in [DOMAIN ms -> Weights] : tokens' = tokens \o ws
  /\ UNCHANGED <<kept, rules>>

\* _refresh_system_prompt, before a task: the snapshot, later a patch.  A task
\* that fails after it leaves it to the next one; several entries in a row
\* count as one.
Rules ==
  /\ Len(log) + 1 \notin DOMAIN rules
  /\ Len(log) < MaxMessages /\ Cardinality(DOMAIN rules) < MaxRules
  /\ \E w \in RuleWeights :
       rules' = [p \in DOMAIN rules \cup {Len(log) + 1} |->
                   IF p = Len(log) + 1 THEN w ELSE rules[p]]
  /\ UNCHANGED <<log, kept, tokens>>

Task ==
  /\ rules # <<>>
  /\ Record(<<UserMessage>>)

\* A reply and the results of its calls; the last one is missing where an
\* interrupt left the batch open (see AgentLoop's PairedAtRest), and then the
\* run is over.
Turns ==
  /\ log # <<>> /\ Len(log) + 1 \notin DOMAIN rules
  /\ ~Incomplete(log, Max(Starts(log)))
  /\ \E n \in 0 .. MaxCalls : \E answered \in {n, n - 1} \cap Nat :
       LET step == Len(log) + 1 IN
       Record(<<AssistantMessage(step, n, "stop")>>
                \o [i \in 1 .. answered |-> ToolMessage(step, i, "ok")])

Compact(keep, c) ==
  /\ c \in Plan(keep)
  /\ kept' = c
  /\ UNCHANGED <<log, tokens, rules>>

\* /compact.
ManualCompact == \E keep \in Keeps : \E c \in Plan(keep) : Compact(keep, c)

\* evaluate_compaction, before a task and between two turns.
WindowCompact ==
  /\ RequestTokens > Threshold
  /\ \E c \in Plan(WindowKeep) : Compact(WindowKeep, c)

\* Between two turns, when old tool results are worth it.
CostCompact ==
  \E c \in Plan(CostKeep) : WorthIt(c) /\ Compact(CostKeep, c)

Next == Rules \/ Task \/ Turns \/ ManualCompact \/ WindowCompact \/ CostCompact

Spec == Init /\ [][Next]_vars

-------------------------------------------------------------------------------
TypeOK ==
  /\ log \in Seq(Message) /\ tokens \in Seq(Weights) /\ Len(tokens) = Len(log)
  /\ kept \in {0} \cup 2 .. Len(log)
  /\ DOMAIN rules \subseteq 1 .. Len(log) + 1 /\ \A p \in DOMAIN rules : rules[p] \in RuleWeights

\* However often a session was compacted, the next cut is one AgentLoop
\* allows, moves on, and leaves a kept region a new process can replay
\* (prepare_compaction).
PlanAllowed ==
  \A keep \in Keeps : \A c \in Plan(keep) : c \in CutPoints(log, kept) /\ Replayable(log, c)

\* What is kept is at most twice the budget: the part that fits and the rest
\* of its first turn, which fits too.  Nothing but the newest segment, and what
\* has no tokens, is kept when it exceeds the budget alone (find_cut_point).
KeptBounded ==
  \A keep \in Keeps : \A c \in Plan(keep) :
    TokensFrom(tokens, c) <= 2 * keep \/ TokensAfter(log, tokens, Starts(log), c) = 0

\* A compaction made to save tokens does: with a summary no larger than assumed,
\* the request for it and the next Remaining requests together send less than
\* those requests would have sent without it (estimate_compaction_cost against
\* what a request then sends).
CompactionPays ==
  \A c \in Plan(CostKeep) : WorthIt(c) =>
    \A new \in 0 .. SummaryOutput :
      SummaryInput(c) + new + Remaining * (SystemTokens + new + TokensFrom(tokens, c))
        < Remaining * RequestTokens

\* No cut is inside a turn that fits the budget or has a call without result
\* (find_cut_point, compaction.py:67 and :117).
TurnsKeptWhole ==
  \A keep \in Keeps : \A c \in Cuts(keep) :
    Messages[c].role = "assistant" =>
      \A u \in PreviousUser(Messages, c) :
        /\ SumFunctionOnSet(MessageTokens, Turn(Messages, u)) > keep
        /\ \A i \in Turn(Messages, u) : ~Incomplete(Messages, i)
===============================================================================
