# TLA+ models of mini-pi

mini-pi is a terminal coding agent: a serial loop that asks a language model,
runs the tools it calls, records every message in a session file and compacts
its context when it grows. This directory models the parts of it in which order,
interruption and failure decide whether it is correct. Paths below are relative
to `src/mini_pi/` of the repository, line numbers are those of the modelled
commit; `PROJECT.json` maps every definition to its lines.

## 1. Inventory

| Component | State | Operations | Interacts with | What makes it correct |
|---|---|---|---|---|
| Agent loop `agent/loop.py`, `agent/agent.py`, `agent/state.py`, `agent/events.py` | messages, step count, budget of the run, the tool batch | `Agent.run`, `run_loop`, `_execute_tool_calls`, the fillers of unexecuted calls | provider (stream), registry (execute), session (commit), host (events, Ctrl+C) | every call gets exactly one result; events come in pairs; the end reason is what happened; no request exceeds the budget |
| Saved session runtime `session/runtime.py` | the loop's state and the session object | `run`, window and cost compaction, `/compact`, `resume`, `new`, `set_llm` | loop (commit, hook between turns), session file, planning, summarizer | memory and file agree; a failed compaction changes neither |
| Context projection `context/projection.py` | none (pure) | entries to messages; pair validation | runtime, session file, planning | what a resume rebuilds is what the process had |
| Session file `session/jsonl.py`, `session/models.py` | lines; entries, index and leaf in memory | create, append of four kinds, load, replay, list, latest | file system | an acknowledged append is found again; a bad file is refused |
| Compaction planning `context/compaction.py` | none | `find_cut_point`, `prepare_compaction` | runtime | no batch is split, turns that fit stay whole, the kept part is bounded |
| Compaction policy and cost `context/policy.py`, `context/cost.py` | none | threshold, estimate, decision | runtime | arithmetic at the boundaries |
| Summarizer `context/summarizer.py`, `context/serializer.py` | none | one model call, bounded input | provider | nothing is written when it fails |
| Token estimates `context/tokens.py`, `request.py`, `stats.py`, `session/usage.py` | none | estimates, usage report | loop, runtime | – |
| System prompt sections `context/sections.py`, `project.py`, `agent/prompt.py` | none | diff, apply, replay | agent | replay of snapshot and patches gives the wanted sections |
| Tool registry and approvals `tools/registry.py`, `security.py`, `interaction.py` | tools, running flag, policy | execute, validate_batch, prepare, reload, approve | loop, MCP, LSP, host | an approval is durable before the effect; the catalog is frozen in a run |
| MCP client and catalog `mcp/` , `tools/mcp.py` | child server, event loop thread, pending requests, changed flag | start, list, call, cancel, close; prepare, reload | registry | no call is replayed; no change is lost; no process is left |
| LSP client `lsp/client.py`, transport `lsp/transport.py` | open documents and versions, reports, child server | synchronise, locations, diagnostics, close | tools, disk, server | a report returned as fresh is about the disk as it is |
| Bounded processes `tools/process.py` | child, process group, pipes, threads | run with limit, kill, drain, close | bash and git tools, Ctrl+C | nothing is left running; output is complete and one's own |
| File tools `tools/edit.py`, `write.py`, `read.py`, `search.py`, `workspace/` | files | atomic write, edits | disk | old or new text, never a mixture |
| Provider clients `llm/` | stream buffers | stream with retry, accumulate | loop, summarizer | a retry only before the first event; calls reassembled by index |
| Command line `cli/app.py` | interrupt streak, last end reason | prompt loop, one-shot, exit codes | runtime | two interrupts in a row exit; exit code = end reason |
| Terminal display, configuration and credentials | – | – | – | – |

One thread runs the agent. Concurrency comes from four places: Ctrl+C, which
may raise between any two bytecodes; the disk and the life of the process; the
threads that drain pipes; and the servers and commands behind those pipes. The
hazards are listed with their lines in `PROJECT.json`, those that no property
covers yet with the reason.

## 2. Plan

Done, in this order:

1. `Transcript`, `AgentLoop`, `MCAgentLoop`: messages, loop and saved session;
   proofs in `AgentLoop_proofs`.
2. `DurableLog` (what a session file promises), `JsonlSession` (implements it),
   `JsonlSession_proofs`.
3. `LspClient`, `BoundedProcess`, `CutPoint`.
4. `AtMostOnceCall` (what a call of an external server promises), `McpClient`
   (implements it).
5. `SectionPatch` (diff, apply and replay of the system prompt), `ToolHost`, which
   composes it with the registry, the catalogue and the approvals.
6. `SessionStore` (several files, several processes), `PromptLoop`, which composes
   it with the command line and auth.json.
7. `LlmStream`; the cost of a compaction in `CutPoint`.
8. `LspClient_proofs`, `ToolHost_proofs` (with the facts about `SectionPatch`),
   `PromptLoop_proofs`, `McpClient_proofs`, and the end-reason, event and budget theorems of
   `AgentLoop_proofs`.
9. The effects of a crashed or stopped run (`AgentLoop_proofs`); `BoundedProcess_proofs`;
   the branches of a session file and the refinement of `DurableLog`
   (`JsonlSession_proofs`); `CutPoint_proofs`; the catalogue and the prompt of a run
   (`ToolHost_proofs`); session files that processes share and the exit code of a task
   (`PromptLoop_proofs`); the documents kept open (`LspClient_proofs`).

10. `Conversation` (what an agent promises of its messages and effects), which
    `AgentLoop` implements, and what follows from it; the bound on the steps of a run;
    `LlmStream`'s ids and messages, and that they are replies `AgentLoop` reckons with
    (`AgentLoop_proofs`); the acknowledged entries of a file whatever its texts
    (`JsonlSession_proofs`).

Not done: a composition of `AgentLoop` over `JsonlSession` in place of its one-step
commit. `SessionKeepsPromise` shows what one append does to the file, and
`AgentLoop` has the same three outcomes of it (done, failed, done but interrupted
before memory follows); the state space of the two together is past what a run
of minutes covers, and the one thing it would add, what a failed append leaves
in the file, is the subject of `JsonlSession`.

The project keeps to a dozen runs, so that checking everything stays a matter
of minutes. A run of a composed module takes the place of those of its parts:
`ToolHost` extends `SectionPatch`, `PromptLoop` extends `SessionStore`.

How the modules fit together: `PromptLoop` starts tasks and takes from
`AgentLoop` the ways they end; `AgentLoop` commits with the effect
`JsonlSession` shows of one append, compacts at a cut `CutPoint` shows to be
among `CutPoints`, gets replies as `LlmStream` shows they come (`RepliesFit` proves this interface), and runs tools
the way `ToolHost` allows; `ToolHost` uses connections as `McpClient` shows
them; `BoundedProcess` and `LspClient` are two tools. The interfaces are the
assumptions named in the headers of the modules; they are not composed in one
state space.

## 3. Modules

### Transcript

Messages reduced to what the tool-call protocol tells apart, the pair
validation, the projection of a compacted log and the positions at which a
compaction may cut. Call ids are pairs ⟨step, index⟩: the step counter makes
them unique in the model, as the pair validation of a resume requires of the ids of
a session. When ids do collide is `LlmStream`'s matter (`IdsOwn`, and the deviations of
section 4).

### AgentLoop

`AgentSession.run`, `Agent.run` and `run_loop` as one state machine; `pc` is the
statement the thread is at, and each action is the code from one point at which
something can interfere to the next.

| Model | Code |
|---|---|
| `log`, `saved`, `kept`, `rulesLog` | message entries of the active path, `stepCount` of the last, `firstKeptEntryId` of the latest compaction, recorded system prompt |
| `mem`, `step`, `rules` | `AgentState` |
| `steps`, `used`, `warned`, `predicted`, `last`, `attempted` | locals of `run_loop`, `_RunInputBudget`, `RunContext` |
| `batch`, `next`, `rejected`, `result`, `filling` | locals of `_execute_tool_calls` and the fillers |
| `outcome`, `reason`, `turnOpen`, `toolOpen` | how `run()` ended and the events the host has seen |
| `effects`, `interrupted` | history |

`Interrupt` is Ctrl+C outside a commit, with the handler of the point it lands
at; `InterruptedCommit` is one between the durable and the in-memory half.
`CommitFails` is a `SessionError`. `RefreshSystemPrompt` commits a snapshot or a patch
of memory's rules when the wanted ones differ from those in memory; over a file that
holds other rules, after an interrupted commit, the patch gives a mixture or one that no
longer replays (`Recorded`, `Unreplayable`). `Crash` and `Resume` are the end of the
process and `--resume`. `Compact` keeps from any of `CutPoints`; `CutPoint`
shows that the planner chooses among them.

### Conversation

What `AgentLoop` promises, without its steps: messages, the part that
compactions keep, and the calls whose tool acted. One call is due at a time; it
acts, once, and is answered as what became of it; `After` says which answer may
follow which, so a batch that was rejected, cut off or stopped is answered the
same way to its end. Something is said, by the user or the model, when no call is
due, or at any time if the host may abandon a reply (`MayAbandon`). `AgentLoop`
implements it with its own `log`, `kept` and `effects` and with `MayAbandon` where
interrupts and failing writes are not confined to the guarded points (`Guarded`).

### CutPoint

`find_cut_point` as operators on message sequences (segments, walk from the
newest, correction to a whole turn), `prepare_compaction`, and a session that
grows turn by turn, gets a new version of the system prompt between turns, and is
compacted repeatedly: by `/compact`, when the window
is short, or when `cost.py` finds it worth it (`WorthIt`: share of tool results,
saving per request, cost of the summary). Batches may lack their last
result: `find_cut_point` handles them although the projection refuses them
afterwards (`Plan` asks for `Replayable`). Positions are those of the log's entries,
with gaps where the projection left entries out: `rules` gives the system
entries in front of a message, which belong to no segment of their own and are folded
into one snapshot by the projection. A message may weigh nothing.

### DurableLog, JsonlSession

`JsonlSession` has the file as a sequence of lines (an entry, how far its write
got, and whether its text holds a line separator that JSON does not escape) and
the object that appends. `AppendFails` leaves none, part or all of a line and
the object as it was; `DieInAppend` and `PowerFailure` end the process; `Load`
is the strict loader. `DurableLog` says what that amounts to for a user of the
file, and `PromiseKept` is the refinement.

### LspClient

The documents of the client, its reports, one query at a time, edits of the
disk at any moment. The server answers from the documents as the client last
sent them; its messages wait in an ordered pipe, which only a query reads. A
report carries, as history, the texts it was computed from. A server that
computes late is covered by one whose messages wait: the client cannot tell
them apart, except that a report would then be of newer texts, not older ones.

### BoundedProcess

Commands one after another, each a child in its own group, descendants that
fork, redirect or end at any time and, with `MayEscape`, leave the group; one
pipe and one reader thread per command (stdout and stderr are alike). The two
one-second joins are modelled by what they wait for: the first may give up at
any time, the second is taken to be long enough for a thread whose pipe nobody
holds any more (`CloseDrained`).

### AtMostOnceCall, McpClient

Three parties: the host thread (`pc`), the event-loop thread (`link`, `future`,
`pending`) and the server with its group (`server`, `family`), joined by two
pipes. `list_tools` clears `changed` before it asks and a listing has pages, so
that the server may change its catalogue between two of them; `seen` is the
oldest catalogue read. A time limit (`TimesOut`) may strike while the answer is
in the pipe. `Close` stops the loop, then kills the group; a loop still in its
handshake does not look at the stop event, and `CloseGivesUp` is the error that
follows. `AtMostOnceCall` is the promise to the caller, under the mapping "the
operation in progress is open until the host thread is idle".

### SectionPatch, ToolHost

A mapping of sections is a function, a patch a set of operations, one per
section. `ReplaySystemMessages` folds the history with a recursive function.
`ToolHost` has the life of a session's tools: `PrepareMcp`, or `AlreadyPrepared` where
`prepare_mcp` returns at once because the catalogue is ready or there is no catalogue
object (`mcp`: a session that began without a server); one `Discover` per
server, `RecordCatalog` (durable, may fail), `Install`, and `Discard`, which closes the
clients of a failed discovery one by one and may be cut off between two; `RunTask`,
`AutoCompact`, `RefreshSystemPrompt`, calls with their approval (`Approve`
records, then `Execute` acts), `ReloadMcp`, `NewSession`; servers that die or
change their schema and an edited AGENTS.md in between. `Interrupt` has the
handler of the point it lands at. A connection is there or not: what closing
one leaves is `McpClient`'s matter. The close of an installed catalogue is one step:
where it is cut off in the code, the connections it did not reach are still the
catalogue's, and the next close finds them.

### SessionStore, PromptLoop

The session files of a workspace as several processes see them: every process
appends after its own leaf, `latest` is what `--continue` picks, `Listed` is the
strict listing. `PromptLoop` has the processes: start (fresh, `--resume`,
`--continue`, a question for a missing key), one task or a prompt loop, `/new`,
`/compact`, `/model`, Ctrl+C, exit codes; and auth.json, read and then replaced
as a whole (`Save`, `Replace`). `last_end_reason` is the renderer's, which only
AgentStart resets.

### LlmStream

One streamed request: refused, retried, answered piece by piece, broken off.
A piece of text is counted; a call is its index, whether it has a name, the id
it has so far and whether its argument pieces make up a JSON object. An id is any
member of `Ids`: none, one of `OtherIds`, or `call_<index>`, which the client makes up
for a call without one and a provider may send as well.
`phase` is where the generator stands, `acc` its accumulator, `sent` and `shown` what came
and what the user saw. Its specification (`StreamInit`, `StreamNext`, `StreamSpec`) has names
of its own because `AgentLoop_proofs` extends it next to `AgentLoop`, to prove that the
messages of one are replies of the other.

## 4. Runs

Passing runs:

| Run | Instance | Shows |
|---|---|---|
| `pairing` | 2 tasks, 1 request each, up to 2 calls, 1 crash; Ctrl+C and failing writes at every guarded point, inside the commits that leave no call open too; all four ways to compact | types, pairing at rest, refused resumes are the documented ones, end reasons, event pairs, refinement of `Conversation` |
| `unguarded` | 1 task of 2 requests, up to 2 calls, 2 rule versions, 1 crash, budget 6, reported usage 1 above the prediction; Ctrl+C (between the halves of a commit excepted) and failing writes everywhere | memory is what a resume would rebuild; no call acts twice, at most one unrecorded effect; unexecuted calls had none; no request exceeds the budget; a run ends |
| `cut_point` | logs of 5 messages, weights 1 and 3, the first system entry and one more of weight 0 or 2, 2 calls, budgets 2, 4, 6, threshold 6, 3 requests to come | cuts allowed, bounded, turns whole; a compaction made for its cost pays |
| `session_file` | 4 appends, 2 ends of the process, all kinds of partial writes | tree, branches, refinement of `DurableLog` |
| `lsp` | 3 files, 2 documents, 3 texts (one unreadable), 1 edit, 1 message in the pipe, pulling and pushing servers | an answer is fresh in its own text, a pulled one in all open files; queries end |
| `process` | 2 commands, 2 descendants each which may leave the group, limit, Ctrl+C while waiting and cleaning up | nothing of the group left, output own and complete, the command returns |
| `mcp_client` | 3 operations, 4 requests, 2 catalogues, 2 messages in the pipe, 2 Ctrl+C, junk, forks and exits of the server | no call carried out twice or late (refinement of `AtMostOnceCall`), no change missed, nothing left running, operations end |
| `tool_host` | 2 servers or none, 2 tasks, 1 reload, 3 connections, 2 calls, 1 change of a schema or of AGENTS.md, both modes, Ctrl+C at all points of the model, those between two closes included | effects are approved; a run has the recorded catalogue (or, without a catalogue object, no server at all) and the prompt that describes it; no server astray but those a cut-off closing left behind |
| `prompt_loop` | 2 terminals, one of them with a prompt loop, 3 launches, 2 files, 4 entries, 2 providers, one with its key in the environment | two Ctrl+C at the prompt to leave, exit code 0 only when answered, sessions stay trees, keys kept |
| `llm_stream` | 2 requests, 1 retry, 2 call indexes, 4 pieces, ids `call_0`, `call_1` and another one | the committed message is the answer to one request and what the user saw; two calls share an id only in the ways `IdsOwn` names |

Why these bounds: a batch needs two calls for one to be answered and one not;
a second task shows what the first left behind; one crash and one resume show
what the file holds, the model having no other memory of the past. Four appends
are a branch, a compaction and something after it. Two files are the target and
its dependency, a third one is refused by the limit. Two commands
are one whose descriptor is closed and one that gets its number. Five messages
hold a turn with a batch of two results and the task before or after it; a second
system entry is one in mid-log, between two tasks. Three operations are a listing, a call and
one more after a failure; four requests leave one of them a second page. Two
servers are one discovered and one that fails after it, or one that is closed and
one that is not reached; three connections discover both and one of them again. Three launches are two processes on one file and one that
resumes what they left; a prompt loop in one of two terminals is enough because
the other, with one task, writes to the same files and keys. Four pieces are two
calls of two pieces each, an id that comes with the second included. Counters that the code does
not bound (runs, crashes, edits, entries) are bounded by the constants marked
*bound* or, in `McpClient` and `ToolHost`, by all of those named Max….

Deadlock is not checked: all these systems may stop where their bounds are
used up or the host asks for nothing more.

Runs that find a violation of what a document says (details, with quotations,
under `findings` in `PROJECT.json`):

| Run | Violated | In short |
|---|---|---|
| `reply_interrupted` | `PairedAtRest` | Ctrl+C while MessageEnd is emitted, after the commit (`agent/loop.py:296`) |
| `separator_in_text` | `LoadableAfterAppend` | U+2028 in a text (`session/jsonl.py:171`) |

Other places where code and text disagree were met while modelling. They are
behaviours of the models (the configuration that shows each is given), and the
passing runs leave them out where a property depends on it:

- Ctrl+C in the commit or the event of a result (`agent/loop.py:345-346`, outside the
  `try` of the call) leaves the run without `AgentEnd` and the rest of the batch
  unanswered; the docstring of `run_loop` promises both (`reply_interrupted`
  with `InterruptAt = {"end"}`).
- A result that cannot be written leaves the batch open in the file
  (`agent/loop.py:345`); `README.md:390` says the session can be resumed (`reply_interrupted`
  with `InterruptAt = {}` and `FailAt = {"observe"}`).
- Ctrl+C between the append of a compaction and the replay
  (`session/runtime.py:522`) has written although the comment at
  `agent/loop.py:262` says it has not (`unguarded` with `SplitAt <- Points`).
- A first append that was written but not acknowledged leaves a second root
  (`session/jsonl.py:438`), and one written in part is glued to the next
  (`session/jsonl.py:452`): `load` refuses both files (`separator_in_text` with
  `Texts = {"plain"}` and `Ends = {"whole", "torn"}`).
- A server that publishes between two `didChange` messages has its report of
  mixed texts accepted (`lsp/client.py:313-314`) for files that did not
  change, too.
- Ctrl+C in the joins after the child ended (`tools/process.py:150`) leaves its
  descendants running, which the comment at lines 145-146 excludes (`process`
  with `InterruptAt = {"drain"}`).
- A report of a file that did not change may be from before a file it depends
  on did: the push is accepted by its version (`lsp/client.py:263`).
  `OwnTextFresh` therefore speaks of the file's own text, and
  `PulledReportsFresh` of answers to a request.
- A reader thread that outlived its command, because a descendant left the
  group, may read a descriptor number that was closed and given to the next
  command's pipe (`tools/process.py:157`, `200`). `OwnOutputOnly` is about
  commands whose descendants stayed in the group.
- The docstring of `find_cut_point` (`context/compaction.py:68`) states the rule
  for cuts inside a turn the wrong way round; the code (111-119) is modelled.
- Ctrl+C in `list_tools` between the clearing of `changed` and the guarded wait
  (`mcp/client.py:405`, `323-331`) forgets a change that was announced
  (`mcp_client` with `InterruptAt = {"submitting"}` violates `ChangeNoticed`), and
  in the wait of `_cancel` (`mcp/client.py:356`) it leaves the request under way,
  to be carried out after its operation ended (`{"cancelling"}` violates
  `CallsCarriedOutOnce`). The callers, the catalogue and `Agent.run`, close the
  connection right after (`ToolHost!Interrupt`), which bounds both.
- `last_end_reason` survives a run that raised before AgentStart
  (`cli/app.py:835`): after an earlier cancelled one, a single Ctrl+C leaves
  the program. `TwiceToExit` names the exception (`stale`).
- Ctrl+C while `/compact` or `/model` waits is caught nowhere in the prompt loop
  and ends the program (`EndCompact`, `EndModel`).
- Two processes that start from an empty session file both write a first entry
  without a parent; `load` then refuses the file (`session/jsonl.py:438`).
  `ResumesWork` leaves files in `sharedEmpty` out.
- A header that could not be written leaves a file that makes every listing, and
  `--continue`, fail until it is removed by hand (`session/jsonl.py:444`, `482`).
- Two processes that save a key at once lose one of the keys
  (`auth.py:91-105`); `KeysKept` excuses keys in `raced`.
- A reply cut at its length limit whose last call has incomplete JSON becomes an
  error and ends the run, because the calls are parsed before the finish reason
  is looked at (`llm/openai_client.py:212`); the loop's own handling of
  truncated replies (`agent/loop.py:225`, `docs/plans` phase 1) is reached only
  when the arguments are whole or absent.
- An answer that ends without a finish reason counts as complete: a call whose
  arguments had not begun to arrive is executed with none (`Built`,
  `StopReason`).
- A call without an id gets `call_<index>` (`llm/openai_client.py:183`). These repeat from
  one reply to the next, and one equals the `call_1` a provider sends for another call;
  a provider may also repeat its own. The pair validation of a resume refuses the
  second of two equal ids (`context/projection.py:113`). `IdsOwn` names these three cases
  and excludes every other; the other modules take the ids of a session to differ.
- When a discovery fails, the clients already started are closed one after the other
  (`mcp/catalog.py:127-130`): Ctrl+C between two closes, or one that raises, leaves the
  rest running, and no object refers to them any more. `NothingStray` excuses these
  connections (`stranded`) and no other.
- A session that began without MCP servers has no catalogue object and records no
  catalogue, not even an empty one (`tools/registry.py:39-41`, `47`), whereas `/mcp reload` to
  an empty configuration records one. `RunCatalog` has both cases.
- Ctrl+C between the durable half of a system prompt and the half in memory
  (`agent/state.py:38`): the next task records the same change again, as a patch of the
  rules memory has. When that deletes a section twice, `--resume` refuses the file
  (`context/sections.py:117`), although no batch is open. `pairing` has one version of the
  rules, where the second record is the same snapshot; with `MaxRules = 2` and
  `MaxRuns = 3` it violates `RefusedOnlyMidBatch`.
- Ctrl+C between the halves of any other commit leaves memory without a message the
  file has (`agent/state.py:38`); `MemoryMatchesLog` is checked without it (`unguarded` with
  `SplitAt <- Points` violates it), pairing and the refinement of `Conversation` with it.

## 5. Fairness

`AgentLoop!FairSpec`: the one thread goes on (`RunStep`); every wait in it, on
the provider or a tool, has a time limit or ends with Ctrl+C, and the tools'
limits are the subject of the other modules. Nothing is assumed of the user or
the disk. `LspClient!FairSpec`: the client's own steps go on and the deadline,
a monotonic clock, passes; the server may be silent or publish for ever.
`BoundedProcess!FairSpec`: the program and its threads go on; the processes may
run for ever. `McpClient!FairSpec`: the two threads go on and a time limit that
keeps applying is applied; the server owes nothing. The other modules state no
liveness: what they wait for is the user, the provider (whose limits are
`AgentLoop`'s) or a server.

## 6. Proofs

All theorems hold for every value of the constants allowed by the modules'
named assumptions.

- `AgentLoop_proofs!TypeCorrect`: `TypeOK` is inductive; one lemma per shared
  effect (`CommitTypes`, `CompactTypes`, `FinishTypes`, ...), one step per action.
- `AgentLoop_proofs!MemoryFollowsFile`: with no Ctrl+C inside a commit (`SplitAt = {}`),
  `MemoryMatchesLog`. Inductive with the type invariant: every action changes
  file and memory by a commit, a compaction, a new rule version or not at all
  (`StepKinds`), and the projection of one more message is one more message
  (`ProjectionAppend`).
- `AgentLoop_proofs!EventsAlwaysPaired`, `EndReasonsFaithful`, `BudgetKept`: for
  every `InterruptAt`, `FailAt` and `SplitAt`. `EventsPaired` is made inductive by
  where a turn and a tool may be open (`EventsInv`), `EndReasonFaithful` by where
  an interrupt may have been seen and that the reply in hand is the last message
  (`ReasonInv`), `WithinBudget` by the prediction of the request in flight
  (`BudgetInv`).
- `AgentLoop_proofs!CallsAlwaysPaired`, `KeptRegionSound`, `RefusalJustified`,
  under `Guarded`: no Ctrl+C and no failing write where it leaves a batch open, but
  Ctrl+C between the two halves of a commit of the user's message, a prompt, a
  compaction before a task, between turns or for cost (`reply_interrupted` and the
  deviations listed in section 4 show that it is needed). `PairedAtRest` says
  nothing of the points inside a batch; `PairingInv` adds that there the log is
  paired up to the batch's reply and followed by the results of its first calls in
  order (`BatchInv`), that steps only grow, across restarts too (`StepsInv`), and
  that cuts are not at tool messages (`KeptInv`). `RefusalJustified` needs `RulesWhole` as well: that a Ctrl+C inside the commit of the system
  prompt finds no second version of the rules, so that memory has the file's rules or
  none (`RulesInv`); section 4 shows what happens otherwise. `KeptRegionSound`, that what
  compactions kept passes the pair validation, is proved only: a run has it as the
  guard of `Conversation!Compact`.
- `AgentLoop_proofs!EffectsAlwaysRecorded`, `UnexecutedAreHarmless`, for every
  `InterruptAt`, `FailAt` and `SplitAt`: an effect without its result in the file is
  that of the call in hand, and a result that says a call was not executed is of
  a call without effect. `EffectsInv` adds which calls have been asked for when a
  batch is in hand (`CallsInv`), how far its effects got compared with the results
  recorded (`BatchEffects`), and which results it has (`BatchResults`); a later
  step's calls are new, across restarts too.
- `AgentLoop_proofs!AgentConverses`: the refinement of `Conversation`, for every
  `InterruptAt`, `FailAt` and `SplitAt`. `TalkInv` is `EffectsInv` with what is at hand
  inside a batch, the reply and as many results after it as calls were dealt with
  (`HandInv`), and with what the last message says of the call before (`NotesInv`); so
  exactly the call in hand is due (`Conversation!Due`). When something is said
  `PairingInv` gives that no call is due, under `Guarded`; without it the promise
  allows to abandon a reply. A compaction keeps whole batches because only a
  log that replays is compacted, and what follows a cut there at no result replays.
- `AgentLoop_proofs!AnswersAreHonest` is about `Conversation` alone (`HonestStep`), so by the
  refinement about every session: a result is due when it is given, so its call
  was asked for and not answered before.
- `AgentLoop_proofs!RunsAreFinite`: `Fuel` is what the turns to come may cost and
  what is left of this one; every step of a run lowers it or ends the run
  (`FuelFalls`), the handlers of interrupts and failing writes included. It needs that a
  batch has no more than `MaxCalls` calls and that a turn under way was counted
  (`FuelInv`).
- `AgentLoop_proofs!RepliesAreSent`, `IdsDiffer`, `RepliesFit` (about `LlmStream`): what
  was gathered of an answer is what was sent of it (`Gathered`), so the message
  is, its calls in ascending order of their indexes (`Sorted` proves that the order
  `InOrder` chooses exists). An id committed is the one the provider sent last for its call or made
  up of the call's index, and within one stream indexes differ (`IdsInv`); two calls
  with the same id are then one of the three cases `IdsOwn` names, whatever strings the
  provider sends. With at most
  `MaxCalls` indexes a committed message is one of `AgentLoop`'s replies.
- `JsonlSession_proofs!TypeCorrect`, `LinesChained`: `ParentsEarlier` with the
  facts that ids in the file are ids already given out and that the leaf of a
  running process is in the file (`ChainInv`).
- `JsonlSession_proofs!CheckpointsKeepTheirBranch`: `KeptOnBranch`. It rests on what
  the path to the root is (`Path` is a recursive function; its facts,
  `PathGrows`, `PathIsSeq`, `SamePath` and others, are proved by taking the least
  entry that lacks them) and on what object and file have in common: the
  object's entries are a tree and lines of the file (`ObjectInv`), the lines
  after its leaf are appends that failed on it (`LeafInv`), and all that was
  written after the last acknowledged line hangs on it (`TailInv`).
- `JsonlSession_proofs!SessionKeepsPromise`: the refinement of `DurableLog`, step by
  step, when no text holds a line separator (`Texts \subseteq {"plain"}`, which
  `separator_in_text` shows to be needed). Whole or torn writes, failures and
  crashes are all admitted.
- `JsonlSession_proofs!AcknowledgedAreKept`: what `DurableLog` promises of acknowledged
  entries, without its condition on the texts: a separator makes a load refuse the
  file and takes nothing back. Each step leaves the path, adds to it, or puts something
  else after what was acknowledged (`LogStep`).

- `LspClient_proofs!DocumentsBounded`: `TypeOK`, where the limit on open documents
  rests on the place a query found when it was asked and still has when it opens
  its document (`AskedOK`). `OwnTextAlwaysFresh`, `PulledAlwaysFresh`: `LspInv` adds what the
  answers rest on: a report with a version of an open document is of its text, a
  response in the pipe is the only one, belongs to the query that waits and was
  computed from the documents as they are, and a query at its last check has
  compared them with the disk.
- `ToolHost_proofs!DiffApplicable`, `DiffApplied`, `PendingReplayed`: for any
  mappings, so for any prompt. A history replays one message after the other
  (`ReplayAppended`), so what replayed before a step and the message the step
  records give the prompt after it: `PromptAlwaysReplays`, by `PromptInv`.
- `ToolHost_proofs!NothingIsStray`: every connection alive is that of the
  catalogue, of the `prepare` under way, or stranded (`OwnedInv`). `RunOffersCatalog`:
  the tools registered are those of the catalogue installed, it was recorded before
  unless there is no catalogue object and no server configured (`CatalogInv`), and the prompt recorded with it replays to the one in force
  (`PromptInv`). `EffectsAreApproved`: calls are numbered, one that was not yet
  asked about is not in the file, and only an allowed one gets as far as its
  effect (`ApprovalInv`).
- `PromptLoop_proofs!KeysStaySaved`: a draft of auth.json holds what its process
  read (`KeysInv`). `SecondPressExits`, an action property: a streak was pressed
  or is stale (`PressInv`). `SessionsResume`: in a file one process had at a time that
  process stands at its end and every entry follows the one before (`Line`), and in
  one that was not shared empty only a process alone on an empty file would write
  a root (`Rooted`). `SuccessHasAnswer`, an action property: a process that was given
  a prompt does nothing but work on it, between its steps every call on its branch is
  answered or it is in a tool at the end of the branch (`TaskOK`), and what others
  append changes no path (`PathStays`).
- `McpClient_proofs!CalledAtMostOnce`: the refinement of `AtMostOnceCall`, under
  `Guarded` (Ctrl+C in neither of the two places of section 4, without which the
  server may carry out a call after its operation). What is in the server's stdin
  outlives the operation, so `CallInv` says that every request there has an
  identifier no answer on its way has (`Apart`), that a call among them is the last
  request, of the operation that goes on, and not carried out yet (`OneCall`), and
  that nothing is left of it once the server was killed (`Unwritten`). `CallMapped`
  maps the steps. `NothingIsLeft` under the same condition, by what is known of the
  server at each point of the host thread (`LeftInv`). `ChangeIsNoticed`: the pages
  read, and the answer awaited wherever it is, are of the server's catalogue unless
  a notice is under way (`NoticeInv`); that the awaited identifier is new is `Apart`.
- `BoundedProcess_proofs!GroupAlwaysGone`, when Ctrl+C lands where the code guards
  against it (`Guarded`; elsewhere the deviation of section 4), for any number of
  commands and descendants: a descendant that did not leave is in the group of
  its command and dies with it, nothing joins an empty group, and a command was
  stopped by a kill (`GroupInv`, `StoppedInv`). `OutputIsOwn`: unless a descendant
  left the group, a thread reads its own pipe until that is closed and then ends
  (`ThreadInv`). `OutputAlwaysComplete`: a thread ends when its pipe is empty and
  without writers, and such a pipe stays drained (`OutputInv`, `DrainedStays`). The
  last two hold wherever Ctrl+C lands.
- `CutPoint_proofs!PlansAllowed`, `TurnsStayWhole`, `KeptIsBounded`,
  `CompactionAlwaysPays`: of any log the type invariant allows (`TypeCorrect`), for
  all weights, budgets and estimates. The invariant adds to the types that system
  entries stand in front of a task or after the last message (`RulesBeforeTasks`), so that
  none is inside a batch or a turn. The lemmas are about sums over finite sets
  (`SumUnion`, `SumMonotone`, `SumZero`, `SumDoubled`), about the projection (which position is
  which entry: `Places`, `EntryOf`, `SameBatch`) and about
  `find_cut_point`: what it walked back to (`WalkedBackIs`), that nothing is
  incomplete in a projection that replays (`NoneIncomplete`), and that the segments of the
  projection are those of the log (`SameStarts`). Twice the budget is the part
  that fits and the turn before it, which fits too (`BoundedHere`); the exception is a
  first segment that holds all the tokens that are kept.
  The inequality of `CompactionAlwaysPays` needs no bound on the requests to come.

Out of the prover's reach, and model-checked only: the four liveness properties
(`RunEnds`, `QueryEnds`, `CommandEnds`, `OperationsEnd`). `RunsAreFinite` is the
part of `RunEnds` that is no matter of fairness; the rest is that a run has a
step to make, which is a matter of ENABLED.

## 7. Not modelled

Texts, prompts, rendering, argument schemas and their validation, token
estimates (messages have weights), exceptions that are defects of the program,
sessions without a file, `/reset`, the directory that holds the session files.
The file tools replace one file in one call through a temporary one; a model of
that would only restate that a rename is atomic. `edit` counts occurrences
without overlaps (`tools/edit.py:50`), which no property here is about. An
exception of the provider's library that is not one of its own error classes
leaves `stream` without an event (`LlmStream!Leave`) and the run without
AgentEnd; `AgentLoop` has it only as Ctrl+C at that point. The components marked
`not_modelled` in `PROJECT.json` give their reason there.
