------------------------------ MODULE ToolHost ------------------------------
(***************************************************************************)
(* Who may do what, with which tools: the registry (tools/registry.py),    *)
(* the catalogue of MCP servers (mcp/catalog.py), the approvals            *)
(* (security.py) and the system prompt that describes the tools            *)
(* (agent/agent.py, context/sections.py), along the life of a session:     *)
(* tasks, /mcp reload, /new.  A connection is what McpClient shows of one: *)
(* it is there or it is not, and closing it leaves nothing of it.  The     *)
(* clients of a prepare() that failed are closed one by one; the close of  *)
(* an installed catalogue is one step: where it fails in the code, it      *)
(* leaves the connections it did not reach in the catalogue.               *)
(***************************************************************************)
EXTENDS FiniteSets, SectionPatch

CONSTANTS
  MaxServers,      \* servers a configuration may name, 1 .. MaxServers
  MaxRuns,         \* tasks
  MaxReloads,      \* /mcp reload
  MaxConnections,  \* servers started
  MaxCalls,        \* tool calls
  MaxChanges,      \* changes of a server's schema, of AGENTS.md
  ReadonlyServers, \* servers whose tool the user lists in readonly_tools
  Modes,           \* permission modes
  InterruptAt      \* where Ctrl+C may land

Points == {"prepare", "discover", "install", "discard", "compact", "begin", "refresh",
           "turn", "approve", "execute"}

ASSUME ToolHostBounds ==
  /\ {MaxServers, MaxRuns, MaxReloads, MaxConnections, MaxCalls, MaxChanges} \subseteq Nat
  /\ ReadonlyServers \subseteq 1..MaxServers
  /\ Modes \subseteq {"workspace", "readonly"}
  /\ InterruptAt \subseteq Points

Servers == 1..MaxServers

\* A connection, and the tool of its server: the schema is the one it was listed with.
Connections == [server : Servers, number : 1..MaxConnections, schema : 0..MaxChanges]

\* The tools of the program itself, one per class of access.
Local(n) == [server |-> 0, number |-> n, schema |-> 0]
ReadTool == Local(1)
WriteTool == Local(2)
ShellTool == Local(3)
LocalTools == {ReadTool, WriteTool, ShellTool}

VARIABLES
  pc,        \* where the program is within a task or a reload
  goal,      \* who called prepare_mcp
  mode,      \* SecurityPolicy.mode
  config,    \* servers configured, each with its tool on the whitelist
  running,   \* ToolRegistry._running
  tools,     \* MCP tools in ToolRegistry._tools
  mcp,       \* ToolRegistry._mcp is there
  ready,     \* MCPCatalog._ready
  clients,   \* MCPCatalog.clients
  identity,  \* MCPCatalog._fingerprint of the catalogue installed last, {} for none
  found,     \* the clients of a prepare() under way
  cause,     \* why a prepare() failed
  live,      \* connections whose server runs
  recorded,  \* catalogues in the session file
  prompts,   \* system messages of the session
  task,      \* the call of a tool under way: its number and the tool
  audit,     \* approvals in the session file
  outcome,   \* how the last task ended
  effects,   \* history: calls of tools that took effect
  offers,    \* schema each server has now
  project,   \* AGENTS.md: 0 none
  stranded,  \* history: connections left behind when a prepare() that failed was cut off
  spent      \* counters of the bounds

registry == <<running, tools>>
catalog == <<ready, clients, identity, found, cause>>
file == <<recorded, prompts, audit>>
outside == <<offers, project, stranded>>
vars == <<pc, goal, mode, config, mcp, registry, catalog, live, file, task, outcome, effects,
          outside, spent>>

NoTask == [number |-> 0, tool |-> ReadTool]
IdentityOf(cs) == {<<c.server, c.schema>> : c \in cs}

TypeOK ==
  /\ pc \in Points \cup {"idle", "left"}
  /\ goal \in {"none", "prepare", "begin", "reload"}
  /\ mode \in Modes /\ config \subseteq Servers
  /\ {running, ready, mcp} \subseteq BOOLEAN
  /\ {tools, clients, found, live, stranded} \subseteq SUBSET Connections
  /\ cause \in {"none", "error", "cancelled"}
  /\ outcome \in {"none", "completed", "error", "cancelled", "raised"}
  /\ effects \subseteq (1..MaxCalls) \X {"read", "write", "approval"}
  /\ audit \subseteq (1..MaxCalls) \X {"allow", "deny"}

Init ==
  /\ pc = "idle" /\ goal = "none"
  /\ mode \in Modes
  /\ config \in {{}, Servers} /\ mcp = (config # {})
  /\ running = FALSE /\ tools = {}
  /\ ready = FALSE /\ clients = {} /\ identity = {} /\ found = {} /\ cause = "none"
  /\ live = {} /\ stranded = {}
  /\ recorded = {} /\ prompts \in {<<>>, <<Legacy>>} /\ audit = {}
  /\ task = NoTask /\ outcome = "none" /\ effects = {}
  /\ offers = [s \in Servers |-> 0] /\ project = 0
  /\ spent = [runs |-> 0, reloads |-> 0, connections |-> 0, calls |-> 0, changes |-> 0]

Spend(what, most) ==
  /\ spent[what] < most
  /\ spent' = [spent EXCEPT ![what] = @ + 1]

-----------------------------------------------------------------------------
\* Registry.close(): the connections go, the registered tools stay.
CloseCatalog ==
  /\ live' = live \ clients
  /\ clients' = {}
  /\ ready' = FALSE

\* A task is over: end_run(), and the registry is closed unless it ended well.
EndTask(how) ==
  /\ pc' = "idle" /\ goal' = "none"
  /\ running' = FALSE
  /\ outcome' = how
  /\ task' = NoTask
  /\ IF how \in {"cancelled", "raised"}
     THEN CloseCatalog
     ELSE UNCHANGED <<live, clients, ready>>

-----------------------------------------------------------------------------
\* MCPCatalog.prepare().

RunTask ==
  /\ pc = "idle"
  /\ Spend("runs", MaxRuns)
  /\ pc' = "prepare" /\ outcome' = "none"
  /\ UNCHANGED <<goal, mode, config, mcp, registry, catalog, live, file, task, effects, outside>>

Ready == ready /\ clients \subseteq live

\* Where the caller of prepare_mcp() goes on; begin_run() freezes the catalogue.
GoOn(who) ==
  /\ goal' = "none"
  /\ pc' = CASE who = "prepare" -> "compact"
             [] who = "begin" -> "refresh"
             [] who = "reload" -> "idle"
  /\ running' = (who = "begin")

\* prepare_mcp(), from AgentSession.run and again from begin_run(): without a
\* catalogue object there is nothing to discover and nothing is recorded.
AlreadyPrepared ==
  /\ pc \in {"prepare", "begin"}
  /\ ~mcp \/ Ready
  /\ GoOn(pc)
  /\ UNCHANGED <<mode, config, mcp, tools, catalog, live, file, task, outcome, effects, outside,
                 spent>>

\* Mutant: the tools of the catalogue before stay registered.
DropOldToolsNever ==
  /\ tools' = tools
  /\ found' = {}
  /\ CloseCatalog

DropOldTools ==
  /\ tools' = {}
  /\ found' = {}
  /\ CloseCatalog

PrepareMcp ==
  /\ pc \in {"prepare", "begin"}
  /\ mcp /\ ~Ready
  /\ DropOldTools
  /\ pc' = "discover" /\ goal' = pc
  /\ UNCHANGED <<mode, config, mcp, running, identity, cause, file, task, outcome, effects,
                 outside, spent>>

\* reload_mcp(): a new catalogue object, also for an empty configuration, whose
\* fingerprint is unknown again.
ReloadMcp ==
  /\ pc = "idle"
  /\ Spend("reloads", MaxReloads)
  /\ config' \in SUBSET Servers /\ mcp' = TRUE
  /\ DropOldTools
  /\ identity' = {}
  /\ pc' = "discover" /\ goal' = "reload"
  /\ outcome' = "none"
  /\ UNCHANGED <<mode, running, cause, file, task, effects, outside>>

Missing == config \ {c.server : c \in found}

\* The next server, in sorted order: approval, start, tools/list.
Discover ==
  /\ pc = "discover"
  /\ Missing # {}
  /\ LET next == CHOOSE s \in Missing : \A t \in Missing : s <= t
         client == [server |-> next, number |-> spent.connections + 1, schema |-> offers[next]]
     IN /\ Spend("connections", MaxConnections)
        /\ found' = found \cup {client}
        /\ live' = live \cup {client}
  /\ UNCHANGED <<pc, goal, mode, config, mcp, registry, ready, clients, identity, cause, file,
                 task, outcome, effects, outside>>

Abandon(why) ==
  /\ pc' = "discard"
  /\ cause' = why
  /\ UNCHANGED <<goal, mode, config, mcp, registry, ready, clients, identity, found, live,
                 task, outcome, effects, outside, spent>>

\* A server that does not start, or whose listing is refused: what the whitelist
\* names is missing, needs a task, holds a credential, has a schema not supported.
DiscoverFails ==
  /\ pc = "discover"
  /\ config # {}
  /\ Abandon("error")
  /\ UNCHANGED file

\* The catalogue is recorded unless this object recorded the same one before.
RecordCatalog ==
  /\ pc = "discover" /\ Missing = {}
  /\ \/ /\ recorded' = IF {IdentityOf(found)} = identity
                       THEN recorded
                       ELSE recorded \cup {IdentityOf(found)}
        /\ pc' = "install"
        /\ UNCHANGED <<goal, mode, config, mcp, registry, catalog, live, prompts, audit, task,
                       outcome, effects, outside, spent>>
     \/ /\ {IdentityOf(found)} # identity
        /\ Abandon("error")
        /\ UNCHANGED file

Install ==
  /\ pc = "install"
  /\ clients' = found
  /\ tools' = {t \in tools : \A c \in found : c.server # t.server} \cup found
  /\ identity' = {IdentityOf(found)}
  /\ ready' = TRUE
  /\ found' = {}
  /\ GoOn(goal)
  /\ UNCHANGED <<mode, config, mcp, cause, live, file, task, outcome, effects, outside, spent>>

\* prepare() has failed: run() and Agent.run close the registry and end the task, the
\* reload command reports; what neither expects ends the task, or the program.
Failed(why) ==
  /\ pc' = IF goal = "reload" /\ why = "raised" THEN "left" ELSE "idle"
  /\ outcome' = IF goal = "reload" THEN "none" ELSE why
  /\ goal' = "none" /\ found' = {} /\ cause' = "none"

FirstFound == CHOOSE c \in found : \A d \in found : c.number <= d.number

\* Mutant: only the client that failed, the last one, is closed.
DiscardLast ==
  /\ pc = "discard"
  /\ live' = live \ {c \in found : \A d \in found : d.number <= c.number}
  /\ Failed(cause)
  /\ UNCHANGED <<mode, config, mcp, registry, ready, clients, identity, file, task, effects,
                 outside, spent>>

\* The except branch of prepare(): one close() after the other.  One that raises, its
\* server gone, leaves those that follow.
Discard ==
  /\ pc = "discard"
  /\ \/ /\ found # {}
        /\ live' = live \ {FirstFound}
        /\ found' = found \ {FirstFound}
        /\ UNCHANGED <<pc, goal, cause, outcome, stranded>>
     \/ /\ found # {}
        /\ live' = live \ {FirstFound}
        /\ stranded' = stranded \cup (found \ {FirstFound})
        /\ Failed("raised")
     \/ /\ found = {}
        /\ Failed(cause)
        /\ UNCHANGED <<live, stranded>>
  /\ UNCHANGED <<mode, config, mcp, registry, ready, clients, identity, file, task, effects,
                 offers, project, spent>>

-----------------------------------------------------------------------------
\* The task, up to its turns.

\* The window check: nothing to do, compacted (the prompt becomes one snapshot), or
\* the task is refused; the connections stay.
AutoCompact ==
  /\ pc = "compact"
  /\ \/ /\ prompts' = IF prompts = <<>> THEN <<>> ELSE <<ReplaySystemMessages(prompts)>>
        /\ pc' = "begin"
        /\ UNCHANGED outcome
     \/ /\ pc' = "begin"
        /\ UNCHANGED <<prompts, outcome>>
     \/ /\ pc' = "idle"
        /\ outcome' = "error"
        /\ UNCHANGED prompts
  /\ UNCHANGED <<goal, mode, config, mcp, registry, catalog, live, recorded, audit, task, effects,
                 outside, spent>>

\* build_sections(): the tools as registered, the project's rules if there are any.
Desired ==
  [id \in {"tools"} \cup (IF project = 0 THEN {} ELSE {"project_context"}) |->
     IF id = "tools" THEN IdentityOf(tools) ELSE {<<0, project>>}]

RefreshSystemPrompt ==
  /\ pc = "refresh"
  /\ \/ /\ prompts' = prompts \o Pending(prompts, Desired)
        /\ pc' = "turn"
        /\ UNCHANGED <<goal, running, ready, clients, live, task, outcome>>
     \/ /\ EndTask("raised")
        /\ UNCHANGED prompts
  /\ UNCHANGED <<mode, config, mcp, tools, identity, found, cause, recorded, audit, effects,
                 outside, spent>>

\* The loop ends: no further call, step limit, budget, failing hook or request; or an
\* exception nobody in it handles.
EndRun ==
  /\ pc = "turn"
  /\ \E how \in {"completed", "error", "raised"} : EndTask(how)
  /\ UNCHANGED <<mode, config, mcp, tools, identity, found, cause, file, effects, outside, spent>>

-----------------------------------------------------------------------------
\* ToolRegistry.execute() and SecurityPolicy.check_tool().

Access(tool) ==
  CASE tool = WriteTool -> "write"
    [] tool = ReadTool \/ tool.server \in ReadonlyServers -> "read"
    [] OTHER -> "approval"

\* The model names a registered tool with valid arguments.  Any other call, and what
\* the mode refuses, is answered without effect.
CallTool ==
  /\ pc = "turn"
  /\ Spend("calls", MaxCalls)
  /\ \E tool \in LocalTools \cup tools :
       /\ task' = [number |-> spent.calls + 1, tool |-> tool]
       /\ pc' = IF Access(tool) = "read" THEN "execute"
                ELSE IF mode = "readonly" THEN "turn"
                ELSE IF Access(tool) = "write" THEN "execute" ELSE "approve"
  /\ UNCHANGED <<goal, mode, config, mcp, registry, catalog, live, file, outcome, effects, outside>>

\* Mutant: an approval that could not be recorded is taken as given.
ApproveUnrecorded ==
  /\ pc = "approve"
  /\ \/ /\ pc' = "execute"
        /\ UNCHANGED <<audit, goal, running, ready, clients, live, task, outcome>>
     \/ /\ audit' = audit \cup {<<task.number, "deny">>}
        /\ pc' = "turn"
        /\ UNCHANGED <<goal, running, ready, clients, live, task, outcome>>
  /\ UNCHANGED <<mode, config, mcp, tools, identity, found, cause, recorded, prompts, effects,
                 outside, spent>>

\* _approve(): the answer is in the file before it counts; without a terminal, or when
\* it cannot be written, the run stops.
Approve ==
  /\ pc = "approve"
  /\ \/ /\ audit' = audit \cup {<<task.number, "allow">>}
        /\ pc' = "execute"
        /\ UNCHANGED <<goal, running, ready, clients, live, task, outcome>>
     \/ /\ audit' = audit \cup {<<task.number, "deny">>}
        /\ pc' = "turn"
        /\ UNCHANGED <<goal, running, ready, clients, live, task, outcome>>
     \/ /\ EndTask("error")
        /\ UNCHANGED audit
  /\ UNCHANGED <<mode, config, mcp, tools, identity, found, cause, recorded, prompts, effects,
                 outside, spent>>

Effect == <<task.number, Access(task.tool)>>

\* Tool.execute(): a local tool has its effect; a call of an MCP tool needs the
\* connection it was listed with, and one that fails there closes the connection,
\* with or without its effect.
Execute ==
  /\ pc = "execute"
  /\ pc' = "turn"
  /\ \/ /\ task.tool \in LocalTools
        /\ effects' = effects \cup {Effect}
        /\ UNCHANGED live
     \/ /\ task.tool \in live
        /\ effects' = effects \cup {Effect}
        /\ UNCHANGED live
     \/ /\ task.tool \in live
        /\ effects' \in {effects, effects \cup {Effect}}
        /\ live' = live \ {task.tool}
     \/ /\ task.tool \notin LocalTools \cup live
        /\ UNCHANGED <<effects, live>>
  /\ UNCHANGED <<goal, mode, config, mcp, registry, catalog, file, task, outcome, outside, spent>>

-----------------------------------------------------------------------------
\* AgentSession.new(): another file and registry, with a catalogue object when servers
\* are configured (for_session, configure_mcp); the old connections are closed.
NewSession ==
  /\ pc = "idle"
  /\ mcp' = (config # {})
  /\ tools' = {} /\ CloseCatalog /\ identity' = {}
  /\ recorded' = {} /\ prompts' = <<>> /\ audit' = {} /\ effects' = {}
  /\ outcome' = "none"
  /\ UNCHANGED <<pc, goal, mode, config, running, found, cause, task, outside, spent>>

\* Ctrl+C, and "cancel" at an approval.  Within a close() it changes nothing; between
\* two of them the rest is not closed.
Interrupt ==
  /\ pc \in InterruptAt
  /\ \/ /\ pc \in {"discover", "install"}
        /\ Abandon("cancelled")
        /\ UNCHANGED file
     \/ /\ pc = "discard"
        /\ stranded' = stranded \cup found
        /\ Failed("cancelled")
        /\ UNCHANGED <<mode, config, mcp, registry, ready, clients, identity, live, file, task,
                       effects, offers, project, spent>>
     \/ /\ pc \in {"prepare", "begin", "turn", "approve"}
        /\ EndTask("cancelled")
        /\ UNCHANGED <<mode, config, mcp, tools, identity, found, cause, file, effects, outside,
                       spent>>
     \/ /\ pc \in {"compact", "refresh"}
        /\ EndTask("raised")
        /\ UNCHANGED <<mode, config, mcp, tools, identity, found, cause, file, effects, outside,
                       spent>>
     \/ /\ pc = "execute"
        /\ EndTask("cancelled")
        /\ effects' \in {effects, effects \cup {Effect}}
        /\ UNCHANGED <<mode, config, mcp, tools, identity, found, cause, file, outside, spent>>

ServerDies ==
  /\ \E c \in live : live' = live \ {c}
  /\ UNCHANGED <<pc, goal, mode, config, mcp, registry, catalog, file, task, outcome, effects,
                 outside, spent>>

ServerUpgraded ==
  /\ Spend("changes", MaxChanges)
  /\ \E s \in Servers : offers' = [offers EXCEPT ![s] = spent.changes + 1]
  /\ UNCHANGED <<pc, goal, mode, config, mcp, registry, catalog, live, file, task, outcome,
                 effects, project, stranded>>

ProjectEdited ==
  /\ Spend("changes", MaxChanges)
  /\ project' \in {0, spent.changes + 1} \ {project}
  /\ UNCHANGED <<pc, goal, mode, config, mcp, registry, catalog, live, file, task, outcome,
                 effects, offers, stranded>>

Next ==
  \/ RunTask \/ AlreadyPrepared \/ PrepareMcp \/ ReloadMcp
  \/ Discover \/ DiscoverFails \/ RecordCatalog \/ Install \/ Discard
  \/ AutoCompact \/ RefreshSystemPrompt \/ EndRun
  \/ CallTool \/ Approve \/ Execute
  \/ NewSession \/ Interrupt \/ ServerDies \/ ServerUpgraded \/ ProjectEdited

Spec == Init /\ [][Next]_vars

-----------------------------------------------------------------------------
\* Properties.

\* A tool that needs an approval has an effect only after the session file holds an
\* "allow" for this very call, and never after a "deny" (SecurityPolicy._approve:
\* recorded before the effect; one answer, one call).
EffectApproved ==
  \A e \in effects :
    /\ e[2] = "approval" => <<e[1], "allow">> \in audit /\ <<e[1], "deny">> \notin audit
    /\ mode = "readonly" => e[2] = "read"

\* In a run the model is offered, by name and in the system prompt that a replay of the
\* session gives, exactly the tools of the catalogue discovered for the configuration
\* in force, and the session file has that catalogue.  A session that began without a
\* server and was not reloaded since has no catalogue object: nothing is configured,
\* offered or recorded (begin_run, prepare_mcp, configure_mcp, prepare,
\* _refresh_system_prompt).
RunCatalog ==
  running /\ pc # "refresh" =>
    /\ tools = clients
    /\ {c.server : c \in tools} = config
    /\ IF mcp THEN IdentityOf(tools) \in recorded ELSE config = {}
    /\ LET prompt == ReplaySystemMessages(prompts) IN
       prompt.kind = "sections" /\ prompt.sections["tools"] = IdentityOf(tools)

\* Between tasks every server that runs belongs to the catalogue, so that close() still
\* reaches it, nothing runs after a task that was cancelled or raised, and the
\* registry is not left frozen.  The exceptions are the servers left behind when the
\* closing of a failed prepare() was itself cut off, by Ctrl+C between two of its
\* close() or by one that raised (MCPCatalog.prepare and close, end_run).
NothingStray ==
  pc \in {"idle", "left"} =>
    /\ live \subseteq clients \cup stranded
    /\ outcome \in {"cancelled", "raised"} => live \subseteq stranded
    /\ ~running
=============================================================================
