---------------------------- MODULE ToolHost_proofs ----------------------------
(***************************************************************************)
(* What an approval, a catalogue and a closed registry promise, for any    *)
(* number of servers, tasks, calls and changes, and what the patches of    *)
(* the system prompt promise, for every two mappings from sections to      *)
(* content and along every session.                                        *)
(***************************************************************************)
EXTENDS ToolHost, WellFoundedInduction, TLAPS

-----------------------------------------------------------------------------
(* Connections.  Those that run belong to the catalogue or, while one is    *)
(* prepared, to the clients found so far, but for those left behind.        *)

Preparing == pc \in {"discover", "install", "discard"}

Owned ==
  /\ Preparing => goal \in {"prepare", "begin", "reload"} /\ clients = {}
                  /\ live \subseteq found \cup stranded
  /\ ~Preparing => found = {} /\ live \subseteq clients \cup stranded

Frozen == running => pc \in {"refresh", "turn", "approve", "execute"}

ClosedAfter ==
  /\ pc = "idle" /\ outcome \in {"cancelled", "raised"} => live \subseteq stranded
  /\ pc # "idle" => outcome = "none"

OwnedInv == Owned /\ Frozen /\ ClosedAfter

\* A task that ends leaves no connection without its catalogue.
LEMMA OwnedEndTask ==
  ASSUME OwnedInv, ~Preparing, NEW how, EndTask(how), UNCHANGED <<found, stranded>>
  PROVE  OwnedInv'
<1>1. found = {} /\ live \subseteq clients \cup stranded
  BY DEF OwnedInv, Owned
<1>2. CASE how \in {"cancelled", "raised"}
  BY <1>1, <1>2
  DEF EndTask, CloseCatalog, OwnedInv, Owned, Preparing, Frozen, ClosedAfter
<1>3. CASE how \notin {"cancelled", "raised"}
  BY <1>1, <1>3 DEF EndTask, OwnedInv, Owned, Preparing, Frozen, ClosedAfter
<1>. QED  BY <1>2, <1>3

LEMMA OwnedPrepare ==
  ASSUME OwnedInv,
         RunTask \/ AlreadyPrepared \/ PrepareMcp \/ ReloadMcp \/ Discover \/ DiscoverFails
           \/ RecordCatalog \/ Install \/ Discard
  PROVE  OwnedInv'
<1>. USE DEF OwnedInv, Owned, Preparing, Frozen, ClosedAfter, outside
<1>1. CASE RunTask
  BY <1>1 DEF RunTask, registry, catalog
<1>2. CASE AlreadyPrepared
  BY <1>2 DEF AlreadyPrepared, GoOn, catalog
<1>3. CASE PrepareMcp
  BY <1>3 DEF PrepareMcp, DropOldTools, CloseCatalog
<1>4. CASE ReloadMcp
  BY <1>4 DEF ReloadMcp, DropOldTools, CloseCatalog
<1>5. CASE Discover
  BY <1>5 DEF Discover, registry
<1>6. CASE DiscoverFails
  BY <1>6 DEF DiscoverFails, Abandon, registry
<1>7. CASE RecordCatalog
  BY <1>7 DEF RecordCatalog, Abandon, registry, catalog
<1>8. CASE Install
  BY <1>8 DEF Install, GoOn
<1>9. CASE Discard
  <2>1. CASE found # {} /\ live' = live \ {FirstFound} /\ found' = found \ {FirstFound}
             /\ UNCHANGED <<pc, goal, outcome, stranded>>
    BY <1>9, <2>1 DEF Discard, registry
  <2>2. CASE live' = live \ {FirstFound} /\ stranded' = stranded \cup (found \ {FirstFound})
             /\ Failed("raised")
    BY <1>9, <2>2 DEF Discard, Failed, registry
  <2>3. CASE found = {} /\ Failed(cause) /\ UNCHANGED <<live, stranded>>
    BY <1>9, <2>3 DEF Discard, Failed, registry
  <2>. QED  BY <1>9, <2>1, <2>2, <2>3 DEF Discard
<1>. QED  BY <1>1, <1>2, <1>3, <1>4, <1>5, <1>6, <1>7, <1>8, <1>9

LEMMA OwnedTask ==
  ASSUME OwnedInv,
         AutoCompact \/ RefreshSystemPrompt \/ EndRun \/ CallTool \/ Approve \/ Execute
  PROVE  OwnedInv'
<1>1. CASE AutoCompact
  BY <1>1 DEF AutoCompact, OwnedInv, Owned, Preparing, Frozen, ClosedAfter, registry, catalog,
              outside
<1>2. ASSUME ~Preparing, UNCHANGED <<found, stranded>>, \E how : EndTask(how)
      PROVE  OwnedInv'
  BY <1>2, OwnedEndTask
<1>3. ASSUME pc \in {"refresh", "turn", "approve", "execute"},
             pc' \in {"refresh", "turn", "approve", "execute"},
             UNCHANGED <<found, clients, outcome, stranded>>, live' \subseteq live
      PROVE  OwnedInv'
  BY <1>3 DEF OwnedInv, Owned, Preparing, Frozen, ClosedAfter
<1>4. CASE RefreshSystemPrompt
  BY <1>2, <1>3, <1>4 DEF RefreshSystemPrompt, Preparing, outside
<1>5. CASE EndRun
  BY <1>2, <1>5 DEF EndRun, Preparing, outside
<1>6. CASE CallTool
  BY <1>3, <1>6 DEF CallTool, catalog, outside
<1>7. CASE Approve
  BY <1>2, <1>3, <1>7 DEF Approve, Preparing, outside
<1>8. CASE Execute
  BY <1>3, <1>8 DEF Execute, catalog, outside
<1>. QED  BY <1>1, <1>4, <1>5, <1>6, <1>7, <1>8

LEMMA OwnedStep == OwnedInv /\ [Next]_vars => OwnedInv'
<1>. SUFFICES ASSUME OwnedInv, [Next]_vars PROVE OwnedInv'
  OBVIOUS
<1>1. ASSUME UNCHANGED <<pc, goal, running, clients, found, outcome, stranded>>,
             live' \subseteq live
      PROVE  OwnedInv'
  BY <1>1 DEF OwnedInv, Owned, Preparing, Frozen, ClosedAfter
<1>2. CASE NewSession
  BY <1>2
  DEF NewSession, CloseCatalog, OwnedInv, Owned, Preparing, Frozen, ClosedAfter, outside
<1>3. CASE Interrupt
  <2>1. CASE pc \in {"discover", "install"} /\ Abandon("cancelled")
    BY <2>1 DEF Abandon, OwnedInv, Owned, Preparing, Frozen, ClosedAfter, registry, outside
  <2>2. CASE /\ pc \in {"prepare", "begin", "compact", "refresh", "turn", "approve", "execute"}
             /\ UNCHANGED <<found, stranded>>
             /\ \E how : EndTask(how)
    BY <2>2, OwnedEndTask DEF Preparing
  <2>3. CASE /\ pc = "discard" /\ stranded' = stranded \cup found /\ Failed("cancelled")
             /\ UNCHANGED <<registry, clients, live>>
    BY <2>3 DEF Failed, OwnedInv, Owned, Preparing, Frozen, ClosedAfter, registry
  <2>. QED  BY <1>3, <2>1, <2>2, <2>3 DEF Interrupt, outside
<1>4. CASE ServerDies
  BY <1>1, <1>4 DEF ServerDies, registry, catalog, outside
<1>5. CASE ServerUpgraded \/ ProjectEdited
  BY <1>1, <1>5 DEF ServerUpgraded, ProjectEdited, registry, catalog, outside
<1>6. CASE UNCHANGED vars
  BY <1>1, <1>6 DEF vars, registry, catalog, outside
<1>. QED
  BY <1>2, <1>3, <1>4, <1>5, <1>6, OwnedPrepare, OwnedTask DEF Next

\* Between tasks every server that runs can still be reached by close(), nothing
\* runs after a task that was cancelled or raised, and the registry is not frozen;
\* but for the servers left behind when the closing of a failed prepare() was cut off
\* (MCPCatalog.prepare and close, Agent.run, ToolRegistry.end_run).
THEOREM NothingIsStray == Spec => []NothingStray
<1>1. Init => OwnedInv
  BY DEF Init, OwnedInv, Owned, Preparing, Frozen, ClosedAfter
<1>2. OwnedInv => NothingStray
  BY DEF OwnedInv, Owned, Preparing, Frozen, ClosedAfter, NothingStray
<1>. QED  BY <1>1, <1>2, OwnedStep, PTL DEF Spec

-----------------------------------------------------------------------------
(* The catalogue.  What is ready is installed as discovered for the         *)
(* configuration in force, and in the session file; a run keeps it ready.   *)

Complete(cs) == {c.server : c \in cs} = config

Installed ==
  ready => tools = clients /\ Complete(clients) /\ IdentityOf(clients) \in recorded

Underway ==
  /\ Preparing => ~ready /\ tools = {}
  /\ pc = "discover" => {c.server : c \in found} \subseteq config
  /\ pc = "install" => Complete(found) /\ IdentityOf(found) \in recorded

\* A session that began without a server has no catalogue object and nothing of one.
Without ==
  ~mcp => config = {} /\ clients = {} /\ tools = {} /\ ~Preparing

CatalogInv ==
  /\ Installed /\ Underway /\ Without
  /\ running => ready \/ ~mcp
  /\ identity \subseteq recorded
  /\ config \subseteq Servers

\* A set of natural numbers has a least one.
LEMMA LeastOf ==
  ASSUME NEW S, S \subseteq Nat, S # {}
  PROVE  \E x \in S : \A y \in S : x <= y
<1>. DEFINE R == OpToRel(<, Nat)
<1>1. \A x, y \in Nat : y < x => <<y, x>> \in R
  BY DEF OpToRel
<1>2. IsWellFoundedOn(R, Nat)
  BY NatLessThanWellFounded
<1>. HIDE DEF R
<1>3. PICK x \in S : \A y \in S : ~(<<y, x>> \in R)
  BY <1>2, WFMin
<1>4. ASSUME NEW y \in S PROVE x <= y
  <2>1. x \in Nat /\ y \in Nat /\ ~(y < x)
    BY <1>1, <1>3
  <2>. QED  BY <2>1
<1>. QED  BY <1>4

\* The server discovered next is one that is missing.
LEMMA NextIsMissing ==
  ASSUME NEW S, S \subseteq Nat, S # {}
  PROVE  (CHOOSE s \in S : \A t \in S : s <= t) \in S
BY LeastOf

\* The catalogue, as far as the invariant reads it.
catalogVars == <<config, mcp, tools, ready, clients, identity, recorded>>

LEMMA CatalogElsewhere ==
  ASSUME CatalogInv, UNCHANGED catalogVars, ~Preparing', running' => running
  PROVE  CatalogInv'
BY DEF CatalogInv, Installed, Underway, Without, Preparing, catalogVars, Complete

LEMMA CatalogEndTask ==
  ASSUME CatalogInv, NEW how, EndTask(how),
         UNCHANGED <<config, mcp, tools, identity, recorded>>
  PROVE  CatalogInv'
BY DEF CatalogInv, Installed, Underway, Without, Preparing, Complete, EndTask, CloseCatalog

LEMMA CatalogAbandon ==
  ASSUME OwnedInv, CatalogInv, NEW why, Abandon(why), UNCHANGED file,
         pc \in {"discover", "install"}
  PROVE  CatalogInv'
BY DEF CatalogInv, Installed, Underway, Without, Preparing, Complete, Abandon, registry, file,
       OwnedInv, Frozen

LEMMA CatalogPrepare ==
  ASSUME OwnedInv, CatalogInv,
         RunTask \/ AlreadyPrepared \/ PrepareMcp \/ ReloadMcp \/ Discover \/ DiscoverFails
           \/ RecordCatalog \/ Install \/ Discard
  PROVE  CatalogInv'
<1>1. CASE RunTask
  BY <1>1, CatalogElsewhere DEF RunTask, registry, catalog, file, catalogVars, Preparing
<1>2. CASE AlreadyPrepared
  <2>1. ready \/ ~mcp
    BY <1>2 DEF AlreadyPrepared, Ready
  <2>2. ~Preparing' /\ UNCHANGED catalogVars
    BY <1>2 DEF AlreadyPrepared, GoOn, catalog, file, catalogVars, Preparing
  <2>. QED
    BY <2>1, <2>2 DEF CatalogInv, Installed, Underway, Without, Preparing, catalogVars, Complete
<1>3. CASE PrepareMcp
  BY <1>3
  DEF PrepareMcp, DropOldTools, CloseCatalog, file, CatalogInv, Installed, Underway,
      Without, Preparing, Complete, OwnedInv, Frozen
<1>4. CASE ReloadMcp
  BY <1>4
  DEF ReloadMcp, DropOldTools, CloseCatalog, file, CatalogInv, Installed, Underway,
      Without, Preparing, Complete, OwnedInv, Frozen
<1>5. CASE Discover
  <2>. DEFINE next == CHOOSE s \in Missing : \A t \in Missing : s <= t
              client == [server |-> next, number |-> spent.connections + 1,
                         schema |-> offers[next]]
  <2>1. next \in Missing
    <3>1. Missing # {} /\ Missing \subseteq config
      BY <1>5 DEF Discover, Missing
    <3>2. MaxServers \in Nat
      BY ToolHostBounds
    <3>3. config \subseteq Nat
      BY <3>2 DEF CatalogInv, Servers
    <3>4. Missing \subseteq Nat
      BY <3>1, <3>3
    <3>. QED  BY <3>1, <3>4, NextIsMissing
  <2>2. found' = found \cup {client} /\ client.server = next
    BY <1>5 DEF Discover
  <2>. HIDE DEF next, client
  <2>3. {c.server : c \in found'} \subseteq config
    BY <1>5, <2>1, <2>2 DEF Discover, Missing, CatalogInv, Underway
  <2>4. UNCHANGED <<pc, running, catalogVars>>
    BY <1>5 DEF Discover, registry, file, catalogVars
  <2>. QED
    BY <1>5, <2>3, <2>4
    DEF Discover, CatalogInv, Installed, Underway, Without, Preparing, Complete, catalogVars
<1>6. CASE DiscoverFails
  BY <1>6, CatalogAbandon DEF DiscoverFails
<1>7. CASE RecordCatalog
  <2>1. CASE /\ recorded' = IF {IdentityOf(found)} = identity
                            THEN recorded ELSE recorded \cup {IdentityOf(found)}
             /\ pc' = "install"
             /\ UNCHANGED <<config, mcp, registry, catalog>>
    <3>1. Complete(found)
      BY <1>7 DEF RecordCatalog, Missing, CatalogInv, Underway, Complete
    <3>2. IdentityOf(found) \in recorded' /\ recorded \subseteq recorded'
      BY <2>1 DEF CatalogInv
    <3>. QED
      BY <1>7, <2>1, <3>1, <3>2
      DEF RecordCatalog, CatalogInv, Installed, Underway, Without, Preparing, Complete, registry,
          catalog, IdentityOf
  <2>. QED  BY <1>7, <2>1, CatalogAbandon DEF RecordCatalog
<1>8. CASE Install
  <2>1. tools = {} /\ Complete(found) /\ IdentityOf(found) \in recorded
    BY <1>8 DEF Install, CatalogInv, Underway, Without, Preparing
  <2>2. tools' = found /\ clients' = found /\ ready' /\ identity' \subseteq recorded
    BY <1>8, <2>1 DEF Install
  <2>3. pc' \notin {"discover", "install", "discard"} /\ UNCHANGED <<config, mcp, recorded>>
    BY <1>8 DEF Install, GoOn, OwnedInv, Owned, Preparing, file
  <2>. QED
    BY <2>1, <2>2, <2>3 DEF CatalogInv, Installed, Underway, Without, Preparing, Complete, IdentityOf
<1>9. CASE Discard
  <2>1. UNCHANGED catalogVars /\ running' = running
    BY <1>9 DEF Discard, registry, file, catalogVars
  <2>2. pc' \in {"discard", "idle", "left"} /\ pc = "discard"
    BY <1>9 DEF Discard, Failed
  <2>. QED
    BY <2>1, <2>2
    DEF CatalogInv, Installed, Underway, Without, Preparing, Complete, catalogVars
<1>. QED  BY <1>1, <1>2, <1>3, <1>4, <1>5, <1>6, <1>7, <1>8, <1>9

LEMMA CatalogTask ==
  ASSUME CatalogInv,
         AutoCompact \/ RefreshSystemPrompt \/ EndRun \/ CallTool \/ Approve \/ Execute
  PROVE  CatalogInv'
<1>. USE DEF catalogVars, Preparing, registry, catalog, file
<1>1. CASE AutoCompact
  BY <1>1, CatalogElsewhere DEF AutoCompact
<1>2. CASE RefreshSystemPrompt
  BY <1>2, CatalogElsewhere, CatalogEndTask DEF RefreshSystemPrompt
<1>3. CASE EndRun
  BY <1>3, CatalogEndTask DEF EndRun
<1>4. CASE CallTool
  BY <1>4, CatalogElsewhere DEF CallTool
<1>5. CASE Approve
  BY <1>5, CatalogElsewhere, CatalogEndTask DEF Approve
<1>6. CASE Execute
  BY <1>6, CatalogElsewhere DEF Execute
<1>. QED  BY <1>1, <1>2, <1>3, <1>4, <1>5, <1>6

LEMMA CatalogStep == OwnedInv /\ CatalogInv /\ [Next]_vars => CatalogInv'
<1>. SUFFICES ASSUME OwnedInv, CatalogInv, [Next]_vars PROVE CatalogInv'
  OBVIOUS
<1>1. ASSUME UNCHANGED <<pc, running, found, catalogVars>> PROVE CatalogInv'
  BY <1>1 DEF CatalogInv, Installed, Underway, Without, Preparing, catalogVars, Complete, IdentityOf
<1>2. CASE NewSession
  BY <1>2 DEF NewSession, CloseCatalog, CatalogInv, Installed, Underway, Without, Preparing, Complete,
              OwnedInv, Frozen
<1>3. CASE Interrupt
  <2>1. ASSUME pc = "discard", Failed("cancelled"), UNCHANGED <<running, catalogVars>>
        PROVE  CatalogInv'
    <3>1. ~Preparing'
      BY <2>1 DEF Failed, Preparing
    <3>. QED  BY <2>1, <3>1, CatalogElsewhere
  <2>. QED
    BY <1>3, <2>1, CatalogAbandon, CatalogEndTask DEF Interrupt, file, registry, catalogVars
<1>4. CASE ServerDies
  BY <1>1, <1>4 DEF ServerDies, registry, catalog, file, catalogVars
<1>5. CASE ServerUpgraded \/ ProjectEdited
  BY <1>1, <1>5 DEF ServerUpgraded, ProjectEdited, registry, catalog, file, catalogVars
<1>6. CASE UNCHANGED vars
  BY <1>1, <1>6 DEF vars, registry, catalog, file, catalogVars
<1>. QED
  BY <1>2, <1>3, <1>4, <1>5, <1>6, CatalogPrepare, CatalogTask DEF Next

-----------------------------------------------------------------------------
(* Approvals.  Calls are numbered: nothing is in the file or took effect    *)
(* under the number of a call to come.                                     *)

Numbered ==
  /\ spent.calls \in Nat /\ "calls" \in DOMAIN spent
  /\ \A a \in audit : a[1] \in Nat /\ a[1] <= spent.calls
  /\ \A e \in effects : e[1] \in Nat /\ e[1] <= spent.calls
  /\ pc = "execute" => task.number \in Nat /\ task.number <= spent.calls

\* Nothing is answered yet for the call that waits for its approval.
Unanswered ==
  pc = "approve" =>
    /\ task.number = spent.calls
    /\ \A a \in audit : a[1] # task.number
    /\ \A e \in effects : e[1] # task.number
    /\ mode # "readonly"

\* The call about to be executed may take effect.
MayExecute ==
  pc = "execute" =>
    /\ Access(task.tool) = "approval" =>
         <<task.number, "allow">> \in audit /\ <<task.number, "deny">> \notin audit
    /\ mode = "readonly" => Access(task.tool) = "read"

ApprovalInv == Numbered /\ Unanswered /\ MayExecute /\ EffectApproved

LEMMA ApprovalElsewhere ==
  ASSUME ApprovalInv, UNCHANGED <<mode, audit, effects>>,
         UNCHANGED spent \/ (\E what, most : Spend(what, most)),
         pc' \notin {"approve", "execute"}
  PROVE  ApprovalInv'
<1>1. spent'.calls \in Nat /\ spent'.calls >= spent.calls /\ "calls" \in DOMAIN spent'
  BY DEF ApprovalInv, Numbered, Spend
<1>2. Numbered'
  BY <1>1 DEF ApprovalInv, Numbered
<1>3. Unanswered' /\ MayExecute'
  BY DEF Unanswered, MayExecute
<1>4. EffectApproved'
  BY DEF ApprovalInv, EffectApproved
<1>. QED  BY <1>2, <1>3, <1>4 DEF ApprovalInv

\* A step of the world around the program.
LEMMA ApprovalAround ==
  ASSUME ApprovalInv, UNCHANGED <<pc, mode, audit, effects, task>>,
         UNCHANGED spent \/ (\E most : Spend("changes", most))
  PROVE  ApprovalInv'
<1>1. spent'.calls = spent.calls /\ "calls" \in DOMAIN spent'
  BY DEF ApprovalInv, Numbered, Spend
<1>2. Numbered' /\ Unanswered'
  BY <1>1 DEF ApprovalInv, Numbered, Unanswered
<1>3. MayExecute' /\ EffectApproved'
  BY DEF ApprovalInv, MayExecute, EffectApproved, Access
<1>. QED  BY <1>2, <1>3 DEF ApprovalInv

LEMMA ApprovalCall == ApprovalInv /\ CallTool => ApprovalInv'
<1>. SUFFICES ASSUME ApprovalInv, CallTool PROVE ApprovalInv'
  OBVIOUS
<1>. DEFINE n == spent.calls + 1
<1>1. /\ n \in Nat /\ spent'.calls = n /\ "calls" \in DOMAIN spent'
      /\ UNCHANGED <<mode, audit, effects>>
  BY DEF ApprovalInv, Numbered, CallTool, Spend, file
<1>2. PICK tool \in LocalTools \cup tools :
         /\ task' = [number |-> n, tool |-> tool]
         /\ pc' = IF Access(tool) = "read" THEN "execute"
                  ELSE IF mode = "readonly" THEN "turn"
                  ELSE IF Access(tool) = "write" THEN "execute" ELSE "approve"
  BY DEF CallTool
<1>3. task'.number = n /\ task'.tool = tool
  BY <1>2
<1>4. /\ \A a \in audit : a[1] \in Nat /\ a[1] < n
      /\ \A e \in effects : e[1] \in Nat /\ e[1] < n
  BY DEF ApprovalInv, Numbered
<1>. HIDE DEF n
<1>5. Numbered'
  BY <1>1, <1>3, <1>4 DEF Numbered
<1>6. Unanswered'
  BY <1>1, <1>2, <1>3, <1>4 DEF Unanswered
<1>7. pc' = "execute" => Access(tool) # "approval" /\ (mode = "readonly" => Access(tool) = "read")
  BY <1>2
<1>8. MayExecute'
  BY <1>1, <1>3, <1>7 DEF MayExecute, Access
<1>9. EffectApproved'
  BY <1>1 DEF ApprovalInv, EffectApproved
<1>. QED  BY <1>5, <1>6, <1>8, <1>9 DEF ApprovalInv

LEMMA ApprovalApprove == ApprovalInv /\ Approve => ApprovalInv'
<1>. SUFFICES ASSUME ApprovalInv, Approve PROVE ApprovalInv'
  OBVIOUS
<1>0. pc = "approve" /\ UNCHANGED <<mode, effects, spent>>
  BY DEF Approve
<1>1. ASSUME NEW answer \in {"allow", "deny"}, audit' = audit \cup {<<task.number, answer>>},
             pc' = (IF answer = "allow" THEN "execute" ELSE "turn"), UNCHANGED task
      PROVE  ApprovalInv'
  <2>1. /\ task.number \in Nat /\ task.number <= spent.calls
        /\ \A a \in audit : a[1] # task.number
        /\ \A e \in effects : e[1] # task.number
        /\ mode # "readonly"
    BY <1>0 DEF ApprovalInv, Numbered, Unanswered
  <2>2. Numbered'
    BY <1>0, <1>1, <2>1 DEF ApprovalInv, Numbered
  <2>3. Unanswered'
    BY <1>1 DEF Unanswered
  <2>4. MayExecute'
    <3>1. pc' = "execute" => answer = "allow"
      BY <1>1
    <3>2. answer = "allow" => <<task.number, "deny">> \notin audit'
      BY <1>1, <2>1
    <3>. QED  BY <1>0, <1>1, <2>1, <3>1, <3>2 DEF MayExecute, Access
  <2>5. EffectApproved'
    BY <1>0, <1>1, <2>1 DEF ApprovalInv, EffectApproved
  <2>. QED  BY <2>2, <2>3, <2>4, <2>5 DEF ApprovalInv
<1>2. CASE EndTask("error") /\ UNCHANGED audit
  BY <1>0, <1>2, ApprovalElsewhere DEF EndTask
<1>. QED  BY <1>0, <1>1, <1>2 DEF Approve

\* The effect of a call about to be executed, or none.
LEMMA ApprovalEffect ==
  ASSUME ApprovalInv, pc = "execute", effects' \in {effects, effects \cup {Effect}},
         UNCHANGED <<mode, audit, spent>>, pc' \notin {"approve", "execute"}
  PROVE  ApprovalInv'
<1>1. /\ task.number \in Nat /\ task.number <= spent.calls
      /\ Access(task.tool) = "approval" =>
           <<task.number, "allow">> \in audit /\ <<task.number, "deny">> \notin audit
      /\ mode = "readonly" => Access(task.tool) = "read"
  BY DEF ApprovalInv, Numbered, MayExecute
<1>2. \A e \in effects' : e \in effects \/ (e[1] = task.number /\ e[2] = Access(task.tool))
  BY DEF Effect
<1>3. Numbered'
  BY <1>1, <1>2 DEF ApprovalInv, Numbered
<1>4. EffectApproved'
  BY <1>1, <1>2 DEF ApprovalInv, EffectApproved
<1>. QED  BY <1>3, <1>4 DEF ApprovalInv, Unanswered, MayExecute

LEMMA ApprovalStep == OwnedInv /\ ApprovalInv /\ [Next]_vars => ApprovalInv'
<1>. SUFFICES ASSUME OwnedInv, ApprovalInv, [Next]_vars PROVE ApprovalInv'
  OBVIOUS
<1>1. CASE RunTask
  BY <1>1, ApprovalElsewhere DEF RunTask, file
<1>2. CASE AlreadyPrepared
  BY <1>2, ApprovalElsewhere DEF AlreadyPrepared, GoOn, file
<1>3. CASE PrepareMcp
  BY <1>3, ApprovalElsewhere DEF PrepareMcp, file
<1>4. CASE ReloadMcp
  BY <1>4, ApprovalElsewhere DEF ReloadMcp, file
<1>5. CASE Discover
  BY <1>5, ApprovalElsewhere DEF Discover, file
<1>6. CASE DiscoverFails
  BY <1>6, ApprovalElsewhere DEF DiscoverFails, Abandon, file
<1>7. CASE RecordCatalog
  BY <1>7, ApprovalElsewhere DEF RecordCatalog, Abandon, file
<1>8. CASE Install
  BY <1>8, ApprovalElsewhere DEF Install, GoOn, file, OwnedInv, Owned, Preparing
<1>9. CASE Discard
  BY <1>9, ApprovalElsewhere DEF Discard, Failed, file
<1>10. CASE AutoCompact
  BY <1>10, ApprovalElsewhere DEF AutoCompact
<1>11. CASE RefreshSystemPrompt
  BY <1>11, ApprovalElsewhere DEF RefreshSystemPrompt, EndTask
<1>12. CASE EndRun
  BY <1>12, ApprovalElsewhere DEF EndRun, EndTask, file
<1>13. CASE CallTool
  BY <1>13, ApprovalCall
<1>14. CASE Approve
  BY <1>14, ApprovalApprove
<1>15. CASE Execute
  <2>1. pc = "execute" /\ pc' = "turn" /\ UNCHANGED <<mode, audit, spent>>
    BY <1>15 DEF Execute, file
  <2>2. effects' \in {effects, effects \cup {Effect}}
    BY <1>15 DEF Execute
  <2>. QED  BY <2>1, <2>2, ApprovalEffect
<1>16. CASE NewSession
  <2>1. Numbered'
    BY <1>16 DEF NewSession, ApprovalInv, Numbered
  <2>2. Unanswered' /\ MayExecute'
    BY <1>16 DEF NewSession, Unanswered, MayExecute
  <2>3. EffectApproved'
    BY <1>16 DEF NewSession, EffectApproved
  <2>. QED  BY <2>1, <2>2, <2>3 DEF ApprovalInv
<1>17. CASE Interrupt
  <2>1. CASE pc \in {"discover", "install"} /\ Abandon("cancelled") /\ UNCHANGED file
    BY <2>1, ApprovalElsewhere DEF Abandon, file
  <2>2. CASE \E how : EndTask(how) /\ UNCHANGED <<mode, audit, effects, spent>>
    BY <2>2, ApprovalElsewhere DEF EndTask
  <2>3. CASE /\ pc = "execute" /\ EndTask("cancelled")
             /\ effects' \in {effects, effects \cup {Effect}}
             /\ UNCHANGED <<mode, audit, spent>>
    BY <2>3, ApprovalEffect DEF EndTask
  <2>4. CASE Failed("cancelled") /\ UNCHANGED <<mode, audit, effects, spent>>
    BY <2>4, ApprovalElsewhere DEF Failed
  <2>. QED  BY <1>17, <2>1, <2>2, <2>3, <2>4 DEF Interrupt, file
<1>18. CASE ServerDies
  BY <1>18, ApprovalAround DEF ServerDies, file
<1>19. CASE ServerUpgraded
  BY <1>19, ApprovalAround DEF ServerUpgraded, file
<1>20. CASE ProjectEdited
  BY <1>20, ApprovalAround DEF ProjectEdited, file
<1>21. CASE UNCHANGED vars
  BY <1>21, ApprovalAround DEF vars, file
<1>. QED
  BY <1>1, <1>2, <1>3, <1>4, <1>5, <1>6, <1>7, <1>8, <1>9, <1>10, <1>11, <1>12, <1>13,
     <1>14, <1>15, <1>16, <1>17, <1>18, <1>19, <1>20, <1>21 DEF Next

\* A tool that needs an approval takes effect only with an "allow" of its own in
\* the session file, and in readonly mode only a tool that reads does
\* (SecurityPolicy.check_tool, _approve).
THEOREM EffectsAreApproved == Spec => []EffectApproved
<1>1. Init => ApprovalInv
  BY DEF Init, ApprovalInv, Numbered, Unanswered, MayExecute, EffectApproved
<1>2. ApprovalInv => EffectApproved
  BY DEF ApprovalInv
<1>3. Init => OwnedInv
  BY DEF Init, OwnedInv, Owned, Preparing, Frozen, ClosedAfter
<1>. QED  BY <1>1, <1>2, <1>3, ApprovalStep, OwnedStep, PTL DEF Spec
-----------------------------------------------------------------------------
(* Patches of the system prompt (SectionPatch).                            *)

\* The sections a diff sets, and what it sets them to.
LEMMA DiffSets ==
  ASSUME NEW previous, NEW current
  PROVE  LET patch == DiffSections(previous, current) IN
         /\ SetIn(patch) =
              {i \in DOMAIN current : i \notin DOMAIN previous \/ previous[i] # current[i]}
         /\ \A id \in SetIn(patch) : ContentIn(patch, id) = current[id]
<1> DEFINE patch == DiffSections(previous, current)
           changes == {i \in DOMAIN current :
                         i \notin DOMAIN previous \/ previous[i] # current[i]}
<1>1. \A o \in patch : o.op = "set" => o.id \in changes /\ o.content = current[o.id]
  BY DEF DiffSections, Set, Delete
<1>2. \A id \in changes : Set(id, current[id]) \in patch
  BY DEF DiffSections
<1>3. SetIn(patch) = changes
  <2>1. SetIn(patch) \subseteq changes
    BY <1>1 DEF SetIn
  <2>2. ASSUME NEW id \in changes PROVE id \in SetIn(patch)
    <3>1. PICK o \in patch : o = Set(id, current[id])
      BY <1>2
    <3>2. o.op = "set" /\ o.id = id
      BY <3>1 DEF Set
    <3> HIDE DEF patch
    <3> QED
      BY <3>2 DEF SetIn
  <2> QED
    BY <2>1, <2>2
<1>4. ASSUME NEW id \in changes PROVE ContentIn(patch, id) = current[id]
  <2>1. \E o \in patch : o.op = "set" /\ o.id = id
    BY <1>2 DEF Set
  <2>2. PICK o \in patch : o.op = "set" /\ o.id = id /\ ContentIn(patch, id) = o.content
    BY <2>1 DEF ContentIn
  <2> QED
    BY <1>1, <2>2
<1> QED
  BY <1>3, <1>4

\* The sections a diff deletes.
LEMMA DiffDeletes ==
  ASSUME NEW previous, NEW current
  PROVE  DeletedIn(DiffSections(previous, current)) = DOMAIN previous \ DOMAIN current
<1> DEFINE patch == DiffSections(previous, current)
<1>1. \A o \in patch : o.op = "delete" => o.id \in DOMAIN previous \ DOMAIN current
  BY DEF DiffSections, Set, Delete
<1>2. \A id \in DOMAIN previous \ DOMAIN current : Delete(id) \in patch
  BY DEF DiffSections
<1>3. DeletedIn(patch) \subseteq DOMAIN previous \ DOMAIN current
  BY <1>1 DEF DeletedIn
<1>4. ASSUME NEW id \in DOMAIN previous \ DOMAIN current PROVE id \in DeletedIn(patch)
  <2>1. PICK o \in patch : o = Delete(id)
    BY <1>2
  <2>2. o.op = "delete" /\ o.id = id
    BY <2>1 DEF Delete
  <2> HIDE DEF patch
  <2> QED
    BY <2>2 DEF DeletedIn
<1> QED
  BY <1>3, <1>4

\* A diff of two mappings that differ is a patch that apply_section_patch accepts.
THEOREM DiffApplicable ==
  ASSUME NEW previous, NEW current,
         DiffSections(previous, current) # {}
  PROVE  Applicable(previous, DiffSections(previous, current))
<1> DEFINE patch == DiffSections(previous, current)
<1>1. ASSUME NEW o \in patch, NEW p \in patch, o.id = p.id PROVE o = p
  <2>1. \A q \in patch : \/ q = Set(q.id, current[q.id]) /\ q.id \in DOMAIN current
                         \/ q = Delete(q.id) /\ q.id \notin DOMAIN current
    BY DEF DiffSections, Set, Delete
  <2> QED
    BY <1>1, <2>1
<1>2. DeletedIn(patch) \subseteq DOMAIN previous
  BY DiffDeletes
<1> QED
  BY <1>1, <1>2 DEF Applicable

\* Applying the diff of two mappings to the first gives the second, whatever sections
\* were added, changed or removed (diff_sections, apply_section_patch): the prompt a
\* replay of the session rebuilds is the one the agent wanted.
THEOREM DiffApplied ==
  ASSUME NEW I, NEW J, NEW S, NEW previous \in [I -> S], NEW current \in [J -> S]
  PROVE  ApplySectionPatch(previous, DiffSections(previous, current)) = current
<1> DEFINE patch == DiffSections(previous, current)
           applied == ApplySectionPatch(previous, patch)
           changes == {i \in J : i \notin I \/ previous[i] # current[i]}
<1>1. SetIn(patch) = changes
  BY DiffSets
<1>2. \A id \in changes : ContentIn(patch, id) = current[id]
  BY DiffSets
<1>3. DeletedIn(patch) = I \ J
  BY DiffDeletes
<1>4. (I \cup changes) \ (I \ J) = J
  OBVIOUS
<1>5. applied = [id \in J |-> IF id \in changes THEN ContentIn(patch, id) ELSE previous[id]]
  BY <1>1, <1>3, <1>4 DEF ApplySectionPatch
<1>6. \A id \in J : (IF id \in changes THEN ContentIn(patch, id) ELSE previous[id]) = current[id]
  BY <1>2
<1>7. applied = [id \in J |-> current[id]]
  BY <1>5, <1>6
<1> QED
  BY <1>7

\* A pending system message, appended, makes the prompt of the session the wanted one:
\* the last step of a replay, from any structured prompt.
THEOREM PendingReplayed ==
  ASSUME NEW I, NEW J, NEW S, NEW previous \in [I -> S], NEW desired \in [J -> S],
         DiffSections(previous, desired) # {}
  PROVE  ReplayOne(Snapshot(previous), Patch(DiffSections(previous, desired)))
           = Snapshot(desired)
<1> DEFINE patch == DiffSections(previous, desired)
<1>1. Applicable(previous, patch)
  BY DiffApplicable
<1>2. ApplySectionPatch(previous, patch) = desired
  BY DiffApplied
<1>3. /\ Snapshot(previous).kind = "sections" /\ Snapshot(previous).sections = previous
      /\ Patch(patch).kind = "patch" /\ Patch(patch).patch = patch
  BY DEF Snapshot, Patch
<1> DEFINE state == Snapshot(previous)
           message == Patch(patch)
<1>4. ReplayOne(state, message) =
        IF Applicable(state.sections, message.patch)
        THEN Snapshot(ApplySectionPatch(state.sections, message.patch))
        ELSE Invalid
  <2> HIDE DEF patch, state, message
  <2> QED
    BY <1>3 DEF ReplayOne, state, message
<1> QED
  BY <1>1, <1>2, <1>3, <1>4

-----------------------------------------------------------------------------
(* The prompt.  A replay is a recursive function of the messages: it is     *)
(* well defined, and goes on by one message at a time.                      *)

IsReplay(r, messages, n) ==
  r = [k \in 0..n |-> IF k = 0 THEN NoPrompt ELSE ReplayOne(r[k - 1], messages[k])]

LEMMA ReplayIsReplay ==
  ASSUME NEW messages
  PROVE  ReplayFrom(messages) = CHOOSE r : IsReplay(r, messages, Len(messages))
BY DEF ReplayFrom, IsReplay

LEMMA ReplayExists ==
  ASSUME NEW messages, NEW n \in Nat
  PROVE  \E r : IsReplay(r, messages, n)
<1>. DEFINE Bad == {k \in Nat : \A r : ~IsReplay(r, messages, k)}
<1>1. 0 \notin Bad
  <2>. DEFINE r == [k \in 0..0 |-> NoPrompt]
  <2>1. IsReplay(r, messages, 0)
    BY DEF IsReplay
  <2>. QED  BY <2>1
<1>2. ASSUME NEW k \in Nat, NEW r, IsReplay(r, messages, k)
      PROVE  \E q : IsReplay(q, messages, k + 1)
  <2>. DEFINE q == [j \in 0..(k + 1) |-> IF j = k + 1 THEN ReplayOne(r[k], messages[k + 1])
                                         ELSE r[j]]
  <2>1. \A j \in 0..k : q[j] = r[j]
    OBVIOUS
  <2>2. q[k + 1] = ReplayOne(r[k], messages[k + 1])
    OBVIOUS
  <2>3. \A j \in 0..k : r[j] = IF j = 0 THEN NoPrompt ELSE ReplayOne(r[j - 1], messages[j])
    BY <1>2 DEF IsReplay
  <2>4. q = [j \in 0..(k + 1) |-> q[j]]
    OBVIOUS
  <2>. HIDE DEF q
  <2>5. ASSUME NEW j \in 0..(k + 1)
        PROVE  q[j] = IF j = 0 THEN NoPrompt ELSE ReplayOne(q[j - 1], messages[j])
    <3>1. CASE j = k + 1
      <4>1. j # 0 /\ j - 1 = k /\ k \in 0..k
        BY <3>1
      <4>. QED  BY <2>1, <2>2, <3>1, <4>1
    <3>2. CASE j = 0
      <4>1. 0 \in 0..k
        OBVIOUS
      <4>. QED  BY <2>1, <2>3, <3>2, <4>1
    <3>3. CASE j # 0 /\ j # k + 1
      <4>1. j \in 0..k /\ j - 1 \in 0..k
        BY <3>3
      <4>. QED  BY <2>1, <2>3, <3>3, <4>1
    <3>. QED  BY <3>1, <3>2, <3>3
  <2>6. q = [j \in 0..(k + 1) |->
               IF j = 0 THEN NoPrompt ELSE ReplayOne(q[j - 1], messages[j])]
    BY <2>4, <2>5
  <2>. QED  BY <2>6 DEF IsReplay
<1>3. Bad = {}
  <2>. SUFFICES ASSUME Bad # {} PROVE FALSE
    OBVIOUS
  <2>1. PICK k \in Bad : \A j \in Bad : k <= j
    <3>1. Bad \subseteq Nat
      OBVIOUS
    <3>. HIDE DEF Bad
    <3>. QED  BY <3>1, LeastOf
  <2>2. k \in Nat /\ k # 0 /\ \A r : ~IsReplay(r, messages, k)
    BY <1>1
  <2>3. k - 1 \in Nat /\ (k - 1) + 1 = k
    BY <2>2
  <2>4. k - 1 \notin Bad
    <3>. HIDE DEF Bad
    <3>. QED  BY <2>1, <2>2, <2>3
  <2>5. \E r : IsReplay(r, messages, k - 1)
    BY <2>3, <2>4
  <2>. QED  BY <1>2, <2>2, <2>3, <2>5, Zenon
<1>. QED  BY <1>3

\* Two replays agree as far as the messages do.
LEMMA ReplaysAgree ==
  ASSUME NEW ms, NEW gs, NEW n \in Nat, NEW m \in Nat, n <= m,
         \A k \in 1..n : ms[k] = gs[k],
         NEW r, IsReplay(r, ms, n), NEW q, IsReplay(q, gs, m)
  PROVE  \A k \in 0..n : r[k] = q[k]
<1>1. \A k \in 0..n : r[k] = IF k = 0 THEN NoPrompt ELSE ReplayOne(r[k - 1], ms[k])
  BY DEF IsReplay
<1>2. \A k \in 0..m : q[k] = IF k = 0 THEN NoPrompt ELSE ReplayOne(q[k - 1], gs[k])
  BY DEF IsReplay
<1>. DEFINE Bad == {k \in 0..n : r[k] # q[k]}
<1>. SUFFICES ASSUME Bad # {} PROVE FALSE
  OBVIOUS
<1>3. PICK k \in Bad : \A j \in Bad : k <= j
  <2>1. Bad \subseteq Nat
    OBVIOUS
  <2>. HIDE DEF Bad
  <2>. QED  BY <2>1, LeastOf
<1>4. k \in 0..n /\ k \in 0..m /\ r[k] # q[k]
  OBVIOUS
<1>5. k # 0
  BY <1>1, <1>2, <1>4
<1>6. k - 1 \in 0..n /\ k \in 1..n /\ ~(k <= k - 1)
  BY <1>4, <1>5
<1>7. r[k - 1] = q[k - 1]
  BY <1>3, <1>6
<1>8. ms[k] = gs[k]
  BY <1>6
<1>. QED  BY <1>1, <1>2, <1>4, <1>5, <1>7, <1>8

\* replay_system_messages() of nothing, of one message, of one message more.
LEMMA ReplayEmpty == ReplaySystemMessages(<<>>) = NoPrompt
<1>1. PICK r : IsReplay(r, <<>>, 0)
  BY ReplayExists
<1>2. IsReplay(ReplayFrom(<<>>), <<>>, 0)
  <2>1. Len(<<>>) = 0
    OBVIOUS
  <2>. QED  BY <1>1, <2>1, ReplayIsReplay
<1>. QED  BY <1>2 DEF IsReplay, ReplaySystemMessages

LEMMA ReplayAppended ==
  ASSUME NEW M, NEW ms \in Seq(M), NEW m \in M
  PROVE  ReplaySystemMessages(Append(ms, m)) = ReplayOne(ReplaySystemMessages(ms), m)
<1>. DEFINE gs == Append(ms, m)
            n == Len(ms)
<1>1. /\ n \in Nat /\ Len(gs) = n + 1
      /\ \A k \in 1..n : ms[k] = gs[k]
      /\ gs[n + 1] = m
  OBVIOUS
<1>. HIDE DEF gs, n
<1>2. IsReplay(ReplayFrom(ms), ms, n)
  BY <1>1, ReplayExists, ReplayIsReplay DEF n
<1>3. IsReplay(ReplayFrom(gs), gs, n + 1)
  <2>1. n + 1 \in Nat
    BY <1>1
  <2>2. \E r : IsReplay(r, gs, n + 1)
    BY <2>1, ReplayExists
  <2>3. ReplayFrom(gs) = CHOOSE r : IsReplay(r, gs, n + 1)
    BY <1>1, ReplayIsReplay
  <2>. QED  BY <2>2, <2>3
<1>4. ReplayFrom(ms)[n] = ReplayFrom(gs)[n]
  <2>1. n + 1 \in Nat /\ n <= n + 1 /\ n \in 0..n
    BY <1>1
  <2>. QED  BY <1>1, <1>2, <1>3, <2>1, ReplaysAgree
<1>5. ReplayFrom(gs)[n + 1] = ReplayOne(ReplayFrom(gs)[n], gs[n + 1])
  <2>1. n + 1 \in 0..(n + 1) /\ n + 1 # 0 /\ (n + 1) - 1 = n
    BY <1>1
  <2>. DEFINE r == ReplayFrom(gs)
  <2>2. \A k \in 0..(n + 1) : r[k] = IF k = 0 THEN NoPrompt ELSE ReplayOne(r[k - 1], gs[k])
    <3>. HIDE DEF r
    <3>. QED  BY <1>3 DEF IsReplay, r
  <2>. HIDE DEF r
  <2>. QED  BY <2>1, <2>2 DEF r
<1>. QED  BY <1>1, <1>4, <1>5 DEF ReplaySystemMessages, n, gs
-----------------------------------------------------------------------------
Sections(f) == f = [id \in DOMAIN f |-> f[id]]

\* No patch between two mappings, only when they are the same.
LEMMA NoDiff ==
  ASSUME NEW previous, NEW current, Sections(previous), Sections(current),
         DiffSections(previous, current) = {}
  PROVE  previous = current
<1>. DEFINE I == DOMAIN previous
            J == DOMAIN current
<1>1. SetIn({}) = {} /\ DeletedIn({}) = {}
  BY DEF SetIn, DeletedIn
<1>2. SetIn(DiffSections(previous, current)) =
        {i \in J : i \notin I \/ previous[i] # current[i]}
  BY DiffSets
<1>3. DeletedIn(DiffSections(previous, current)) = I \ J
  BY DiffDeletes
<1>. HIDE DEF I, J
<1>4. {i \in J : i \notin I \/ previous[i] # current[i]} = {} /\ I \ J = {}
  BY <1>1, <1>2, <1>3
<1>5. I = J /\ \A i \in I : previous[i] = current[i]
  BY <1>4
<1>6. previous = [i \in I |-> previous[i]] /\ current = [i \in J |-> current[i]]
  BY DEF Sections, I, J
<1>7. [i \in I |-> previous[i]] = [i \in J |-> current[i]]
  BY <1>5
<1>. QED  BY <1>6, <1>7

\* What replay_system_messages() gives for a session of this program.
Rebuilt(state) == state \in {NoPrompt, Legacy} \/ (\E f : Sections(f) /\ state = Snapshot(f))

LEMMA RebuiltKind ==
  ASSUME NEW state, Rebuilt(state)
  PROVE  /\ state.kind \in {"none", "content", "sections"}
         /\ state.kind = "sections" =>
              Sections(state.sections) /\ state = Snapshot(state.sections)
BY DEF Rebuilt, NoPrompt, Legacy, Snapshot

\* A diff brings one mapping to the other.
LEMMA Brought ==
  ASSUME NEW previous, NEW desired, Sections(previous), Sections(desired)
  PROVE  LET patch == DiffSections(previous, desired) IN
         IF patch = {} THEN previous = desired
         ELSE ReplayOne(Snapshot(previous), Patch(patch)) = Snapshot(desired)
<1>. DEFINE I == DOMAIN previous
            J == DOMAIN desired
            S == {previous[id] : id \in I} \cup {desired[id] : id \in J}
<1>1. previous \in [I -> S] /\ desired \in [J -> S]
  BY DEF Sections
<1>. HIDE DEF I, J, S
<1>2. DiffSections(previous, desired) = {} => previous = desired
  BY NoDiff
<1>3. DiffSections(previous, desired) # {} =>
        ReplayOne(Snapshot(previous), Patch(DiffSections(previous, desired)))
          = Snapshot(desired)
  BY <1>1, PendingReplayed, SMT
<1>. QED  BY <1>2, <1>3

\* After a refresh, the session's prompt is the wanted one.
LEMMA Refreshed ==
  ASSUME NEW M, NEW ms \in Seq(M), Rebuilt(ReplaySystemMessages(ms)),
         NEW desired, Sections(desired)
  PROVE  /\ \E N : ms \o Pending(ms, desired) \in Seq(N)
         /\ ReplaySystemMessages(ms \o Pending(ms, desired)) = Snapshot(desired)
<1>. DEFINE state == ReplaySystemMessages(ms)
            patch == DiffSections(state.sections, desired)
<1>1. ASSUME NEW m, Pending(ms, desired) = <<m>>, ReplayOne(state, m) = Snapshot(desired)
      PROVE  /\ \E N : ms \o Pending(ms, desired) \in Seq(N)
             /\ ReplaySystemMessages(ms \o Pending(ms, desired)) = Snapshot(desired)
  <2>1. ms \in Seq(M \cup {m}) /\ m \in M \cup {m}
    OBVIOUS
  <2>2. ms \o <<m>> = Append(ms, m) /\ Append(ms, m) \in Seq(M \cup {m})
    BY <2>1
  <2>3. ReplaySystemMessages(Append(ms, m)) = ReplayOne(state, m)
    BY <2>1, ReplayAppended
  <2>. QED  BY <1>1, <2>2, <2>3
<1>2. CASE state.kind # "sections"
  <2>1. Pending(ms, desired) = <<Snapshot(desired)>>
    BY <1>2 DEF Pending
  <2>2. state.kind # "invalid" /\ Snapshot(desired).kind = "sections"
    BY RebuiltKind DEF Snapshot
  <2>3. ReplayOne(state, Snapshot(desired)) = Snapshot(desired)
    BY <2>2 DEF ReplayOne
  <2>. QED  BY <1>1, <2>1, <2>3
<1>3. CASE state.kind = "sections"
  <2>. DEFINE previous == state.sections
  <2>1. Sections(previous) /\ state = Snapshot(previous)
    BY <1>3, RebuiltKind
  <2>2. Pending(ms, desired) = IF patch = {} THEN <<>> ELSE <<Patch(patch)>>
    BY <1>3 DEF Pending
  <2>3. IF patch = {} THEN previous = desired
        ELSE ReplayOne(Snapshot(previous), Patch(patch)) = Snapshot(desired)
    BY <2>1, Brought
  <2>4. CASE patch = {}
    <3>1. ms \o Pending(ms, desired) = ms
      BY <2>2, <2>4
    <3>. QED  BY <2>1, <2>3, <2>4, <3>1
  <2>5. CASE patch # {}
    BY <1>1, <2>1, <2>2, <2>3, <2>5
  <2>. QED  BY <2>4, <2>5
<1>. QED  BY <1>2, <1>3

\* A prompt compacted to one message is the same prompt.
LEMMA Compacted ==
  ASSUME NEW state, Rebuilt(state)
  PROVE  /\ \E N : <<state>> \in Seq(N)
         /\ ReplaySystemMessages(<<state>>) = state
<1>1. <<state>> = Append(<<>>, state) /\ <<>> \in Seq({state}) /\ <<state>> \in Seq({state})
  OBVIOUS
<1>2. ReplaySystemMessages(<<state>>) = ReplayOne(NoPrompt, state)
  BY <1>1, ReplayAppended, ReplayEmpty
<1>3. state.kind # "patch" /\ NoPrompt.kind # "invalid"
  BY RebuiltKind DEF NoPrompt
<1>. QED  BY <1>1, <1>2, <1>3 DEF ReplayOne

-----------------------------------------------------------------------------
(* The prompt of the session can always be rebuilt, and in a run it         *)
(* describes the tools that are registered.                                 *)

InTurns == pc \in {"turn", "approve", "execute"}

Described ==
  /\ ReplaySystemMessages(prompts).kind = "sections"
  /\ ReplaySystemMessages(prompts).sections["tools"] = IdentityOf(tools)

PromptInv ==
  /\ \E M : prompts \in Seq(M)
  /\ Rebuilt(ReplaySystemMessages(prompts))
  /\ InTurns => Described

\* A step that leaves the prompt, and does not go on to the turns of a task.
LEMMA PromptElsewhere ==
  ASSUME PromptInv, UNCHANGED prompts, ~InTurns'
  PROVE  PromptInv'
BY DEF PromptInv

\* A step within the turns, or around the program.
LEMMA PromptKept ==
  ASSUME PromptInv, UNCHANGED <<prompts, tools>>, InTurns' => InTurns
  PROVE  PromptInv'
BY DEF PromptInv, Described, IdentityOf

LEMMA PromptRefresh == PromptInv /\ RefreshSystemPrompt => PromptInv'
<1>. SUFFICES ASSUME PromptInv, RefreshSystemPrompt PROVE PromptInv'
  OBVIOUS
<1>1. CASE prompts' = prompts \o Pending(prompts, Desired) /\ UNCHANGED tools
  <2>1. Sections(Desired) /\ Desired["tools"] = IdentityOf(tools)
    BY DEF Sections, Desired
  <2>2. /\ \E N : prompts' \in Seq(N)
        /\ ReplaySystemMessages(prompts') = Snapshot(Desired)
    BY <1>1, <2>1, Refreshed DEF PromptInv
  <2>3. Snapshot(Desired).kind = "sections" /\ Snapshot(Desired).sections = Desired
    BY DEF Snapshot
  <2>4. Described'
    BY <1>1, <2>1, <2>2, <2>3 DEF Described, IdentityOf
  <2>5. Rebuilt(Snapshot(Desired))
    BY <2>1 DEF Rebuilt
  <2>. QED  BY <2>2, <2>4, <2>5 DEF PromptInv
<1>2. CASE EndTask("raised") /\ UNCHANGED prompts
  BY <1>2, PromptElsewhere DEF EndTask, InTurns
<1>. QED  BY <1>1, <1>2 DEF RefreshSystemPrompt

LEMMA PromptCompact == PromptInv /\ AutoCompact => PromptInv'
<1>. SUFFICES ASSUME PromptInv, AutoCompact PROVE PromptInv'
  OBVIOUS
<1>1. ~InTurns'
  BY DEF AutoCompact, InTurns
<1>2. CASE prompts' = <<ReplaySystemMessages(prompts)>>
  BY <1>1, <1>2, Compacted DEF PromptInv
<1>3. CASE UNCHANGED prompts
  BY <1>1, <1>3, PromptElsewhere
<1>4. CASE prompts = <<>> /\ prompts' = <<>>
  BY <1>1, <1>4, PromptElsewhere
<1>. QED  BY <1>2, <1>3, <1>4 DEF AutoCompact

LEMMA PromptStep == OwnedInv /\ PromptInv /\ [Next]_vars => PromptInv'
<1>. SUFFICES ASSUME OwnedInv, PromptInv, [Next]_vars PROVE PromptInv'
  OBVIOUS
<1>. USE DEF InTurns, file, registry
<1>1. ASSUME NEW how, EndTask(how), UNCHANGED prompts PROVE PromptInv'
  BY <1>1, PromptElsewhere DEF EndTask
<1>2. CASE RunTask \/ PrepareMcp \/ ReloadMcp
  BY <1>2, PromptElsewhere DEF RunTask, PrepareMcp, ReloadMcp
<1>3. CASE AlreadyPrepared
  BY <1>3, PromptElsewhere DEF AlreadyPrepared, GoOn
<1>4. CASE Discover \/ DiscoverFails \/ RecordCatalog \/ Discard
  BY <1>4, PromptElsewhere DEF Discover, DiscoverFails, RecordCatalog, Discard, Abandon,
                                Failed
<1>5. CASE Install
  <2>1. goal \in {"prepare", "begin", "reload"}
    BY <1>5 DEF Install, OwnedInv, Owned, Preparing
  <2>2. UNCHANGED prompts /\ ~InTurns'
    BY <1>5, <2>1 DEF Install, GoOn
  <2>. QED  BY <2>2, PromptElsewhere
<1>6. CASE EndRun
  BY <1>1, <1>6 DEF EndRun
<1>7. CASE CallTool \/ Approve \/ Execute
  <2>1. CASE CallTool
    BY <2>1, PromptKept DEF CallTool
  <2>2. CASE Approve
    BY <1>1, <2>2, PromptKept DEF Approve
  <2>3. CASE Execute
    BY <2>3, PromptKept DEF Execute
  <2>. QED  BY <1>7, <2>1, <2>2, <2>3
<1>8. CASE NewSession
  <2>1. prompts' = <<>> /\ ~InTurns'
    BY <1>8 DEF NewSession
  <2>2. Rebuilt(NoPrompt) /\ prompts' \in Seq({})
    BY <2>1 DEF Rebuilt
  <2>. QED  BY <2>1, <2>2, ReplayEmpty DEF PromptInv
<1>9. CASE Interrupt
  <2>1. CASE Abandon("cancelled") /\ UNCHANGED file
    BY <2>1, PromptElsewhere DEF Abandon
  <2>2. CASE Failed("cancelled") /\ UNCHANGED file
    BY <2>2, PromptElsewhere DEF Failed
  <2>. QED  BY <1>1, <1>9, <2>1, <2>2 DEF Interrupt
<1>10. CASE ServerDies \/ ServerUpgraded \/ ProjectEdited
  BY <1>10, PromptKept DEF ServerDies, ServerUpgraded, ProjectEdited
<1>11. CASE UNCHANGED vars
  BY <1>11, PromptKept DEF vars
<1>. QED
  BY <1>2, <1>3, <1>4, <1>5, <1>6, <1>7, <1>8, <1>9, <1>10, <1>11, PromptRefresh,
     PromptCompact DEF Next

LEMMA PromptInit == Init => PromptInv
<1>. SUFFICES ASSUME Init PROVE PromptInv
  OBVIOUS
<1>1. ~InTurns /\ prompts \in {<<>>, <<Legacy>>}
  BY DEF Init, InTurns
<1>2. Rebuilt(NoPrompt) /\ Rebuilt(Legacy)
  BY DEF Rebuilt
<1>3. CASE prompts = <<>>
  <2>1. prompts \in Seq({})
    BY <1>3
  <2>. QED  BY <1>1, <1>2, <1>3, <2>1, ReplayEmpty DEF PromptInv
<1>4. CASE prompts = <<Legacy>>
  BY <1>1, <1>2, <1>4, Compacted DEF PromptInv
<1>. QED  BY <1>1, <1>3, <1>4

\* In a run the model is offered, by name and in the prompt a replay of the session
\* gives, exactly the tools of the catalogue discovered for the configuration in force,
\* and the session file has that catalogue, or there is no catalogue object and nothing
\* is configured or offered (MCPCatalog.prepare, ToolRegistry.configure_mcp, prepare_mcp
\* and begin_run, Agent._refresh_system_prompt).
THEOREM RunOffersCatalog == Spec => []RunCatalog
<1>1. Init => OwnedInv /\ CatalogInv
  BY DEF Init, OwnedInv, Owned, Preparing, Frozen, ClosedAfter, CatalogInv, Installed,
         Underway, Without
<1>2. OwnedInv /\ CatalogInv /\ PromptInv => RunCatalog
  BY DEF OwnedInv, Frozen, CatalogInv, Installed, Without, Complete, PromptInv, InTurns,
         Described, RunCatalog
<1>. QED  BY <1>1, <1>2, PromptInit, OwnedStep, CatalogStep, PromptStep, PTL DEF Spec

\* The prompt of a session can always be rebuilt from its system messages: no patch is
\* recorded that a replay refuses, whatever was compacted, edited, reloaded or
\* interrupted in between (replay_system_messages, Agent._pending_system_message).
THEOREM PromptAlwaysReplays == Spec => [](ReplaySystemMessages(prompts).kind # "invalid")
<1>1. Init => OwnedInv
  BY DEF Init, OwnedInv, Owned, Preparing, Frozen, ClosedAfter
<1>2. PromptInv => ReplaySystemMessages(prompts).kind # "invalid"
  BY RebuiltKind DEF PromptInv
<1>. QED  BY <1>1, <1>2, PromptInit, OwnedStep, PromptStep, PTL DEF Spec
=============================================================================
