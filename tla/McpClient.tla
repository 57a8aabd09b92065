----------------------------- MODULE McpClient -----------------------------
(***************************************************************************)
(* mcp/client.py: one connection to an MCP server.  Three parties: the     *)
(* host thread, which runs one operation at a time (MCPClient.list_tools,  *)
(* call_tool, close); the thread of the event loop, which writes requests  *)
(* and reads the server's lines; and the server with the descendants in    *)
(* its process group.  Ctrl+C raises in the host thread at the points of   *)
(* InterruptAt.                                                            *)
(***************************************************************************)
EXTENDS Naturals, Sequences

CONSTANTS
  MaxOps,         \* operations the host begins
  MaxRequests,    \* requests over all connections, a page of a listing each
  MaxVersion,     \* catalogues the server can have
  MaxPipe,        \* messages waiting in the server's stdout
  MaxInterrupts,  \* Ctrl+C presses
  InterruptAt     \* where in the host thread one may land

Points ==
  {"starting", "submitting", "listing", "calling", "cancelling", "closing", "killed"}

ASSUME McpBounds ==
  /\ {MaxOps, MaxRequests, MaxVersion, MaxPipe, MaxInterrupts} \subseteq Nat
  /\ MaxOps <= MaxRequests
  /\ MaxVersion > 0
  /\ InterruptAt \subseteq Points

VARIABLES
  pc,        \* "idle" or where the host thread is within an operation
  ops,       \* operations begun; the number of the current one
  outcome,   \* how the last operation ended
  presses,   \* Ctrl+C so far
  held,      \* _process is not None
  link,      \* thread of the event loop and its session
  failure,   \* _failure is not None
  future,    \* what the host waits for: _ready, then the submitted coroutine
  made,      \* requests written so far; the identifier of the last
  pending,   \* _pending
  seen,      \* oldest catalogue among the pages read by the current listing
  changed,   \* the event `changed`
  catalog,   \* catalogue of the last complete listing of this connection, 0 if none
  server,    \* the child: "none", "live" or "exited"
  family,    \* a descendant in its group is alive
  version,   \* the catalogue the server has
  toServer,  \* requests in the server's stdin
  doing,     \* the request the server is answering, at most one
  toClient,  \* messages in the server's stdout
  executed   \* history: how often a tools/call of an operation was carried out

host == <<pc, ops, outcome, presses, held>>
loop == <<link, failure, future, made, pending, seen, changed>>
remote == <<server, family, version, toServer, doing, toClient, executed>>
vars == <<host, loop, catalog, remote>>

Requests == [id : 1..MaxRequests, op : 1..MaxOps, method : {"tools/list", "tools/call"}]
Answers == [type : {"result"}, id : 1..MaxRequests, catalog : 1..MaxVersion]
Notice == [type |-> "changed"]
Junk == [type |-> "junk"]
Messages == Answers \cup {Notice, Junk}

TypeOK ==
  /\ pc \in (Points \ {"submitting"}) \cup {"idle"}
  /\ ops \in 0..MaxOps
  /\ outcome \in {"none", "ok", "refused", "failed", "closed"}
  /\ presses \in 0..MaxInterrupts
  /\ held \in BOOLEAN
  /\ link \in {"none", "handshake", "up", "stopping", "down"}
  /\ failure \in BOOLEAN
  /\ future \in {"none", "unsent", "waiting", "done", "failed"}
  /\ made \in 0..MaxRequests
  /\ pending \subseteq 1..MaxRequests
  /\ seen \in 0..MaxVersion
  /\ changed \in BOOLEAN
  /\ catalog \in 0..MaxVersion
  /\ server \in {"none", "live", "exited"}
  /\ family \in BOOLEAN
  /\ version \in 1..MaxVersion
  /\ toServer \in Seq(Requests)
  /\ doing \in Seq([id : 1..MaxRequests, catalog : 1..MaxVersion])
  /\ toClient \in Seq(Messages)
  /\ executed \in [1..MaxOps -> Nat]

Init ==
  /\ pc = "idle" /\ ops = 0 /\ outcome = "none" /\ presses = 0 /\ held = FALSE
  /\ link = "none" /\ failure = FALSE /\ future = "none"
  /\ made = 0 /\ pending = {} /\ seen = 0 /\ changed = FALSE /\ catalog = 0
  /\ server = "none" /\ family = FALSE /\ version = 1
  /\ toServer = <<>> /\ doing = <<>> /\ toClient = <<>>
  /\ executed = [o \in 1..MaxOps |-> 0]

Alive == link \in {"handshake", "up", "stopping"}
Connected == held /\ ~failure /\ Alive

-----------------------------------------------------------------------------
\* The host thread.

Begin ==
  /\ pc = "idle"
  /\ ops < MaxOps
  /\ ops' = ops + 1

\* A refusal: the approval of the start denied or not recorded, no such program,
\* or a call without a connection.
Refuse ==
  /\ outcome' = "refused"
  /\ UNCHANGED <<pc, presses, held, loop, catalog, remote>>

\* list_tools() without a process: approval, Popen, event loop, handshake.
Start ==
  /\ Begin
  /\ ~held
  /\ \/ /\ pc' = "starting"
        /\ held' = TRUE
        /\ link' = "handshake" /\ failure' = FALSE /\ future' = "waiting"
        /\ server' = "live"
        /\ UNCHANGED <<outcome, presses, made, pending, seen, changed, catalog,
                       family, version, toServer, doing, toClient, executed>>
     \/ Refuse

\* list_tools() clears `changed` before it asks.
Listen ==
  /\ pc' = "listing"
  /\ changed' = FALSE
  /\ seen' = 0
  /\ future' = "unsent"

Started ==
  /\ pc = "starting" /\ future = "done"
  /\ Listen
  /\ UNCHANGED <<ops, outcome, presses, held, link, failure, made, pending, catalog, remote>>

StartFails ==
  /\ pc = "starting" /\ future = "failed"
  /\ pc' = "closing"
  /\ UNCHANGED <<ops, outcome, presses, held, loop, catalog, remote>>

\* list_tools() on an existing process: a dead connection is closed first.
Relist ==
  /\ Begin
  /\ held
  /\ \/ /\ ~failure /\ Alive
        /\ Listen
     \/ /\ failure \/ ~Alive
        /\ pc' = "closing"
        /\ UNCHANGED <<changed, seen, future>>
  /\ UNCHANGED <<outcome, presses, held, link, failure, made, pending, catalog, remote>>

\* call_tool() never starts or restarts a server.
CallTool ==
  /\ Begin
  /\ \/ /\ Connected
        /\ pc' = "calling"
        /\ future' = "unsent"
        /\ UNCHANGED <<outcome, presses, held, link, failure, made, pending, seen,
                       changed, catalog, remote>>
     \/ ~Connected /\ Refuse

Method == IF pc = "calling" THEN "tools/call" ELSE "tools/list"

\* _writer notes the id, then writes; nobody may be reading any more.
Write ==
  /\ made < MaxRequests
  /\ made' = made + 1
  /\ pending' = pending \cup {made + 1}
  /\ toServer' = Append(toServer, [id |-> made + 1, op |-> ops, method |-> Method])

\* The frame is above the limit, or its write fails: the child is gone or has
\* closed its stdin.
WriteFails ==
  /\ failure' = TRUE
  /\ link' = "stopping"
  /\ UNCHANGED <<made, pending, toServer>>

\* _run(): submits the coroutine, unless the event loop has closed meanwhile.
Submit ==
  /\ pc \in {"listing", "calling"} /\ future = "unsent"
  /\ \/ /\ link = "down"
        /\ pc' = "closing"
        /\ UNCHANGED <<future, made, pending, failure, link, toServer>>
     \/ /\ link # "down"
        /\ future' = "waiting"
        /\ UNCHANGED pc
        /\ \/ link = "up" /\ Write /\ UNCHANGED <<failure, link>>
           \/ link = "up" /\ WriteFails
           \/ link \in {"handshake", "stopping"} /\ UNCHANGED <<made, pending, failure, link, toServer>>
  /\ UNCHANGED <<ops, outcome, presses, held, seen, changed, catalog,
                 server, family, version, doing, toClient, executed>>

\* Mutant: `changed` is cleared once the listing has arrived.
ReturnClears ==
  /\ pc \in {"listing", "calling"} /\ future = "done"
  /\ pc' = "idle"
  /\ outcome' = "ok"
  /\ catalog' = IF pc = "listing" THEN seen ELSE catalog
  /\ changed' = IF pc = "listing" THEN FALSE ELSE changed
  /\ UNCHANGED <<ops, presses, held, link, failure, future, made, pending, seen, remote>>

Return ==
  /\ pc \in {"listing", "calling"} /\ future = "done"
  /\ pc' = "idle"
  /\ outcome' = "ok"
  /\ catalog' = IF pc = "listing" THEN seen ELSE catalog
  /\ UNCHANGED <<ops, presses, held, loop, remote>>

\* Mutant: a failed request is submitted again.
FailReplays ==
  /\ pc \in {"listing", "calling"} /\ future = "failed"
  /\ future' = "unsent"
  /\ UNCHANGED <<pc, ops, outcome, presses, held, link, failure, made, pending, seen,
                 changed, catalog, remote>>

\* An error, a rejected listing or a time limit ends in _cancel().
Fail ==
  /\ pc \in {"listing", "calling"} /\ future = "failed"
  /\ pc' = "cancelling"
  /\ UNCHANGED <<ops, outcome, presses, held, loop, catalog, remote>>

\* The cancel notification was written, or its 0.2 seconds are over.
CancelSent ==
  /\ pc = "cancelling"
  /\ pc' = "closing"
  /\ future' = "none"
  /\ UNCHANGED <<ops, outcome, presses, held, link, failure, made, pending, seen,
                 changed, catalog, remote>>

\* Registry.close() between operations.
Close ==
  /\ Begin
  /\ held
  /\ pc' = "closing"
  /\ UNCHANGED <<outcome, presses, held, loop, catalog, remote>>

\* Mutant: only the child is killed.
CloseKillChild ==
  /\ pc = "closing"
  /\ link \notin {"up", "stopping"}
  /\ pc' = "killed"
  /\ server' = "exited"
  /\ toServer' = <<>> /\ doing' = <<>>
  /\ UNCHANGED <<ops, outcome, presses, held, loop, catalog, family, version, toClient, executed>>

\* close(): the loop is told to stop and joined, then the group is killed.  The join
\* gives up on a loop that is still in its handshake, which does not look at _stop.
CloseKill ==
  /\ pc = "closing"
  /\ link \notin {"up", "stopping"}
  /\ pc' = "killed"
  /\ server' = "exited"
  /\ family' = FALSE
  /\ toServer' = <<>> /\ doing' = <<>>
  /\ UNCHANGED <<ops, outcome, presses, held, loop, catalog, version, toClient, executed>>

CloseDone ==
  /\ pc = "killed"
  /\ link \in {"none", "down"}
  /\ pc' = "idle" /\ outcome' = "closed"
  /\ held' = FALSE /\ link' = "none" /\ future' = "none"
  /\ pending' = {} /\ catalog' = 0
  /\ server' = "none" /\ toClient' = <<>>
  /\ UNCHANGED <<ops, presses, failure, made, seen, changed, family, version,
                 toServer, doing, executed>>

\* "MCP event loop failed to stop": the fields keep the dead process.
CloseGivesUp ==
  /\ pc = "killed"
  /\ link = "handshake"
  /\ pc' = "idle" /\ outcome' = "failed"
  /\ UNCHANGED <<ops, presses, held, loop, catalog, remote>>

\* Where Ctrl+C leaves the host thread: the handlers cancel and close, close()
\* begins again, and nothing catches it before the wait of _run() or in _cancel().
AfterInterrupt ==
  [starting |-> "closing", submitting |-> "idle", listing |-> "cancelling",
   calling |-> "cancelling", cancelling |-> "idle", closing |-> "closing",
   killed |-> "closing"]

Point == IF pc \in {"listing", "calling"} /\ future = "unsent" THEN "submitting" ELSE pc

Interrupt ==
  /\ Point \in InterruptAt
  /\ presses < MaxInterrupts
  /\ presses' = presses + 1
  /\ pc' = AfterInterrupt[Point]
  /\ UNCHANGED <<ops, outcome, held, loop, catalog, remote>>

-----------------------------------------------------------------------------
\* The event loop.

HandshakeDone ==
  /\ link = "handshake" /\ server = "live"
  /\ link' = "up"
  /\ future' = IF future = "waiting" THEN "done" ELSE future
  /\ UNCHANGED <<host, failure, made, pending, seen, changed, catalog, remote>>

\* Time limit, end of output, incompatible version: asyncio.run() ends.
HandshakeFails ==
  /\ link = "handshake"
  /\ link' = "down"
  /\ future' = IF future = "waiting" THEN "failed" ELSE future
  /\ UNCHANGED <<host, failure, made, pending, seen, changed, catalog, remote>>

Reading == link = "up" /\ toClient # <<>>

\* What the coroutine does with an answer: the next page, the end, or a rejection.
Accept(answer) ==
  /\ seen' = IF seen = 0 \/ answer.catalog < seen THEN answer.catalog ELSE seen
  /\ \/ /\ future' = "done"
        /\ pending' = pending \ {answer.id}
        /\ UNCHANGED <<made, toServer>>
     \/ /\ pc = "listing"
        /\ future' = "failed"
        /\ pending' = pending \ {answer.id}
        /\ UNCHANGED <<made, toServer>>
     \/ /\ pc = "listing"
        /\ made < MaxRequests - (MaxOps - ops)
        /\ made' = made + 1
        /\ pending' = (pending \ {answer.id}) \cup {made + 1}
        /\ toServer' = Append(toServer, [id |-> made + 1, op |-> ops, method |-> "tools/list"])
        /\ UNCHANGED future

ReceiveResult ==
  /\ Reading
  /\ LET answer == Head(toClient) IN
     /\ answer.type = "result" /\ answer.id \in pending
     /\ IF future = "waiting" /\ answer.id = made
        THEN Accept(answer)
        ELSE pending' = pending \ {answer.id} /\ UNCHANGED <<seen, future, made, toServer>>
  /\ toClient' = Tail(toClient)
  /\ UNCHANGED <<host, link, failure, changed, catalog, server, family, version, doing, executed>>

ReceiveNotice ==
  /\ Reading
  /\ Head(toClient) = Notice
  /\ changed' = TRUE
  /\ toClient' = Tail(toClient)
  /\ UNCHANGED <<host, link, failure, future, made, pending, seen, catalog,
                 server, family, version, toServer, doing, executed>>

\* A line that is no MCP message, or an answer nobody waits for, ends the connection.
ReceiveBad ==
  /\ Reading
  /\ \/ Head(toClient) = Junk
     \/ Head(toClient).type = "result" /\ Head(toClient).id \notin pending
  /\ failure' = TRUE /\ link' = "stopping"
  /\ toClient' = Tail(toClient)
  /\ UNCHANGED <<host, future, made, pending, seen, changed, catalog,
                 server, family, version, toServer, doing, executed>>

\* End of output: nobody in the group holds the pipe any more.
ReceiveEnd ==
  /\ link = "up" /\ toClient = <<>>
  /\ server = "exited" /\ ~family
  /\ failure' = TRUE /\ link' = "stopping"
  /\ UNCHANGED <<host, future, made, pending, seen, changed, catalog, remote>>

\* _serve() returns: after a failure, or when close() has set _stop.
LoopEnds ==
  /\ \/ link = "stopping"
     \/ link = "up" /\ pc \in {"closing", "killed"}
  /\ link' = "down"
  /\ future' = IF future = "waiting" THEN "failed" ELSE future
  /\ UNCHANGED <<host, failure, made, pending, seen, changed, catalog, remote>>

\* Mutant: no time limit once the server is gone, its end of output is awaited.
TimesOutIfLive ==
  /\ pc \in {"listing", "calling"} /\ future = "waiting"
  /\ server = "live"
  /\ future' = "failed"
  /\ UNCHANGED <<host, link, failure, made, pending, seen, changed, catalog, remote>>

\* The SDK's read timeout, one second later the host's own.
TimesOut ==
  /\ pc \in {"listing", "calling"} /\ future = "waiting"
  /\ future' = "failed"
  /\ UNCHANGED <<host, link, failure, made, pending, seen, changed, catalog, remote>>

-----------------------------------------------------------------------------
\* The server, from what the client relies on and defends against.

ServerTakes ==
  /\ server = "live" /\ doing = <<>> /\ toServer # <<>>
  /\ LET request == Head(toServer) IN
     /\ doing' = <<[id |-> request.id, catalog |-> version]>>
     /\ executed' = IF request.method = "tools/call"
                    THEN [executed EXCEPT ![request.op] = @ + 1]
                    ELSE executed
  /\ toServer' = Tail(toServer)
  /\ UNCHANGED <<host, loop, catalog, server, family, version, toClient>>

Says(message) ==
  /\ server = "live"
  /\ Len(toClient) < MaxPipe
  /\ toClient' = Append(toClient, message)

ServerAnswers ==
  /\ doing # <<>>
  /\ Says([type |-> "result", id |-> doing[1].id, catalog |-> doing[1].catalog])
  /\ doing' = <<>>
  /\ UNCHANGED <<host, loop, catalog, server, family, version, toServer, executed>>

ServerChanges ==
  /\ version < MaxVersion
  /\ version' = version + 1
  /\ Says(Notice)
  /\ UNCHANGED <<host, loop, catalog, server, family, toServer, doing, executed>>

ServerMisbehaves ==
  /\ Says(Junk)
  /\ UNCHANGED <<host, loop, catalog, server, family, version, toServer, doing, executed>>

ServerForks ==
  /\ server = "live" /\ ~family
  /\ family' = TRUE
  /\ UNCHANGED <<host, loop, catalog, server, version, toServer, doing, toClient, executed>>

ServerExits ==
  /\ server = "live"
  /\ server' = "exited"
  /\ doing' = <<>>
  /\ UNCHANGED <<host, loop, catalog, family, version, toServer, toClient, executed>>

-----------------------------------------------------------------------------
Operate == Start \/ Relist \/ CallTool \/ Close
HostStep ==
  \/ Started \/ StartFails \/ Submit \/ Return \/ Fail \/ CancelSent
  \/ CloseKill \/ CloseDone \/ CloseGivesUp
LoopStep ==
  \/ HandshakeDone \/ HandshakeFails
  \/ ReceiveResult \/ ReceiveNotice \/ ReceiveBad \/ ReceiveEnd \/ LoopEnds
ServerStep ==
  \/ ServerTakes \/ ServerAnswers \/ ServerChanges \/ ServerMisbehaves
  \/ ServerForks \/ ServerExits

Next == Operate \/ HostStep \/ Interrupt \/ LoopStep \/ TimesOut \/ ServerStep

Spec == Init /\ [][Next]_vars

\* Threads that can run do, and a time limit that keeps applying is applied.  The
\* server owes nothing.
FairSpec == Spec /\ WF_vars(HostStep) /\ WF_vars(LoopStep) /\ WF_vars(TimesOut)
-----------------------------------------------------------------------------
\* Properties.

\* What the caller is promised (AtMostOnceCall): a tools/call is carried out at most
\* once, within its own operation, and never after the host thread went on to
\* something else, whether it timed out, was interrupted or failed (_run, "never
\* replayed").
Contract == INSTANCE AtMostOnceCall WITH
  Operations <- 1..MaxOps,
  open <- IF pc = "idle" THEN 0 ELSE ops,
  effects <- executed
CallsCarriedOutOnce == Contract!Spec

\* A changed catalogue is never forgotten: while calls can use a listing, it is the
\* server's catalogue, or `changed` is set, or the notice is still on its way
\* (list_tools clears the flag before it asks, not afterwards).
ChangeNoticed ==
  pc \in {"idle", "calling"} /\ Connected /\ link = "up" /\ catalog # 0 =>
    catalog = version \/ changed \/ \E i \in 1..Len(toClient) : toClient[i] = Notice

\* Once a connection was closed, normally or because an operation failed, neither the
\* server nor a descendant in its group is left running (close, _start, _run).
NothingLeft ==
  pc = "idle" /\ (~held \/ outcome = "failed") => server # "live" /\ ~family

\* Every operation of the host ends: a dead or silent server, a group that keeps the
\* pipe open and an interrupt at any point of it do not hold up the host thread.
OperationsEnd == pc # "idle" ~> pc = "idle"
=============================================================================
