---------------------------- MODULE BoundedProcess ----------------------------
(***************************************************************************)
(* The commands the tools run (mini_pi/tools/process.py): a child in a     *)
(* process group of its own, its descendants, one pipe with a thread that  *)
(* drains it (stdout and stderr are alike), the time limit, the wait for   *)
(* descendants that keep the pipe open, and Ctrl+C at any of these points. *)
(*                                                                         *)
(* pc: idle; start (between Popen and the try block); wait; kill (the      *)
(* handler of the time limit); drain and drained (the first and the second *)
(* join of the threads); cleanup (the join of _cleanup_interrupted).       *)
(***************************************************************************)
EXTENDS Naturals

CONSTANTS
  MaxRuns,        \* bound: commands
  MaxDescendants, \* bound: descendants of a command alive at once
  MaxUnread,      \* bound: chunks in a pipe
  MayEscape,      \* whether a descendant may leave the group (setsid)
  InterruptAt     \* points at which Ctrl+C may land

Points == {"idle", "start", "wait", "kill", "drain", "drained", "cleanup"}

ASSUME BoundedProcessAssumption ==
  /\ MaxRuns \in Nat \ {0} /\ MaxDescendants \in Nat /\ MaxUnread \in Nat
  /\ MayEscape \in BOOLEAN
  /\ InterruptAt \subseteq Points

Runs == 1 .. MaxRuns

\* <<r, 0>> is the child of command r.
Processes == Runs \X (0 .. MaxDescendants)

VARIABLES
  run,      \* the current or last command
  pc,
  alive,    \* processes
  escaped,  \* the ones that left their command's group, ended or not
  holding,  \* the ones with the write end of their command's pipe
  unread,   \* chunks in each pipe
  open,     \* commands whose read end is open
  reader,   \* the pipe each command's thread is blocked on, 0 when it ended
  got,      \* history: the pipes each thread has read from
  killed,   \* whether the group of the current command was killed
  outcome   \* of the last command: none, done, timed out, interrupted

vars == <<run, pc, alive, escaped, holding, unread, open, reader, got, killed, outcome>>

Init ==
  /\ run = 0 /\ pc = "idle"
  /\ alive = {} /\ escaped = {} /\ holding = {}
  /\ unread = [r \in Runs |-> 0] /\ open = {}
  /\ reader = [r \in Runs |-> 0] /\ got = [r \in Runs |-> {}]
  /\ killed = FALSE /\ outcome = "none"

-------------------------------------------------------------------------------
(* _run_bounded.                                                           *)

Child == <<run, 0>>
GroupOf(r) == {p \in alive \ escaped : p[1] = r}

\* Mutant: the child is killed, not its group.
KillChild ==
  /\ alive' = alive \ {Child}
  /\ holding' = holding \ {Child}
  /\ killed' = TRUE

\* killpg(SIGKILL), and wait() for the child.
KillGroup ==
  /\ alive' = alive \ GroupOf(run)
  /\ holding' = holding \ GroupOf(run)
  /\ killed' = TRUE

Popen ==
  /\ pc = "idle"
  /\ run < MaxRuns
  /\ run' = run + 1
  /\ alive' = alive \cup {<<run + 1, 0>>}
  /\ holding' = holding \cup {<<run + 1, 0>>}
  /\ open' = open \cup {run + 1}
  /\ killed' = FALSE /\ outcome' = "none"
  /\ pc' = "start"
  /\ UNCHANGED <<escaped, unread, reader, got>>

StartThreads ==
  /\ pc = "start"
  /\ reader' = [reader EXCEPT ![run] = run]
  /\ pc' = "wait"
  /\ UNCHANGED <<run, alive, escaped, holding, unread, open, got, killed, outcome>>

\* Mutant: the result is taken as soon as the child has ended.
WaitReturnsUndrained ==
  /\ pc = "wait"
  /\ Child \notin alive
  /\ pc' = "idle"
  /\ open' = open \ {run}
  /\ outcome' = "done"
  /\ UNCHANGED <<run, alive, escaped, holding, unread, reader, got, killed>>

WaitReturns ==
  /\ pc = "wait"
  /\ Child \notin alive
  /\ pc' = "drain"
  /\ outcome' = "done"
  /\ UNCHANGED <<run, alive, escaped, holding, unread, open, reader, got, killed>>

WaitTimesOut ==
  /\ pc = "wait"
  /\ Child \in alive
  /\ pc' = "kill"
  /\ outcome' = "timed out"
  /\ UNCHANGED <<run, alive, escaped, holding, unread, open, reader, got, killed>>

KillTimedOut ==
  /\ pc = "kill"
  /\ KillGroup
  /\ pc' = "drain"
  /\ UNCHANGED <<run, escaped, unread, open, reader, got, outcome>>

Close ==
  /\ open' = open \ {run}
  /\ pc' = "idle"

ThreadEnded ==
  /\ pc = "drain"
  /\ reader[run] = 0
  /\ Close
  /\ UNCHANGED <<run, alive, escaped, holding, unread, reader, got, killed, outcome>>

\* Mutant: descendants that hold the pipe are left alone.
LeaveHolders ==
  /\ pc = "drain"
  /\ reader[run] # 0
  /\ pc' = "drained"
  /\ UNCHANGED <<run, alive, escaped, holding, unread, open, reader, got, killed, outcome>>

\* A second after the child somebody still holds the pipe.
KillHolders ==
  /\ pc = "drain"
  /\ reader[run] # 0
  /\ KillGroup
  /\ pc' = "drained"
  /\ UNCHANGED <<run, escaped, unread, open, reader, got, outcome>>

\* Mutant: the second join has no deadline.
CloseDrainedAtEnd ==
  /\ pc \in {"drained", "cleanup"}
  /\ reader[run] = 0
  /\ Close
  /\ UNCHANGED <<run, alive, escaped, holding, unread, reader, got, killed, outcome>>

\* The read end is closed after one more second, in which a thread whose pipe
\* nobody holds any more comes to its end.
CloseDrained ==
  /\ pc \in {"drained", "cleanup"}
  /\ reader[run] # 0 => \E p \in holding : p[1] = run
  /\ Close
  /\ UNCHANGED <<run, alive, escaped, holding, unread, reader, got, killed, outcome>>

\* Ctrl+C.  While it waits for the child, _cleanup_interrupted kills the group
\* and does not give up; anywhere else the exception just leaves.
Interrupt ==
  /\ pc \in InterruptAt \ {"idle"}
  /\ outcome' = "interrupted"
  /\ IF pc = "wait"
       THEN KillGroup /\ pc' = "cleanup"
       ELSE pc' = "idle" /\ UNCHANGED <<alive, holding, killed>>
  /\ UNCHANGED <<run, escaped, unread, open, reader, got>>

-------------------------------------------------------------------------------
(* _pump, the thread of each command.                                      *)

\* What the descriptor number of a closed read end may stand for by the time
\* the thread reads again: nothing, or the pipe of a later command.
ReadsNext(r) == IF r \in open THEN {r} ELSE {0} \cup {s \in open : s > r}

Feed(r) ==
  /\ reader[r] # 0
  /\ unread[reader[r]] > 0
  /\ unread' = [unread EXCEPT ![reader[r]] = @ - 1]
  /\ got' = [got EXCEPT ![r] = @ \cup {reader[r]}]
  /\ \E next \in ReadsNext(r) : reader' = [reader EXCEPT ![r] = next]
  /\ UNCHANGED <<run, pc, alive, escaped, holding, open, killed, outcome>>

EndOfFile(r) ==
  /\ reader[r] # 0
  /\ unread[reader[r]] = 0
  /\ \A p \in holding : p[1] # reader[r]
  /\ reader' = [reader EXCEPT ![r] = 0]
  /\ UNCHANGED <<run, pc, alive, escaped, holding, unread, open, got, killed, outcome>>

Pump == \E r \in Runs : Feed(r) \/ EndOfFile(r)

-------------------------------------------------------------------------------
(* The processes.                                                          *)

Fork ==
  /\ \E p \in alive, i \in 1 .. MaxDescendants :
       LET q == <<p[1], i>> IN
       /\ q \notin alive \cup escaped
       /\ alive' = alive \cup {q}
       /\ holding' = IF p \in holding THEN holding \cup {q} ELSE holding
       /\ escaped' = IF p \in escaped THEN escaped \cup {q} ELSE escaped
  /\ UNCHANGED <<run, pc, unread, open, reader, got, killed, outcome>>

Escape ==
  /\ MayEscape
  /\ \E p \in alive : p[2] # 0 /\ escaped' = escaped \cup {p}
  /\ UNCHANGED <<run, pc, alive, holding, unread, open, reader, got, killed, outcome>>

Write ==
  /\ \E p \in holding :
       /\ unread[p[1]] < MaxUnread
       /\ unread' = [unread EXCEPT ![p[1]] = @ + 1]
  /\ UNCHANGED <<run, pc, alive, escaped, holding, open, reader, got, killed, outcome>>

\* A process redirects its output elsewhere, or ends.
LetGo ==
  /\ \E p \in holding : holding' = holding \ {p}
  /\ UNCHANGED <<run, pc, alive, escaped, unread, open, reader, got, killed, outcome>>

End ==
  /\ \E p \in alive : alive' = alive \ {p} /\ holding' = holding \ {p}
  /\ UNCHANGED <<run, pc, escaped, unread, open, reader, got, killed, outcome>>

-------------------------------------------------------------------------------
RunBounded ==
  \/ StartThreads \/ WaitReturns \/ WaitTimesOut \/ KillTimedOut
  \/ ThreadEnded \/ KillHolders \/ CloseDrained

Next ==
  \/ Popen \/ RunBounded \/ Interrupt \/ Pump
  \/ Fork \/ Escape \/ Write \/ LetGo \/ End

Spec == Init /\ [][Next]_vars

\* The program and its threads go on.  Nothing is assumed of the processes.
FairSpec == Spec /\ WF_vars(RunBounded) /\ \A r \in Runs : WF_vars(Feed(r) \/ EndOfFile(r))

-------------------------------------------------------------------------------
TypeOK ==
  /\ run \in 0 .. MaxRuns /\ pc \in Points
  /\ alive \subseteq Processes /\ escaped \subseteq Processes /\ holding \subseteq alive
  /\ unread \in [Runs -> 0 .. MaxUnread] /\ open \subseteq Runs
  /\ reader \in [Runs -> 0 .. MaxRuns] /\ got \in [Runs -> SUBSET Runs]
  /\ killed \in BOOLEAN /\ outcome \in {"none", "done", "timed out", "interrupted"}

\* A command that was stopped, by its time limit or by Ctrl+C while its child
\* ran, leaves nothing of its process group behind (README.md:392,
\* process.py:145-146): with InterruptAt the points the code guards.
GroupGone ==
  pc = "idle" /\ outcome \in {"timed out", "interrupted"} => GroupOf(run) = {}

\* Output is captured for the command that wrote it, although the descriptor
\* of a closed pipe is given to the next command while a thread may still use
\* it, as long as no descendant leaves the group (_pump).
OwnOutputOnly ==
  \A r \in Runs : (\A p \in escaped : p[1] # r) => got[r] \subseteq {r}

\* Output is captured for the command that wrote it, whatever its descendants
\* do (_pump's docstring, process.py:194).
PumpsOwnPipe == \A r \in Runs : got[r] \subseteq {r}

\* The output of a command that was not killed is complete when it returns.
OutputComplete ==
  pc = "idle" /\ outcome = "done" /\ ~killed => unread[run] = 0 /\ reader[run] = 0

\* A command returns, though its child never ends, ends with the pipe held by
\* a descendant, or writes without end.
CommandEnds == pc # "idle" ~> pc = "idle"
===============================================================================
