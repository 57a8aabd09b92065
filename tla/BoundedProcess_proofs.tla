------------------------ MODULE BoundedProcess_proofs -------------------------
(***************************************************************************)
(* Theorems of BoundedProcess, for every number of commands, descendants   *)
(* and chunks, whether or not descendants leave their group.               *)
(***************************************************************************)
EXTENDS BoundedProcess, TLAPS

(* What the constants are assumed to be, for the leaves that need it. *)
LEMMA Constants ==
  /\ MaxRuns \in Nat \ {0} /\ MaxDescendants \in Nat /\ MaxUnread \in Nat
  BY BoundedProcessAssumption

-------------------------------------------------------------------------------
(* Type correctness.                                                       *)

LEMMA TypeInit == Init => TypeOK
<1> SUFFICES ASSUME Init PROVE TypeOK
  OBVIOUS
<1>1. run \in 0 .. MaxRuns /\ pc \in Points
  BY Constants DEF Init, Points
<1>2. alive \subseteq Processes /\ escaped \subseteq Processes /\ holding \subseteq alive
      /\ open \subseteq Runs
  BY DEF Init
<1>3. /\ unread \in [Runs -> 0 .. MaxUnread] /\ reader \in [Runs -> 0 .. MaxRuns]
      /\ got \in [Runs -> SUBSET Runs]
  BY Constants DEF Init
<1>4. killed \in BOOLEAN /\ outcome \in {"none", "done", "timed out", "interrupted"}
  BY Zenon DEF Init
<1> QED BY <1>1, <1>2, <1>3, <1>4, Zenon DEF TypeOK

\* While a command runs it is one of the runs, and its read end is open.
RunInv == pc # "idle" => run \in Runs /\ run \in open

LEMMA RunInit == Init => RunInv
  BY DEF Init, RunInv

\* A descendant of a process is one.
LEMMA ForkedIsProcess ==
  ASSUME NEW p \in Processes, NEW i \in 1 .. MaxDescendants
  PROVE  <<p[1], i>> \in Processes
  BY Constants DEF Processes, Runs

LEMMA TypeStep ==
  ASSUME TypeOK, RunInv, [Next]_vars
  PROVE  TypeOK' /\ RunInv'
<1> DEFINE Processed == /\ alive \subseteq Processes /\ escaped \subseteq Processes
                        /\ holding \subseteq alive
           Piped == /\ unread \in [Runs -> 0 .. MaxUnread] /\ reader \in [Runs -> 0 .. MaxRuns]
                    /\ got \in [Runs -> SUBSET Runs]
           Told == /\ pc \in Points /\ killed \in BOOLEAN
                   /\ outcome \in {"none", "done", "timed out", "interrupted"}
           Numbered == run \in 0 .. MaxRuns /\ open \subseteq Runs /\ RunInv
<1>a. Processed /\ Piped /\ Told /\ Numbered
  BY DEF TypeOK
<1>b. Processed' /\ Piped' /\ Told' /\ Numbered' => TypeOK' /\ RunInv'
  BY DEF TypeOK
<1>1. CASE Popen
  <2>0. run < MaxRuns /\ run' = run + 1 /\ open' = open \cup {run'} /\ run \in 0 .. MaxRuns
    BY <1>1, <1>a DEF Popen
  <2>1. run' \in Runs /\ run' \in 0 .. MaxRuns
    BY <2>0, Constants DEF Runs
  <2>2. 0 \in 0 .. MaxDescendants
    BY Constants
  <2>3. <<run', 0>> \in Processes
    BY <2>1, <2>2 DEF Processes
  <2>4. Numbered'
    BY <1>a, <2>0, <2>1 DEF RunInv
  <2>5. Processed'
    BY <1>1, <1>a, <2>0, <2>3 DEF Popen
  <2>6. Told'
    BY <1>1, Zenon DEF Popen, Points
  <2> QED BY <1>1, <1>a, <1>b, <2>4, <2>5, <2>6 DEF Popen
<1>2. CASE StartThreads
  <2>1. run \in Runs /\ run \in 0 .. MaxRuns
    BY <1>2, <1>a DEF StartThreads, RunInv
  <2>2. Piped'
    BY <1>2, <1>a, <2>1 DEF StartThreads
  <2> QED BY <1>2, <1>a, <1>b, <2>2 DEF StartThreads, Points, RunInv
<1>3. CASE WaitReturns \/ WaitTimesOut
  BY <1>3, <1>a, <1>b DEF WaitReturns, WaitTimesOut, Points, RunInv
<1>4. CASE KillTimedOut \/ KillHolders
  <2>1. killed' \in BOOLEAN
    BY <1>4, Zenon DEF KillTimedOut, KillHolders, KillGroup
  <2> QED BY <1>4, <1>a, <1>b, <2>1
          DEF KillTimedOut, KillHolders, KillGroup, GroupOf, Points, RunInv
<1>5. CASE ThreadEnded \/ CloseDrained
  BY <1>5, <1>a, <1>b DEF ThreadEnded, CloseDrained, Close, Points, RunInv
<1>6. CASE Interrupt
  <2>1. killed' \in BOOLEAN
    BY <1>6, <1>a, Zenon DEF Interrupt, KillGroup
  <2> QED BY <1>6, <1>a, <1>b, <2>1 DEF Interrupt, KillGroup, GroupOf, Points, RunInv
<1>7. ASSUME NEW r \in Runs, Feed(r) \/ EndOfFile(r) PROVE TypeOK' /\ RunInv'
  <2>1. UNCHANGED <<run, pc, alive, escaped, holding, open, killed, outcome>>
    BY <1>7 DEF Feed, EndOfFile
  <2>2. ASSUME Feed(r) PROVE Piped'
    <3>1. PICK next \in ReadsNext(r) : reader' = [reader EXCEPT ![r] = next]
      BY <2>2 DEF Feed
    <3>2. ReadsNext(r) \subseteq {0} \cup Runs
      BY <1>a DEF ReadsNext
    <3>3. next \in 0 .. MaxRuns
      BY <3>2, Constants DEF Runs
    <3>4. reader[r] \in Runs
      <4>1. reader[r] \in 0 .. MaxRuns /\ reader[r] # 0
        BY <1>7, <1>a, <2>2 DEF Feed
      <4> QED BY <4>1, Constants DEF Runs
    <3>5. unread[reader[r]] \in 0 .. MaxUnread /\ unread[reader[r]] > 0
      BY <1>a, <2>2, <3>4 DEF Feed
    <3>6. unread[reader[r]] - 1 \in 0 .. MaxUnread
      BY <3>5, Constants
    <3>7. unread' \in [Runs -> 0 .. MaxUnread]
      BY <1>a, <2>2, <3>4, <3>6 DEF Feed
    <3>8. got' \in [Runs -> SUBSET Runs]
      <4>1. got' = [got EXCEPT ![r] = @ \cup {reader[r]}] /\ got \in [Runs -> SUBSET Runs]
        BY <1>a, <2>2 DEF Feed
      <4>2. got[r] \cup {reader[r]} \in SUBSET Runs
        BY <1>7, <3>4, <4>1
      <4> QED BY <4>1, <4>2
    <3> QED BY <1>7, <1>a, <3>1, <3>3, <3>7, <3>8
  <2>3. ASSUME EndOfFile(r) PROVE Piped'
    <3>1. 0 \in 0 .. MaxRuns
      BY Constants
    <3> QED BY <1>7, <1>a, <2>3, <3>1 DEF EndOfFile
  <2> QED BY <1>7, <1>a, <1>b, <2>1, <2>2, <2>3 DEF RunInv
<1>8. CASE Fork
  <2>1. PICK p \in alive, i \in 1 .. MaxDescendants :
          /\ alive' = alive \cup {<<p[1], i>>}
          /\ holding' = IF p \in holding THEN holding \cup {<<p[1], i>>} ELSE holding
          /\ escaped' = IF p \in escaped THEN escaped \cup {<<p[1], i>>} ELSE escaped
    BY <1>8 DEF Fork
  <2>2. <<p[1], i>> \in Processes
    BY <1>a, ForkedIsProcess
  <2>3. Processed'
    BY <1>a, <2>1, <2>2
  <2> QED BY <1>8, <1>a, <1>b, <2>3 DEF Fork, RunInv
<1>9. CASE Escape
  BY <1>9, <1>a, <1>b DEF Escape, RunInv
<1>10. CASE Write
  <2>1. PICK p \in holding : unread[p[1]] < MaxUnread
                             /\ unread' = [unread EXCEPT ![p[1]] = @ + 1]
    BY <1>10 DEF Write
  <2>2. p[1] \in Runs
    BY <1>a DEF Processes
  <2>3. unread[p[1]] + 1 \in 0 .. MaxUnread
    <3>1. unread[p[1]] \in 0 .. MaxUnread
      BY <1>a, <2>2
    <3> QED BY <2>1, <3>1, Constants
  <2>4. unread' \in [Runs -> 0 .. MaxUnread]
    BY <1>a, <2>1, <2>2, <2>3
  <2> QED BY <1>10, <1>a, <1>b, <2>4 DEF Write, RunInv
<1>11. CASE LetGo \/ End
  BY <1>11, <1>a, <1>b DEF LetGo, End, RunInv
<1>12. CASE UNCHANGED vars
  BY <1>12, <1>a, <1>b DEF vars, RunInv
<1> QED BY <1>1, <1>2, <1>3, <1>4, <1>5, <1>6, <1>7, <1>8, <1>9, <1>10, <1>11, <1>12
        DEF Next, RunBounded, Pump

\* Every reachable state has the types TypeOK gives: whoever holds a pipe is
\* alive, and no pipe is over its bound.
THEOREM TypeCorrect == Spec => []TypeOK
<1>1. TypeOK /\ RunInv /\ [Next]_vars => TypeOK' /\ RunInv'
  BY TypeStep
<1> QED BY <1>1, TypeInit, RunInit, PTL DEF Spec

-------------------------------------------------------------------------------
(* The process group.                                                      *)

\* No Ctrl+C at the points where the exception leaves the group to itself.
Guarded == InterruptAt \cap {"start", "kill", "drain"} = {}

\* A group that was killed stays empty: its last members have left it, and
\* what they start is outside it too.  The second join and the cleanup come
\* after a kill.
GroupInv ==
  /\ killed => GroupOf(run) = {}
  /\ pc \in {"drained", "cleanup"} => killed

\* A command was stopped by a kill.
StoppedInv ==
  /\ outcome = "timed out" /\ pc # "kill" => killed
  /\ outcome = "interrupted" => killed

\* Nothing joins an empty group.
LEMMA GroupStays ==
  ASSUME Fork \/ Escape \/ Write \/ LetGo \/ End
  PROVE  GroupOf(run) = {} => GroupOf(run)' = {}
<1>1. CASE Fork
  <2> SUFFICES ASSUME GroupOf(run) = {} PROVE GroupOf(run)' = {}
    OBVIOUS
  <2>1. PICK p \in alive, i \in 1 .. MaxDescendants :
          /\ alive' = alive \cup {<<p[1], i>>}
          /\ escaped' = IF p \in escaped THEN escaped \cup {<<p[1], i>>} ELSE escaped
    BY <1>1 DEF Fork
  <2>2. p[1] = run => p \in escaped
    BY DEF GroupOf
  <2>3. run' = run
    BY <1>1 DEF Fork
  <2> QED BY <2>1, <2>2, <2>3 DEF GroupOf
<1>2. CASE Escape \/ Write \/ LetGo \/ End
  BY <1>2 DEF Escape, Write, LetGo, End, GroupOf
<1> QED BY <1>1, <1>2

LEMMA GroupStep == GroupInv /\ [Next]_vars => GroupInv'
<1> SUFFICES ASSUME GroupInv, [Next]_vars PROVE GroupInv'
  OBVIOUS
<1>a. UNCHANGED <<run, alive, escaped>> => GroupOf(run)' = GroupOf(run)
  BY DEF GroupOf
<1>1. CASE Popen
  BY <1>1 DEF Popen, GroupInv
<1>7. CASE StartThreads \/ WaitReturns \/ WaitTimesOut \/ ThreadEnded \/ CloseDrained
  <2>1. UNCHANGED <<run, alive, escaped, killed>> /\ pc' \notin {"drained", "cleanup"}
    BY <1>7 DEF StartThreads, WaitReturns, WaitTimesOut, ThreadEnded, CloseDrained, Close
  <2> QED BY <1>a, <2>1, Zenon DEF GroupInv
<1>2. CASE KillTimedOut \/ KillHolders
  BY <1>2 DEF KillTimedOut, KillHolders, KillGroup, GroupInv, GroupOf
<1>3. CASE Interrupt
  BY <1>3 DEF Interrupt, KillGroup, GroupInv, GroupOf
<1>4. CASE Pump
  BY <1>4 DEF Pump, Feed, EndOfFile, GroupInv, GroupOf
<1>5. CASE Fork \/ Escape \/ Write \/ LetGo \/ End
  <2>1. UNCHANGED <<pc, killed>>
    BY <1>5 DEF Fork, Escape, Write, LetGo, End
  <2> QED BY <1>5, <2>1, GroupStays, Zenon DEF GroupInv
<1>6. CASE UNCHANGED vars
  BY <1>6 DEF vars, GroupInv, GroupOf
<1> QED BY <1>1, <1>2, <1>3, <1>4, <1>5, <1>6, <1>7 DEF Next, RunBounded

LEMMA StoppedStep == Guarded /\ TypeOK /\ GroupInv /\ StoppedInv /\ [Next]_vars => StoppedInv'
<1> SUFFICES ASSUME Guarded, TypeOK, GroupInv, StoppedInv, [Next]_vars PROVE StoppedInv'
  OBVIOUS
<1>1. CASE Popen \/ StartThreads \/ WaitReturns \/ WaitTimesOut \/ ThreadEnded \/ CloseDrained
  BY <1>1 DEF Popen, StartThreads, WaitReturns, WaitTimesOut, ThreadEnded, CloseDrained, Close,
     StoppedInv
<1>2. CASE KillTimedOut \/ KillHolders
  BY <1>2 DEF KillTimedOut, KillHolders, KillGroup, StoppedInv
<1>3. CASE Interrupt
  <2>1. CASE pc = "wait"
    BY <1>3, <2>1 DEF Interrupt, KillGroup, StoppedInv
  <2>2. CASE pc # "wait"
    <3>1. pc \in {"drained", "cleanup"}
      BY <1>3, <2>2 DEF Interrupt, Guarded, TypeOK, Points
    <3>2. UNCHANGED killed
      BY <1>3, <2>2 DEF Interrupt
    <3> QED BY <3>1, <3>2, Zenon DEF GroupInv, StoppedInv
  <2> QED BY <2>1, <2>2
<1>4. CASE Pump \/ Fork \/ Escape \/ Write \/ LetGo \/ End
  BY <1>4 DEF Pump, Feed, EndOfFile, Fork, Escape, Write, LetGo, End, StoppedInv
<1>5. CASE UNCHANGED vars
  BY <1>5 DEF vars, StoppedInv
<1> QED BY <1>1, <1>2, <1>3, <1>4, <1>5 DEF Next, RunBounded

\* When Ctrl+C lands only where the code expects it, a command that was stopped
\* leaves nothing of its process group behind, whatever its descendants did
\* meanwhile (_run_bounded, _cleanup_interrupted).
THEOREM GroupAlwaysGone == Guarded => (Spec => []GroupGone)
<1> SUFFICES ASSUME Guarded PROVE Spec => []GroupGone
  OBVIOUS
<1>1. Init => GroupInv /\ StoppedInv
  BY DEF Init, GroupInv, StoppedInv
<1>2. GroupInv /\ StoppedInv => GroupGone
  BY DEF GroupInv, StoppedInv, GroupGone
<1>3. TypeOK /\ GroupInv /\ StoppedInv /\ [Next]_vars => GroupInv' /\ StoppedInv'
  BY GroupStep, StoppedStep
<1> QED BY <1>1, <1>2, <1>3, TypeCorrect, PTL DEF Spec

-------------------------------------------------------------------------------
(* The threads.  A read end is closed under a thread only when a descendant *)
(* outside the group still holds the pipe.                                 *)

EscapedFrom(r) == \E p \in escaped : p[1] = r

ThreadInv ==
  \A r \in Runs :
    /\ r > run => reader[r] = 0
    /\ r \in open => reader[r] \in {0, r}
    /\ \/ EscapedFrom(r)
       \/ got[r] \subseteq {r} /\ reader[r] \in {0, r} /\ (r \notin open => reader[r] = 0)

LEMMA ThreadInit == Init => ThreadInv
  BY DEF Init, ThreadInv

\* Who left the group of a command has left it for good.
LEMMA EscapedStays ==
  ASSUME [Next]_vars, NEW r, EscapedFrom(r)
  PROVE  EscapedFrom(r)'
<1>1. escaped \subseteq escaped'
  BY DEF Next, RunBounded, Popen, StartThreads, WaitReturns, WaitTimesOut, KillTimedOut,
     ThreadEnded, KillHolders, CloseDrained, Interrupt, Pump, Feed, EndOfFile,
     Fork, Escape, Write, LetGo, End, vars
<1> QED BY <1>1 DEF EscapedFrom

LEMMA ThreadStep ==
  ASSUME TypeOK, RunInv, GroupInv, ThreadInv, [Next]_vars
  PROVE  ThreadInv'
<1>a. /\ reader \in [Runs -> 0 .. MaxRuns] /\ got \in [Runs -> SUBSET Runs]
      /\ holding \subseteq alive
  BY DEF TypeOK
<1> SUFFICES ASSUME NEW r \in Runs
             PROVE  /\ r > run' => reader'[r] = 0
                    /\ r \in open' => reader'[r] \in {0, r}
                    /\ \/ EscapedFrom(r)'
                       \/ /\ got'[r] \subseteq {r} /\ reader'[r] \in {0, r}
                          /\ r \notin open' => reader'[r] = 0
  BY DEF ThreadInv, EscapedFrom
<1>b. /\ r > run => reader[r] = 0
      /\ r \in open => reader[r] \in {0, r}
      /\ \/ EscapedFrom(r)
         \/ got[r] \subseteq {r} /\ reader[r] \in {0, r} /\ (r \notin open => reader[r] = 0)
  BY DEF ThreadInv
<1>1. CASE UNCHANGED <<run, open, reader, got>>
  BY <1>1, <1>b, EscapedStays
<1>2. CASE Popen
  <2>1. open' = open \cup {run + 1} /\ run' = run + 1 /\ UNCHANGED <<reader, got>>
    BY <1>2 DEF Popen
  <2>2. run \in Nat /\ r \in Nat
    <3>1. run \in 0 .. MaxRuns
      BY DEF TypeOK
    <3> QED BY <3>1, Constants DEF Runs
  <2>3. r > run' => reader[r] = 0
    BY <1>b, <2>1, <2>2
  <2>4. r \in open' => reader[r] \in {0, r}
    BY <1>b, <2>1, <2>2
  <2> QED BY <1>b, <2>1, <2>3, <2>4, EscapedStays
<1>3. CASE StartThreads
  <2>1. run \in Runs /\ run \in open /\ run' = run /\ open' = open /\ got' = got
        /\ reader' = [reader EXCEPT ![run] = run]
    BY <1>3 DEF StartThreads, RunInv
  <2>2. ~(run > run)
    BY <2>1 DEF Runs
  <2> QED BY <1>a, <1>b, <2>1, <2>2, EscapedStays
<1>4. CASE ThreadEnded
  BY <1>4, <1>b, EscapedStays DEF ThreadEnded, Close
<1>5. CASE CloseDrained
  <2>1. open' = open \ {run} /\ UNCHANGED <<run, reader, got>>
    BY <1>5 DEF CloseDrained, Close
  <2>2. ASSUME reader[run] # 0 PROVE EscapedFrom(run)
    <3>1. PICK p \in holding : p[1] = run
      BY <1>5, <2>2 DEF CloseDrained
    <3>2. GroupOf(run) = {}
      BY <1>5 DEF CloseDrained, GroupInv
    <3> QED BY <1>a, <3>1, <3>2 DEF GroupOf, EscapedFrom
  <2> QED BY <1>b, <2>1, <2>2, EscapedStays
<1>6. ASSUME NEW s \in Runs, Feed(s)
      PROVE  /\ r > run' => reader'[r] = 0
             /\ r \in open' => reader'[r] \in {0, r}
             /\ \/ EscapedFrom(r)'
                \/ /\ got'[r] \subseteq {r} /\ reader'[r] \in {0, r}
                   /\ r \notin open' => reader'[r] = 0
  <2>1. PICK next \in ReadsNext(s) : reader' = [reader EXCEPT ![s] = next]
    BY <1>6 DEF Feed
  <2>2. got' = [got EXCEPT ![s] = @ \cup {reader[s]}] /\ open' = open /\ run' = run
        /\ reader[s] # 0
    BY <1>6 DEF Feed
  <2>3. CASE s # r
    BY <1>a, <1>b, <2>1, <2>2, <2>3, EscapedStays
  <2>4. CASE s = r
    <3>1. r \in open => next = r
      BY <2>4 DEF ReadsNext
    <3>2. reader'[r] = next /\ got'[r] = got[r] \cup {reader[r]}
      BY <1>a, <2>1, <2>2, <2>4
    <3> QED BY <1>b, <2>2, <2>4, <3>1, <3>2, EscapedStays
  <2> QED BY <2>3, <2>4
<1>7. ASSUME NEW s \in Runs, EndOfFile(s)
      PROVE  /\ r > run' => reader'[r] = 0
             /\ r \in open' => reader'[r] \in {0, r}
             /\ \/ EscapedFrom(r)'
                \/ /\ got'[r] \subseteq {r} /\ reader'[r] \in {0, r}
                   /\ r \notin open' => reader'[r] = 0
  BY <1>7, <1>a, <1>b, EscapedStays DEF EndOfFile
<1> QED BY <1>1, <1>2, <1>3, <1>4, <1>5, <1>6, <1>7
        DEF Next, RunBounded, WaitReturns, WaitTimesOut, KillTimedOut, KillHolders, Interrupt,
            Pump, Fork, Escape, Write, LetGo, End, vars

\* Output is captured for the command that wrote it, as long as none of its
\* descendants leaves the group, wherever Ctrl+C lands and although the
\* descriptor of a closed pipe is used again (_pump, _run_bounded).
THEOREM OutputIsOwn == Spec => []OwnOutputOnly
<1>1. Init => GroupInv
  BY DEF Init, GroupInv
<1>2. ThreadInv => OwnOutputOnly
  BY DEF ThreadInv, EscapedFrom, OwnOutputOnly
<1>3. TypeOK /\ RunInv /\ GroupInv /\ ThreadInv /\ [Next]_vars
        => TypeOK' /\ RunInv' /\ GroupInv' /\ ThreadInv'
  BY TypeStep, GroupStep, ThreadStep
<1> QED BY <1>1, <1>2, <1>3, TypeInit, RunInit, ThreadInit, PTL DEF Spec

-------------------------------------------------------------------------------
(* The output.  Once the thread of the current command has ended, nobody    *)
(* can write to its pipe and nothing is left in it.                        *)

Drained(r) == reader[r] = 0 /\ unread[r] = 0 /\ \A p \in holding : p[1] # r

OutputInv ==
  /\ pc \notin {"idle", "start"} /\ reader[run] = 0 => Drained(run)
  /\ pc = "idle" /\ outcome = "done" /\ ~killed => Drained(run)
  /\ run \notin Runs => outcome = "none"

LEMMA OutputInit == Init => OutputInv
  BY DEF Init, OutputInv

\* A drained pipe stays drained, whatever processes and threads do.
LEMMA DrainedStays ==
  ASSUME TypeOK, NEW r \in Runs, Drained(r),
         Pump \/ Fork \/ Escape \/ Write \/ LetGo \/ End
  PROVE  Drained(r)'
<1>a. /\ unread \in [Runs -> 0 .. MaxUnread] /\ reader \in [Runs -> 0 .. MaxRuns]
      /\ holding \subseteq alive /\ alive \subseteq Processes
  BY DEF TypeOK
<1>1. ASSUME NEW s \in Runs, Feed(s) PROVE Drained(r)'
  <2>1. PICK next : reader' = [reader EXCEPT ![s] = next]
    BY <1>1 DEF Feed
  <2>2. /\ reader[s] # 0 /\ unread[reader[s]] > 0 /\ holding' = holding
        /\ unread' = [unread EXCEPT ![reader[s]] = @ - 1]
    BY <1>1 DEF Feed
  <2>3. s # r /\ reader[s] # r
    BY <2>2 DEF Drained
  <2> QED BY <1>a, <2>1, <2>2, <2>3 DEF Drained
<1>2. ASSUME NEW s \in Runs, EndOfFile(s) PROVE Drained(r)'
  BY <1>2, <1>a DEF EndOfFile, Drained
<1>3. CASE Fork
  <2>1. PICK p \in alive, i \in 1 .. MaxDescendants :
          holding' = IF p \in holding THEN holding \cup {<<p[1], i>>} ELSE holding
    BY <1>3 DEF Fork
  <2>2. UNCHANGED <<reader, unread>>
    BY <1>3 DEF Fork
  <2> QED BY <2>1, <2>2 DEF Drained
<1>4. CASE Write
  <2>1. PICK p \in holding : unread' = [unread EXCEPT ![p[1]] = @ + 1]
    BY <1>4 DEF Write
  <2>2. p[1] # r /\ UNCHANGED <<reader, holding>>
    BY <1>4 DEF Write, Drained
  <2> QED BY <1>a, <2>1, <2>2 DEF Drained
<1>5. CASE Escape \/ LetGo \/ End
  BY <1>5 DEF Escape, LetGo, End, Drained
<1> QED BY <1>1, <1>2, <1>3, <1>4, <1>5 DEF Pump

LEMMA OutputStep ==
  ASSUME TypeOK, RunInv, GroupInv, ThreadInv, OutputInv, [Next]_vars
  PROVE  OutputInv'
<1>a. /\ unread \in [Runs -> 0 .. MaxUnread] /\ reader \in [Runs -> 0 .. MaxRuns]
  BY DEF TypeOK
<1>1. CASE Popen
  BY <1>1 DEF Popen, OutputInv
<1>2. CASE StartThreads
  <2>1. run \in Runs /\ run' = run /\ pc' = "wait" /\ reader' = [reader EXCEPT ![run] = run]
    BY <1>2 DEF StartThreads, RunInv
  <2>2. run # 0
    BY <2>1 DEF Runs
  <2> QED BY <1>a, <2>1, <2>2 DEF OutputInv
<1>3. CASE WaitReturns \/ WaitTimesOut
  <2>1. /\ pc = "wait" /\ pc' \in {"drain", "kill"}
        /\ UNCHANGED <<run, reader, unread, holding>>
    BY <1>3 DEF WaitReturns, WaitTimesOut
  <2>2. run \in Runs
    BY <2>1 DEF RunInv
  <2>3. Drained(run)' <=> Drained(run)
    BY <2>1 DEF Drained
  <2> QED BY <2>1, <2>2, <2>3 DEF OutputInv
<1>4. CASE KillTimedOut \/ KillHolders
  BY <1>4 DEF KillTimedOut, KillHolders, KillGroup, OutputInv, Drained
<1>5. CASE ThreadEnded
  BY <1>5 DEF ThreadEnded, Close, OutputInv, Drained
<1>6. CASE CloseDrained
  <2>1. pc' = "idle" /\ UNCHANGED <<run, killed, outcome>> /\ pc \in {"drained", "cleanup"}
    BY <1>6 DEF CloseDrained, Close
  <2>2. run \in Runs
    BY <2>1 DEF RunInv
  <2>3. outcome = "done" => killed
    BY <2>1 DEF GroupInv
  <2>4. outcome' = "done" => killed'
    BY <2>1, <2>3, Zenon
  <2>5. run' \in Runs
    BY <2>1, <2>2
  <2> QED BY <2>1, <2>4, <2>5 DEF OutputInv
<1>7. CASE Interrupt
  <2>1. pc \notin {"idle"} /\ outcome' = "interrupted" /\ pc' \in {"cleanup", "idle"}
        /\ UNCHANGED <<run, reader, unread>>
    BY <1>7 DEF Interrupt
  <2>2. run' \in Runs
    BY <2>1 DEF RunInv
  <2>3. CASE pc = "wait"
    <3>1. holding' \subseteq holding
      BY <1>7, <2>3 DEF Interrupt, KillGroup
    <3>2. Drained(run) => Drained(run)'
      BY <2>1, <3>1 DEF Drained
    <3> QED BY <2>1, <2>2, <2>3, <3>2 DEF OutputInv
  <2>4. CASE pc # "wait"
    <3>1. pc' = "idle"
      BY <1>7, <2>4 DEF Interrupt
    <3> QED BY <2>1, <2>2, <3>1 DEF OutputInv
  <2> QED BY <2>3, <2>4
<1>8. CASE Pump \/ Fork \/ Escape \/ Write \/ LetGo \/ End
  <2>1. UNCHANGED <<run, pc, killed, outcome>>
    BY <1>8 DEF Pump, Feed, EndOfFile, Fork, Escape, Write, LetGo, End
  <2>2. CASE run \notin Runs
    <3>1. pc = "idle"
      BY <2>2 DEF RunInv
    <3>2. outcome # "done"
      BY <2>2, <3>1 DEF OutputInv
    <3> QED BY <2>1, <3>1, <3>2 DEF OutputInv
  <2>3. CASE run \in Runs
    <3>1. Drained(run) => Drained(run)'
      BY <1>8, <2>1, <2>3, DrainedStays
    <3>2. ASSUME pc \notin {"idle", "start"}, reader[run] # 0, reader'[run] = 0
          PROVE  Drained(run)'
      <4>1. run \in open /\ reader[run] = run
        BY <2>3, <3>2 DEF RunInv, ThreadInv
      <4>2. ASSUME NEW s \in Runs, Feed(s) PROVE FALSE
        <5>1. PICK next \in ReadsNext(s) : reader' = [reader EXCEPT ![s] = next]
          BY <4>2 DEF Feed
        <5>2. s = run => next = run
          BY <4>1, <5>1 DEF ReadsNext
        <5> QED BY <1>a, <2>3, <3>2, <4>1, <5>1, <5>2
      <4>3. PICK s \in Runs : EndOfFile(s)
        BY <1>8, <3>2, <4>2 DEF Pump, Fork, Escape, Write, LetGo, End
      <4>4. s = run
        BY <1>a, <3>2, <4>3 DEF EndOfFile
      <4> QED BY <3>2, <4>1, <4>3, <4>4 DEF EndOfFile, Drained
    <3> QED BY <2>1, <3>1, <3>2 DEF OutputInv
  <2> QED BY <2>2, <2>3
<1>9. CASE UNCHANGED vars
  BY <1>9 DEF vars, OutputInv, Drained
<1> QED BY <1>1, <1>2, <1>3, <1>4, <1>5, <1>6, <1>7, <1>8, <1>9 DEF Next, RunBounded

\* The output of a command that came to its end by itself is complete when it
\* returns, although descendants go on writing after the child (_run_bounded).
THEOREM OutputAlwaysComplete == Spec => []OutputComplete
<1>1. Init => GroupInv
  BY DEF Init, GroupInv
<1>2. OutputInv => OutputComplete
  BY DEF OutputInv, Drained, OutputComplete
<1>3. TypeOK /\ RunInv /\ GroupInv /\ ThreadInv /\ OutputInv /\ [Next]_vars
        => TypeOK' /\ RunInv' /\ GroupInv' /\ ThreadInv' /\ OutputInv'
  BY TypeStep, GroupStep, ThreadStep, OutputStep
<1> QED BY <1>1, <1>2, <1>3, TypeInit, RunInit, ThreadInit, OutputInit, PTL DEF Spec
===============================================================================
