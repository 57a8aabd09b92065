--------------------------- MODULE McpClient_proofs ---------------------------
(***************************************************************************)
(* What a connection to an MCP server promises, for any number of          *)
(* operations, requests, catalogues, messages on their way and Ctrl+C.     *)
(***************************************************************************)
EXTENDS McpClient, TLAPS

\* Ctrl+C spares the two places of the host thread that no handler guards: between
\* clearing `changed` and the wait, and the wait of _cancel().
Guarded == "submitting" \notin InterruptAt /\ "cancelling" \notin InterruptAt

-----------------------------------------------------------------------------
(* Sequences.                                                              *)

IsSeq(s) == \E S : s \in Seq(S)

LEMMA Appended ==
  ASSUME NEW s, IsSeq(s), NEW m
  PROVE  /\ IsSeq(Append(s, m))
         /\ Len(Append(s, m)) = Len(s) + 1 /\ Len(s) \in Nat
         /\ \A i \in 1..Len(s) : Append(s, m)[i] = s[i]
         /\ Append(s, m)[Len(s) + 1] = m
<1>1. PICK S : s \in Seq(S)
  BY DEF IsSeq
<1>2. s \in Seq(S \cup {m}) /\ m \in S \cup {m}
  BY <1>1
<1>3. Append(s, m) \in Seq(S \cup {m})
  BY <1>2
<1>. QED  BY <1>2, <1>3 DEF IsSeq

LEMMA Taken ==
  ASSUME NEW s, IsSeq(s), s # <<>>
  PROVE  /\ IsSeq(Tail(s))
         /\ Len(s) \in Nat \ {0} /\ Len(Tail(s)) = Len(s) - 1
         /\ \A i \in 1..Len(Tail(s)) : Tail(s)[i] = s[i + 1] /\ i + 1 \in 1..Len(s)
         /\ Head(s) = s[1]
<1>1. PICK S : s \in Seq(S)
  BY DEF IsSeq
<1>. QED  BY <1>1 DEF IsSeq

LEMMA None == IsSeq(<<>>) /\ Len(<<>>) = 0
<1>1. <<>> \in Seq({})
  OBVIOUS
<1>. QED  BY <1>1 DEF IsSeq

-----------------------------------------------------------------------------
(* Requests on their way: every one has an identifier of its own.          *)

IsResult(m) == m.type = "result"

Pipes == IsSeq(toServer) /\ IsSeq(toClient) /\ made \in Nat

Apart ==
  /\ \A i \in 1..Len(toServer) :
       /\ toServer[i].id \in 1..made
       /\ \A j \in 1..Len(toServer) : toServer[j].id = toServer[i].id => j = i
       /\ doing # <<>> => doing[1].id # toServer[i].id
       /\ \A k \in 1..Len(toClient) : IsResult(toClient[k]) => toClient[k].id # toServer[i].id
  /\ doing # <<>> => doing[1].id \in 1..made
  /\ \A k \in 1..Len(toClient) : IsResult(toClient[k]) => toClient[k].id \in 1..made

\* Messages that are read, dropped, or no answers.
LEMMA ApartKept ==
  ASSUME Pipes, Apart, UNCHANGED made,
         toServer' \in {toServer, <<>>}, doing' \in {doing, <<>>},
         \/ toClient' \in {toClient, <<>>}
         \/ toClient # <<>> /\ toClient' = Tail(toClient)
         \/ \E m : ~IsResult(m) /\ toClient' = Append(toClient, m)
  PROVE  (Pipes /\ Apart)'
<1>1. IsSeq(toServer') /\ Len(toServer') \in Nat
      /\ \A i \in 1..Len(toServer') : toServer'[i] = toServer[i] /\ i \in 1..Len(toServer)
  <2>1. CASE UNCHANGED toServer
    <3>1. PICK S : toServer \in Seq(S)
      BY DEF Pipes, IsSeq
    <3>2. Len(toServer) \in Nat
      BY <3>1
    <3>. QED  BY <2>1, <3>2 DEF Pipes
  <2>2. CASE toServer' = <<>>
    BY <2>2, None
  <2>. QED  BY <2>1, <2>2
<1>2. IsSeq(toClient')
      /\ \A k \in 1..Len(toClient') : IsResult(toClient'[k]) =>
           \E l \in 1..Len(toClient) : toClient[l] = toClient'[k]
  <2>1. CASE toClient' \in {toClient, <<>>}
    BY <2>1, None DEF Pipes
  <2>2. CASE toClient # <<>> /\ toClient' = Tail(toClient)
    BY <2>2, Taken DEF Pipes
  <2>3. CASE \E m : ~IsResult(m) /\ toClient' = Append(toClient, m)
    <3>1. PICK m : ~IsResult(m) /\ toClient' = Append(toClient, m)
      BY <2>3
    <3>2. \A k \in 1..Len(toClient') : k \in 1..Len(toClient) \/ toClient'[k] = m
      BY <3>1, Appended DEF Pipes
    <3>. QED  BY <3>1, <3>2, Appended DEF Pipes
  <2>. QED  BY <2>1, <2>2, <2>3
<1>3. Pipes'
  BY <1>1, <1>2 DEF Pipes
<1>4. Apart'
  BY <1>1, <1>2, SMTT(30) DEF Apart
<1>. QED  BY <1>3, <1>4

\* A request that is written has a new one.
LEMMA ApartWritten ==
  ASSUME Pipes, Apart, made' = made + 1, NEW request, request.id = made + 1,
         toServer' = Append(toServer, request), UNCHANGED doing,
         toClient' = toClient \/ (toClient # <<>> /\ toClient' = Tail(toClient))
  PROVE  (Pipes /\ Apart)'
<1>1. /\ IsSeq(toServer') /\ Len(toServer') = Len(toServer) + 1 /\ Len(toServer) \in Nat
      /\ \A i \in 1..Len(toServer) : toServer'[i] = toServer[i]
      /\ toServer'[Len(toServer) + 1].id = made + 1
  BY Appended DEF Pipes
<1>2. IsSeq(toClient')
      /\ \A k \in 1..Len(toClient') : IsResult(toClient'[k]) =>
           \E l \in 1..Len(toClient) : toClient[l] = toClient'[k]
  <2>1. CASE UNCHANGED toClient
    BY <2>1 DEF Pipes
  <2>2. CASE toClient # <<>> /\ toClient' = Tail(toClient)
    <3>1. IsSeq(Tail(toClient))
          /\ \A k \in 1..Len(Tail(toClient)) :
               Tail(toClient)[k] = toClient[k + 1] /\ k + 1 \in 1..Len(toClient)
      BY <2>2, Taken, Zenon DEF Pipes
    <3>. QED  BY <2>2, <3>1, Zenon
  <2>. QED  BY <2>1, <2>2
<1>3. Pipes'
  BY <1>1, <1>2 DEF Pipes
<1>4. Apart'
  <2>1. \A i \in 1..Len(toServer') : i \in 1..Len(toServer) \/ i = Len(toServer) + 1
    BY <1>1
  <2>2. \A i \in 1..Len(toServer') :
          \/ i \in 1..Len(toServer) /\ toServer'[i] = toServer[i] /\ toServer[i].id \in 1..made
          \/ i = Len(toServer) + 1 /\ toServer'[i].id = made + 1
    BY <1>1, <2>1 DEF Apart
  <2>3. doing # <<>> => doing[1].id # made + 1
    BY DEF Apart, Pipes
  <2>4. \A k \in 1..Len(toClient') : IsResult(toClient'[k]) =>
          /\ toClient'[k].id \in 1..made
          /\ \A i \in 1..Len(toServer) : toClient'[k].id # toServer[i].id
    BY <1>2 DEF Apart
  <2>5. made \in Nat
    BY DEF Pipes
  <2>6. \A i \in 1..Len(toServer') :
          /\ toServer'[i].id \in 1..made'
          /\ \A j \in 1..Len(toServer') : toServer'[j].id = toServer'[i].id => j = i
    BY <1>1, <2>2, <2>5 DEF Apart
  <2>7. \A i \in 1..Len(toServer') :
          /\ doing # <<>> => doing[1].id # toServer'[i].id
          /\ \A k \in 1..Len(toClient') : IsResult(toClient'[k]) => toClient'[k].id # toServer'[i].id
    BY <2>2, <2>3, <2>4, <2>5 DEF Apart
  <2>8. (doing # <<>> => doing[1].id \in 1..made')
        /\ \A k \in 1..Len(toClient') : IsResult(toClient'[k]) => toClient'[k].id \in 1..made'
    BY <2>4, <2>5 DEF Apart
  <2>. QED  BY <2>6, <2>7, <2>8 DEF Apart
<1>. QED  BY <1>3, <1>4

LEMMA ApartTaken ==
  ASSUME Pipes, Apart, ServerTakes
  PROVE  (Pipes /\ Apart)'
<1>1. /\ IsSeq(toServer') /\ Len(toServer) \in Nat \ {0} /\ Len(toServer') = Len(toServer) - 1
      /\ \A i \in 1..Len(toServer') : toServer'[i] = toServer[i + 1] /\ i + 1 \in 1..Len(toServer)
      /\ doing' # <<>> /\ doing'[1].id = toServer[1].id
      /\ UNCHANGED <<toClient, made>>
  BY Taken DEF Pipes, ServerTakes, loop
<1>2. Pipes'
  BY <1>1 DEF Pipes
<1>3. 1 \in 1..Len(toServer) /\ \A i \in 1..Len(toServer') : i + 1 # 1
  BY <1>1
<1>4. \A i \in 1..Len(toServer') :
        /\ toServer'[i].id \in 1..made
        /\ toServer'[i].id # toServer[1].id
        /\ \A k \in 1..Len(toClient) : IsResult(toClient[k]) => toClient[k].id # toServer'[i].id
  <2> TAKE i \in 1..Len(toServer')
  <2>1. i + 1 \in 1..Len(toServer) /\ toServer'[i] = toServer[i + 1] /\ i + 1 # 1
    BY <1>1, <1>3
  <2>. QED  BY <1>3, <2>1 DEF Apart
<1>5. \A i, j \in 1..Len(toServer') : toServer'[j].id = toServer'[i].id => j = i
  <2> SUFFICES ASSUME NEW i \in 1..Len(toServer'), NEW j \in 1..Len(toServer'),
                      toServer'[j].id = toServer'[i].id
               PROVE  j = i
    OBVIOUS
  <2>1. j + 1 = i + 1
    BY <1>1, SMTT(30) DEF Apart
  <2>. QED  BY <2>1
<1>6. toServer[1].id \in 1..made
  BY <1>3 DEF Apart
<1>7. Apart'
  BY <1>1, <1>4, <1>5, <1>6 DEF Apart
<1>. QED  BY <1>2, <1>7

LEMMA ApartAnswered ==
  ASSUME Pipes, Apart, ServerAnswers
  PROVE  (Pipes /\ Apart)'
<1>1. /\ IsSeq(toClient') /\ Len(toClient) \in Nat /\ Len(toClient') = Len(toClient) + 1
      /\ \A k \in 1..Len(toClient) : toClient'[k] = toClient[k]
      /\ toClient'[Len(toClient) + 1].id = doing[1].id
      /\ doing # <<>> /\ doing' = <<>>
      /\ UNCHANGED <<toServer, made>>
  BY Appended DEF Pipes, ServerAnswers, Says, loop
<1>2. \A k \in 1..Len(toClient') : k \in 1..Len(toClient) \/ k = Len(toClient) + 1
  BY <1>1
<1>. QED  BY <1>1, <1>2, SMTT(30) DEF Pipes, Apart

LEMMA ApartStep ==
  ASSUME Pipes, Apart, [Next]_vars
  PROVE  (Pipes /\ Apart)'
<1>1. CASE UNCHANGED vars
  BY <1>1, ApartKept DEF vars, loop, remote
<1>2. CASE Operate
  BY <1>2, ApartKept
  DEF Operate, Start, Relist, CallTool, Close, Refuse, Listen, loop, remote
<1>3. CASE HostStep \/ Interrupt
  <2>1. CASE Submit
    BY <2>1, ApartKept, ApartWritten DEF Submit, Write, WriteFails
  <2>2. CASE Interrupt \/ Started \/ StartFails \/ Return \/ Fail \/ CancelSent \/ CloseGivesUp
    BY <2>2, ApartKept
    DEF Interrupt, Started, StartFails, Return, Fail, CancelSent, CloseGivesUp, Listen,
        loop, remote
  <2>3. CASE CloseKill \/ CloseDone
    BY <2>3, ApartKept DEF CloseKill, CloseDone, loop
  <2>. QED  BY <1>3, <2>1, <2>2, <2>3 DEF HostStep
<1>4. CASE LoopStep \/ TimesOut
  <2>1. CASE ReceiveResult
    <3>1. toClient # <<>> /\ toClient' = Tail(toClient) /\ UNCHANGED doing
      BY <2>1 DEF ReceiveResult, Reading
    <3>2. \/ UNCHANGED <<made, toServer>>
          \/ /\ made' = made + 1
             /\ toServer' = Append(toServer, [id |-> made + 1, op |-> ops, method |-> "tools/list"])
      BY <2>1 DEF ReceiveResult, Accept
    <3>. QED  BY <3>1, <3>2, ApartKept, ApartWritten
  <2>2. CASE ReceiveNotice \/ ReceiveBad
    BY <2>2, ApartKept DEF ReceiveNotice, ReceiveBad, Reading
  <2>3. CASE HandshakeDone \/ HandshakeFails \/ ReceiveEnd \/ LoopEnds \/ TimesOut
    BY <2>3, ApartKept
    DEF HandshakeDone, HandshakeFails, ReceiveEnd, LoopEnds, TimesOut, remote
  <2>. QED  BY <1>4, <2>1, <2>2, <2>3 DEF LoopStep
<1>5. CASE ServerStep
  <2>1. CASE ServerChanges \/ ServerMisbehaves
    <3>1. ~IsResult(Notice) /\ ~IsResult(Junk)
      BY DEF IsResult, Notice, Junk
    <3>. QED  BY <2>1, <3>1, ApartKept DEF ServerChanges, ServerMisbehaves, Says, loop
  <2>2. CASE ServerForks \/ ServerExits
    BY <2>2, ApartKept DEF ServerForks, ServerExits, loop
  <2>. QED  BY <1>5, <2>1, <2>2, ApartTaken, ApartAnswered DEF ServerStep
<1>. QED  BY <1>1, <1>2, <1>3, <1>4, <1>5 DEF Next
-----------------------------------------------------------------------------
(* A tools/call is on its way to the server only while its operation goes   *)
(* on, and then the server has not carried it out.                          *)

Numbers ==
  /\ ops \in 0..MaxOps /\ (pc # "idle" => ops > 0)
  /\ executed \in [1..MaxOps -> Nat]
  /\ \A o \in 1..MaxOps : o > ops => executed[o] = 0

IsCall(r) == r.method = "tools/call"
NoCall == \A i \in 1..Len(toServer) : ~IsCall(toServer[i])

\* Nothing is written without a connection, during a handshake or once the server
\* was killed.
Unwritten == ~held \/ link = "handshake" \/ pc = "killed" => toServer = <<>>

OneCall ==
  /\ \A i \in 1..Len(toServer) : IsCall(toServer[i]) =>
       /\ pc \in {"calling", "cancelling", "closing"}
       /\ toServer[i].op = ops /\ toServer[i].id = made
       /\ executed[ops] = 0
  /\ pc = "calling" /\ future \in {"unsent", "done"} => NoCall
  /\ pc = "calling" /\ future = "unsent" => executed[ops] = 0

Opened == ~held => pc = "idle" /\ link = "none"

CallInv == Pipes /\ Apart /\ Numbers /\ Unwritten /\ Opened /\ OneCall

LEMMA CallInit == Init => CallInv
  BY None, McpBounds
  DEF Init, CallInv, Pipes, Apart, Numbers, Unwritten, Opened, OneCall, NoCall

LEMMA CallOperate ==
  ASSUME CallInv, Operate
  PROVE  (Numbers /\ Unwritten /\ Opened /\ OneCall)'
<1>. USE McpBounds DEF CallInv, Numbers, Unwritten, Opened, OneCall, NoCall, IsCall,
         Begin, Refuse, Listen, loop, remote
<1>1. CASE Start
  BY <1>1 DEF Start
<1>2. CASE Relist
  BY <1>2 DEF Relist
<1>3. CASE CallTool
  BY <1>3 DEF CallTool, Connected
<1>4. CASE Close
  BY <1>4 DEF Close
<1>. QED  BY <1>1, <1>2, <1>3, <1>4 DEF Operate

\* A step of another thread that writes nothing.
LEMMA CallKept ==
  ASSUME CallInv, UNCHANGED <<pc, ops, held, made, toServer, executed>>,
         link' = link \/ link' # "handshake", link = "none" => link' = "none",
         future' = future \/ future' = "failed" \/ (future' = "done" /\ NoCall)
  PROVE  (Numbers /\ Unwritten /\ Opened /\ OneCall)'
<1>1. (Numbers /\ Unwritten /\ Opened)'
  BY DEF CallInv, Numbers, Unwritten, Opened
<1>2. OneCall'
  BY DEF CallInv, OneCall, NoCall
<1>. QED  BY <1>1, <1>2

\* The one request of a call.
LEMMA CallWritten ==
  ASSUME CallInv, Submit, Write
  PROVE  (Unwritten /\ OneCall)'
<1>1. /\ Len(toServer') = Len(toServer) + 1 /\ Len(toServer) \in Nat
      /\ \A i \in 1..Len(toServer) : toServer'[i] = toServer[i]
      /\ toServer'[Len(toServer) + 1] =
           [id |-> made + 1, op |-> ops, method |-> Method]
  BY Appended DEF CallInv, Pipes, Write
<1>2. NoCall
  BY DEF CallInv, OneCall, NoCall, Submit
<1>3. UNCHANGED <<pc, ops, held, executed>> /\ future' = "waiting" /\ link' = "up"
      /\ pc \in {"listing", "calling"} /\ made' = made + 1
  BY DEF Submit, Write, WriteFails
<1>4. Unwritten'
  BY <1>3 DEF CallInv, Unwritten, Opened
<1>5. pc = "calling" => executed[ops] = 0
  BY DEF CallInv, OneCall, Submit
<1>6. OneCall'
  <2> SUFFICES ASSUME NEW i \in 1..Len(toServer'), IsCall(toServer'[i])
               PROVE  /\ pc = "calling"
                      /\ toServer'[i].op = ops /\ toServer'[i].id = made + 1
    BY <1>3, <1>5 DEF OneCall
  <2>1. i \in 1..Len(toServer) \/ i = Len(toServer) + 1
    BY <1>1
  <2>2. i = Len(toServer) + 1
    BY <1>1, <1>2, <2>1 DEF NoCall
  <2>. QED  BY <1>1, <1>3, <2>2 DEF IsCall, Method
<1>. QED  BY <1>4, <1>6

LEMMA CallHost ==
  ASSUME CallInv, HostStep
  PROVE  (Numbers /\ Unwritten /\ Opened /\ OneCall)'
<1>. USE DEF CallInv, Numbers, Unwritten, Opened, OneCall, NoCall, IsCall, loop, remote
<1>1. CASE Started
  BY <1>1 DEF Started, Listen
<1>2. CASE StartFails
  BY <1>2 DEF StartFails
<1>3. CASE Submit
  <2>1. (Numbers /\ Opened)'
    BY <1>3 DEF Submit, Write, WriteFails
  <2>2. CASE Write
    BY <1>3, <2>1, <2>2, CallWritten
  <2>3. CASE UNCHANGED <<made, toServer>>
    BY <1>3, <2>3 DEF Submit, WriteFails
  <2>. QED  BY <1>3, <2>1, <2>2, <2>3 DEF Submit, WriteFails
<1>4. CASE Return
  BY <1>4 DEF Return
<1>5. CASE Fail
  BY <1>5 DEF Fail
<1>6. CASE CancelSent
  BY <1>6 DEF CancelSent
<1>7. CASE CloseKill
  BY <1>7, None DEF CloseKill
<1>8. CASE CloseDone
  BY <1>8, None DEF CloseDone
<1>9. CASE CloseGivesUp
  BY <1>9, None DEF CloseGivesUp
<1>. QED  BY <1>1, <1>2, <1>3, <1>4, <1>5, <1>6, <1>7, <1>8, <1>9 DEF HostStep

LEMMA Interrupted ==
  ASSUME Guarded, Interrupt
  PROVE  \/ pc \in {"starting", "killed", "closing"} /\ pc' = "closing"
         \/ pc \in {"listing", "calling"} /\ pc' = "cancelling"
<1>1. Point \in {"starting", "listing", "calling", "closing", "killed"}
  BY McpBounds DEF Guarded, Interrupt, Points
<1>2. Point = pc /\ pc' = AfterInterrupt[pc]
  BY <1>1 DEF Point, Interrupt
<1>. QED  BY <1>1, <1>2 DEF AfterInterrupt

LEMMA CallInterrupt ==
  ASSUME CallInv, Guarded, Interrupt
  PROVE  (Numbers /\ Unwritten /\ Opened /\ OneCall)'
<1>1. UNCHANGED <<ops, held, link, made, toServer, executed>>
  BY DEF Interrupt, loop, remote
<1>. QED
  BY <1>1, Interrupted DEF CallInv, Numbers, Unwritten, Opened, OneCall, NoCall

LEMMA CallLoop ==
  ASSUME CallInv, LoopStep \/ TimesOut
  PROVE  (Numbers /\ Unwritten /\ Opened /\ OneCall)'
<1>1. CASE HandshakeDone
  <2>1. NoCall
    BY <1>1, None DEF HandshakeDone, CallInv, Unwritten, NoCall
  <2>. QED  BY <1>1, <2>1, CallKept DEF HandshakeDone, host, remote
<1>2. CASE ReceiveResult
  <2>1. toClient # <<>> /\ link = "up" /\ UNCHANGED <<pc, ops, held, link, executed>>
    BY <1>2 DEF ReceiveResult, Reading, host
  <2>2. CASE UNCHANGED <<future, made, toServer>>
    BY <2>1, <2>2, CallKept
  <2>3. CASE future = "waiting" /\ Head(toClient).id = made /\ Accept(Head(toClient))
    <3>1. Head(toClient) = toClient[1] /\ 1 \in 1..Len(toClient) /\ IsResult(toClient[1])
      BY <1>2, <2>1, Taken DEF ReceiveResult, CallInv, Pipes, IsResult
    <3>2. NoCall
      BY <2>3, <3>1 DEF CallInv, Apart, OneCall, NoCall
    <3>3. CASE UNCHANGED <<made, toServer>>
      BY <2>1, <2>3, <3>2, <3>3, CallKept DEF Accept
    <3>4. CASE pc = "listing" /\ toServer' = Append(toServer, [id |-> made + 1, op |-> ops,
                                                              method |-> "tools/list"])
      <4>1. /\ Len(toServer') = Len(toServer) + 1 /\ Len(toServer) \in Nat
            /\ \A i \in 1..Len(toServer) : toServer'[i] = toServer[i]
            /\ toServer'[Len(toServer) + 1] =
                 [id |-> made + 1, op |-> ops, method |-> "tools/list"]
        BY <3>4, Appended DEF CallInv, Pipes
      <4>2. \A i \in 1..Len(toServer') : i \in 1..Len(toServer) \/ i = Len(toServer) + 1
        BY <4>1
      <4>3. NoCall'
        BY <3>2, <4>1, <4>2 DEF NoCall, IsCall
      <4>4. OneCall'
        BY <2>1, <3>4, <4>3 DEF OneCall, NoCall
      <4>5. (Numbers /\ Unwritten /\ Opened)'
        BY <2>1, <3>4 DEF CallInv, Numbers, Unwritten, Opened
      <4>. QED  BY <4>4, <4>5
    <3>. QED  BY <2>3, <3>3, <3>4 DEF Accept
  <2>. QED  BY <1>2, <2>2, <2>3 DEF ReceiveResult
<1>3. CASE ReceiveNotice \/ ReceiveBad
  BY <1>3, CallKept DEF ReceiveNotice, ReceiveBad, Reading, host
<1>4. CASE HandshakeFails \/ ReceiveEnd \/ LoopEnds \/ TimesOut
  BY <1>4, CallKept DEF HandshakeFails, ReceiveEnd, LoopEnds, TimesOut, host, remote
<1>. QED  BY <1>1, <1>2, <1>3, <1>4 DEF LoopStep

\* The server carries out the call that is open, for the first time, or lists.
LEMMA Carried ==
  ASSUME CallInv, ServerTakes
  PROVE  /\ UNCHANGED <<pc, ops, future, link, held, made>>
         /\ \/ /\ executed[ops] = 0 /\ ops \in 1..MaxOps /\ pc # "idle"
               /\ executed' = [executed EXCEPT ![ops] = 1]
               /\ pc = "calling" => future \notin {"unsent", "done"}
               /\ NoCall'
            \/ UNCHANGED executed
         /\ toServer # <<>> /\ toServer' = Tail(toServer)
<1>1. Head(toServer) = toServer[1] /\ 1 \in 1..Len(toServer) /\ toServer # <<>>
  BY Taken DEF ServerTakes, CallInv, Pipes
<1>2. UNCHANGED <<pc, ops, future, link, held, made>>
  BY DEF ServerTakes, host, loop
<1>3. CASE IsCall(toServer[1])
  <2>1. /\ pc \in {"calling", "cancelling", "closing"} /\ toServer[1].op = ops
        /\ toServer[1].id = made /\ executed[ops] = 0
    BY <1>1, <1>3 DEF CallInv, OneCall
  <2>2. ops \in 1..MaxOps /\ executed' = [executed EXCEPT ![ops] = 1]
    <3>1. ops \in 1..MaxOps
      BY <2>1, McpBounds DEF CallInv, Numbers
    <3>2. executed' = [executed EXCEPT ![ops] = executed[ops] + 1]
      BY <1>1, <1>3, <2>1 DEF ServerTakes, IsCall
    <3>. QED  BY <2>1, <3>1, <3>2
  <2>3. pc = "calling" => future \notin {"unsent", "done"}
    BY <1>1, <1>3 DEF CallInv, OneCall, NoCall
  <2>4. \A i \in 1..Len(toServer) : IsCall(toServer[i]) => i = 1
    BY <1>1, <2>1 DEF CallInv, OneCall, Apart
  <2>5. NoCall'
    <3> SUFFICES ASSUME NEW i \in 1..Len(toServer') PROVE ~IsCall(toServer'[i])
      BY DEF NoCall
    <3>1. toServer'[i] = toServer[i + 1] /\ i + 1 \in 1..Len(toServer) /\ i + 1 # 1
      BY <1>1, Taken DEF ServerTakes, CallInv, Pipes
    <3>. QED  BY <2>4, <3>1
  <2>. QED  BY <1>1, <1>2, <2>1, <2>2, <2>3, <2>5 DEF ServerTakes
<1>4. CASE ~IsCall(toServer[1])
  BY <1>1, <1>2, <1>4 DEF ServerTakes, IsCall
<1>. QED  BY <1>3, <1>4

LEMMA CallServer ==
  ASSUME CallInv, ServerStep
  PROVE  (Numbers /\ Unwritten /\ Opened /\ OneCall)'
<1>1. CASE ServerTakes
  <2>1. Unwritten' /\ Opened'
    BY <1>1, Carried DEF CallInv, Unwritten, Opened
  <2>2. CASE UNCHANGED executed
    <3>1. /\ Len(toServer') = Len(toServer) - 1 /\ Len(toServer) \in Nat
          /\ \A i \in 1..Len(toServer') :
               toServer'[i] = toServer[i + 1] /\ i + 1 \in 1..Len(toServer)
      BY <1>1, Carried, Taken DEF CallInv, Pipes
    <3>2. OneCall'
      BY <1>1, <2>2, <3>1, Carried DEF CallInv, OneCall, NoCall
    <3>3. Numbers'
      BY <1>1, <2>2, Carried DEF CallInv, Numbers
    <3>. QED  BY <2>1, <3>2, <3>3
  <2>3. CASE /\ executed[ops] = 0 /\ ops \in 1..MaxOps /\ pc # "idle"
             /\ executed' = [executed EXCEPT ![ops] = 1]
             /\ pc = "calling" => future \notin {"unsent", "done"}
             /\ NoCall'
    <3>1. OneCall'
      BY <1>1, <2>3, Carried DEF OneCall, NoCall
    <3>2. Numbers'
      BY <1>1, <2>3, Carried, McpBounds DEF CallInv, Numbers
    <3>. QED  BY <2>1, <3>1, <3>2
  <2>. QED  BY <1>1, <2>2, <2>3, Carried
<1>2. CASE ServerAnswers \/ ServerChanges \/ ServerMisbehaves \/ ServerForks \/ ServerExits
  BY <1>2, CallKept
  DEF ServerAnswers, ServerChanges, ServerMisbehaves, ServerForks, ServerExits, host, loop
<1>. QED  BY <1>1, <1>2 DEF ServerStep

LEMMA CallStep ==
  ASSUME CallInv, Guarded, [Next]_vars
  PROVE  CallInv'
<1>1. (Pipes /\ Apart)'
  BY ApartStep DEF CallInv
<1>2. CASE UNCHANGED vars
  BY <1>1, <1>2
  DEF vars, host, loop, remote, CallInv, Numbers, Unwritten, Opened, OneCall, NoCall
<1>. QED
  BY <1>1, <1>2, CallOperate, CallHost, CallInterrupt, CallLoop, CallServer
  DEF Next, CallInv

\* Every step is one of AtMostOnceCall, or nothing its caller can tell.
LEMMA CallMapped ==
  ASSUME CallInv, CallInv', Guarded, [Next]_vars
  PROVE  [Contract!Next]_(Contract!contract)
<1>. DEFINE open == IF pc = "idle" THEN 0 ELSE ops
<1>0. open \in 0..MaxOps /\ ops \in 0..MaxOps /\ ops' \in 0..MaxOps
  BY McpBounds DEF CallInv, Numbers
<1>1. CASE pc # "idle" /\ pc' = "idle" /\ UNCHANGED executed
  BY <1>0, <1>1 DEF Contract!Next, Contract!End, Contract!contract, CallInv, Numbers
<1>2. CASE pc = "idle" /\ ops' = ops + 1 /\ UNCHANGED executed
  <2>1. ops + 1 \in 1..MaxOps /\ executed[ops + 1] = 0
    BY <1>0, <1>2 DEF CallInv, Numbers
  <2>. QED
    BY <1>2, <2>1 DEF Contract!Next, Contract!Begin, Contract!contract
<1>3. CASE open' = open /\ UNCHANGED executed
  BY <1>3 DEF Contract!contract
<1>4. CASE ServerTakes
  <2>1. CASE UNCHANGED executed
    BY <1>3, <1>4, <2>1, Carried
  <2>2. CASE executed[ops] = 0 /\ ops \in 1..MaxOps /\ pc # "idle"
             /\ executed' = [executed EXCEPT ![ops] = 1]
    BY <1>4, <2>2, Carried DEF Contract!Next, Contract!Effect, Contract!contract
  <2>. QED  BY <1>4, <2>1, <2>2, Carried
<1>5. CASE Operate
  <2>1. pc = "idle" /\ ops' = ops + 1 /\ UNCHANGED executed
    BY <1>5
    DEF Operate, Start, Relist, CallTool, Close, Begin, Refuse, remote
  <2>. QED  BY <1>2, <2>1
<1>6. CASE ~Operate /\ ~ServerTakes
  <2>1. UNCHANGED <<ops, executed>> /\ (pc = "idle" => pc' = "idle")
    <3>1. CASE UNCHANGED vars
      BY <3>1 DEF vars, host, remote
    <3>2. CASE HostStep
      BY <3>2
      DEF HostStep, Started, StartFails, Submit, Return, Fail, CancelSent, CloseKill, CloseDone,
          CloseGivesUp, remote
    <3>3. CASE Interrupt
      BY <3>3, Interrupted DEF Interrupt, remote
    <3>4. CASE LoopStep \/ TimesOut
      BY <3>4
      DEF LoopStep, HandshakeDone, HandshakeFails, ReceiveResult, ReceiveNotice, ReceiveBad,
          ReceiveEnd, LoopEnds, TimesOut, host, remote
    <3>5. CASE ServerStep
      BY <1>6, <3>5
      DEF ServerStep, ServerAnswers, ServerChanges, ServerMisbehaves, ServerForks,
          ServerExits, host
    <3>. QED  BY <1>6, <3>1, <3>2, <3>3, <3>4, <3>5 DEF Next
  <2>. QED  BY <1>1, <1>3, <2>1
<1>. QED  BY <1>4, <1>5, <1>6

\* Where Ctrl+C spares the two unguarded places, a tools/call is carried out at most
\* once, while its operation goes on: not again after a failure, and not after the
\* caller went on (_run, _cancel, close).
THEOREM CalledAtMostOnce == Guarded => (Spec => CallsCarriedOutOnce)
<1>1. Init => Contract!Init
  BY DEF Init, Contract!Init
<1>2. Guarded => (Spec => [](CallInv /\ Guarded))
  <2>1. CallInv /\ Guarded /\ [Next]_vars => (CallInv /\ Guarded)'
    BY CallStep DEF Guarded
  <2>. QED  BY <2>1, CallInit, PTL DEF Spec
<1>3. CallInv /\ CallInv' /\ Guarded /\ [Next]_vars => [Contract!Next]_(Contract!contract)
  BY CallMapped
<1>. QED  BY <1>1, <1>2, <1>3, PTL DEF Spec, CallsCarriedOutOnce, Contract!Spec
-----------------------------------------------------------------------------
(* What runs of the server: nothing without a connection or once killed.   *)

LeftInv ==
  /\ ~held => pc = "idle" /\ server = "none" /\ ~family
  /\ pc = "killed" => server = "exited" /\ ~family
  /\ pc = "idle" /\ outcome = "failed" => server # "live" /\ ~family

LEMMA LeftStep ==
  ASSUME LeftInv, Guarded, [Next]_vars
  PROVE  LeftInv'
<1>. USE DEF LeftInv
<1>1. CASE Operate
  <2>. USE DEF Begin, Refuse, Listen, loop, remote
  <2>1. CASE Start
    BY <2>1 DEF Start
  <2>2. CASE Relist
    BY <2>2 DEF Relist
  <2>3. CASE CallTool
    BY <2>3 DEF CallTool, Connected
  <2>4. CASE Close
    BY <2>4 DEF Close
  <2>. QED  BY <1>1, <2>1, <2>2, <2>3, <2>4 DEF Operate
<1>2. CASE HostStep
  <2>1. CASE Started \/ StartFails \/ Return \/ Fail \/ CancelSent
    BY <2>1 DEF Started, StartFails, Return, Fail, CancelSent, Listen, loop, remote
  <2>2. CASE Submit
    BY <2>2 DEF Submit
  <2>3. CASE CloseKill \/ CloseDone \/ CloseGivesUp
    BY <2>3 DEF CloseKill, CloseDone, CloseGivesUp, loop, remote
  <2>. QED  BY <1>2, <2>1, <2>2, <2>3 DEF HostStep
<1>3. CASE Interrupt
  BY <1>3, Interrupted DEF Interrupt, remote
<1>4. CASE LoopStep \/ TimesOut
  BY <1>4
  DEF LoopStep, HandshakeDone, HandshakeFails, ReceiveResult, ReceiveNotice, ReceiveBad,
      ReceiveEnd, LoopEnds, TimesOut, host, remote
<1>5. CASE ServerStep
  BY <1>5
  DEF ServerStep, ServerTakes, ServerAnswers, ServerChanges, ServerMisbehaves, ServerForks,
      ServerExits, Says, host
<1>6. CASE UNCHANGED vars
  BY <1>6 DEF vars, host, remote
<1>. QED  BY <1>1, <1>2, <1>3, <1>4, <1>5, <1>6 DEF Next

\* A connection that was closed, or whose closing failed, leaves neither the server nor
\* a descendant running, wherever else Ctrl+C lands and however often (close, _start).
THEOREM NothingIsLeft == Guarded => (Spec => []NothingLeft)
<1>1. Init => LeftInv
  BY DEF Init, LeftInv
<1>2. LeftInv => NothingLeft
  BY DEF LeftInv, NothingLeft
<1>3. LeftInv /\ Guarded /\ [Next]_vars => (LeftInv /\ Guarded)'
  BY LeftStep DEF Guarded
<1>. QED  BY <1>1, <1>2, <1>3, PTL DEF Spec
-----------------------------------------------------------------------------
(* A listing that may be used is that of the server, unless a notice says   *)
(* otherwise; so is every answer the current listing waits for.             *)

Unseen == changed \/ \E i \in 1..Len(toClient) : toClient[i] = Notice
Known(c) == c = version \/ Unseen

\* The event loop leaves its handshake for a live server only before the host is done
\* with the start.
Greeting ==
  /\ ~held => catalog = 0
  /\ link = "handshake" =>
       /\ catalog = 0 /\ future # "done"
       /\ pc \notin {"starting", "closing"} => server # "live"

AnswersKnown ==
  /\ doing # <<>> /\ doing[1].id = made => Known(doing[1].catalog)
  /\ \A k \in 1..Len(toClient) :
       IsResult(toClient[k]) /\ toClient[k].id = made => Known(toClient[k].catalog)

Listed ==
  /\ pc \in {"idle", "calling"} /\ catalog # 0 => Known(catalog)
  /\ pc = "listing" =>
       /\ seen # 0 => Known(seen)
       /\ future = "waiting" /\ link = "up" => AnswersKnown

NoticeInv == Greeting /\ Listed

\* What was known stays known, whatever the other threads do.
LEMMA UnseenStays ==
  ASSUME Pipes, LoopStep \/ TimesOut \/ ServerStep
  PROVE  (Unseen => Unseen') /\ (Unseen' \/ version' = version)
<1>1. CASE ReceiveResult \/ ReceiveBad
  <2>1. /\ toClient # <<>> /\ toClient' = Tail(toClient) /\ UNCHANGED <<version, changed>>
        /\ Head(toClient) = Junk \/ Head(toClient).type = "result"
    BY <1>1 DEF ReceiveResult, ReceiveBad, Reading
  <2>2. /\ Len(toClient) \in Nat \ {0} /\ Len(toClient') = Len(toClient) - 1
        /\ \A i \in 1..Len(toClient') : toClient'[i] = toClient[i + 1]
        /\ Head(toClient) = toClient[1]
    BY <2>1, Taken DEF Pipes
  <2>3. toClient[1] # Notice
    BY <2>1, <2>2 DEF Notice, Junk
  <2>4. ASSUME NEW i \in 1..Len(toClient), toClient[i] = Notice
        PROVE  \E j \in 1..Len(toClient') : toClient'[j] = Notice
    <3>1. i - 1 \in 1..Len(toClient') /\ (i - 1) + 1 = i
      BY <2>2, <2>3, <2>4
    <3>. QED  BY <2>2, <2>4, <3>1
  <2>. QED  BY <2>1, <2>4 DEF Unseen
<1>2. CASE ReceiveNotice
  BY <1>2 DEF ReceiveNotice, Unseen
<1>3. CASE ServerAnswers \/ ServerChanges \/ ServerMisbehaves
  <2>1. PICK m : /\ toClient' = Append(toClient, m) /\ UNCHANGED changed
                 /\ m = Notice \/ version' = version
    BY <1>3 DEF ServerAnswers, ServerChanges, ServerMisbehaves, Says, loop
  <2>2. /\ Len(toClient') = Len(toClient) + 1 /\ Len(toClient) \in Nat
        /\ \A i \in 1..Len(toClient) : toClient'[i] = toClient[i]
        /\ toClient'[Len(toClient) + 1] = m
    BY <2>1, Appended DEF Pipes
  <2>. QED  BY <2>1, <2>2 DEF Unseen
<1>4. CASE UNCHANGED <<changed, toClient, version>>
  BY <1>4 DEF Unseen
<1>. QED
  BY <1>1, <1>2, <1>3, <1>4
  DEF LoopStep, HandshakeDone, HandshakeFails, ReceiveEnd, LoopEnds, TimesOut, ServerStep,
      ServerTakes, ServerForks, ServerExits, loop, remote

LEMMA NoticeOperate ==
  ASSUME NoticeInv, Opened, Operate
  PROVE  NoticeInv'
<1>. USE DEF NoticeInv, Greeting, Listed, Begin, Refuse, Listen, loop, remote
<1>1. CASE Start
  BY <1>1 DEF Start, Known, Unseen
<1>2. CASE Relist
  BY <1>2 DEF Relist
<1>3. CASE CallTool
  BY <1>3 DEF CallTool, Connected, Known, Unseen
<1>4. CASE Close
  BY <1>4 DEF Close
<1>. QED  BY <1>1, <1>2, <1>3, <1>4 DEF Operate

LEMMA NoticeHost ==
  ASSUME NoticeInv, CallInv, HostStep
  PROVE  NoticeInv'
<1>. USE DEF NoticeInv, Greeting, Listed, CallInv, Opened, loop, remote
<1>1. CASE Started
  BY <1>1 DEF Started, Listen
<1>2. CASE StartFails \/ Fail \/ CancelSent
  BY <1>2 DEF StartFails, Fail, CancelSent
<1>3. CASE Submit
  <2>1. Greeting' /\ UNCHANGED <<catalog, version, changed, toClient, doing, seen>>
    BY <1>3 DEF Submit, Write, WriteFails
  <2>2. UNCHANGED Unseen
    BY <2>1 DEF Unseen
  <2>3. \A c : Known(c)' <=> Known(c)
    BY <2>1, <2>2 DEF Known
  <2>4. made' = made + 1 => AnswersKnown'
    BY <2>1 DEF AnswersKnown, Apart, Pipes
  <2>5. (pc' = "listing" /\ future' = "waiting" /\ link' = "up") => made' = made + 1
    BY <1>3 DEF Submit, Write, WriteFails
  <2>6. pc' \in {pc, "closing"}
    BY <1>3 DEF Submit
  <2>. QED  BY <1>3, <2>1, <2>3, <2>4, <2>5, <2>6 DEF Submit
<1>4. CASE Return
  BY <1>4 DEF Return, Known, Unseen
<1>5. CASE CloseKill
  BY <1>5 DEF CloseKill
<1>6. CASE CloseDone
  BY <1>6 DEF CloseDone
<1>7. CASE CloseGivesUp
  BY <1>7 DEF CloseGivesUp
<1>. QED  BY <1>1, <1>2, <1>3, <1>4, <1>5, <1>6, <1>7 DEF HostStep

LEMMA NoticeInterrupt ==
  ASSUME NoticeInv, Guarded, Interrupt
  PROVE  NoticeInv'
<1>. USE DEF NoticeInv, Greeting, Listed, Interrupt, loop, remote
<1>1. CASE link = "handshake" /\ pc = "killed"
  BY <1>1, Interrupted
<1>2. CASE ~(link = "handshake" /\ pc = "killed")
  BY <1>2, Interrupted
<1>. QED  BY <1>1, <1>2

\* The other threads: what is known stays known, answers on their way stay the same.
LEMMA NoticeKept ==
  ASSUME NoticeInv, UNCHANGED <<pc, held, catalog, seen, made>>,
         Unseen => Unseen', Unseen' \/ version' = version,
         server' = server \/ server' # "live",
         link' = link \/ link' # "handshake", link' = "up" => link = "up" \/ pc # "listing",
         link' # "handshake" \/ future' = future \/ future' = "failed",
         future' = "waiting" => future = "waiting",
         AnswersKnown => AnswersKnown'
  PROVE  NoticeInv'
<1>1. \A c : Known(c) => Known(c)'
  BY DEF Known
<1>2. Greeting'
  BY DEF NoticeInv, Greeting
<1>3. Listed'
  BY <1>1 DEF NoticeInv, Listed
<1>. QED  BY <1>2, <1>3 DEF NoticeInv

LEMMA AnswersSame ==
  ASSUME Unseen => Unseen', Unseen' \/ version' = version,
         AnswersKnown, made' = made,
         doing' = doing \/ doing' = <<>>, toClient' = toClient
  PROVE  AnswersKnown'
<1>1. \A c : Known(c) => Known(c)'
  BY DEF Known
<1>. QED  BY <1>1 DEF AnswersKnown

LEMMA AnswersTaken ==
  ASSUME Pipes, Unseen => Unseen', Unseen' \/ version' = version,
         AnswersKnown, made' = made,
         doing' = doing, toClient # <<>>, toClient' = Tail(toClient)
  PROVE  AnswersKnown'
<1>1. \A c : Known(c) => Known(c)'
  BY DEF Known
<1>2. \A i \in 1..Len(toClient') :
        toClient'[i] = toClient[i + 1] /\ i + 1 \in 1..Len(toClient)
  BY Taken DEF Pipes
<1>. QED  BY <1>1, <1>2 DEF AnswersKnown

LEMMA NoticeLoop ==
  ASSUME NoticeInv, CallInv, LoopStep \/ TimesOut
  PROVE  NoticeInv'
<1>0. Pipes /\ (Unseen => Unseen') /\ (Unseen' \/ version' = version)
  BY UnseenStays DEF CallInv
<1>1. CASE HandshakeDone
  <2>1. pc # "listing"
    BY <1>1 DEF HandshakeDone, NoticeInv, Greeting
  <2>. QED
    BY <1>1, <2>1 DEF HandshakeDone, host, remote, NoticeInv, Greeting, Listed, Known, Unseen
<1>2. CASE HandshakeFails \/ ReceiveEnd \/ LoopEnds \/ TimesOut
  BY <1>0, <1>2, NoticeKept, AnswersSame
  DEF HandshakeFails, ReceiveEnd, LoopEnds, TimesOut, host, remote
<1>3. CASE ReceiveNotice \/ ReceiveBad
  BY <1>0, <1>3, NoticeKept, AnswersTaken DEF ReceiveNotice, ReceiveBad, Reading, host
<1>4. CASE ReceiveResult
  <2>1. /\ UNCHANGED <<pc, held, catalog, link, doing, server>>
        /\ link = "up" /\ toClient # <<>> /\ toClient' = Tail(toClient)
    BY <1>4 DEF ReceiveResult, Reading, host
  <2>2. CASE UNCHANGED <<seen, future, made>>
    BY <1>0, <2>1, <2>2, NoticeKept, AnswersTaken
  <2>3. CASE future = "waiting" /\ Head(toClient).id = made /\ Accept(Head(toClient))
    <3>1. Head(toClient) = toClient[1] /\ 1 \in 1..Len(toClient) /\ IsResult(toClient[1])
      BY <1>4, <2>1, Taken DEF ReceiveResult, CallInv, Pipes, IsResult
    <3>2. \A c : Known(c) => Known(c)'
      BY <1>0 DEF Known
    <3>3. Greeting'
      BY <2>1 DEF NoticeInv, Greeting
    <3>4. pc \in {"idle", "calling"} /\ catalog # 0 => Known(catalog)'
      BY <2>1, <3>2 DEF NoticeInv, Listed
    <3>5. CASE pc = "listing"
      <4>1. AnswersKnown /\ Known(Head(toClient).catalog)
        BY <2>1, <2>3, <3>1, <3>5 DEF NoticeInv, Listed, AnswersKnown
      <4>2. seen' # 0 => Known(seen)'
        BY <1>0, <2>3, <3>5, <4>1 DEF Accept, NoticeInv, Listed, Known
      <4>3. CASE future' = "waiting"
        <5>1. made' = made + 1 /\ made \in Nat
          BY <2>3, <4>3 DEF Accept, CallInv, Pipes
        <5>2. \A i \in 1..Len(toClient') :
                toClient'[i] = toClient[i + 1] /\ i + 1 \in 1..Len(toClient)
          BY <1>0, <2>1, Taken DEF Pipes
        <5>3. AnswersKnown'
          BY <2>1, <5>1, <5>2 DEF AnswersKnown, CallInv, Apart
        <5>. QED  BY <2>1, <3>3, <3>5, <4>2, <5>3 DEF NoticeInv, Listed
      <4>4. CASE future' # "waiting"
        BY <2>1, <3>3, <3>5, <4>2, <4>4 DEF NoticeInv, Listed
      <4>. QED  BY <4>3, <4>4
    <3>6. CASE pc # "listing"
      BY <2>1, <3>3, <3>4, <3>6 DEF NoticeInv, Listed
    <3>. QED  BY <3>5, <3>6
  <2>. QED  BY <1>4, <2>2, <2>3 DEF ReceiveResult
<1>. QED  BY <1>1, <1>2, <1>3, <1>4 DEF LoopStep

LEMMA NoticeServer ==
  ASSUME NoticeInv, CallInv, ServerStep
  PROVE  NoticeInv'
<1>0. Pipes /\ (Unseen => Unseen') /\ (Unseen' \/ version' = version)
  BY UnseenStays DEF CallInv
<1>1. UNCHANGED <<pc, held, catalog, seen, made, link, future>>
  BY DEF ServerStep, ServerTakes, ServerAnswers, ServerChanges, ServerMisbehaves,
         ServerForks, ServerExits, host, loop
<1>2. server' = server \/ server' # "live"
  BY DEF ServerStep, ServerTakes, ServerAnswers, ServerChanges, ServerMisbehaves,
         ServerForks, ServerExits, Says
<1>3. \A c : Known(c) => Known(c)'
  BY <1>0 DEF Known
<1>4. CASE ServerTakes
  <2>1. doing' # <<>> => doing'[1].catalog = version' /\ toClient' = toClient
    BY <1>4 DEF ServerTakes
  <2>2. toClient' = toClient
    BY <1>4 DEF ServerTakes
  <2>3. AnswersKnown => AnswersKnown'
    BY <1>1, <1>3, <2>1, <2>2 DEF AnswersKnown, Known
  <2>. QED  BY <1>0, <1>1, <1>2, <2>3, NoticeKept
<1>5. CASE ServerAnswers \/ ServerChanges \/ ServerMisbehaves
  <2>1. PICK m :
          /\ toClient' = Append(toClient, m)
          /\ \/ /\ doing # <<>> /\ doing' = <<>>
                /\ m.id = doing[1].id /\ m.catalog = doing[1].catalog
             \/ ~IsResult(m) /\ doing' = doing
    BY <1>5 DEF ServerAnswers, ServerChanges, ServerMisbehaves, Says, IsResult, Notice, Junk
  <2>2. /\ Len(toClient') = Len(toClient) + 1 /\ Len(toClient) \in Nat
        /\ \A i \in 1..Len(toClient) : toClient'[i] = toClient[i]
        /\ toClient'[Len(toClient) + 1] = m
    BY <1>0, <2>1, Appended DEF Pipes
  <2>3. \A k \in 1..Len(toClient') : k \in 1..Len(toClient) \/ k = Len(toClient) + 1
    BY <2>2
  <2>4. AnswersKnown => AnswersKnown'
    BY <1>1, <1>3, <2>1, <2>2, <2>3 DEF AnswersKnown
  <2>. QED  BY <1>0, <1>1, <1>2, <2>4, NoticeKept
<1>6. CASE ServerForks \/ ServerExits
  <2>1. toClient' = toClient /\ (doing' = doing \/ doing' = <<>>)
    BY <1>6 DEF ServerForks, ServerExits
  <2>2. AnswersKnown => AnswersKnown'
    BY <1>0, <1>1, <2>1, AnswersSame
  <2>. QED  BY <1>0, <1>1, <1>2, <2>2, NoticeKept
<1>. QED  BY <1>4, <1>5, <1>6 DEF ServerStep

\* Where Ctrl+C spares the two unguarded places, a listing that calls can use is that of
\* the server unless `changed` is set or the notice is still to be read, whatever the
\* order of answers, pages and notices (list_tools, _incoming).
THEOREM ChangeIsNoticed == Guarded => (Spec => []ChangeNoticed)
<1>1. Init => NoticeInv
  BY DEF Init, NoticeInv, Greeting, Listed
<1>2. NoticeInv => ChangeNoticed
  BY DEF NoticeInv, Listed, Known, Unseen, ChangeNoticed
<1>3. CallInv /\ NoticeInv /\ Guarded /\ [Next]_vars => (CallInv /\ NoticeInv /\ Guarded)'
  <2>1. NoticeInv /\ UNCHANGED vars => NoticeInv'
    BY DEF vars, host, loop, remote, NoticeInv, Greeting, Listed, AnswersKnown, Known, Unseen
  <2>2. CallInv => Opened
    BY DEF CallInv
  <2>3. CallInv /\ NoticeInv /\ Guarded /\ [Next]_vars => NoticeInv'
    BY <2>1, <2>2, NoticeOperate, NoticeHost, NoticeInterrupt, NoticeLoop, NoticeServer
    DEF Next
  <2>. QED  BY <2>3, CallStep DEF Guarded
<1>. QED  BY <1>1, <1>2, <1>3, CallInit, PTL DEF Spec
===============================================================================
