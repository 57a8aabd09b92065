----------------------------- MODULE Conversation -----------------------------
(***************************************************************************)
(* What an agent promises of its conversation, seen in the messages it     *)
(* keeps and in what its tools did: a reply is answered call by call in    *)
(* its order before anything else is said, a tool acts on the call that is *)
(* next and on no call twice, what is said of a call is what became of it, *)
(* and a batch that was stopped is answered the same way to its end.       *)
(* AgentLoop implements it, whatever fails; where its host interrupts what *)
(* it does not guard, a reply may be left before all its calls are         *)
(* answered.                                                               *)
(***************************************************************************)
EXTENDS Transcript

CONSTANT MayAbandon   \* whether a reply may be left with calls unanswered

VARIABLES
  log,      \* the messages
  kept,     \* where the part begins that compactions have kept, 0: everywhere
  effects   \* the calls whose tool acted

conversation == <<log, kept, effects>>

Init == log = <<>> /\ kept = 0 /\ effects = {}

\* The messages after p answer the first calls of the reply at p, in order, and
\* leave some.
Unfinished(p) ==
  /\ log[p].role = "assistant"
  /\ Len(log) - p < log[p].number
  /\ \A k \in 1 .. Len(log) - p :
       log[p + k].role = "tool" /\ ResultId(log[p + k]) = <<log[p].step, k>>

\* The call to be answered next: there is one, or none.
Due == {<<log[p].step, Len(log) - p + 1>> : p \in {p \in DOMAIN log : Unfinished(p)}}

\* How a call may be answered after a message with this note.
After == [stop |-> {"ok", "error", "rejected", "cancelled", "unavailable"},
          ok |-> {"ok", "error", "cancelled", "unavailable"},
          error |-> {"ok", "error", "cancelled", "unavailable"},
          rejected |-> {"rejected", "cancelled"},
          length |-> {"truncated"},
          truncated |-> {"truncated"},
          cancelled |-> {"cancelled"},
          unavailable |-> {"unavailable"}]

Last == log[Len(log)]
New == log'[Len(log')]

Adds == Len(log') > Len(log) /\ log' = Append(log, New) /\ UNCHANGED <<kept, effects>>

Free == Due = {} \/ MayAbandon

Say == Free /\ Adds /\ New = UserMessage

Reply ==
  /\ Free /\ Adds
  /\ New.role = "assistant"
  /\ New.note \in StopReasons
  /\ New.note = "error" => New.number = 0
  /\ CallIds(New) \cap Called(log) = {}

Act ==
  /\ \E id \in Due \ effects : effects' = effects \cup {id}
  /\ Last.note \in {"stop", "ok", "error"}
  /\ UNCHANGED <<log, kept>>

Answer ==
  /\ Adds
  /\ New.role = "tool"
  /\ ResultId(New) \in Due
  /\ New.note \in After[Last.note]
  /\ New.note = "ok" => ResultId(New) \in effects
  /\ ResultId(New) \in effects => New.note \in {"ok", "error", "cancelled"}

\* What is kept is a conversation by itself.
Compact ==
  /\ kept' \in kept + 1 .. Len(log)
  /\ PairsValidIn(log, kept', Len(log))
  /\ UNCHANGED <<log, effects>>

Next == Say \/ Reply \/ Act \/ Answer \/ Compact

Spec == Init /\ [][Next]_conversation
===============================================================================
