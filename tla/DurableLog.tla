------------------------------ MODULE DurableLog ------------------------------
(***************************************************************************)
(* What a session file promises its users, whatever happens to the writes  *)
(* and to the process (mini_pi/session/jsonl.py): an append that returned  *)
(* is found again by every later process, in its place; of the ones that   *)
(* did not, a new process finds at most one more than the old one saw, at  *)
(* the end; and it refuses the file only if one of them left something in  *)
(* it.  A power failure may take back what was not acknowledged.           *)
(***************************************************************************)
EXTENDS Naturals, SequencesExt

CONSTANT Id  \* the ids an entry may have

VARIABLES
  log,      \* ids of the active path, from the root to the leaf
  acked,    \* the part of it up to the last append that returned
  doubts,   \* ids whose append did not return since then
  spoiled,  \* whether the file may hold what such an append left behind
  phase     \* open, down, lost (the power failed), refused

promise == <<log, acked, doubts, spoiled, phase>>

Init ==
  /\ log = <<>> /\ acked = <<>> /\ doubts = {}
  /\ spoiled = FALSE
  /\ phase = "open"

Acknowledge ==
  /\ phase = "open"
  /\ \E id \in Id : log' = Append(log, id)
  /\ acked' = log'
  /\ doubts' = {}
  /\ UNCHANGED <<spoiled, phase>>

\* An append fails or is interrupted, or the process dies in it.
Fail ==
  /\ phase = "open"
  /\ phase' \in {"open", "down"}
  /\ \E id \in Id : doubts' = doubts \cup {id}
  /\ spoiled' = TRUE
  /\ UNCHANGED <<log, acked>>

Stop ==
  /\ phase = "open"
  /\ phase' = "down"
  /\ UNCHANGED <<log, acked, doubts, spoiled>>

PowerFailure ==
  /\ phase = "open"
  /\ phase' = "lost"
  /\ doubts' \in SUBSET doubts
  /\ spoiled' \in BOOLEAN
  /\ spoiled' => spoiled \/ doubts # {}
  /\ UNCHANGED <<log, acked>>

Reopen ==
  /\ \/ /\ phase = "down"
        /\ log' \in {log} \cup {Append(log, id) : id \in doubts \ ToSet(log)}
     \/ /\ phase = "lost"
        /\ \E n \in 0 .. Cardinality(doubts) :
             \E tail \in [1 .. n -> doubts] : log' = acked \o tail
  /\ phase' = "open"
  /\ spoiled' \in {spoiled, FALSE}
  /\ UNCHANGED <<acked, doubts>>

Refuse ==
  /\ phase \in {"down", "lost"}
  /\ spoiled
  /\ phase' = "refused"
  /\ UNCHANGED <<log, acked, doubts, spoiled>>

Next == Acknowledge \/ Fail \/ Stop \/ PowerFailure \/ Reopen \/ Refuse

Spec == Init /\ [][Next]_promise
===============================================================================
