-------------------------- MODULE AtMostOnceCall --------------------------
(***************************************************************************)
(* What a connection to an external server promises to its caller: the     *)
(* operations it is asked for run one at a time, each has its effect at    *)
(* most once, only after it was asked for and never once the caller has    *)
(* been told how it ended.  McpClient implements it.                       *)
(***************************************************************************)
EXTENDS Naturals

CONSTANT Operations   \* operations the caller may ask for, 1 .. n

VARIABLES
  open,     \* the operation in progress, 0 when there is none
  effects   \* [Operations -> Nat], how often the server carried one out

contract == <<open, effects>>

Init ==
  /\ open = 0
  /\ effects = [o \in Operations |-> 0]

Begin ==
  /\ open = 0
  /\ open' \in Operations
  /\ effects[open'] = 0
  /\ UNCHANGED effects

Effect ==
  /\ open # 0
  /\ effects[open] = 0
  /\ effects' = [effects EXCEPT ![open] = 1]
  /\ UNCHANGED open

End ==
  /\ open # 0
  /\ open' = 0
  /\ UNCHANGED effects

Next == Begin \/ Effect \/ End

Spec == Init /\ [][Next]_contract
=============================================================================
