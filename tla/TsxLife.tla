------------------------------- MODULE TsxLife -------------------------------
(***************************************************************************)
(* What a transaction promises to its user, the dialog or the registration *)
(* client (sip_transaction.h, "transaction states"): it only moves         *)
(* forwards, the user hears of its states in that order and hears that it  *)
(* is terminated before it is destroyed, and its memory goes last.         *)
(* SipCall and Lifecycle rely on this: they count a transaction out when   *)
(* its user is told of Terminated.                                         *)
(***************************************************************************)
EXTENDS Naturals

VARIABLES
  state,  \* tsx->state
  told,   \* the last state the user was told of
  freed   \* the memory is given back

vars == <<state, told, freed>>

State == {"none", "Null", "Calling", "Trying", "Proceeding", "Completed",
          "Confirmed", "Terminated", "Destroyed"}

Rank ==
  [none |-> 0, Null |-> 1, Calling |-> 2, Trying |-> 3, Proceeding |-> 4,
   Completed |-> 5, Confirmed |-> 6, Terminated |-> 7, Destroyed |-> 8]

Init == state = "none" /\ told = "none" /\ ~freed

(* The transaction moves on; its user is told in the same step or later.    *)
Advance(s) ==
  /\ Rank[s] > Rank[state] /\ s # "Destroyed"
  /\ state' = s /\ told' \in {told, s} /\ UNCHANGED freed

(* Nothing is destroyed whose end the user has not been told of. *)
Destroy ==
  /\ state = "Terminated" /\ told = "Terminated"
  /\ state' = "Destroyed" /\ UNCHANGED <<told, freed>>

Tell ==
  /\ state # "none" /\ told # state
  /\ told' = state /\ freed' \in {FALSE, state = "Destroyed"}
  /\ UNCHANGED state

Free ==
  /\ told = "Destroyed" /\ ~freed /\ freed' = TRUE
  /\ UNCHANGED <<state, told>>

Next == (\E s \in State : Advance(s)) \/ Destroy \/ Tell \/ Free

Spec == Init /\ [][Next]_vars
=============================================================================
