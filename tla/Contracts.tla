------------------------------ MODULE Contracts ------------------------------
(***************************************************************************)
(* What a resource owes its user about the contracts it makes, each of     *)
(* them paid for by the hour: at rest, a contract that lives is either in  *)
(* Terraform's state or one the user has been warned of, and the state     *)
(* lets go of no contract that lives.  Nothing is said of when contracts   *)
(* are made or end.                                                        *)
(***************************************************************************)
EXTENDS Integers

VARIABLES
  alive,      \* ids of the contracts that live
  used,       \* the last id given to a contract
  recorded,   \* ids in Terraform's state
  told,       \* ids of contracts there were when the user was warned
  busy        \* a handler is at work

vars == <<alive, used, recorded, told, busy>>

Init == alive = {} /\ used = 0 /\ recorded = {} /\ told = {} /\ busy = FALSE

Begin == ~busy /\ busy' = TRUE /\ UNCHANGED <<alive, used, recorded, told>>

\* A contract that ends does not come back: what is new has a new id.
Changes ==
  /\ used' \in Nat /\ used <= used'
  /\ alive' \subseteq alive \cup (used + 1 .. used')

Work == busy /\ Changes /\ UNCHANGED <<recorded, told, busy>>

Return ==
  /\ busy /\ busy' = FALSE /\ Changes
  /\ recorded \cap alive' \subseteq recorded'
  /\ told \subseteq told' /\ alive' \subseteq recorded' \cup told'

Expire == alive' \subseteq alive /\ UNCHANGED <<used, recorded, told, busy>>

Next == Begin \/ Work \/ Return \/ Expire

Spec == Init /\ [][Next]_vars
=============================================================================
