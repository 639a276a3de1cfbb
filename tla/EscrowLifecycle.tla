-------------------------- MODULE EscrowLifecycle --------------------------
(***************************************************************************)
(* What the escrow promises about the life of a contract, without money,   *)
(* milestones or callers: the states a contract goes through and the close *)
(* record that freezes it.  It is the transition table of ContractStatus.  *)
(***************************************************************************)
CONSTANT Id  \* the ids that contracts may get

VARIABLES
  status,  \* the state of every contract opened so far
  closed   \* the contracts with a close record

vars == <<status, closed>>

Successors(s) ==
  CASE s = "Created"         -> {"PartiallyFunded", "Funded", "Cancelled"}
    [] s = "PartiallyFunded" -> {"Funded", "Disputed"}
    [] s = "Funded"          -> {"Completed", "Refunded", "Cancelled", "Disputed"}
    [] s = "Disputed"        -> {"Completed", "Refunded"}
    [] OTHER                 -> {}

Init == status = << >> /\ closed = {}

(* An id is used once.                                                     *)
Open(id) ==
  /\ id \notin DOMAIN status
  /\ status' = [x \in DOMAIN status \cup {id} |-> IF x = id THEN "Created" ELSE status[x]]
  /\ UNCHANGED closed

(* A contract with a close record stays where it is.                       *)
Advance(id) ==
  /\ id \in DOMAIN status \ closed
  /\ \E s \in Successors(status[id]) : status' = [status EXCEPT ![id] = s]
  /\ UNCHANGED closed

(* Only work that was delivered, or is disputed, gets a close record.      *)
Close(ids) ==
  /\ ids \subseteq {id \in DOMAIN status \ closed : status[id] \in {"Completed", "Disputed"}}
  /\ closed' = closed \cup ids
  /\ UNCHANGED status

Reopen(id) ==
  /\ id \in closed
  /\ closed' = closed \ {id}
  /\ UNCHANGED status

Next ==
  \/ \E id \in Id : Open(id) \/ Advance(id) \/ Reopen(id)
  \/ \E ids \in SUBSET Id : Close(ids)

Spec == Init /\ [][Next]_vars
=============================================================================
