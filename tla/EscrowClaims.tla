---------------------------- MODULE EscrowClaims ----------------------------
(***************************************************************************)
(* Statements that the repository makes about itself and that the code, as *)
(* Escrow.tla models it, does not keep.  Each is worded as its document    *)
(* words it; the runs on this module show a shortest counterexample.       *)
(***************************************************************************)
EXTENDS Escrow

(* docs/escrow/balance-conservation-invariant.md:10-19: at every step the  *)
(* token balance is funded - released - refunded + accumulated fees.  Read *)
(* over all contracts, since they share the balance, and only before any   *)
(* roll-back, which is documented to recover no token.  released_amount is *)
(* net of the fee, so a fee is counted twice; and an award of an arbiter   *)
(* moves no token at all.                                                  *)
BalanceConservation ==
  unrecovered = 0 =>
    custody = accumulated_fees + TotalAmount([id \in DOMAIN contracts |-> Available(id)])

(* lib.rs:3148-3156: simulate_issue_reputation previews "without writing   *)
(* storage".  It writes back the freelancer's credits, one fewer.          *)
PreviewWritesNothing ==
  [][\A id \in DOMAIN contracts : SimulateIssueReputation(id) => UNCHANGED vars]_vars
=============================================================================
