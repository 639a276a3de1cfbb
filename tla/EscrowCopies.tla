---------------------------- MODULE EscrowCopies ----------------------------
(***************************************************************************)
(* The tree holds more than one definition of release_milestone and of     *)
(* refund_unreleased_milestones.  Escrow models those in lib.rs, which the *)
(* crate declares; milestones.rs and refund.rs have a release and two      *)
(* refunds of their own.  They are modelled here step by step, to see      *)
(* whether a build that took them in would still be the escrow that Escrow *)
(* describes.                                                              *)
(***************************************************************************)
EXTENDS Escrow

(* What all the releases ask for, before they look at the money.           *)
Releasable(id, i, caller) ==
  /\ NotPaused /\ ~Finalized(id)
  /\ contracts[id].status = "Funded"
  /\ MayRelease(contracts[id], caller)
  /\ i \in Unresolved(id)
  /\ SufficientApprovals(id, i)

Gross(id, i) == milestones[id].amounts[i]

Fee(id, i) == ProtocolFee(Gross(id, i), protocol_fee_bps)

Net(id, i) == Gross(id, i) - Fee(id, i)

ReleasedStatus(id, i) ==
  IF Unresolved(id) = {i} THEN "Completed" ELSE contracts[id].status

ReleasedContract(id, i) ==
  [contracts[id] EXCEPT !.released_amount = @ + Net(id, i), !.status = ReleasedStatus(id, i)]

(* milestones.rs: its Milestone has no place for the fee of a release.     *)
MarkedReleased(id, i) == [milestones[id] EXCEPT !.released = @ \cup {i}]

CanReleaseImpl(id, i, caller) ==
  LET c        == contracts[id]
      released == c.released_amount + Net(id, i)
  IN
  /\ Releasable(id, i, caller)
  /\ Gross(id, i) <= Available(id) - accumulated_fees
  /\ released \in Stroops
  /\ released + c.refunded_amount + accumulated_fees + Fee(id, i) <= c.funded_amount
  /\ Gross(id, i) * protocol_fee_bps \in Stroops
  /\ Net(id, i) <= custody

ReleaseMilestoneImpl(id, i, caller) ==
  /\ CanReleaseImpl(id, i, caller)
  /\ TransferOut(Net(id, i))
  /\ accumulated_fees' = accumulated_fees + Fee(id, i)
  /\ contracts' = [contracts EXCEPT ![id] = ReleasedContract(id, i)]
  /\ milestones' = [milestones EXCEPT ![id] = MarkedReleased(id, i)]
  /\ ClearApprovals(id, i)
  /\ CreditOnCompletion(ReleasedContract(id, i))
  /\ UNCHANGED <<next_contract_id, disputes, finalization, unrecovered, undistributed, control>>

----------------------------------------------------------------------------
RefundedStatusSlip(id, indices) ==
  IF Unresolved(id) = indices THEN "Refunded" ELSE contracts[id].status

(* A contract nothing of which was ever released is Refunded.              *)
RefundedStatus(id, indices) ==
  CASE Unresolved(id) # indices -> contracts[id].status
    [] Unresolved(id) = indices /\ milestones[id].refunded \cup indices = Indices(id) -> "Refunded"
    [] OTHER -> "Completed"

RefundTotal(id, indices) == AmountOf(milestones[id].amounts, indices)

RefundedContract(id, indices) ==
  [contracts[id] EXCEPT !.refunded_amount = @ + RefundTotal(id, indices),
                        !.status = RefundedStatus(id, indices)]

MarkedRefunded(id, indices) == [milestones[id] EXCEPT !.refunded = @ \cup indices]

CanRefundCopy(id, indices) ==
  /\ NotPaused /\ ~Finalized(id)
  /\ contracts[id].status \in {"Created", "Funded", "Disputed"}
  /\ indices # {} /\ indices \subseteq Unresolved(id)
  /\ RefundTotal(id, indices) \in Stroops
  /\ RefundTotal(id, indices) <= Available(id)
  /\ RefundTotal(id, indices) <= custody
  /\ contracts[id].refunded_amount + RefundTotal(id, indices) \in Stroops

(* refund.rs and milestones.rs, which say the same.                        *)
RefundMilestonesCopy(id, indices) ==
  /\ CanRefundCopy(id, indices)
  /\ TransferOut(RefundTotal(id, indices))
  /\ milestones' = [milestones EXCEPT ![id] = MarkedRefunded(id, indices)]
  /\ contracts' = [contracts EXCEPT ![id] = RefundedContract(id, indices)]
  /\ CreditOnCompletion(RefundedContract(id, indices))
  /\ UNCHANGED <<next_contract_id, approvals, disputes, finalization, accumulated_fees,
                 unrecovered, undistributed, control>>

----------------------------------------------------------------------------
(* Where a release charges no fee, nobody can tell by which of the copies  *)
(* a milestone was released or refunded: in every state a copy accepts the *)
(* call exactly when the original does, and leaves the same contract, the  *)
(* status that decides about a credit included, and the same milestones.   *)
Interchangeable ==
  \A id \in DOMAIN contracts :
    LET c == contracts[id]
        m == milestones[id]
    IN
    /\ \A caller \in Address, i \in Indices(id) :
         Fee(id, i) = 0 =>
           /\ CanReleaseImpl(id, i, caller) <=> CanRelease(id, i, caller)
           /\ CanRelease(id, i, caller) =>
                /\ MarkedReleased(id, i) = Released(m, i, 0)
                /\ ReleasedContract(id, i) =
                     Paid(c, Released(m, i, 0), NetAmount(Gross(id, i), 0))
    /\ \A indices \in SUBSET Indices(id) :
         /\ CanRefundCopy(id, indices) <=> CanRefund(id, indices)
         /\ CanRefund(id, indices) =>
              /\ MarkedRefunded(id, indices) = Refunded(m, indices)
              /\ RefundedContract(id, indices) =
                   TakenBack(c, Refunded(m, indices), RefundTotal(id, indices))
=============================================================================
