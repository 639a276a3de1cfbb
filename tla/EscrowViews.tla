----------------------------- MODULE EscrowViews -----------------------------
(***************************************************************************)
(* What the read-only entrypoints answer, held against what the contract   *)
(* then does: the preview of a deposit, the summary and the balance that   *)
(* indexers and clients decide on.                                         *)
(***************************************************************************)
EXTENDS Escrow

(* validate_deposit, and no look at a close record.                        *)
PreviewAccepts(id, amount) ==
  LET c == contracts[id] IN
  /\ NotPaused
  /\ amount > 0
  /\ c.status \in {"Created", "PartiallyFunded"}
  /\ c.funded_amount + amount \in Stroops
  /\ c.funded_amount + amount <= TotalAmount(milestones[id].amounts)

ProjectedSlip(id, amount) ==
  [new_funded_amount |-> contracts[id].funded_amount + amount,
   projected_status |->
     IF amount = TotalAmount(milestones[id].amounts) THEN "Funded" ELSE "PartiallyFunded"]

(* The SimulateDepositResult.                                              *)
Projected(id, amount) ==
  LET new_funded_amount == contracts[id].funded_amount + amount IN
  [new_funded_amount |-> new_funded_amount,
   projected_status |->
     IF new_funded_amount = TotalAmount(milestones[id].amounts) THEN "Funded"
                                                                ELSE "PartiallyFunded"]

GetRefundableBalanceSlip(id) == contracts[id].funded_amount - contracts[id].released_amount

GetRefundableBalance(id) ==
  contracts[id].funded_amount - contracts[id].released_amount - contracts[id].refunded_amount

GetContractSummary(id) ==
  [status |-> contracts[id].status,
   total_amount |-> TotalAmount(milestones[id].amounts),
   funded_amount |-> contracts[id].funded_amount,
   refundable_balance |-> GetRefundableBalance(id),
   released_milestone_count |-> Cardinality(milestones[id].released),
   milestones |-> [i \in Indices(id) |->
     [amount |-> milestones[id].amounts[i],
      disposed |-> i \in milestones[id].released \cup milestones[id].refunded]]]

----------------------------------------------------------------------------
(* The preview and the deposit agree in every state, a finalized contract  *)
(* included although only the deposit asks for that: one is accepted when  *)
(* the other is, and the deposit leads where the preview said, in amount   *)
(* and in status, however the contract was funded before.                  *)
PreviewIsHonest ==
  \A id \in DOMAIN contracts, amount \in DepositAmounts :
    LET projected == Projected(id, amount)
        deposited == Deposited(contracts[id], TotalAmount(milestones[id].amounts), amount)
    IN
    /\ CanDeposit(id, amount) <=> PreviewAccepts(id, amount)
    /\ PreviewAccepts(id, amount) =>
         /\ deposited.funded_amount = projected.new_funded_amount
         /\ deposited.status = projected.projected_status

(* A reader of the summary alone can tell what is left: while a contract   *)
(* is open and fully funded, the refundable balance covers the milestones  *)
(* the summary shows as not disposed of, and exceeds them only after a     *)
(* release, by the fee that stayed; whatever was rolled back between.      *)
SummaryExplainsBalance ==
  \A id \in DOMAIN contracts :
    LET s    == GetContractSummary(id)
        left == SumFunction([i \in {j \in DOMAIN s.milestones : ~s.milestones[j].disposed} |->
                               s.milestones[i].amount])
    IN  s.status \in OpenStatus /\ s.funded_amount = s.total_amount =>
          /\ s.refundable_balance >= left
          /\ s.released_milestone_count = 0 => s.refundable_balance = left
=============================================================================
