--------------------------- MODULE EscrowLiveness ---------------------------
(***************************************************************************)
(* What Escrow brings about once the parties do their part.  The contract  *)
(* schedules nothing by itself: a milestone is paid because its approvers  *)
(* and its releaser go on trying, also after an approval has expired or a  *)
(* call failed, and because the admin goes on collecting fees and does not *)
(* leave the deployment paused.  These are the fairness conditions.  The   *)
(* other calls, the close records, roll-backs and pauses included, go on   *)
(* in between as they like.                                                *)
(***************************************************************************)
EXTENDS Escrow

Ids == 1 .. MAX_CONTRACT_ID - 1

Milestone == Ids \X (1 .. MAX_MILESTONES)

Open(id, i) == Exists(id) /\ contracts[id].status = "Funded" /\ i \in Unresolved(id)

(* The parties go on approving: each approval lives in temporary storage,  *)
(* and the pause may come first, so that a call that is possible only now  *)
(* and then has to be made in the end.                                     *)
ApprovesAgain(id, i) ==
  /\ Open(id, i) /\ ApprovedBy(id, i) = {}
  /\ \E caller \in Address : ApproveMilestones(id, {i}, caller)

(* Where two must approve, the second follows up on the first before the   *)
(* record of the first approval expires, some time when it is possible.    *)
CoSigns(id, i) ==
  /\ Open(id, i) /\ ApprovedBy(id, i) # {}
  /\ \E caller \in Address : ApproveMilestones(id, {i}, caller)

ReleasesAgain(id, i) ==
  Open(id, i) /\ \E caller \in Address : ReleaseMilestone(id, i, caller)

CollectsFees == WithdrawProtocolFees(accumulated_fees)

(* Whoever switched it off switches the deployment on again.               *)
LiftsPause == Unpause \/ ResolveEmergency

InDispute(id) == Exists(id) /\ contracts[id].status = "Disputed"

(* The arbiter decides in some way the contract accepts.                   *)
Decides(id) ==
  InDispute(id) /\ \E caller \in Address : ResolveDispute(id, caller, FixedResolution("PartialRefund"))

(* The admin takes the close record off a contract whose dispute is open.  *)
Reopens(id) == InDispute(id) /\ RollbackContract(id)

PartiesFairness ==
  /\ \A mi \in Milestone :
       /\ SF_vars(ApprovesAgain(mi[1], mi[2]))
       /\ SF_vars(CoSigns(mi[1], mi[2]))
       /\ SF_vars(ReleasesAgain(mi[1], mi[2]))
  /\ \A id \in Ids : SF_vars(Decides(id))

AdminFairness ==
  /\ SF_vars(CollectsFees)
  /\ WF_vars(LiftsPause)
  /\ \A id \in Ids : WF_vars(Reopens(id))

FairSpec == Spec /\ PartiesFairness /\ AdminFairness

----------------------------------------------------------------------------
(* A milestone of a Funded contract is paid or taken back in the end, or   *)
(* the contract leaves Funded, although its approvals may expire whenever  *)
(* they please, the deployment is paused over and over, the fee rate       *)
(* changes, and the fees that other contracts earn count against this      *)
(* one's balance until the admin collects them.  Provided no roll-back     *)
(* books back a payment: the tokens it books are not there.                *)
MilestonesSettle ==
  [](unrecovered = 0) =>
    \A mi \in Milestone : Open(mi[1], mi[2]) ~> ~Open(mi[1], mi[2])

(* No dispute stays open: not even one whose contract a party has          *)
(* finalized, which stops the arbiter, as long as the admin goes on        *)
(* removing the close record.                                              *)
DisputesEnd ==
  \A id \in Ids : InDispute(id) ~> ~InDispute(id)
=============================================================================
