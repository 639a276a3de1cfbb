------------------------------- MODULE Escrow -------------------------------
(***************************************************************************)
(* The custody core of the TalentTrust escrow contract: contracts and      *)
(* their milestones, deposits, approvals, releases, refunds, cancellation, *)
(* disputes, finalization, reputation credits, protocol fees and the pause *)
(* switches, over the one token balance that all contracts share.          *)
(*                                                                         *)
(* A step is one successful transaction.  The host runs transactions one   *)
(* at a time and rolls a failing one back, so an entrypoint is one action  *)
(* and each panic_with_error is a guard; what interleaves is the order in  *)
(* which clients, freelancers, arbiters, the admin and the ledger clock    *)
(* act.  An address that signs is the `caller' of the action.              *)
(*                                                                         *)
(* An operator XSlip is X with a mistake in it.  No action uses it: it is  *)
(* put in the place of X to see that a property notices the mistake.       *)
(***************************************************************************)
EXTENDS EscrowMath, FiniteSets

CONSTANTS
  Address,              \* the accounts that take part in contracts
  NoArbiter,            \* Option::None of Contract.arbiter
  MAX_CONTRACT_ID,      \* u32::MAX, the id that can never be allocated
  MAX_MILESTONES,       \* milestones in one contract
  MAX_BATCH_APPROVALS,  \* milestones in one approval call
  MAX_BATCH_SETTLEMENT, \* contracts in one finalization call
  MAX_ESCROW_TOTAL,     \* GovernedParameters.max_escrow_total_stroops
  (* The arguments the environment calls the entrypoints with.             *)
  Terms,                \* create_contract
  DepositAmounts,       \* deposit_funds
  SplitLegs,            \* the legs of DisputeResolution::Split
  FeeRates              \* set_protocol_fee_bps

ReleaseAuthorization == {"ClientOnly", "ClientAndArbiter", "ArbiterOnly", "MultiSig"}

Role == {"Client", "Freelancer", "Arbiter"}

ContractStatus ==
  {"Created", "PartiallyFunded", "Funded", "Completed", "Disputed", "Cancelled", "Refunded"}

TermsType ==
  [client : Address, freelancer : Address, arbiter : Address \cup {NoArbiter},
   release_authorization : ReleaseAuthorization, amounts : Seq(Int)]

ASSUME ParticipantsAssumption == NoArbiter \notin Address
ASSUME LimitsAssumption ==
  /\ MAX_CONTRACT_ID \in Nat \ {0}
  /\ MAX_MILESTONES \in Nat
  /\ MAX_BATCH_APPROVALS \in Nat \ {0}
  /\ MAX_BATCH_SETTLEMENT \in Nat \ {0}
  /\ MAX_ESCROW_TOTAL \in Stroops
ASSUME InputsAssumption ==
  /\ Terms \subseteq TermsType
  /\ DepositAmounts \subseteq Int
  /\ SplitLegs \subseteq Int
  /\ FeeRates \subseteq Nat

VARIABLES
  next_contract_id,  \* DataKey::NextContractId
  contracts,         \* DataKey::Contract(id), a partial function on ids
  milestones,        \* the milestone vector of each contract
  approvals,         \* live flags of DataKey::MilestoneApprovals, <<id, index, role>>
  disputes,          \* ids with a DataKey::Dispute record
  finalization,      \* DataKey::Finalization(id), a partial function on ids
  pending_credits,   \* DataKey::PendingReputationCredits
  accumulated_fees,  \* DataKey::AccumulatedProtocolFees, one for all contracts
  protocol_fee_bps,  \* DataKey::ProtocolFeeBps
  paused,            \* DataKey::Paused
  emergency,         \* DataKey::Emergency
  custody,           \* the token contract's balance of the escrow address
  unrecovered,       \* history: stroops rolled back in the books, not in custody
  undistributed      \* history: stroops a dispute awarded without a transfer

books   == <<next_contract_id, contracts, milestones>>
records == <<approvals, disputes, finalization, pending_credits>>
funds   == <<custody, accumulated_fees, unrecovered, undistributed>>
control == <<protocol_fee_bps, paused, emergency>>
vars    == <<books, records, funds, control>>

----------------------------------------------------------------------------
(* Guards and helpers shared by the entrypoints.                           *)

NotPaused == ~paused /\ ~emergency

Exists(id) == id \in DOMAIN contracts

FinalizedSlip(id) == id \in DOMAIN finalization /\ contracts[id].status = "Completed"

Finalized(id) == id \in DOMAIN finalization

Indices(id) == DOMAIN milestones[id].amounts

UnresolvedSlip(id) == Indices(id) \ milestones[id].released

Unresolved(id) == Indices(id) \ (milestones[id].released \cup milestones[id].refunded)

Available(id) == AvailableBalance(contracts[id])

HoldsRole(c, a, role) ==
  \/ role = "Client" /\ a = c.client
  \/ role = "Freelancer" /\ a = c.freelancer
  \/ role = "Arbiter" /\ a = c.arbiter

(* The role under which an address approves: the first one it holds.       *)
CallerRole(c, a) ==
  CASE a = c.client     -> "Client"
    [] a # c.client /\ a = c.freelancer -> "Freelancer"
    [] OTHER            -> "Arbiter"

IsParticipant(c, a) == \E role \in Role : HoldsRole(c, a, role)

AuthorizedRoles(mode) ==
  CASE mode = "ClientOnly"       -> {"Client"}
    [] mode = "ArbiterOnly"      -> {"Arbiter"}
    [] mode = "ClientAndArbiter" -> {"Client", "Arbiter"}
    [] mode = "MultiSig"         -> {"Client", "Freelancer"}

MayApprove(c, a) ==
  IsParticipant(c, a) /\ CallerRole(c, a) \in AuthorizedRoles(c.release_authorization)

MayRelease(c, a) ==
  \E role \in AuthorizedRoles(c.release_authorization) : HoldsRole(c, a, role)

ApprovedBy(id, i) == {role \in Role : <<id, i, role>> \in approvals}

SufficientApprovals(id, i) ==
  LET mode == contracts[id].release_authorization
  IN  IF mode = "MultiSig" THEN {"Client", "Freelancer"} \subseteq ApprovedBy(id, i)
                           ELSE ApprovedBy(id, i) \cap AuthorizedRoles(mode) # {}

ClearApprovalsSlip(id, i) == approvals' = approvals

ClearApprovals(id, i) == approvals' = {a \in approvals : ~(a[1] = id /\ a[2] = i)}

GrantPendingReputationCreditSlip(freelancer) ==
  pending_credits' = [pending_credits EXCEPT ![freelancer] = 1]

GrantPendingReputationCredit(freelancer) ==
  pending_credits' = [pending_credits EXCEPT ![freelancer] = @ + 1]

(* token.transfer out of the escrow address; it fails beyond the balance.  *)
TransferOut(amount) == custody >= amount /\ custody' = custody - amount

(* A partial function extended, or overwritten, at one point.              *)
With(f, x, v) == [y \in DOMAIN f \cup {x} |-> IF y = x THEN v ELSE f[y]]

StatusAfterSlip(c, m) ==
  IF m.released \cup m.refunded # DOMAIN m.amounts THEN c.status ELSE "Completed"

(* Once every milestone is disposed of the contract closes: Refunded when  *)
(* none was released, else Completed.                                      *)
StatusAfter(c, m) ==
  CASE m.released \cup m.refunded # DOMAIN m.amounts -> c.status
    [] m.refunded = DOMAIN m.amounts                 -> "Refunded"
    [] OTHER                                         -> "Completed"

CreditOnCompletionSlip(c) ==
  IF c.status \in {"Completed", "Refunded"} THEN GrantPendingReputationCredit(c.freelancer)
                                            ELSE UNCHANGED pending_credits

(* Completion earns the freelancer one credit.                             *)
CreditOnCompletion(c) ==
  IF c.status = "Completed" THEN GrantPendingReputationCredit(c.freelancer)
                            ELSE UNCHANGED pending_credits

----------------------------------------------------------------------------
Init ==
  /\ next_contract_id = 1
  /\ contracts = << >> /\ milestones = << >>
  /\ approvals = {} /\ disputes = {} /\ finalization = << >>
  /\ pending_credits = [a \in Address |-> 0]
  /\ custody = 0 /\ accumulated_fees = 0 /\ unrecovered = 0 /\ undistributed = 0
  /\ protocol_fee_bps = 0 /\ paused = FALSE /\ emergency = FALSE

----------------------------------------------------------------------------
(* Creation and funding.                                                   *)

NewContract(t) ==
  [client |-> t.client, freelancer |-> t.freelancer, arbiter |-> t.arbiter,
   release_authorization |-> t.release_authorization, status |-> "Created",
   funded_amount |-> 0, released_amount |-> 0, refunded_amount |-> 0,
   reputation_issued |-> FALSE]

NewMilestones(t) ==
  [amounts |-> t.amounts, released |-> {}, refunded |-> {},
   protocol_fee |-> [i \in DOMAIN t.amounts |-> 0]]

AcceptableTerms(t) ==
  /\ t.client # t.freelancer
  /\ t.arbiter \notin {t.client, t.freelancer}
  /\ t.release_authorization \in {"ArbiterOnly", "ClientAndArbiter"} => t.arbiter # NoArbiter
  /\ Len(t.amounts) \in 1 .. MAX_MILESTONES
  /\ \A i \in DOMAIN t.amounts : t.amounts[i] > 0
  /\ TotalAmount(t.amounts) \in Stroops
  /\ TotalAmount(t.amounts) <= MAX_ESCROW_TOTAL

CreateContract(t) ==
  /\ NotPaused
  /\ AcceptableTerms(t)
  /\ ~Exists(next_contract_id)
  /\ next_contract_id < MAX_CONTRACT_ID
  /\ contracts' = With(contracts, next_contract_id, NewContract(t))
  /\ milestones' = With(milestones, next_contract_id, NewMilestones(t))
  /\ next_contract_id' = next_contract_id + 1
  /\ UNCHANGED <<records, funds, control>>

(* Where a property is about a call that must be possible, or must not be, *)
(* the guard of the call is an operator CanX of its own.  What X then does *)
(* is one assignment to each variable, so that CanX is when X is enabled.  *)
CanDeposit(id, amount) ==
  LET c     == contracts[id]
      total == TotalAmount(milestones[id].amounts)
  IN
  /\ NotPaused /\ ~Finalized(id)
  /\ amount > 0
  /\ c.status \in {"Created", "PartiallyFunded"}
  /\ total \in Stroops /\ c.funded_amount + amount \in Stroops
  /\ c.funded_amount + amount <= total

Deposited(c, total, amount) ==
  [c EXCEPT !.funded_amount = @ + amount,
            !.status = IF c.funded_amount + amount = total THEN "Funded" ELSE "PartiallyFunded"]

(* The token moves from the client before the books change; the client can *)
(* always pay, what he holds elsewhere is not the contract's business.     *)
DepositFunds(id, amount) ==
  /\ CanDeposit(id, amount)
  /\ custody' = custody + amount
  /\ contracts' = [contracts EXCEPT ![id] =
       Deposited(contracts[id], TotalAmount(milestones[id].amounts), amount)]
  /\ UNCHANGED <<next_contract_id, milestones, records, accumulated_fees, unrecovered,
                 undistributed, control>>

----------------------------------------------------------------------------
(* Approvals: flags in temporary storage, one record per milestone, which  *)
(* the ledger evicts when its time to live runs out.  This module lets a   *)
(* record go at any time, whatever the clock.                              *)

(* One call approves one milestone or a batch, all of them or none.        *)
ApproveMilestones(id, indices, caller) ==
  LET c == contracts[id]
      flags == {<<id, i, CallerRole(c, caller)>> : i \in indices}
  IN
  /\ NotPaused /\ ~Finalized(id)
  /\ Cardinality(indices) <= MAX_BATCH_APPROVALS
  /\ c.status \in {"Funded", "PartiallyFunded"}
  /\ indices \subseteq Indices(id) \ milestones[id].released
  /\ MayApprove(c, caller)
  /\ flags \cap approvals = {}
  /\ approvals' = approvals \cup flags
  /\ UNCHANGED <<books, disputes, finalization, pending_credits, funds, control>>

ExpireApprovals(id, i) ==
  /\ ApprovedBy(id, i) # {}
  /\ ClearApprovals(id, i)
  /\ UNCHANGED <<books, disputes, finalization, pending_credits, funds, control>>

----------------------------------------------------------------------------
(* Disposing of milestones.                                                *)

NetAmountSlip(gross, fee) == gross

NetAmount(gross, fee) == gross - fee

Released(m, i, fee) ==
  [m EXCEPT !.released = @ \cup {i}, !.protocol_fee = [@ EXCEPT ![i] = fee]]

Paid(c, m2, net) ==
  [c EXCEPT !.released_amount = @ + net, !.status = StatusAfter(c, m2)]

(* The balance of the one contract must cover, besides the milestone, the  *)
(* fees of the whole deployment.                                           *)
CanRelease(id, i, caller) ==
  LET c     == contracts[id]
      gross == milestones[id].amounts[i]
      fee   == ProtocolFee(gross, protocol_fee_bps)
      net   == NetAmount(gross, fee)
  IN
  /\ NotPaused /\ ~Finalized(id)
  /\ c.status = "Funded"
  /\ MayRelease(c, caller)
  /\ i \in Unresolved(id)
  /\ SufficientApprovals(id, i)
  /\ gross * protocol_fee_bps \in Stroops
  /\ gross <= Available(id)
  /\ gross <= Available(id) - accumulated_fees
  /\ c.released_amount + net \in Stroops
  /\ c.released_amount + net + c.refunded_amount + accumulated_fees + fee <= c.funded_amount
  /\ net <= custody

(* The net amount leaves for the freelancer; the fee stays in custody and  *)
(* is added to the one counter of the whole deployment.                    *)
ReleaseMilestone(id, i, caller) ==
  LET gross == milestones[id].amounts[i]
      fee   == ProtocolFee(gross, protocol_fee_bps)
      net   == NetAmount(gross, fee)
      m2    == Released(milestones[id], i, fee)
      c2    == Paid(contracts[id], m2, net)
  IN
  /\ CanRelease(id, i, caller)
  /\ TransferOut(net)
  /\ accumulated_fees' = accumulated_fees + fee
  /\ milestones' = [milestones EXCEPT ![id] = m2]
  /\ contracts' = [contracts EXCEPT ![id] = c2]
  /\ ClearApprovals(id, i)
  /\ CreditOnCompletion(c2)
  /\ UNCHANGED <<next_contract_id, disputes, finalization, unrecovered, undistributed, control>>

RolledBackSlip(m, i) == [m EXCEPT !.released = @ \ {i}, !.refunded = @ \ {i}]

RolledBack(m, i) ==
  [m EXCEPT !.released = @ \ {i}, !.refunded = @ \ {i},
            !.protocol_fee = [@ EXCEPT ![i] = IF i \in m.released THEN 0 ELSE m.protocol_fee[i]]]

ReversedFeeSlip(fee) == fee

ReversedFee(fee) == IF fee <= accumulated_fees THEN fee ELSE 0

RollbackStatusSlip == {"PartiallyFunded", "Funded", "Completed"}

RollbackStatus == {"PartiallyFunded", "Funded"}

(* The admin takes a disposal back in the books.  No token returns, and    *)
(* the fee is given back only while the counter still covers it.           *)
RollbackMilestone(id, i) ==
  LET c        == contracts[id]
      m        == milestones[id]
      fee      == IF i \in m.released THEN m.protocol_fee[i] ELSE 0
      released == IF i \in m.released THEN NetAmount(m.amounts[i], fee) ELSE 0
      refunded == IF i \in m.refunded THEN m.amounts[i] ELSE 0
      reversed == ReversedFee(fee)
  IN
  /\ NotPaused /\ ~Finalized(id)
  /\ c.status \in RollbackStatus
  /\ i \in m.released \cup m.refunded
  /\ contracts' = [contracts EXCEPT ![id] =
       [c EXCEPT !.released_amount = @ - released, !.refunded_amount = @ - refunded]]
  /\ milestones' = [milestones EXCEPT ![id] = RolledBack(m, i)]
  /\ accumulated_fees' = accumulated_fees - reversed
  /\ unrecovered' = unrecovered + released + refunded + (fee - reversed)
  /\ IF i \in m.released THEN ClearApprovals(id, i) ELSE UNCHANGED approvals
  /\ UNCHANGED <<next_contract_id, disputes, finalization, pending_credits, custody,
                 undistributed, control>>

Refunded(m, indices) == [m EXCEPT !.refunded = @ \cup indices]

TakenBack(c, m2, total) ==
  [c EXCEPT !.refunded_amount = @ + total, !.status = StatusAfter(c, m2)]

CanRefund(id, indices) ==
  LET c     == contracts[id]
      total == AmountOf(milestones[id].amounts, indices)
  IN
  /\ NotPaused /\ ~Finalized(id)
  /\ indices # {} /\ indices \subseteq Unresolved(id)
  /\ c.status \in {"Created", "Funded", "Disputed"}
  /\ total \in Stroops
  /\ total <= Available(id)
  /\ total <= custody
  /\ c.refunded_amount + total \in Stroops

(* The client takes unreleased milestones back, also while a dispute about *)
(* them is open.                                                           *)
RefundUnreleasedMilestones(id, indices) ==
  LET total == AmountOf(milestones[id].amounts, indices)
      m2    == Refunded(milestones[id], indices)
      c2    == TakenBack(contracts[id], m2, total)
  IN
  /\ CanRefund(id, indices)
  /\ TransferOut(total)
  /\ milestones' = [milestones EXCEPT ![id] = m2]
  /\ contracts' = [contracts EXCEPT ![id] = c2]
  /\ CreditOnCompletion(c2)
  /\ UNCHANGED <<next_contract_id, approvals, disputes, finalization, accumulated_fees,
                 unrecovered, undistributed, control>>

(* The client withdraws everything before any release.                     *)
CancelContract(id) ==
  LET c == contracts[id] IN
  /\ NotPaused /\ ~Finalized(id)
  /\ c.status \in {"Created", "Funded"}
  /\ c.released_amount = 0
  /\ TransferOut(Available(id))
  /\ contracts' = [contracts EXCEPT ![id] =
       [c EXCEPT !.refunded_amount = @ + Available(id), !.status = "Cancelled"]]
  /\ UNCHANGED <<next_contract_id, milestones, records, accumulated_fees, unrecovered,
                 undistributed, control>>

----------------------------------------------------------------------------
(* Disputes.                                                               *)

DisputableStatusSlip == {"Created", "PartiallyFunded", "Funded"}

DisputableStatus == {"PartiallyFunded", "Funded"}

StoreDispute(id) == disputes' = disputes \cup {id}

RemoveDisputeSlip(id) == disputes' = disputes

RemoveDispute(id) == disputes' = disputes \ {id}

RaiseDispute(id, caller) ==
  LET c == contracts[id] IN
  /\ NotPaused /\ ~Finalized(id)
  /\ caller \in {c.client, c.freelancer}
  /\ c.arbiter # NoArbiter
  /\ c.status \in DisputableStatus
  /\ contracts' = [contracts EXCEPT ![id] = [c EXCEPT !.status = "Disputed"]]
  /\ StoreDispute(id)
  /\ UNCHANGED <<next_contract_id, milestones, approvals, finalization, pending_credits, funds,
                 control>>

Resolutions ==
  {FixedResolution(kind) : kind \in {"FullRefund", "PartialRefund", "FullPayout"}}
    \cup {Split(x, y) : x \in SplitLegs, y \in SplitLegs}

CanResolve(id, caller, r) ==
  LET c        == contracts[id]
      refunded == c.refunded_amount + ClientPayout(Available(id), r)
      released == c.released_amount + FreelancerPayout(Available(id), r)
  IN
  /\ NotPaused /\ ~Finalized(id)
  /\ c.status = "Disputed"
  /\ caller = c.arbiter
  /\ ResolutionAccepted(Available(id), r)
  /\ refunded \in Stroops /\ released \in Stroops
  /\ released + refunded = c.funded_amount

(* The arbiter awards what is left; the award is booked, not transferred.  *)
ResolveDispute(id, caller, r) ==
  LET c  == contracts[id]
      c1 == [c EXCEPT !.refunded_amount = @ + ClientPayout(Available(id), r),
                      !.released_amount = @ + FreelancerPayout(Available(id), r)]
      c2 == [c1 EXCEPT !.status = FinalStatusAfterResolution(c1)]
  IN
  /\ CanResolve(id, caller, r)
  /\ contracts' = [contracts EXCEPT ![id] = c2]
  /\ CreditOnCompletion(c2)
  /\ RemoveDispute(id)
  /\ undistributed' = undistributed + Available(id)
  /\ UNCHANGED <<next_contract_id, milestones, approvals, finalization, custody,
                 accumulated_fees, unrecovered, control>>

----------------------------------------------------------------------------
(* Finalization: a close record that freezes a contract.                   *)

Summary(id) ==
  [status |-> contracts[id].status,
   reputation_issued |-> contracts[id].reputation_issued,
   funded_amount |-> contracts[id].funded_amount,
   released_amount |-> contracts[id].released_amount,
   refundable_balance |-> Available(id),
   milestones |-> [i \in Indices(id) |->
     [amount |-> milestones[id].amounts[i],
      released |-> i \in milestones[id].released,
      refunded |-> i \in milestones[id].refunded]]]

Finalizable(id, finalizer) ==
  /\ Exists(id) /\ ~Finalized(id)
  /\ IsParticipant(contracts[id], finalizer)
  /\ contracts[id].status \in {"Completed", "Disputed"}

(* Who finalized and when is recorded too, and is left out here.           *)
WriteFinalizations(ids) ==
  /\ finalization' = [id \in DOMAIN finalization \cup ids |->
                        IF id \in ids THEN Summary(id) ELSE finalization[id]]
  /\ UNCHANGED <<books, approvals, disputes, pending_credits, funds, control>>

FinalizeContract(id, finalizer) ==
  /\ NotPaused
  /\ Finalizable(id, finalizer)
  /\ WriteFinalizations({id})

(* The batch entrypoint finalizes the items it can and skips the others.   *)
FinalizeContractsBatch(ids, finalizer) ==
  /\ NotPaused
  /\ Cardinality(ids) \in 1 .. MAX_BATCH_SETTLEMENT
  /\ WriteFinalizations({id \in ids : Finalizable(id, finalizer[id])})

RollbackContractSlip(id) ==
  /\ Finalized(id)
  /\ contracts[id].status = "Completed"
  /\ finalization' = [x \in DOMAIN finalization \ {id} |-> finalization[x]]
  /\ UNCHANGED <<books, approvals, disputes, pending_credits, funds, control>>

(* The admin removes a close record.  The one entrypoint on a contract     *)
(* that the pause switches do not gate.                                    *)
RollbackContract(id) ==
  /\ Finalized(id)
  /\ contracts[id].status \in {"Completed", "Disputed"}
  /\ finalization' = [x \in DOMAIN finalization \ {id} |-> finalization[x]]
  /\ UNCHANGED <<books, approvals, disputes, pending_credits, funds, control>>

----------------------------------------------------------------------------
(* Reputation: the part that moves credits.                                *)

CanRate(id) ==
  LET c == contracts[id] IN
  /\ NotPaused
  /\ c.status = "Completed"
  /\ ~c.reputation_issued
  /\ c.client # c.freelancer
  /\ pending_credits[c.freelancer] > 0

ConsumeCredit(freelancer) ==
  pending_credits' = [pending_credits EXCEPT ![freelancer] = @ - 1]

IssueReputation(id) ==
  /\ CanRate(id)
  /\ contracts' = [contracts EXCEPT ![id] = [@ EXCEPT !.reputation_issued = TRUE]]
  /\ ConsumeCredit(contracts[id].freelancer)
  /\ UNCHANGED <<next_contract_id, milestones, approvals, disputes, finalization, funds, control>>

(* The preview spends the credit as well.                                  *)
SimulateIssueReputation(id) ==
  /\ CanRate(id)
  /\ ConsumeCredit(contracts[id].freelancer)
  /\ UNCHANGED <<books, approvals, disputes, finalization, funds, control>>

----------------------------------------------------------------------------
(* The admin: fees and the pause switches.                                 *)

WithdrawProtocolFeesSlip(amount) ==
  /\ ~paused
  /\ amount > 0 /\ amount <= accumulated_fees
  /\ TransferOut(amount)
  /\ UNCHANGED <<books, records, accumulated_fees, unrecovered, undistributed, control>>

WithdrawProtocolFees(amount) ==
  /\ ~paused
  /\ amount > 0 /\ amount <= accumulated_fees
  /\ TransferOut(amount)
  /\ accumulated_fees' = accumulated_fees - amount
  /\ UNCHANGED <<books, records, unrecovered, undistributed, control>>

SetProtocolFeeBpsSlip(new_bps) ==
  /\ protocol_fee_bps' = new_bps
  /\ UNCHANGED <<books, records, funds, paused, emergency>>

SetProtocolFeeBps(new_bps) ==
  /\ new_bps <= BPS_DENOMINATOR
  /\ protocol_fee_bps' = new_bps
  /\ UNCHANGED <<books, records, funds, paused, emergency>>

Pause ==
  /\ paused' = TRUE
  /\ UNCHANGED <<books, records, funds, protocol_fee_bps, emergency>>

UnpauseSlip ==
  /\ paused' = FALSE
  /\ UNCHANGED <<books, records, funds, protocol_fee_bps, emergency>>

Unpause ==
  /\ ~emergency
  /\ paused' = FALSE
  /\ UNCHANGED <<books, records, funds, protocol_fee_bps, emergency>>

ActivateEmergencyPause ==
  /\ emergency' = TRUE /\ paused' = TRUE
  /\ UNCHANGED <<books, records, funds, protocol_fee_bps>>

ResolveEmergency ==
  /\ emergency' = FALSE /\ paused' = FALSE
  /\ UNCHANGED <<books, records, funds, protocol_fee_bps>>

----------------------------------------------------------------------------
(* What the parties of one contract may do, what the admin may do, and     *)
(* what the ledger does by itself.                                         *)

Participate(id) ==
  \/ \E amount \in DepositAmounts : DepositFunds(id, amount)
  \/ \E caller \in Address, indices \in SUBSET Indices(id) :
       indices # {} /\ ApproveMilestones(id, indices, caller)
  \/ \E caller \in Address, i \in Indices(id) : ReleaseMilestone(id, i, caller)
  \/ \E indices \in SUBSET Indices(id) : RefundUnreleasedMilestones(id, indices)
  \/ CancelContract(id)
  \/ \E caller \in Address : RaiseDispute(id, caller)
  \/ \E caller \in Address, r \in Resolutions : ResolveDispute(id, caller, r)
  \/ \E finalizer \in Address : FinalizeContract(id, finalizer)
  \/ IssueReputation(id)
  \/ SimulateIssueReputation(id)

Administer ==
  \/ \E id \in DOMAIN contracts :
       \/ \E i \in Indices(id) : RollbackMilestone(id, i)
       \/ RollbackContract(id)
  \/ \E amount \in 1 .. accumulated_fees : WithdrawProtocolFees(amount)
  \/ \E new_bps \in FeeRates : SetProtocolFeeBps(new_bps)
  \/ Pause \/ Unpause \/ ActivateEmergencyPause \/ ResolveEmergency

Next ==
  \/ \E t \in Terms : CreateContract(t)
  \/ \E id \in DOMAIN contracts : Participate(id)
  \/ \E ids \in SUBSET DOMAIN contracts : \E finalizer \in [ids -> Address] :
       FinalizeContractsBatch(ids, finalizer)
  \/ Administer
  \/ \E id \in DOMAIN contracts : \E i \in Indices(id) : ExpireApprovals(id, i)

Spec == Init /\ [][Next]_vars

----------------------------------------------------------------------------
(* What must hold.                                                         *)

OpenStatus     == {"Created", "PartiallyFunded", "Funded", "Disputed"}
TerminalStatus == {"Completed", "Cancelled", "Refunded"}

ContractType ==
  [client : Address, freelancer : Address, arbiter : Address \cup {NoArbiter},
   release_authorization : ReleaseAuthorization, status : ContractStatus,
   funded_amount : Int, released_amount : Int, refunded_amount : Int,
   reputation_issued : BOOLEAN]

MilestonesType(m) ==
  /\ m = [amounts |-> m.amounts, released |-> m.released, refunded |-> m.refunded,
          protocol_fee |-> m.protocol_fee]
  /\ m.amounts \in Seq(Int)
  /\ m.released \subseteq DOMAIN m.amounts /\ m.refunded \subseteq DOMAIN m.amounts
  /\ m.protocol_fee \in [DOMAIN m.amounts -> Int]

BooksTypeOK ==
  /\ next_contract_id \in 1 .. MAX_CONTRACT_ID
  /\ contracts \in [1 .. next_contract_id - 1 -> ContractType]
  /\ DOMAIN milestones = 1 .. next_contract_id - 1
  /\ milestones = [id \in DOMAIN milestones |-> milestones[id]]
  /\ \A id \in DOMAIN milestones : MilestonesType(milestones[id])

RecordsTypeOK ==
  /\ approvals \subseteq (DOMAIN contracts) \X Nat \X Role
  /\ \A a \in approvals : a[2] \in Indices(a[1])
  /\ disputes \subseteq DOMAIN contracts
  /\ DOMAIN finalization \subseteq DOMAIN contracts
  /\ pending_credits \in [Address -> Int]

FundsTypeOK ==
  custody \in Int /\ accumulated_fees \in Int /\ unrecovered \in Int /\ undistributed \in Int

ControlTypeOK ==
  protocol_fee_bps \in 0 .. BPS_DENOMINATOR /\ paused \in BOOLEAN /\ emergency \in BOOLEAN

(* Every variable has its type, and the contracts stored are those whose   *)
(* ids have been allocated, each with its milestone vector.                *)
TypeOK == BooksTypeOK /\ RecordsTypeOK /\ FundsTypeOK /\ ControlTypeOK

RecordedFees(id) == TotalAmount(milestones[id].protocol_fee)

(* A contract never disposes of more than it was funded with, nor is it    *)
(* funded beyond its milestones, and neither the fee counter nor the       *)
(* custody balance is overdrawn: not by the roll-backs either, which take  *)
(* back what an earlier call added, at the rate of that time.              *)
AccountingBound ==
  /\ accumulated_fees >= 0 /\ custody >= 0
  /\ \A id \in DOMAIN contracts :
       LET c == contracts[id] IN
       /\ c.released_amount + c.refunded_amount <= c.funded_amount
       /\ c.funded_amount <= TotalAmount(milestones[id].amounts)

(* Until it closes, a contract's two counters are exactly what its         *)
(* milestone flags add up to, net of the fee each milestone recorded, and  *)
(* no milestone is both released and refunded.                             *)
BooksMatchMilestones ==
  \A id \in DOMAIN contracts :
    contracts[id].status \in OpenStatus =>
      LET m == milestones[id] IN
      /\ m.released \cap m.refunded = {}
      /\ contracts[id].released_amount =
           AmountOf(m.amounts, m.released) - AmountOf(m.protocol_fee, m.released)
      /\ contracts[id].refunded_amount = AmountOf(m.amounts, m.refunded)

(* The tokens of the escrow address are accounted for to the stroop: they  *)
(* are the protocol's fees and what every contract's books still hold less *)
(* the fees recorded in it, apart from two gaps: what the admin rolled     *)
(* back without a token coming back, and what arbiters awarded without a   *)
(* token going out.  No other call makes tokens and books part.            *)
CustodyEquation ==
  custody + unrecovered =
    accumulated_fees + undistributed
      + TotalAmount([id \in DOMAIN contracts |-> Available(id) - RecordedFees(id)])

(* The deployment never owes more than it holds or has rolled back: fees   *)
(* not yet withdrawn and the balance of every contract still open are      *)
(* covered together, though closing one contract must not use the share of *)
(* another.                                                                *)
Solvency ==
  custody + unrecovered >=
    accumulated_fees
      + TotalAmount([id \in {x \in DOMAIN contracts : contracts[x].status \in OpenStatus} |->
                       Available(id) - RecordedFees(id)])

(* While no roll-back has cost the deployment tokens, the client of a      *)
(* Funded contract can take back, in one call, everything not yet disposed *)
(* of, whatever happened to the other contracts in the same custody: the   *)
(* entrypoint accepts it, and the token transfer cannot fail.              *)
ClientCanExit ==
  \A id \in DOMAIN contracts :
    contracts[id].status = "Funded" /\ ~Finalized(id) /\ NotPaused /\ unrecovered = 0 =>
      CanRefund(id, Unresolved(id))

(* A fully funded contract has kept, to the stroop, the price of every     *)
(* milestone not yet disposed of, whatever the fee rate was changed to     *)
(* between its releases and however often one was rolled back.             *)
FundedCoversMilestones ==
  \A id \in DOMAIN contracts :
    LET c == contracts[id]
        m == milestones[id]
    IN  c.status \in OpenStatus /\ c.funded_amount = TotalAmount(m.amounts) =>
          Available(id) - RecordedFees(id) = AmountOf(m.amounts, Unresolved(id))

(* The status agrees with the books and the flags: nothing happens to a    *)
(* milestone before full funding unless it is disputed, a Funded contract  *)
(* has a milestone left, a contract is Completed, and its freelancer       *)
(* credited, only if the books paid the freelancer something, and          *)
(* Cancelled or Refunded only if they gave the client everything.          *)
StatusMatchesBooks ==
  \A id \in DOMAIN contracts :
    LET c     == contracts[id]
        m     == milestones[id]
        total == TotalAmount(m.amounts)
    IN
    CASE c.status = "Created"         -> c.funded_amount = 0
      [] c.status = "PartiallyFunded" -> /\ c.funded_amount \in 1 .. total - 1
                                         /\ Unresolved(id) = DOMAIN m.amounts
      [] c.status = "Funded"          -> c.funded_amount = total /\ Unresolved(id) # {}
      [] c.status = "Disputed"        -> c.arbiter # NoArbiter /\ Unresolved(id) # {}
      [] c.status = "Completed"       -> c.released_amount > 0
      [] OTHER -> c.released_amount = 0 /\ c.refunded_amount = c.funded_amount

(* A live approval is one the milestone can still use: its milestone is    *)
(* not released, and it was given under a role the contract's mode trusts. *)
(* A release that is rolled back therefore needs fresh approvals.          *)
ApprovalsFresh ==
  \A a \in approvals :
    /\ a[2] \notin milestones[a[1]].released
    /\ a[3] \in AuthorizedRoles(contracts[a[1]].release_authorization)
    /\ contracts[a[1]].status # "Created"

(* A close record is the summary of the contract as it is now, or as it    *)
(* was before its rating: nothing else may happen to a finalized contract, *)
(* and no record tells of a rating that was not given.                     *)
SummaryIsCurrent ==
  \A id \in DOMAIN finalization :
    finalization[id] \in {Summary(id), [Summary(id) EXCEPT !.reputation_issued = FALSE]}

(* A freelancer's credits never exceed the completed contracts that are    *)
(* still to be rated, and never fall below zero, over all the contracts    *)
(* that share the counter.                                                 *)
CreditsBacked ==
  \A a \in Address :
    pending_credits[a] \in 0 .. Cardinality({id \in DOMAIN contracts :
      contracts[id].freelancer = a /\ contracts[id].status = "Completed"
        /\ ~contracts[id].reputation_issued})

(* Every disputed contract has its dispute record, and a record outlives   *)
(* the dispute only when the client's refunds closed the contract.         *)
DisputeRecords ==
  /\ \A id \in DOMAIN contracts : contracts[id].status = "Disputed" => id \in disputes
  /\ \A id \in disputes : contracts[id].status = "Disputed" \/ Unresolved(id) = {}

(* unpause cannot lift an emergency: withdraw_protocol_fees, which looks   *)
(* at Paused alone, is blocked by an emergency too.                        *)
EmergencyImpliesPaused == emergency => paused

(* A closed contract stays closed: its status and books never change       *)
(* again, nor do its milestones, by a roll-back either.  It can be rated,  *)
(* once: the mark that it was is never taken away.                         *)
TerminalIsFinal ==
  [][\A id \in DOMAIN contracts : contracts[id].status \in TerminalStatus =>
       /\ [contracts'[id] EXCEPT !.reputation_issued = contracts[id].reputation_issued]
            = contracts[id]
       /\ contracts[id].reputation_issued => contracts'[id].reputation_issued
       /\ milestones'[id] = milestones[id]]_vars

(* While either switch is on, no entrypoint moves a token, opens or        *)
(* changes a contract, grants or uses a credit, or takes an approval: not  *)
(* in an emergency either, though the withdrawal of fees looks at the      *)
(* other switch alone.                                                     *)
PauseStopsMoney ==
  [][paused \/ emergency =>
       /\ UNCHANGED <<books, funds, disputes, pending_credits>>
       /\ approvals' \subseteq approvals]_vars

(* The contracts of a freelancer that a step completes.                    *)
Completions(a) ==
  {id \in DOMAIN contracts : contracts[id].freelancer = a
     /\ contracts[id].status # "Completed" /\ contracts'[id].status = "Completed"}

(* A credit appears exactly with a completion, at most one a step, and for *)
(* the freelancer of the contract that completed.                          *)
CreditPerCompletion ==
  [][\A a \in Address :
       IF Completions(a) # {} THEN pending_credits'[a] = pending_credits[a] + 1
                              ELSE pending_credits'[a] <= pending_credits[a]]_vars

(* Whatever the calls, contracts live the life EscrowLifecycle describes.  *)
Lifecycle ==
  INSTANCE EscrowLifecycle
    WITH Id <- 1 .. MAX_CONTRACT_ID - 1,
         status <- [id \in DOMAIN contracts |-> contracts[id].status],
         closed <- DOMAIN finalization

ImplementsLifecycle == Lifecycle!Spec
=============================================================================
