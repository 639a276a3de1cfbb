----------------------- MODULE EscrowDeploymentProofs -----------------------
(***************************************************************************)
(* Theorems about Escrow as it is deployed: installed by initialize, which *)
(* starts the ids over.  The ids really allocated are one more than there  *)
(* are contracts; with that number in the place of the stored one every    *)
(* step is one of Escrow, and what is proved of Escrow holds.              *)
(***************************************************************************)
EXTENDS EscrowDeployment, FiniteSetTheorems, TLAPS

Allocated == Cardinality(DOMAIN contracts) + 1

D == INSTANCE EscrowCustodyProofs WITH next_contract_id <- Allocated

(***************************************************************************)
(* The operators of Escrow, with the one number or the other.              *)
(***************************************************************************)

LEMMA SameSums ==
  /\ \A f : D!TotalAmount(f) = TotalAmount(f)
  /\ \A f, S : D!AmountOf(f, S) = AmountOf(f, S)
  /\ \A S : D!Cardinality(S) = Cardinality(S)
  BY DEF TotalAmount, AmountOf, SumFunction, SumFunctionOnSet, FoldFunctionOnSet, MapThenFoldSet,
         Cardinality, D!TotalAmount, D!AmountOf, D!SumFunction, D!SumFunctionOnSet,
         D!FoldFunctionOnSet, D!MapThenFoldSet, D!Cardinality

LEMMA SameTypes ==
  /\ D!Stroops = Stroops /\ D!TermsType = TermsType
  /\ D!BPS_DENOMINATOR = BPS_DENOMINATOR
  BY DEF Stroops, TermsType, ReleaseAuthorization, BPS_DENOMINATOR,
         D!Stroops, D!TermsType, D!ReleaseAuthorization, D!BPS_DENOMINATOR

LEMMA SameHelpers ==
  /\ D!NotPaused = NotPaused
  /\ \A id : D!Exists(id) = Exists(id)
  /\ \A id : D!Finalized(id) = Finalized(id)
  /\ \A id : D!Indices(id) = Indices(id)
  /\ \A id : D!Unresolved(id) = Unresolved(id)
  /\ \A id : D!Available(id) = Available(id)
  /\ \A id : D!Summary(id) = Summary(id)
  /\ \A c, m : D!StatusAfter(c, m) = StatusAfter(c, m)
  /\ \A amount, bps : D!ProtocolFee(amount, bps) = ProtocolFee(amount, bps)
  /\ \A gross, fee : D!NetAmount(gross, fee) = NetAmount(gross, fee)
  /\ \A fee : D!ReversedFee(fee) = ReversedFee(fee)
  /\ \A m, i, fee : D!Released(m, i, fee) = Released(m, i, fee)
  /\ \A m, i : D!RolledBack(m, i) = RolledBack(m, i)
  /\ \A m, indices : D!Refunded(m, indices) = Refunded(m, indices)
  /\ D!RollbackStatus = RollbackStatus /\ D!DisputableStatus = DisputableStatus
  BY SameTypes
  DEF NotPaused, Exists, Finalized, Indices, Unresolved, Available, AvailableBalance, Summary,
      StatusAfter, ProtocolFee, NetAmount, ReversedFee, Released, RolledBack, Refunded,
      RollbackStatus, DisputableStatus,
      D!NotPaused, D!Exists, D!Finalized, D!Indices, D!Unresolved, D!Available,
      D!AvailableBalance, D!Summary, D!StatusAfter, D!ProtocolFee, D!NetAmount, D!ReversedFee,
      D!Released, D!RolledBack, D!Refunded, D!RollbackStatus, D!DisputableStatus

LEMMA SameGuards ==
  /\ \A c, a : D!IsParticipant(c, a) = IsParticipant(c, a)
  /\ \A c, a : D!CallerRole(c, a) = CallerRole(c, a)
  /\ \A c, a : D!MayApprove(c, a) = MayApprove(c, a)
  /\ \A c, a : D!MayRelease(c, a) = MayRelease(c, a)
  /\ \A id, i : D!ApprovedBy(id, i) = ApprovedBy(id, i)
  /\ \A id, i : D!SufficientApprovals(id, i) = SufficientApprovals(id, i)
  BY DEF IsParticipant, CallerRole, MayApprove, MayRelease, ApprovedBy, SufficientApprovals,
         AuthorizedRoles, HoldsRole, Role,
         D!IsParticipant, D!CallerRole, D!MayApprove, D!MayRelease, D!ApprovedBy,
         D!SufficientApprovals, D!AuthorizedRoles, D!HoldsRole, D!Role

LEMMA SameUpdates ==
  /\ \A amount : D!TransferOut(amount) <=> TransferOut(amount)
  /\ \A id, i : D!ClearApprovals(id, i) <=> ClearApprovals(id, i)
  /\ \A c : D!CreditOnCompletion(c) <=> CreditOnCompletion(c)
  /\ \A a : D!ConsumeCredit(a) <=> ConsumeCredit(a)
  /\ \A id : D!CanRate(id) <=> CanRate(id)
  /\ \A id, finalizer : D!Finalizable(id, finalizer) <=> Finalizable(id, finalizer)
  BY SameHelpers, SameGuards
  DEF TransferOut, ClearApprovals, CreditOnCompletion, GrantPendingReputationCredit,
      ConsumeCredit, CanRate, Finalizable,
      D!TransferOut, D!ClearApprovals, D!CreditOnCompletion, D!GrantPendingReputationCredit,
      D!ConsumeCredit, D!CanRate, D!Finalizable

LEMMA SameAwards ==
  /\ \A available, r : D!ResolutionAccepted(available, r) = ResolutionAccepted(available, r)
  /\ \A available, r : D!ClientPayout(available, r) = ClientPayout(available, r)
  /\ \A available, r : D!FreelancerPayout(available, r) = FreelancerPayout(available, r)
  /\ \A c : D!FinalStatusAfterResolution(c) = FinalStatusAfterResolution(c)
  /\ D!Resolutions = Resolutions
  BY SameTypes
  DEF ResolutionAccepted, ValidSplit, ClientPayout, FreelancerPayout,
      PartialRefundFreelancerLeg, FinalStatusAfterResolution, Resolutions, Split,
      FixedResolution, PARTIAL_REFUND_FREELANCER_SHARE, PARTIAL_REFUND_DENOMINATOR,
      D!ResolutionAccepted, D!ValidSplit, D!ClientPayout, D!FreelancerPayout,
      D!PartialRefundFreelancerLeg, D!FinalStatusAfterResolution, D!Resolutions, D!Split,
      D!FixedResolution, D!PARTIAL_REFUND_FREELANCER_SHARE, D!PARTIAL_REFUND_DENOMINATOR

(* The guards of the calls that move money, and what they make of the      *)
(* contract.                                                               *)
LEMMA SameCalls ==
  /\ \A id, amount : D!CanDeposit(id, amount) <=> CanDeposit(id, amount)
  /\ \A id, i, caller : D!CanRelease(id, i, caller) <=> CanRelease(id, i, caller)
  /\ \A id, indices : D!CanRefund(id, indices) <=> CanRefund(id, indices)
  /\ \A id, caller, r : D!CanResolve(id, caller, r) <=> CanResolve(id, caller, r)
  /\ \A c, total, amount : D!Deposited(c, total, amount) = Deposited(c, total, amount)
  /\ \A c, m, net : D!Paid(c, m, net) = Paid(c, m, net)
  /\ \A c, m, total : D!TakenBack(c, m, total) = TakenBack(c, m, total)
<1>1. ASSUME NEW id, NEW amount PROVE D!CanDeposit(id, amount) <=> CanDeposit(id, amount)
  BY SameSums, SameTypes, SameHelpers DEF CanDeposit, D!CanDeposit
<1>2. ASSUME NEW id, NEW i, NEW caller
      PROVE  D!CanRelease(id, i, caller) <=> CanRelease(id, i, caller)
  BY SameTypes, SameHelpers, SameGuards DEF CanRelease, D!CanRelease
<1>3. ASSUME NEW id, NEW indices PROVE D!CanRefund(id, indices) <=> CanRefund(id, indices)
  BY SameSums, SameTypes, SameHelpers DEF CanRefund, D!CanRefund
<1>4. ASSUME NEW id, NEW caller, NEW r
      PROVE  D!CanResolve(id, caller, r) <=> CanResolve(id, caller, r)
  BY SameTypes, SameHelpers, SameAwards DEF CanResolve, D!CanResolve
<1>5. /\ \A c, total, amount : D!Deposited(c, total, amount) = Deposited(c, total, amount)
      /\ \A c, m, net : D!Paid(c, m, net) = Paid(c, m, net)
      /\ \A c, m, total : D!TakenBack(c, m, total) = TakenBack(c, m, total)
  BY SameHelpers DEF Deposited, Paid, TakenBack, D!Deposited, D!Paid, D!TakenBack
<1> QED
  BY <1>1, <1>2, <1>3, <1>4, <1>5

LEMMA SameTuples ==
  /\ D!records = records /\ D!records' = records'
  /\ D!funds = funds /\ D!funds' = funds'
  /\ D!control = control /\ D!control' = control'
  /\ UNCHANGED D!books <=> UNCHANGED <<Allocated, contracts, milestones>>
  BY DEF records, funds, control, D!records, D!funds, D!control, D!books

(***************************************************************************)
(* Each entrypoint of a contract is the same step of the one and of the    *)
(* other, and allocates no id.                                             *)
(***************************************************************************)

IdsKept == UNCHANGED <<next_contract_id, Allocated>>

LEMMA DepositMaps ==
  ASSUME NEW id, NEW amount, DepositFunds(id, amount)
  PROVE  D!DepositFunds(id, amount) /\ IdsKept
<1>1. IdsKept
  BY DEF DepositFunds, IdsKept, Allocated
<1> QED
  BY <1>1, SameSums, SameCalls, SameTuples DEF DepositFunds, D!DepositFunds, IdsKept

LEMMA ApproveMaps ==
  ASSUME NEW id, NEW indices, NEW caller, ApproveMilestones(id, indices, caller)
  PROVE  D!ApproveMilestones(id, indices, caller) /\ IdsKept
<1> DEFINE flags == {<<id, i, CallerRole(contracts[id], caller)>> : i \in indices}
<1>1. IdsKept
  BY DEF ApproveMilestones, books, IdsKept, Allocated
<1>2. flags = {<<id, i, D!CallerRole(contracts[id], caller)>> : i \in indices}
  BY SameGuards
<1> HIDE DEF flags
<1>3. /\ D!NotPaused /\ ~D!Finalized(id) /\ Cardinality(indices) <= MAX_BATCH_APPROVALS
      /\ contracts[id].status \in {"Funded", "PartiallyFunded"}
      /\ indices \subseteq D!Indices(id) \ milestones[id].released
      /\ D!MayApprove(contracts[id], caller)
      /\ flags \cap approvals = {} /\ approvals' = approvals \cup flags
      /\ UNCHANGED <<books, disputes, finalization, pending_credits, funds, control>>
  BY SameHelpers, SameGuards DEF ApproveMilestones, flags
<1> QED
  BY <1>1, <1>2, <1>3, SameSums, SameTuples DEF D!ApproveMilestones, books, IdsKept

LEMMA ExpireMaps ==
  ASSUME NEW id, NEW i, ExpireApprovals(id, i)
  PROVE  D!ExpireApprovals(id, i) /\ IdsKept
<1>1. IdsKept
  BY DEF ExpireApprovals, books, IdsKept, Allocated
<1> QED
  BY <1>1, SameGuards, SameUpdates, SameTuples
  DEF ExpireApprovals, D!ExpireApprovals, books, IdsKept

LEMMA ReleaseMaps ==
  ASSUME NEW id, NEW i, NEW caller, ReleaseMilestone(id, i, caller)
  PROVE  D!ReleaseMilestone(id, i, caller) /\ IdsKept
<1>1. IdsKept
  BY DEF ReleaseMilestone, IdsKept, Allocated
<1> QED
  BY <1>1, SameHelpers, SameUpdates, SameCalls, SameTuples
  DEF ReleaseMilestone, D!ReleaseMilestone, IdsKept

LEMMA RollbackMaps ==
  ASSUME NEW id, NEW i, RollbackMilestone(id, i)
  PROVE  D!RollbackMilestone(id, i) /\ IdsKept
<1> DEFINE c        == contracts[id]
           m        == milestones[id]
           fee      == IF i \in m.released THEN m.protocol_fee[i] ELSE 0
           released == IF i \in m.released THEN NetAmount(m.amounts[i], fee) ELSE 0
           refunded == IF i \in m.refunded THEN m.amounts[i] ELSE 0
           reversed == ReversedFee(fee)
<1>1. IdsKept
  BY DEF RollbackMilestone, IdsKept, Allocated
<1>2. /\ released = (IF i \in m.released THEN D!NetAmount(m.amounts[i], fee) ELSE 0)
      /\ reversed = D!ReversedFee(fee)
  BY SameHelpers
<1> HIDE DEF released, reversed
<1>3. /\ D!NotPaused /\ ~D!Finalized(id) /\ c.status \in D!RollbackStatus
      /\ i \in m.released \cup m.refunded
      /\ contracts' = [contracts EXCEPT ![id] =
           [c EXCEPT !.released_amount = @ - released, !.refunded_amount = @ - refunded]]
      /\ milestones' = [milestones EXCEPT ![id] = D!RolledBack(m, i)]
      /\ accumulated_fees' = accumulated_fees - reversed
      /\ unrecovered' = unrecovered + released + refunded + (fee - reversed)
      /\ IF i \in m.released THEN D!ClearApprovals(id, i) ELSE UNCHANGED approvals
      /\ UNCHANGED <<disputes, finalization, pending_credits, custody, undistributed, control>>
  BY SameHelpers, SameUpdates DEF RollbackMilestone, released, reversed
<1> QED
  BY <1>1, <1>2, <1>3, SameTuples DEF D!RollbackMilestone, IdsKept

LEMMA RefundMaps ==
  ASSUME NEW id, NEW indices, RefundUnreleasedMilestones(id, indices)
  PROVE  D!RefundUnreleasedMilestones(id, indices) /\ IdsKept
<1>1. IdsKept
  BY DEF RefundUnreleasedMilestones, IdsKept, Allocated
<1> QED
  BY <1>1, SameSums, SameHelpers, SameUpdates, SameCalls, SameTuples
  DEF RefundUnreleasedMilestones, D!RefundUnreleasedMilestones, IdsKept

LEMMA CancelMaps ==
  ASSUME NEW id, CancelContract(id)
  PROVE  D!CancelContract(id) /\ IdsKept
<1>1. IdsKept
  BY DEF CancelContract, IdsKept, Allocated
<1> QED
  BY <1>1, SameHelpers, SameUpdates, SameTuples DEF CancelContract, D!CancelContract, IdsKept

LEMMA RaiseMaps ==
  ASSUME NEW id, NEW caller, RaiseDispute(id, caller)
  PROVE  D!RaiseDispute(id, caller) /\ IdsKept
<1>1. IdsKept
  BY DEF RaiseDispute, IdsKept, Allocated
<1> QED
  BY <1>1, SameHelpers, SameTuples
  DEF RaiseDispute, StoreDispute, D!RaiseDispute, D!StoreDispute, IdsKept

LEMMA ResolveMaps ==
  ASSUME NEW id, NEW caller, NEW r, ResolveDispute(id, caller, r)
  PROVE  D!ResolveDispute(id, caller, r) /\ IdsKept
<1>1. IdsKept
  BY DEF ResolveDispute, IdsKept, Allocated
<1> QED
  BY <1>1, SameHelpers, SameUpdates, SameAwards, SameCalls, SameTuples
  DEF ResolveDispute, RemoveDispute, D!ResolveDispute, D!RemoveDispute, IdsKept

LEMMA RateMaps ==
  ASSUME NEW id
  PROVE  /\ IssueReputation(id) => D!IssueReputation(id) /\ IdsKept
         /\ SimulateIssueReputation(id) => D!SimulateIssueReputation(id) /\ IdsKept
<1>1. IssueReputation(id) => IdsKept
  BY DEF IssueReputation, IdsKept, Allocated
<1>2. SimulateIssueReputation(id) => IdsKept
  BY DEF SimulateIssueReputation, books, IdsKept, Allocated
<1> QED
  BY <1>1, <1>2, SameUpdates, SameTuples
  DEF IssueReputation, SimulateIssueReputation, D!IssueReputation, D!SimulateIssueReputation,
      books, IdsKept

LEMMA WriteMaps ==
  ASSUME NEW ids, WriteFinalizations(ids)
  PROVE  D!WriteFinalizations(ids) /\ IdsKept
<1>1. IdsKept
  BY DEF WriteFinalizations, books, IdsKept, Allocated
<1> QED
  BY <1>1, SameHelpers, SameTuples
  DEF WriteFinalizations, D!WriteFinalizations, books, IdsKept

LEMMA FinalizeMaps ==
  ASSUME NEW id, NEW finalizer, FinalizeContract(id, finalizer)
  PROVE  D!FinalizeContract(id, finalizer) /\ IdsKept
  BY WriteMaps, SameHelpers, SameUpdates DEF FinalizeContract, D!FinalizeContract

LEMMA FinalizeBatchMaps ==
  ASSUME NEW ids, NEW finalizer, FinalizeContractsBatch(ids, finalizer)
  PROVE  D!FinalizeContractsBatch(ids, finalizer) /\ IdsKept
<1> DEFINE some == {id \in ids : Finalizable(id, finalizer[id])}
<1>1. some = {id \in ids : D!Finalizable(id, finalizer[id])}
  BY SameUpdates
<1>2. D!WriteFinalizations(some) /\ IdsKept
  BY WriteMaps DEF FinalizeContractsBatch
<1>3. NotPaused /\ Cardinality(ids) \in 1 .. MAX_BATCH_SETTLEMENT
  BY DEF FinalizeContractsBatch
<1> HIDE DEF some
<1>4. D!WriteFinalizations({id \in ids : D!Finalizable(id, finalizer[id])})
  BY <1>1, <1>2, Zenon
<1> QED
  BY <1>2, <1>3, <1>4, SameSums, SameHelpers DEF D!FinalizeContractsBatch

LEMMA RollbackContractMaps ==
  ASSUME NEW id, RollbackContract(id)
  PROVE  D!RollbackContract(id) /\ IdsKept
<1>1. IdsKept
  BY DEF RollbackContract, books, IdsKept, Allocated
<1> QED
  BY <1>1, SameHelpers, SameTuples DEF RollbackContract, D!RollbackContract, books, IdsKept

LEMMA SwitchMaps ==
  /\ Pause => D!Pause /\ IdsKept
  /\ Unpause => D!Unpause /\ IdsKept
  /\ ActivateEmergencyPause => D!ActivateEmergencyPause /\ IdsKept
  /\ ResolveEmergency => D!ResolveEmergency /\ IdsKept
<1>1. UNCHANGED books => IdsKept
  BY DEF books, IdsKept, Allocated
<1> QED
  BY <1>1, SameTuples
  DEF Pause, Unpause, ActivateEmergencyPause, ResolveEmergency, books, IdsKept,
      D!Pause, D!Unpause, D!ActivateEmergencyPause, D!ResolveEmergency

LEMMA FeeMaps ==
  /\ \A amount : WithdrawProtocolFees(amount) => D!WithdrawProtocolFees(amount) /\ IdsKept
  /\ \A bps : SetProtocolFeeBps(bps) => D!SetProtocolFeeBps(bps) /\ IdsKept
<1>1. UNCHANGED books => IdsKept
  BY DEF books, IdsKept, Allocated
<1> QED
  BY <1>1, SameTypes, SameUpdates, SameTuples
  DEF WithdrawProtocolFees, SetProtocolFeeBps, books, IdsKept,
      D!WithdrawProtocolFees, D!SetProtocolFeeBps

LEMMA ParticipateMaps ==
  ASSUME NEW id, Participate(id)
  PROVE  D!Participate(id) /\ IdsKept
<1>1. D!Indices(id) = Indices(id) /\ D!Resolutions = Resolutions
  BY SameHelpers, SameAwards
<1> QED
  BY <1>1, DepositMaps, ApproveMaps, ReleaseMaps, RefundMaps, CancelMaps, RaiseMaps, ResolveMaps,
     FinalizeMaps, RateMaps
  DEF Participate, D!Participate

LEMMA AdministerMaps == Administer => D!Administer /\ IdsKept
<1>1. \A id : D!Indices(id) = Indices(id)
  BY SameHelpers
<1> QED
  BY <1>1, RollbackMaps, RollbackContractMaps, FeeMaps, SwitchMaps DEF Administer, D!Administer

(***************************************************************************)
(* From the installation on.                                               *)
(***************************************************************************)

(* The id the next contract would get is either taken, and create_contract *)
(* refuses, or the next one free.                                          *)
NextIdOK == Exists(next_contract_id) \/ next_contract_id = Allocated

LEMMA AllocatedIds ==
  ASSUME D!TypeOK
  PROVE  /\ IsFiniteSet(DOMAIN contracts) /\ Cardinality(DOMAIN contracts) \in Nat
         /\ DOMAIN contracts = 1 .. Allocated - 1 /\ Allocated \in Nat \ {0}
<1>1. Allocated \in 1 .. MAX_CONTRACT_ID /\ DOMAIN contracts = 1 .. Allocated - 1
  BY DEF D!TypeOK, D!BooksTypeOK
<1>2. Allocated \in Int
  BY <1>1
<1>3. IsFiniteSet(DOMAIN contracts)
  <2>1. PICK n \in Int : n = Allocated - 1
    BY <1>2
  <2> QED
    BY <1>1, <2>1, FS_Interval
<1> QED
  BY <1>1, <1>2, <1>3, FS_CardinalityType

LEMMA CreateMaps ==
  ASSUME D!TypeOK, NextIdOK, NEW t \in Terms, Create(t)
  PROVE  D!CreateContract(t) /\ NextIdOK'
<1> PICK n : n = next_contract_id
  OBVIOUS
<1>1. n = Allocated /\ n \notin DOMAIN contracts
  BY DEF Create, SlotIsFree, Exists, NextIdOK
<1>2. /\ contracts' = With(contracts, n, NewContract(t))
      /\ milestones' = With(milestones, n, NewMilestones(t))
      /\ next_contract_id' = n + 1
  BY DEF Create
<1>3. Allocated' = Allocated + 1
  <2>1. DOMAIN contracts' = DOMAIN contracts \cup {n}
    BY <1>2 DEF With
  <2> QED
    BY <1>1, <2>1, AllocatedIds, FS_AddElement DEF Allocated
<1>4. D!AcceptableTerms(t)
  <2>1. AcceptableTerms(t)
    BY DEF Create
  <2> QED
    BY <2>1, SameSums, SameTypes DEF AcceptableTerms, D!AcceptableTerms
<1>5. D!NewContract(t) = NewContract(t) /\ D!NewMilestones(t) = NewMilestones(t)
  BY DEF NewContract, NewMilestones, D!NewContract, D!NewMilestones
<1>6. \A f, x, v : D!With(f, x, v) = With(f, x, v)
  BY DEF With, D!With
<1>7. D!NotPaused /\ n < MAX_CONTRACT_ID /\ UNCHANGED <<records, funds, control>>
  BY SameHelpers DEF Create
<1>8. D!CreateContract(t)
  BY <1>1, <1>2, <1>3, <1>4, <1>5, <1>6, <1>7, SameHelpers, SameTuples
  DEF D!CreateContract, Exists
<1> QED
  BY <1>1, <1>2, <1>3, <1>8 DEF NextIdOK

LEMMA TransactMaps == Transact => D!Next /\ IdsKept
<1> SUFFICES ASSUME Transact PROVE D!Next /\ IdsKept
  OBVIOUS
<1>1. \A id : D!Indices(id) = Indices(id)
  BY SameHelpers
<1>2. ASSUME NEW id \in DOMAIN contracts, NEW i \in Indices(id), ExpireApprovals(id, i)
      PROVE  D!Next /\ IdsKept
  BY <1>1, <1>2, ExpireMaps DEF D!Next
<1>3. ASSUME NEW id \in DOMAIN contracts, Participate(id) PROVE D!Next /\ IdsKept
  BY <1>3, ParticipateMaps DEF D!Next
<1>4. ASSUME NEW ids \in SUBSET DOMAIN contracts, NEW finalizer \in [ids -> Address],
             FinalizeContractsBatch(ids, finalizer)
      PROVE  D!Next /\ IdsKept
  BY <1>4, FinalizeBatchMaps DEF D!Next
<1>5. ASSUME Administer PROVE D!Next /\ IdsKept
  BY <1>5, AdministerMaps DEF D!Next
<1> QED
  BY <1>2, <1>3, <1>4, <1>5 DEF Transact

(* What the admin sets besides the fee rate is no concern of Escrow's.     *)
LEMMA GovernanceMaps ==
  /\ \A bps \in FeeRates : \A cap : SetGovernedParams(bps, cap) => D!Next /\ IdsKept
  /\ \A token : BindSettlementToken(token) => UNCHANGED vars
  /\ \A limit : SetSettlementLimit(limit) => UNCHANGED vars
  /\ \A limit, value : SetLimit(limit, value) => UNCHANGED vars
<1>1. ASSUME NEW bps \in FeeRates, NEW cap, SetGovernedParams(bps, cap) PROVE D!Next /\ IdsKept
  <2>1. SetProtocolFeeBps(bps)
    BY <1>1 DEF SetGovernedParams, SetProtocolFeeBps
  <2>2. D!SetProtocolFeeBps(bps) /\ IdsKept
    BY <2>1, FeeMaps
  <2> QED
    BY <2>2 DEF D!Next, D!Administer
<1> QED
  BY <1>1 DEF BindSettlementToken, SetSettlementLimit, SetLimit

LEMMA InitializeMaps ==
  ASSUME D!TypeOK, Initialize
  PROVE  UNCHANGED <<Allocated, contracts, milestones, records, funds, control>> /\ NextIdOK'
<1>1. /\ UNCHANGED <<Allocated, contracts, milestones, records, funds, control>>
      /\ next_contract_id' = 1
  BY DEF Initialize, FirstId, INITIAL_CONTRACT_ID, Allocated
<1>2. Allocated = 1 \/ 1 \in DOMAIN contracts
  BY AllocatedIds
<1> QED
  BY <1>1, <1>2 DEF NextIdOK, Exists

LEMMA DeployMaps ==
  ASSUME D!TypeOK, NextIdOK, [DeployNext]_deployVars
  PROVE  [D!Next]_(D!vars) /\ NextIdOK'
<1>1. ASSUME UNCHANGED <<Allocated, contracts, milestones, records, funds, control>>
      PROVE  UNCHANGED D!vars
  BY <1>1, SameTuples DEF D!vars
<1>2. ASSUME [D!Next]_(D!vars), IdsKept PROVE NextIdOK'
  <2>1. D!TypeOK'
    BY <1>2, D!NextTypes, AmountsAssumption, ParticipantsAssumption, LimitsAssumption,
       InputsAssumption, SameTypes
  <2>2. DOMAIN contracts = 1 .. Allocated - 1 /\ DOMAIN contracts' = 1 .. Allocated' - 1
    BY <2>1 DEF D!TypeOK, D!BooksTypeOK
  <2> QED
    BY <1>2, <2>2 DEF NextIdOK, Exists, IdsKept
<1>3. ASSUME UNCHANGED vars PROVE UNCHANGED D!vars /\ IdsKept
  BY <1>1, <1>3 DEF vars, books, IdsKept, Allocated
<1>4. UNCHANGED deployVars => UNCHANGED vars
  BY DEF deployVars
<1> DEFINE Goal == [D!Next]_(D!vars) /\ NextIdOK'
<1>5. ASSUME Initialize PROVE Goal
  BY <1>1, <1>5, InitializeMaps
<1>6. ASSUME NEW t \in Terms, Create(t) PROVE Goal
  BY <1>6, CreateMaps DEF D!Next
<1>7. ASSUME D!Next, IdsKept PROVE Goal
  BY <1>2, <1>7
<1>8. ASSUME UNCHANGED vars PROVE Goal
  BY <1>2, <1>3, <1>8
<1> HIDE DEF Goal
<1>9. Goal
  BY <1>4, <1>5, <1>6, <1>7, <1>8, TransactMaps, GovernanceMaps DEF DeployNext
<1> QED
  BY <1>9 DEF Goal

LEMMA DeployInits == DeployInit => D!Init /\ NextIdOK
<1> SUFFICES ASSUME DeployInit PROVE D!Init /\ NextIdOK
  OBVIOUS
<1>1. Init /\ DOMAIN contracts = {}
  BY DEF DeployInit, Init
<1>2. Allocated = 1 /\ next_contract_id = 1
  BY <1>1, FS_EmptySet DEF Allocated, Init
<1> QED
  BY <1>1, <1>2 DEF Init, D!Init, NextIdOK

(* Installed late, early or never, bound to a token or not, the deployment *)
(* does to contracts and money what Escrow says, with the number of ids    *)
(* really allocated for the one initialize resets.                         *)
THEOREM DeploymentIsEscrow == DeploySpec => D!Spec
<1>1. D!Init => D!TypeOK
  BY D!InitTypes, AmountsAssumption, ParticipantsAssumption, LimitsAssumption, InputsAssumption,
     SameTypes
<1>2. D!TypeOK /\ [D!Next]_(D!vars) => D!TypeOK'
  BY D!NextTypes, AmountsAssumption, ParticipantsAssumption, LimitsAssumption, InputsAssumption,
     SameTypes
<1>3. D!TypeOK /\ NextIdOK /\ [DeployNext]_deployVars => [D!Next]_(D!vars) /\ NextIdOK'
  BY DeployMaps
<1> QED
  BY <1>1, <1>2, <1>3, DeployInits, PTL DEF DeploySpec, D!Spec

LEMMA SameMoney ==
  /\ D!AccountingBound <=> AccountingBound
  /\ D!BooksMatchMilestones <=> BooksMatchMilestones
  /\ D!FundedCoversMilestones <=> FundedCoversMilestones
  /\ D!CustodyEquation <=> CustodyEquation
  /\ D!CreditsBacked <=> CreditsBacked
  /\ D!Solvency <=> Solvency
  /\ D!ClientCanExit <=> ClientCanExit
<1>1. D!OpenStatus = OpenStatus
  BY DEF OpenStatus, D!OpenStatus
<1>2. \A id : D!RecordedFees(id) = RecordedFees(id)
  BY SameSums DEF RecordedFees, D!RecordedFees
<1>3. D!AccountingBound <=> AccountingBound
  BY SameSums DEF AccountingBound, D!AccountingBound
<1>4. D!BooksMatchMilestones <=> BooksMatchMilestones
  BY <1>1, SameSums DEF BooksMatchMilestones, D!BooksMatchMilestones
<1>5. D!FundedCoversMilestones <=> FundedCoversMilestones
  BY <1>1, <1>2, SameSums, SameHelpers DEF FundedCoversMilestones, D!FundedCoversMilestones
<1>6. D!CustodyEquation <=> CustodyEquation
  BY <1>2, SameSums, SameHelpers DEF CustodyEquation, D!CustodyEquation
<1>7. D!CreditsBacked <=> CreditsBacked
  BY SameSums DEF CreditsBacked, D!CreditsBacked
<1>8. D!Solvency <=> Solvency
  BY <1>1, <1>2, SameSums, SameHelpers DEF Solvency, D!Solvency
<1>9. D!ClientCanExit <=> ClientCanExit
  BY SameHelpers, SameGuards, SameCalls DEF ClientCanExit, D!ClientCanExit
<1> QED
  BY <1>3, <1>4, <1>5, <1>6, <1>7, <1>8, <1>9

(* Whenever initialize comes and whatever was created before it, the money *)
(* adds up: no contract and no counter is overdrawn, the counters are the  *)
(* sums of the milestones, every token of the deployment is accounted for  *)
(* and every credit is backed.                                             *)
THEOREM DeployedMoneyAddsUp ==
  DeploySpec => [](/\ AccountingBound /\ BooksMatchMilestones /\ FundedCoversMilestones
                   /\ CustodyEquation /\ CreditsBacked)
<1>1. D!Spec => []D!AccountingBound
  BY D!AccountingHolds, AmountsAssumption, ParticipantsAssumption, LimitsAssumption,
     InputsAssumption, SameTypes
<1>2. D!Spec => []D!BooksMatchMilestones
  BY D!BooksAddUp, AmountsAssumption, ParticipantsAssumption, LimitsAssumption,
     InputsAssumption, SameTypes
<1>3. D!Spec => []D!FundedCoversMilestones
  BY D!FundedIsCovered, AmountsAssumption, ParticipantsAssumption, LimitsAssumption,
     InputsAssumption, SameTypes
<1>4. D!Spec => []D!CustodyEquation
  BY D!CustodyAccounted, AmountsAssumption, ParticipantsAssumption, LimitsAssumption,
     InputsAssumption, SameTypes
<1>5. D!Spec => []D!CreditsBacked
  BY D!CreditsAreBacked, AmountsAssumption, ParticipantsAssumption, LimitsAssumption,
     InputsAssumption, SameTypes
<1> QED
  BY <1>1, <1>2, <1>3, <1>4, <1>5, SameMoney, DeploymentIsEscrow, PTL

(* While no fee rate takes everything, a deployment that is initialized    *)
(* late covers its fees and its open contracts as one initialized first,   *)
(* and no client of a Funded contract is kept from leaving by it.          *)
THEOREM DeployedStaysSolvent ==
  ASSUME BPS_DENOMINATOR \notin FeeRates
  PROVE  DeploySpec => [](Solvency /\ ClientCanExit)
<1>1. D!PartialFees
  BY DEF BPS_DENOMINATOR, D!PartialFees, D!BPS_DENOMINATOR
<1>2. D!Spec => []D!Solvency
  BY <1>1, D!DeploymentIsSolvent, AmountsAssumption, ParticipantsAssumption, LimitsAssumption,
     InputsAssumption, SameTypes
<1>3. D!Spec => []D!ClientCanExit
  BY <1>1, D!ClientExits, AmountsAssumption, ParticipantsAssumption, LimitsAssumption,
     InputsAssumption, SameTypes
<1> QED
  BY <1>2, <1>3, SameMoney, DeploymentIsEscrow, PTL

LEMMA SameLifecycle ==
  /\ D!Lifecycle!Init <=> Lifecycle!Init
  /\ [D!Lifecycle!Next]_(D!Lifecycle!vars) <=> [Lifecycle!Next]_(Lifecycle!vars)
  BY DEF Lifecycle!Init, Lifecycle!Next, Lifecycle!vars, Lifecycle!Open, Lifecycle!Advance,
         Lifecycle!Successors, Lifecycle!Close, Lifecycle!Reopen,
         D!Lifecycle!Init, D!Lifecycle!Next, D!Lifecycle!vars, D!Lifecycle!Open,
         D!Lifecycle!Advance, D!Lifecycle!Successors, D!Lifecycle!Close, D!Lifecycle!Reopen

(* Contracts created before and after the ids started over live the same   *)
(* life, and no id is opened twice.                                        *)
THEOREM DeployedLivesTheLifecycle == DeploySpec => ImplementsLifecycle
<1>1. D!Spec => D!ImplementsLifecycle
  BY D!LivesTheLifecycle, AmountsAssumption, ParticipantsAssumption, LimitsAssumption,
     InputsAssumption, SameTypes
<1>2. D!Lifecycle!Init => Lifecycle!Init
  BY SameLifecycle
<1>3. [D!Lifecycle!Next]_(D!Lifecycle!vars) => [Lifecycle!Next]_(Lifecycle!vars)
  BY SameLifecycle
<1> QED
  BY <1>1, <1>2, <1>3, DeploymentIsEscrow, PTL
  DEF ImplementsLifecycle, Lifecycle!Spec, D!ImplementsLifecycle, D!Lifecycle!Spec

(* Neither initialize nor any setter reopens a contract that was closed or *)
(* grants a credit: what is final in Escrow is final in the deployment.    *)
THEOREM DeployedStaysClosed == DeploySpec => TerminalIsFinal /\ CreditPerCompletion
<1>1. D!Spec => []D!CreditsInv
  BY D!CreditsHold, AmountsAssumption, ParticipantsAssumption, LimitsAssumption,
     InputsAssumption, SameTypes
<1>2. D!CreditsInv /\ [D!Next]_(D!vars) =>
        \A id \in DOMAIN contracts : contracts[id].status \in TerminalStatus =>
          /\ [contracts'[id] EXCEPT !.reputation_issued = contracts[id].reputation_issued]
               = contracts[id]
          /\ contracts[id].reputation_issued => contracts'[id].reputation_issued
          /\ milestones'[id] = milestones[id]
  <2> SUFFICES ASSUME D!CreditsInv, [D!Next]_(D!vars), NEW id \in DOMAIN contracts,
                      contracts[id].status \in TerminalStatus
               PROVE  D!Frozen(id)
    BY DEF D!Frozen
  <2>1. D!TypeOK
    BY DEF D!CreditsInv, D!BooksInv, D!AccountingInv
  <2> QED
    BY <2>1, D!NextFreezes, AmountsAssumption, ParticipantsAssumption, LimitsAssumption,
       InputsAssumption, SameTypes DEF TerminalStatus, D!TerminalStatus
<1>3. D!CreditsInv /\ [D!Next]_(D!vars) =>
        \A a \in Address :
          IF Completions(a) # {} THEN pending_credits'[a] = pending_credits[a] + 1
                                 ELSE pending_credits'[a] <= pending_credits[a]
  <2> SUFFICES ASSUME D!CreditsInv, [D!Next]_(D!vars), NEW a \in Address
               PROVE  D!CreditStep(a)
    BY DEF D!CreditStep, Completions, D!Completions
  <2> QED
    BY D!NextCompletions, AmountsAssumption, ParticipantsAssumption, LimitsAssumption,
       InputsAssumption, SameTypes
<1> QED
  BY <1>1, <1>2, <1>3, DeploymentIsEscrow, PTL DEF D!Spec, TerminalIsFinal, CreditPerCompletion

(***************************************************************************)
(* Ids and the token.                                                      *)
(***************************************************************************)

LEMMA BooksInstalled == D!Spec => []D!BooksInv
  BY D!BooksHold, AmountsAssumption, ParticipantsAssumption, LimitsAssumption, InputsAssumption,
     SameTypes

(* Although initialize makes the ids start over, no contract takes the     *)
(* place of another: its prices stay, what was paid in stays on the books, *)
(* and it does not fall back to Created.                                   *)
THEOREM NothingIsReplaced == DeploySpec => ContractsAreNeverReplaced
<1>1. D!BooksInv /\ [D!Next]_(D!vars) =>
        \A id \in DOMAIN contracts :
          /\ id \in DOMAIN contracts'
          /\ milestones'[id].amounts = milestones[id].amounts
          /\ contracts[id].status # "Created" => contracts'[id].status # "Created"
          /\ contracts[id].funded_amount <= contracts'[id].funded_amount
  <2> SUFFICES ASSUME D!BooksInv, [D!Next]_(D!vars), NEW id \in DOMAIN contracts
               PROVE  /\ id \in DOMAIN contracts'
                      /\ milestones'[id].amounts = milestones[id].amounts
                      /\ contracts[id].status # "Created" => contracts'[id].status # "Created"
                      /\ contracts[id].funded_amount <= contracts'[id].funded_amount
    OBVIOUS
  <2>1. D!AccountingInv
    BY DEF D!BooksInv
  <2>2. D!DealKept(id)
    BY <2>1, D!NextKeepsDeal, AmountsAssumption, ParticipantsAssumption, LimitsAssumption,
       InputsAssumption, SameTypes
  <2> QED
    BY <2>2 DEF D!DealKept, D!Onward
<1> QED
  BY <1>1, BooksInstalled, DeploymentIsEscrow, PTL DEF D!Spec, ContractsAreNeverReplaced

(* The token once bound stays, and before it is no token moves.            *)
LEMMA UnboundStep ==
  ASSUME [DeployNext]_deployVars, settlement_token' = NoToken
  PROVE  settlement_token = NoToken /\ UNCHANGED custody
<1>1. ASSUME Initialize PROVE settlement_token = NoToken /\ UNCHANGED custody
  BY <1>1 DEF Initialize, funds
<1>2. ASSUME NEW token \in Tokens, BindSettlementToken(token) PROVE FALSE
  BY <1>2, DeploymentAssumption DEF BindSettlementToken
<1>3. ASSUME NEW bps, NEW cap, SetGovernedParams(bps, cap)
      PROVE  settlement_token = NoToken /\ UNCHANGED custody
  BY <1>3 DEF SetGovernedParams, funds
<1>4. ASSUME NEW limit, SetSettlementLimit(limit)
      PROVE  settlement_token = NoToken /\ UNCHANGED custody
  BY <1>4 DEF SetSettlementLimit, vars, funds
<1>5. ASSUME NEW limit, NEW value, SetLimit(limit, value)
      PROVE  settlement_token = NoToken /\ UNCHANGED custody
  BY <1>5 DEF SetLimit, vars, funds
<1>6. ASSUME NEW t, Create(t) PROVE settlement_token = NoToken /\ UNCHANGED custody
  BY <1>6 DEF Create, deployment, funds
<1>7. ASSUME Transact PROVE settlement_token = NoToken /\ UNCHANGED custody
  BY <1>7 DEF Transact, TokenIsBound
<1>8. ASSUME UNCHANGED deployVars PROVE settlement_token = NoToken /\ UNCHANGED custody
  BY <1>8 DEF deployVars, deployment, vars, funds
<1> QED
  BY <1>1, <1>2, <1>3, <1>4, <1>5, <1>6, <1>7, <1>8 DEF DeployNext

(* As long as no token is bound nothing was ever paid in: contracts are    *)
(* created and cancelled, and neither custody nor fees hold anything.      *)
THEOREM TokenComesFirst == DeploySpec => []MoneyHasItsToken
<1>1. MoneyHasItsToken <=> (settlement_token = NoToken => D!Unfunded)
  BY DEF MoneyHasItsToken, D!Unfunded
<1>2. DeployInit => MoneyHasItsToken
  BY DEF DeployInit, Init, MoneyHasItsToken
<1>3. ASSUME MoneyHasItsToken, D!BooksInv, [D!Next]_(D!vars), [DeployNext]_deployVars
      PROVE  MoneyHasItsToken'
  <2> SUFFICES ASSUME settlement_token' = NoToken PROVE D!Unfunded'
    BY DEF MoneyHasItsToken, D!Unfunded
  <2>1. D!Unfunded /\ UNCHANGED custody
    BY <1>1, <1>3, UnboundStep
  <2> QED
    BY <1>3, <2>1, D!UnfundedKept, AmountsAssumption, ParticipantsAssumption, LimitsAssumption,
       InputsAssumption, SameTypes
<1> QED
  BY <1>2, <1>3, BooksInstalled, DeploymentIsEscrow, PTL DEF DeploySpec, D!Spec
=============================================================================
