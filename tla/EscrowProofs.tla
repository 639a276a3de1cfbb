---------------------------- MODULE EscrowProofs ----------------------------
(***************************************************************************)
(* Theorems about Escrow, for every value of its constants: any number of  *)
(* contracts and milestones, any amounts, any fee rates.  First the types, *)
(* the accounting bounds and the switches, then the records: disputes,     *)
(* approvals and close records agree with the contracts they belong to.    *)
(***************************************************************************)
EXTENDS Escrow, TLAPS

(***************************************************************************)
(* Typing.                                                                 *)
(***************************************************************************)

(* A fee is between nothing and the whole milestone at every legal rate.   *)
LEMMA FeeWithinAmount ==
  ASSUME NEW amount \in Nat, NEW bps \in 0 .. BPS_DENOMINATOR
  PROVE  ProtocolFee(amount, bps) \in 0 .. amount
<1> DEFINE k == amount * bps
<1>1. k \in Nat
  BY DEF BPS_DENOMINATOR
<1>2. k <= amount * BPS_DENOMINATOR
  BY DEF BPS_DENOMINATOR
<1> HIDE DEF k
<1>3. k \div BPS_DENOMINATOR \in 0 .. amount
  BY <1>1, <1>2 DEF BPS_DENOMINATOR
<1> QED
  BY <1>3 DEF k, ProtocolFee

(* A fee is an integer, whatever the amount.                               *)
LEMMA FeeIsInt ==
  ASSUME NEW amount \in Int, NEW bps \in 0 .. BPS_DENOMINATOR
  PROVE  ProtocolFee(amount, bps) \in Int
  BY DEF ProtocolFee, BPS_DENOMINATOR

LEMMA InitTypes == Init => TypeOK
<1> SUFFICES ASSUME Init PROVE TypeOK
  OBVIOUS
<1>1. 1 .. next_contract_id - 1 = {}
  BY DEF Init
<1>2. DOMAIN contracts = {} /\ DOMAIN milestones = {}
  BY DEF Init
<1>3. BooksTypeOK
  <2>1. next_contract_id \in 1 .. MAX_CONTRACT_ID
    BY LimitsAssumption DEF Init
  <2>2. contracts \in [1 .. next_contract_id - 1 -> ContractType]
    BY <1>1 DEF Init
  <2>3. milestones = [id \in DOMAIN milestones |-> milestones[id]]
    BY <1>2 DEF Init
  <2> QED
    BY <1>1, <1>2, <2>1, <2>2, <2>3 DEF BooksTypeOK
<1>4. RecordsTypeOK
  BY <1>2 DEF Init, RecordsTypeOK
<1>5. FundsTypeOK
  BY DEF Init, FundsTypeOK
<1>6. ControlTypeOK
  <2>1. protocol_fee_bps \in 0 .. BPS_DENOMINATOR
    BY DEF Init, BPS_DENOMINATOR
  <2> QED
    BY <2>1 DEF Init, ControlTypeOK
<1> QED
  BY <1>3, <1>4, <1>5, <1>6 DEF TypeOK

(* What the components of a triple are.                                    *)
LEMMA TripleParts ==
  ASSUME NEW A, NEW B, NEW C, NEW t \in A \X B \X C
  PROVE  t[1] \in A /\ t[2] \in B /\ t[3] \in C
  OBVIOUS

(* Triples over a larger first set.                                        *)
LEMMA TriplesGrow ==
  ASSUME NEW A, NEW B, NEW C, NEW D, A \subseteq D
  PROVE  A \X B \X C \subseteq D \X B \X C
  OBVIOUS

(* A milestone vector keeps its type and its amounts when a milestone is   *)
(* released.                                                               *)
LEMMA ReleasedVector ==
  ASSUME NEW m, MilestonesType(m), NEW i \in DOMAIN m.amounts, NEW f \in Int
  PROVE  /\ MilestonesType(Released(m, i, f))
         /\ Released(m, i, f).amounts = m.amounts
         /\ Released(m, i, f).released = m.released \cup {i}
         /\ Released(m, i, f).refunded = m.refunded
         /\ Released(m, i, f).protocol_fee = [m.protocol_fee EXCEPT ![i] = f]
<1> DEFINE R == m.released \cup {i}
           p == [m.protocol_fee EXCEPT ![i] = f]
<1>1. Released(m, i, f) = [m EXCEPT !.released = R, !.protocol_fee = p]
  BY DEF Released
<1>2. p \in [DOMAIN m.amounts -> Int]
  BY DEF MilestonesType
<1>3. R \subseteq DOMAIN m.amounts /\ m.refunded \subseteq DOMAIN m.amounts
  BY DEF MilestonesType
<1> HIDE DEF R, p
<1>4. Released(m, i, f) =
        [amounts |-> m.amounts, released |-> R, refunded |-> m.refunded, protocol_fee |-> p]
  BY <1>1 DEF MilestonesType
<1>5. MilestonesType([amounts |-> m.amounts, released |-> R, refunded |-> m.refunded,
                      protocol_fee |-> p])
  BY <1>2, <1>3 DEF MilestonesType
<1>6. MilestonesType(Released(m, i, f))
  BY <1>4, <1>5, Zenon
<1>7. /\ Released(m, i, f).amounts = m.amounts /\ Released(m, i, f).released = R
      /\ Released(m, i, f).refunded = m.refunded /\ Released(m, i, f).protocol_fee = p
  BY <1>4
<1> QED
  BY <1>6, <1>7 DEF R, p

(* The same when milestones are refunded.                                  *)
LEMMA RefundedVector ==
  ASSUME NEW m, MilestonesType(m), NEW indices \in SUBSET DOMAIN m.amounts
  PROVE  /\ MilestonesType(Refunded(m, indices))
         /\ Refunded(m, indices).amounts = m.amounts
         /\ Refunded(m, indices).released = m.released
         /\ Refunded(m, indices).refunded = m.refunded \cup indices
         /\ Refunded(m, indices).protocol_fee = m.protocol_fee
<1> DEFINE F == m.refunded \cup indices
<1>1. Refunded(m, indices) = [m EXCEPT !.refunded = F]
  BY DEF Refunded
<1>2. m.protocol_fee \in [DOMAIN m.amounts -> Int]
  BY DEF MilestonesType
<1>3. m.released \subseteq DOMAIN m.amounts /\ F \subseteq DOMAIN m.amounts
  BY DEF MilestonesType
<1> HIDE DEF F
<1>4. Refunded(m, indices) =
        [amounts |-> m.amounts, released |-> m.released, refunded |-> F, protocol_fee |-> m.protocol_fee]
  BY <1>1 DEF MilestonesType
<1>5. MilestonesType([amounts |-> m.amounts, released |-> m.released, refunded |-> F,
                      protocol_fee |-> m.protocol_fee])
  BY <1>2, <1>3 DEF MilestonesType
<1>6. MilestonesType(Refunded(m, indices))
  BY <1>4, <1>5, Zenon
<1>7. /\ Refunded(m, indices).amounts = m.amounts /\ Refunded(m, indices).released = m.released
      /\ Refunded(m, indices).refunded = F /\ Refunded(m, indices).protocol_fee = m.protocol_fee
  BY <1>4
<1> QED
  BY <1>6, <1>7 DEF F

(* The same when a milestone is rolled back, whose fee is forgotten if it  *)
(* was released.                                                           *)
LEMMA RolledBackVector ==
  ASSUME NEW m, MilestonesType(m), NEW i \in DOMAIN m.amounts
  PROVE  /\ MilestonesType(RolledBack(m, i))
         /\ RolledBack(m, i).amounts = m.amounts
         /\ RolledBack(m, i).released = m.released \ {i}
         /\ RolledBack(m, i).refunded = m.refunded \ {i}
         /\ RolledBack(m, i).protocol_fee =
              [m.protocol_fee EXCEPT ![i] = IF i \in m.released THEN 0 ELSE m.protocol_fee[i]]
<1> DEFINE R == m.released \ {i}
           F == m.refunded \ {i}
           p == [m.protocol_fee EXCEPT ![i] = IF i \in m.released THEN 0 ELSE m.protocol_fee[i]]
<1>1. RolledBack(m, i) = [m EXCEPT !.released = R, !.refunded = F, !.protocol_fee = p]
  BY DEF RolledBack
<1>2. p \in [DOMAIN m.amounts -> Int]
  BY DEF MilestonesType
<1>3. R \subseteq DOMAIN m.amounts /\ F \subseteq DOMAIN m.amounts
  BY DEF MilestonesType
<1> HIDE DEF R, F, p
<1>4. RolledBack(m, i) = [amounts |-> m.amounts, released |-> R, refunded |-> F, protocol_fee |-> p]
  BY <1>1 DEF MilestonesType
<1>5. MilestonesType([amounts |-> m.amounts, released |-> R, refunded |-> F, protocol_fee |-> p])
  BY <1>2, <1>3 DEF MilestonesType
<1>6. MilestonesType(RolledBack(m, i))
  BY <1>4, <1>5, Zenon
<1>7. /\ RolledBack(m, i).amounts = m.amounts /\ RolledBack(m, i).released = R
      /\ RolledBack(m, i).refunded = F /\ RolledBack(m, i).protocol_fee = p
  BY <1>4
<1> QED
  BY <1>6, <1>7 DEF R, F, p

(* The books stay typed when one contract and its milestone flags change.  *)
LEMMA BooksUpdated ==
  ASSUME BooksTypeOK, NEW id \in DOMAIN contracts,
         NEW c \in ContractType, contracts' = [contracts EXCEPT ![id] = c],
         NEW m, MilestonesType(m), milestones' = [milestones EXCEPT ![id] = m],
         UNCHANGED next_contract_id
  PROVE  BooksTypeOK'
  BY DEF BooksTypeOK

(* An approval, a dispute or a close record refers to a contract that stays *)
(* and to a milestone vector whose length never changes.                   *)
LEMMA RecordsKept ==
  ASSUME BooksTypeOK, RecordsTypeOK, BooksTypeOK', next_contract_id <= next_contract_id',
         \A id \in DOMAIN contracts : milestones'[id].amounts = milestones[id].amounts,
         approvals' \subseteq approvals,
         disputes' \subseteq DOMAIN contracts, 
         DOMAIN finalization' \subseteq DOMAIN contracts,
         pending_credits' \in [Address -> Int]
  PROVE  RecordsTypeOK'
<1>1. DOMAIN contracts \subseteq DOMAIN contracts'
  BY DEF BooksTypeOK
<1>2. approvals' \subseteq (DOMAIN contracts') \X Nat \X Role
  <2>1. (DOMAIN contracts) \X Nat \X Role \subseteq (DOMAIN contracts') \X Nat \X Role
    BY <1>1, TriplesGrow
  <2> QED
    BY <2>1 DEF RecordsTypeOK
<1>3. ASSUME NEW a \in approvals'
      PROVE  a[2] \in Indices(a[1])'
  <2>1. a \in (DOMAIN contracts) \X Nat \X Role /\ a[2] \in Indices(a[1])
    BY DEF RecordsTypeOK
  <2>2. a[1] \in DOMAIN contracts
    BY <2>1, TripleParts
  <2> QED
    BY <2>1, <2>2 DEF Indices
<1> QED
  BY <1>1, <1>2, <1>3 DEF RecordsTypeOK

(* The same when the milestones do not change.                             *)
LEMMA ContractUpdated ==
  ASSUME BooksTypeOK, NEW id \in DOMAIN contracts,
         NEW c \in ContractType, contracts' = [contracts EXCEPT ![id] = c],
         UNCHANGED <<next_contract_id, milestones>>
  PROVE  BooksTypeOK'
  BY DEF BooksTypeOK

(* A credit gained keeps the counters typed.                               *)
LEMMA CreditTypes ==
  ASSUME RecordsTypeOK, NEW c, CreditOnCompletion(c)
  PROVE  pending_credits' \in [Address -> Int]
  BY DEF RecordsTypeOK, CreditOnCompletion, GrantPendingReputationCredit

(* So does a credit spent.                                                 *)
LEMMA ConsumeCreditTypes ==
  ASSUME RecordsTypeOK, NEW freelancer \in Address, ConsumeCredit(freelancer)
  PROVE  pending_credits' \in [Address -> Int]
<1>1. pending_credits[freelancer] - 1 \in Int
  BY DEF RecordsTypeOK
<1> QED
  BY <1>1 DEF RecordsTypeOK, ConsumeCredit

LEMMA CreateContractTypes ==
  ASSUME TypeOK, NEW t \in Terms, CreateContract(t)
  PROVE  TypeOK'
<1> USE DEF TypeOK
<1> DEFINE n == next_contract_id
<1>1. t \in TermsType
  BY InputsAssumption
<1>2. NewContract(t) \in ContractType
  BY <1>1 DEF TermsType, ContractType, ContractStatus, NewContract
<1>3. MilestonesType(NewMilestones(t))
  BY <1>1 DEF TermsType, MilestonesType, NewMilestones
<1>4. /\ n \in 1 .. MAX_CONTRACT_ID - 1 /\ next_contract_id' = n + 1
      /\ contracts' = With(contracts, n, NewContract(t))
      /\ milestones' = With(milestones, n, NewMilestones(t))
      /\ DOMAIN contracts = 1 .. n - 1 /\ DOMAIN milestones = 1 .. n - 1
  BY LimitsAssumption DEF CreateContract, BooksTypeOK
<1>5. (1 .. n - 1) \cup {n} = 1 .. (n + 1) - 1
  BY <1>4
<1>6. BooksTypeOK'
  <2>1. contracts' \in [1 .. (n + 1) - 1 -> ContractType]
    BY <1>2, <1>4, <1>5 DEF With, BooksTypeOK
  <2>2. DOMAIN milestones' = 1 .. (n + 1) - 1
    BY <1>4, <1>5 DEF With
  <2>3. \A id \in DOMAIN milestones' : MilestonesType(milestones'[id])
    BY <1>3, <1>4 DEF With, BooksTypeOK
  <2>4. milestones' = [id \in DOMAIN milestones' |-> milestones'[id]]
    BY <1>4 DEF With
  <2> QED
    BY <1>4, <2>1, <2>2, <2>3, <2>4, LimitsAssumption DEF BooksTypeOK
<1>7. RecordsTypeOK'
  <2>1. \A id \in DOMAIN contracts : milestones'[id].amounts = milestones[id].amounts
    BY <1>4 DEF With
  <2>2. UNCHANGED records
    BY DEF CreateContract
  <2> QED
    BY <1>4, <1>6, <2>1, <2>2, RecordsKept DEF records, RecordsTypeOK
<1> QED
  BY <1>6, <1>7 DEF CreateContract, funds, control, FundsTypeOK, ControlTypeOK

LEMMA DepositFundsTypes ==
  ASSUME TypeOK, NEW id \in DOMAIN contracts, NEW amount \in DepositAmounts,
         DepositFunds(id, amount)
  PROVE  TypeOK'
<1> USE DEF TypeOK
<1> DEFINE funded == contracts[id].funded_amount + amount
<1> DEFINE status == IF funded = TotalAmount(milestones[id].amounts) THEN "Funded"
                                                                     ELSE "PartiallyFunded"
<1> DEFINE c2 == [contracts[id] EXCEPT !.funded_amount = funded, !.status = status]
<1>1. amount \in Int
  BY InputsAssumption
<1>2. contracts[id] \in ContractType
  BY DEF BooksTypeOK
<1>3. c2 \in ContractType
  <2>1. funded \in Int /\ status \in ContractStatus
    BY <1>1, <1>2 DEF ContractType, ContractStatus
  <2> HIDE DEF funded, status
  <2> QED
    BY <1>2, <2>1 DEF ContractType
<1>4. contracts' = [contracts EXCEPT ![id] = c2] /\ UNCHANGED <<next_contract_id, milestones>>
  BY DEF DepositFunds, CanDeposit, Deposited
<1> HIDE DEF c2
<1>5. BooksTypeOK'
  BY <1>3, <1>4, ContractUpdated
<1>6. RecordsTypeOK'
  BY <1>4, <1>5, RecordsKept DEF DepositFunds, records, RecordsTypeOK, BooksTypeOK
<1> QED
  BY <1>1, <1>5, <1>6 DEF DepositFunds, control, FundsTypeOK, ControlTypeOK

LEMMA ApproveMilestonesTypes ==
  ASSUME TypeOK, NEW id \in DOMAIN contracts, NEW caller \in Address,
         NEW indices \in SUBSET Indices(id), ApproveMilestones(id, indices, caller)
  PROVE  TypeOK'
<1> USE DEF TypeOK
<1> DEFINE role == CallerRole(contracts[id], caller)
<1>1. role \in Role
  BY DEF CallerRole, Role
<1>2. Indices(id) \subseteq Nat
  BY DEF BooksTypeOK, MilestonesType, Indices
<1>3. UNCHANGED <<books, disputes, finalization, pending_credits, funds, control>>
  BY DEF ApproveMilestones
<1>4. BooksTypeOK' /\ FundsTypeOK' /\ ControlTypeOK'
  BY <1>3 DEF books, funds, control, BooksTypeOK, FundsTypeOK, ControlTypeOK
<1>5. approvals' = approvals \cup {<<id, i, role>> : i \in indices}
  BY DEF ApproveMilestones
<1>6. \A a \in approvals' : a \in (DOMAIN contracts) \X Nat \X Role /\ a[2] \in Indices(a[1])
  <2> HIDE DEF role
  <2>1. ASSUME NEW i \in indices
        PROVE  /\ <<id, i, role>> \in (DOMAIN contracts) \X Nat \X Role
               /\ <<id, i, role>>[2] \in Indices(<<id, i, role>>[1])
    BY <1>1, <1>2
  <2> QED
    BY <1>5, <2>1 DEF RecordsTypeOK
<1>7. UNCHANGED <<contracts, milestones>>
  BY <1>3 DEF books
<1>8. RecordsTypeOK'
  BY <1>3, <1>6, <1>7 DEF RecordsTypeOK, Indices
<1> QED
  BY <1>4, <1>8

LEMMA ExpireApprovalsTypes ==
  ASSUME TypeOK, NEW id \in DOMAIN contracts, NEW i \in Indices(id), ExpireApprovals(id, i)
  PROVE  TypeOK'
<1> USE DEF TypeOK
<1>1. UNCHANGED <<books, disputes, finalization, pending_credits, funds, control>>
  BY DEF ExpireApprovals
<1>2. BooksTypeOK' /\ FundsTypeOK' /\ ControlTypeOK'
  BY <1>1 DEF books, funds, control, BooksTypeOK, FundsTypeOK, ControlTypeOK
<1>3. approvals' \subseteq approvals
  BY DEF ExpireApprovals, ClearApprovals
<1>4. RecordsTypeOK'
  BY <1>1, <1>2, <1>3, RecordsKept DEF books, RecordsTypeOK, BooksTypeOK
<1> QED
  BY <1>2, <1>4

LEMMA ReleaseMilestoneTypes ==
  ASSUME TypeOK, NEW id \in DOMAIN contracts, NEW i \in Indices(id), NEW caller \in Address,
         ReleaseMilestone(id, i, caller)
  PROVE  TypeOK'
<1> USE DEF TypeOK
<1> DEFINE c      == contracts[id]
           gross  == milestones[id].amounts[i]
           fee    == ProtocolFee(gross, protocol_fee_bps)
           net    == NetAmount(gross, fee)
           m2     == Released(milestones[id], i, fee)
           status == StatusAfter(c, m2)
           paid   == c.released_amount + net
           c2     == [c EXCEPT !.released_amount = paid, !.status = status]
<1>1. c \in ContractType /\ MilestonesType(milestones[id]) /\ i \in DOMAIN milestones[id].amounts
  BY DEF BooksTypeOK, Indices
<1>2. gross \in Int /\ fee \in Int /\ net \in Int
  <2>1. gross \in Int
    BY <1>1 DEF MilestonesType
  <2>2. fee \in Int
    BY <2>1, FeeIsInt DEF ControlTypeOK
  <2> QED
    BY <2>1, <2>2 DEF NetAmount
<1>3. /\ contracts' = [contracts EXCEPT ![id] = c2] /\ milestones' = [milestones EXCEPT ![id] = m2]
      /\ accumulated_fees' = accumulated_fees + fee /\ custody' = custody - net
      /\ ClearApprovals(id, i) /\ CreditOnCompletion(c2)
      /\ UNCHANGED <<next_contract_id, disputes, finalization, unrecovered, undistributed, control>>
  BY DEF ReleaseMilestone, CanRelease, Paid, TransferOut
<1>4. MilestonesType(m2) /\ m2.amounts = milestones[id].amounts
  <2> HIDE DEF fee
  <2>1. MilestonesType(m2)
    BY <1>1, <1>2, ReleasedVector
  <2>2. m2.amounts = milestones[id].amounts
    <3> DEFINE m == milestones[id]
    <3> HIDE DEF m
    <3>1. MilestonesType(m) /\ i \in DOMAIN m.amounts
      BY <1>1 DEF m
    <3>2. Released(m, i, fee).amounts = m.amounts
      BY <3>1, <1>2, ReleasedVector
    <3> QED
      BY <3>2 DEF m
  <2> QED
    BY <2>1, <2>2
<1> HIDE DEF fee, net
<1> HIDE DEF m2
<1>5. status \in ContractStatus
  BY <1>1 DEF StatusAfter, ContractStatus, ContractType
<1> HIDE DEF status
<1>6. c2 \in ContractType
  <2>1. paid \in Int
    BY <1>1, <1>2 DEF ContractType
  <2> HIDE DEF paid
  <2> QED
    BY <1>1, <1>5, <2>1 DEF ContractType
<1> HIDE DEF c2
<1>7. BooksTypeOK'
  BY <1>3, <1>4, <1>6, BooksUpdated
<1>8. approvals' \subseteq approvals
  BY <1>3 DEF ClearApprovals
<1>9. RecordsTypeOK'
  <2>1. pending_credits' \in [Address -> Int]
    BY <1>3, CreditTypes
  <2>2. \A x \in DOMAIN contracts : milestones'[x].amounts = milestones[x].amounts
    BY <1>3, <1>4 DEF BooksTypeOK
  <2>3. next_contract_id <= next_contract_id'
    BY <1>3 DEF BooksTypeOK
  <2> QED
    BY <1>3, <1>7, <1>8, <2>1, <2>2, <2>3, RecordsKept DEF RecordsTypeOK
<1>10. FundsTypeOK'
  BY <1>2, <1>3 DEF FundsTypeOK
<1> QED
  BY <1>3, <1>7, <1>9, <1>10 DEF control, ControlTypeOK

LEMMA RollbackMilestoneTypes ==
  ASSUME TypeOK, NEW id \in DOMAIN contracts, NEW i \in Indices(id), RollbackMilestone(id, i)
  PROVE  TypeOK'
<1> USE DEF TypeOK
<1> DEFINE c        == contracts[id]
           m        == milestones[id]
           fee      == IF i \in m.released THEN m.protocol_fee[i] ELSE 0
           released == IF i \in m.released THEN NetAmount(m.amounts[i], fee) ELSE 0
           refunded == IF i \in m.refunded THEN m.amounts[i] ELSE 0
           reversed == ReversedFee(fee)
           paid     == c.released_amount - released
           returned == c.refunded_amount - refunded
           c2       == [c EXCEPT !.released_amount = paid, !.refunded_amount = returned]
<1>1. c \in ContractType /\ MilestonesType(m) /\ i \in DOMAIN m.amounts
  BY DEF BooksTypeOK, Indices
<1>2. fee \in Int /\ released \in Int /\ refunded \in Int /\ reversed \in Int
  BY <1>1 DEF MilestonesType, NetAmount, ReversedFee
<1>3. /\ contracts' = [contracts EXCEPT ![id] = c2]
      /\ milestones' = [milestones EXCEPT ![id] = RolledBack(m, i)]
      /\ accumulated_fees' = accumulated_fees - reversed
      /\ unrecovered' = unrecovered + released + refunded + (fee - reversed)
      /\ IF i \in m.released THEN ClearApprovals(id, i) ELSE UNCHANGED approvals
      /\ UNCHANGED <<next_contract_id, disputes, finalization, pending_credits, custody,
                     undistributed, control>>
  BY DEF RollbackMilestone
<1>4. MilestonesType(RolledBack(m, i)) /\ RolledBack(m, i).amounts = m.amounts
  BY <1>1, RolledBackVector
<1> HIDE DEF fee, released, refunded, reversed
<1>5. c2 \in ContractType
  <2>1. paid \in Int /\ returned \in Int
    BY <1>1, <1>2 DEF ContractType
  <2> HIDE DEF paid, returned
  <2> QED
    BY <1>1, <2>1 DEF ContractType
<1> HIDE DEF c2
<1>6. BooksTypeOK'
  BY <1>3, <1>4, <1>5, BooksUpdated
<1>7. approvals' \subseteq approvals
  BY <1>3 DEF ClearApprovals
<1>8. RecordsTypeOK'
  BY <1>3, <1>4, <1>6, <1>7, RecordsKept DEF RecordsTypeOK, BooksTypeOK
<1>9. FundsTypeOK'
  BY <1>2, <1>3 DEF FundsTypeOK
<1> QED
  BY <1>3, <1>6, <1>8, <1>9 DEF control, ControlTypeOK

LEMMA RefundUnreleasedMilestonesTypes ==
  ASSUME TypeOK, NEW id \in DOMAIN contracts, NEW indices \in SUBSET Indices(id),
         RefundUnreleasedMilestones(id, indices)
  PROVE  TypeOK'
<1> USE DEF TypeOK
<1> DEFINE c        == contracts[id]
           m        == milestones[id]
           total    == AmountOf(m.amounts, indices)
           m2       == Refunded(m, indices)
           status   == StatusAfter(c, m2)
           returned == c.refunded_amount + total
           c2       == [c EXCEPT !.refunded_amount = returned, !.status = status]
<1>1. c \in ContractType /\ MilestonesType(m) /\ indices \in SUBSET DOMAIN m.amounts
  BY DEF BooksTypeOK, Indices
<1>2. /\ contracts' = [contracts EXCEPT ![id] = c2] /\ milestones' = [milestones EXCEPT ![id] = m2]
      /\ total \in Stroops /\ custody' = custody - total /\ CreditOnCompletion(c2)
      /\ UNCHANGED <<next_contract_id, approvals, disputes, finalization, accumulated_fees,
                     unrecovered, undistributed, control>>
  BY DEF RefundUnreleasedMilestones, CanRefund, TakenBack, TransferOut
<1>3. total \in Int
  BY <1>2, AmountsAssumption DEF Stroops
<1>4. MilestonesType(m2) /\ m2.amounts = m.amounts
  <2> HIDE DEF m
  <2> QED
    BY <1>1, RefundedVector
<1> HIDE DEF m2, total
<1>5. status \in ContractStatus
  BY <1>1 DEF StatusAfter, ContractStatus, ContractType
<1> HIDE DEF status
<1>6. c2 \in ContractType
  <2>1. returned \in Int
    BY <1>1, <1>3 DEF ContractType
  <2> HIDE DEF returned
  <2> QED
    BY <1>1, <1>5, <2>1 DEF ContractType
<1> HIDE DEF c2
<1>7. BooksTypeOK'
  BY <1>2, <1>4, <1>6, BooksUpdated
<1>8. RecordsTypeOK'
  <2>1. pending_credits' \in [Address -> Int]
    BY <1>2, CreditTypes
  <2>2. \A x \in DOMAIN contracts : milestones'[x].amounts = milestones[x].amounts
    BY <1>2, <1>4 DEF BooksTypeOK
  <2>3. next_contract_id <= next_contract_id'
    BY <1>2 DEF BooksTypeOK
  <2> QED
    BY <1>2, <1>7, <2>1, <2>2, <2>3, RecordsKept DEF RecordsTypeOK
<1>9. FundsTypeOK'
  BY <1>2, <1>3 DEF FundsTypeOK
<1> QED
  BY <1>2, <1>7, <1>8, <1>9 DEF control, ControlTypeOK

LEMMA CancelContractTypes ==
  ASSUME TypeOK, NEW id \in DOMAIN contracts, CancelContract(id)
  PROVE  TypeOK'
<1> USE DEF TypeOK
<1> DEFINE c        == contracts[id]
           returned == c.refunded_amount + Available(id)
           c2       == [c EXCEPT !.refunded_amount = returned, !.status = "Cancelled"]
<1>1. c \in ContractType
  BY DEF BooksTypeOK
<1>2. Available(id) \in Int /\ returned \in Int
  BY <1>1 DEF ContractType, Available, AvailableBalance
<1>3. /\ contracts' = [contracts EXCEPT ![id] = c2] /\ custody' = custody - Available(id)
      /\ UNCHANGED <<next_contract_id, milestones, records, accumulated_fees, unrecovered,
                     undistributed, control>>
  BY DEF CancelContract, TransferOut
<1> HIDE DEF returned
<1>4. c2 \in ContractType
  BY <1>1, <1>2 DEF ContractType, ContractStatus
<1> HIDE DEF c2
<1>5. BooksTypeOK'
  BY <1>3, <1>4, ContractUpdated
<1>6. RecordsTypeOK'
  BY <1>3, <1>5, RecordsKept DEF records, RecordsTypeOK, BooksTypeOK
<1>7. FundsTypeOK'
  BY <1>2, <1>3 DEF FundsTypeOK
<1> QED
  BY <1>3, <1>5, <1>6, <1>7 DEF control, ControlTypeOK

LEMMA RaiseDisputeTypes ==
  ASSUME TypeOK, NEW id \in DOMAIN contracts, NEW caller \in Address, RaiseDispute(id, caller)
  PROVE  TypeOK'
<1> USE DEF TypeOK
<1> DEFINE c2 == [contracts[id] EXCEPT !.status = "Disputed"]
<1>1. contracts[id] \in ContractType
  BY DEF BooksTypeOK
<1>2. c2 \in ContractType
  BY <1>1 DEF ContractType, ContractStatus
<1>3. /\ contracts' = [contracts EXCEPT ![id] = c2] /\ disputes' = disputes \cup {id}
      /\ UNCHANGED <<next_contract_id, milestones, approvals, finalization, pending_credits,
                     funds, control>>
  BY DEF RaiseDispute, StoreDispute
<1> HIDE DEF c2
<1>4. BooksTypeOK'
  BY <1>2, <1>3, ContractUpdated
<1>5. RecordsTypeOK'
  BY <1>3, <1>4, RecordsKept DEF RecordsTypeOK, BooksTypeOK
<1> QED
  BY <1>3, <1>4, <1>5 DEF funds, control, FundsTypeOK, ControlTypeOK

(* What a decision pays out is an integer on either side.                  *)
LEMMA PayoutsAreInt ==
  ASSUME NEW available \in Int, NEW r \in Resolutions
  PROVE  FreelancerPayout(available, r) \in Int /\ ClientPayout(available, r) \in Int
<1>1. r.kind \in {"FullRefund", "PartialRefund", "FullPayout", "Split"}
      /\ r.client \in Int /\ r.freelancer \in Int
  <2>1. CASE \E kind \in {"FullRefund", "PartialRefund", "FullPayout"} : r = FixedResolution(kind)
    BY <2>1 DEF FixedResolution
  <2>2. CASE \E x \in SplitLegs, y \in SplitLegs : r = Split(x, y)
    BY <2>2, InputsAssumption DEF Split
  <2> QED
    BY <2>1, <2>2 DEF Resolutions
<1>2. PartialRefundFreelancerLeg(available) \in Int
  BY DEF PartialRefundFreelancerLeg, PARTIAL_REFUND_FREELANCER_SHARE, PARTIAL_REFUND_DENOMINATOR
<1>3. FreelancerPayout(available, r) \in Int
  BY <1>1, <1>2 DEF FreelancerPayout
<1> QED
  BY <1>1, <1>3 DEF ClientPayout

LEMMA ResolveDisputeTypes ==
  ASSUME TypeOK, NEW id \in DOMAIN contracts, NEW caller \in Address, NEW r \in Resolutions,
         ResolveDispute(id, caller, r)
  PROVE  TypeOK'
<1> USE DEF TypeOK
<1> DEFINE c        == contracts[id]
           returned == c.refunded_amount + ClientPayout(Available(id), r)
           paid     == c.released_amount + FreelancerPayout(Available(id), r)
           c1       == [c EXCEPT !.refunded_amount = returned, !.released_amount = paid]
           status   == FinalStatusAfterResolution(c1)
           c2       == [c1 EXCEPT !.status = status]
<1>1. c \in ContractType
  BY DEF BooksTypeOK
<1>2. Available(id) \in Int
  BY <1>1 DEF ContractType, Available, AvailableBalance
<1>3. returned \in Int /\ paid \in Int
  BY <1>1, <1>2, PayoutsAreInt DEF ContractType
<1>4. /\ contracts' = [contracts EXCEPT ![id] = c2] /\ CreditOnCompletion(c2)
      /\ disputes' = disputes \ {id} /\ undistributed' = undistributed + Available(id)
      /\ UNCHANGED <<next_contract_id, milestones, approvals, finalization, custody,
                     accumulated_fees, unrecovered, control>>
  BY DEF ResolveDispute, RemoveDispute
<1> HIDE DEF returned, paid
<1>5. c1 \in ContractType
  BY <1>1, <1>3 DEF ContractType
<1> HIDE DEF c1
<1>6. status \in ContractStatus
  BY DEF FinalStatusAfterResolution, ContractStatus
<1> HIDE DEF status
<1>7. c2 \in ContractType
  BY <1>5, <1>6 DEF ContractType
<1> HIDE DEF c2
<1>8. BooksTypeOK'
  BY <1>4, <1>7, ContractUpdated
<1>9. RecordsTypeOK'
  <2>1. pending_credits' \in [Address -> Int]
    BY <1>4, CreditTypes
  <2>2. next_contract_id <= next_contract_id'
    BY <1>4 DEF BooksTypeOK
  <2> QED
    BY <1>4, <1>8, <2>1, <2>2, RecordsKept DEF RecordsTypeOK
<1>10. FundsTypeOK'
  BY <1>2, <1>4 DEF FundsTypeOK
<1> QED
  BY <1>4, <1>8, <1>9, <1>10 DEF control, ControlTypeOK

(* Writing or removing close records.                                      *)
LEMMA FinalizationTypes ==
  ASSUME TypeOK, DOMAIN finalization' \subseteq DOMAIN contracts,
         UNCHANGED <<books, approvals, disputes, pending_credits, funds, control>>
  PROVE  TypeOK'
<1>1. BooksTypeOK' /\ FundsTypeOK' /\ ControlTypeOK'
  BY DEF TypeOK, books, funds, control, BooksTypeOK, FundsTypeOK, ControlTypeOK
<1>2. RecordsTypeOK'
  BY <1>1, RecordsKept DEF TypeOK, books, RecordsTypeOK, BooksTypeOK
<1> QED
  BY <1>1, <1>2 DEF TypeOK

LEMMA FinalizeContractTypes ==
  ASSUME TypeOK, NEW id \in DOMAIN contracts, NEW finalizer \in Address,
         FinalizeContract(id, finalizer)
  PROVE  TypeOK'
<1>1. DOMAIN finalization' \subseteq DOMAIN contracts
  BY DEF FinalizeContract, WriteFinalizations, TypeOK, RecordsTypeOK
<1> QED
  BY <1>1, FinalizationTypes DEF FinalizeContract, WriteFinalizations

LEMMA FinalizeContractsBatchTypes ==
  ASSUME TypeOK, NEW ids \in SUBSET DOMAIN contracts, NEW finalizer,
         FinalizeContractsBatch(ids, finalizer)
  PROVE  TypeOK'
<1>1. DOMAIN finalization' \subseteq DOMAIN contracts
  BY DEF FinalizeContractsBatch, WriteFinalizations, TypeOK, RecordsTypeOK
<1> QED
  BY <1>1, FinalizationTypes DEF FinalizeContractsBatch, WriteFinalizations

LEMMA RollbackContractTypes ==
  ASSUME TypeOK, NEW id \in DOMAIN contracts, RollbackContract(id)
  PROVE  TypeOK'
<1>1. DOMAIN finalization' \subseteq DOMAIN contracts
  BY DEF RollbackContract, TypeOK, RecordsTypeOK
<1> QED
  BY <1>1, FinalizationTypes DEF RollbackContract

LEMMA IssueReputationTypes ==
  ASSUME TypeOK, NEW id \in DOMAIN contracts, IssueReputation(id)
  PROVE  TypeOK'
<1> USE DEF TypeOK
<1> DEFINE c2 == [contracts[id] EXCEPT !.reputation_issued = TRUE]
<1>1. contracts[id] \in ContractType
  BY DEF BooksTypeOK
<1>2. c2 \in ContractType
  BY <1>1 DEF ContractType
<1>3. /\ contracts' = [contracts EXCEPT ![id] = c2]
      /\ ConsumeCredit(contracts[id].freelancer)
      /\ UNCHANGED <<next_contract_id, milestones, approvals, disputes, finalization, funds, control>>
  BY DEF IssueReputation
<1> HIDE DEF c2
<1>4. BooksTypeOK'
  BY <1>2, <1>3, ContractUpdated
<1>5. pending_credits' \in [Address -> Int]
  BY <1>1, <1>3, ConsumeCreditTypes DEF ContractType
<1>6. RecordsTypeOK'
  BY <1>3, <1>4, <1>5, RecordsKept DEF RecordsTypeOK, BooksTypeOK
<1> QED
  BY <1>3, <1>4, <1>6 DEF funds, control, FundsTypeOK, ControlTypeOK

LEMMA SimulateIssueReputationTypes ==
  ASSUME TypeOK, NEW id \in DOMAIN contracts, SimulateIssueReputation(id)
  PROVE  TypeOK'
<1>1. UNCHANGED <<books, approvals, disputes, finalization, funds, control>>
  BY DEF SimulateIssueReputation
<1>2. BooksTypeOK' /\ FundsTypeOK' /\ ControlTypeOK'
  BY <1>1 DEF TypeOK, books, funds, control, BooksTypeOK, FundsTypeOK, ControlTypeOK
<1>3. pending_credits' \in [Address -> Int]
  <2>1. contracts[id].freelancer \in Address
    BY DEF TypeOK, BooksTypeOK, ContractType
  <2> QED
    BY <2>1, ConsumeCreditTypes DEF SimulateIssueReputation, TypeOK
<1>4. RecordsTypeOK'
  BY <1>1, <1>2, <1>3, RecordsKept DEF TypeOK, books, RecordsTypeOK, BooksTypeOK
<1> QED
  BY <1>2, <1>4 DEF TypeOK

(* A step of the admin that leaves contracts and their records alone.      *)
LEMMA AdministerTypes ==
  ASSUME TypeOK, UNCHANGED <<books, records>>, FundsTypeOK', ControlTypeOK'
  PROVE  TypeOK'
<1>1. BooksTypeOK'
  BY DEF TypeOK, books, BooksTypeOK
<1>2. RecordsTypeOK'
  BY DEF TypeOK, books, records, RecordsTypeOK, Indices
<1> QED
  BY <1>1, <1>2 DEF TypeOK

LEMMA WithdrawProtocolFeesTypes ==
  ASSUME TypeOK, NEW amount \in 1 .. accumulated_fees, WithdrawProtocolFees(amount)
  PROVE  TypeOK'
<1>1. FundsTypeOK'
  BY DEF WithdrawProtocolFees, TransferOut, TypeOK, FundsTypeOK
<1>2. ControlTypeOK'
  BY DEF WithdrawProtocolFees, TypeOK, control, ControlTypeOK
<1> QED
  BY <1>1, <1>2, AdministerTypes DEF WithdrawProtocolFees

LEMMA SetProtocolFeeBpsTypes ==
  ASSUME TypeOK, NEW new_bps \in FeeRates, SetProtocolFeeBps(new_bps)
  PROVE  TypeOK'
<1>1. FundsTypeOK'
  BY DEF SetProtocolFeeBps, TypeOK, funds, FundsTypeOK
<1>2. protocol_fee_bps' \in 0 .. BPS_DENOMINATOR
  BY InputsAssumption DEF SetProtocolFeeBps, BPS_DENOMINATOR
<1>3. ControlTypeOK'
  BY <1>2 DEF SetProtocolFeeBps, TypeOK, ControlTypeOK
<1> QED
  BY <1>1, <1>3, AdministerTypes DEF SetProtocolFeeBps

LEMMA SwitchTypes ==
  ASSUME TypeOK, Pause \/ Unpause \/ ActivateEmergencyPause \/ ResolveEmergency
  PROVE  TypeOK'
<1>1. /\ UNCHANGED <<books, records, funds, protocol_fee_bps>>
      /\ paused' \in BOOLEAN /\ emergency' \in BOOLEAN
  BY DEF Pause, Unpause, ActivateEmergencyPause, ResolveEmergency, TypeOK, ControlTypeOK
<1>2. FundsTypeOK' /\ ControlTypeOK'
  BY <1>1 DEF funds, TypeOK, FundsTypeOK, ControlTypeOK
<1> QED
  BY <1>1, <1>2, AdministerTypes

LEMMA NextTypes == TypeOK /\ [Next]_vars => TypeOK'
<1> SUFFICES ASSUME TypeOK, [Next]_vars PROVE TypeOK'
  OBVIOUS
<1>1. ASSUME NEW t \in Terms, CreateContract(t) PROVE TypeOK'
  BY <1>1, CreateContractTypes
<1>2. ASSUME NEW id \in DOMAIN contracts, Participate(id) PROVE TypeOK'
  <2>1. ASSUME NEW amount \in DepositAmounts, DepositFunds(id, amount) PROVE TypeOK'
    BY <2>1, DepositFundsTypes
  <2>2. ASSUME NEW caller \in Address, NEW indices \in SUBSET Indices(id),
               ApproveMilestones(id, indices, caller)
        PROVE  TypeOK'
    BY <2>2, ApproveMilestonesTypes
  <2>3. ASSUME NEW caller \in Address, NEW i \in Indices(id), ReleaseMilestone(id, i, caller)
        PROVE  TypeOK'
    BY <2>3, ReleaseMilestoneTypes
  <2>4. ASSUME NEW indices \in SUBSET Indices(id), RefundUnreleasedMilestones(id, indices)
        PROVE  TypeOK'
    BY <2>4, RefundUnreleasedMilestonesTypes
  <2>5. CASE CancelContract(id)
    BY <2>5, CancelContractTypes
  <2>6. ASSUME NEW caller \in Address, RaiseDispute(id, caller) PROVE TypeOK'
    BY <2>6, RaiseDisputeTypes
  <2>7. ASSUME NEW caller \in Address, NEW r \in Resolutions, ResolveDispute(id, caller, r)
        PROVE  TypeOK'
    BY <2>7, ResolveDisputeTypes
  <2>8. ASSUME NEW finalizer \in Address, FinalizeContract(id, finalizer) PROVE TypeOK'
    BY <2>8, FinalizeContractTypes
  <2>9. CASE IssueReputation(id)
    BY <2>9, IssueReputationTypes
  <2>10. CASE SimulateIssueReputation(id)
    BY <2>10, SimulateIssueReputationTypes
  <2> QED
    BY <1>2, <2>1, <2>2, <2>3, <2>4, <2>5, <2>6, <2>7, <2>8, <2>9, <2>10 DEF Participate
<1>3. ASSUME NEW ids \in SUBSET DOMAIN contracts, NEW finalizer \in [ids -> Address],
             FinalizeContractsBatch(ids, finalizer)
      PROVE  TypeOK'
  BY <1>3, FinalizeContractsBatchTypes
<1>4. ASSUME Administer PROVE TypeOK'
  <2>1. ASSUME NEW id \in DOMAIN contracts, NEW i \in Indices(id), RollbackMilestone(id, i)
        PROVE  TypeOK'
    BY <2>1, RollbackMilestoneTypes
  <2>2. ASSUME NEW id \in DOMAIN contracts, RollbackContract(id) PROVE TypeOK'
    BY <2>2, RollbackContractTypes
  <2>3. ASSUME NEW amount \in 1 .. accumulated_fees, WithdrawProtocolFees(amount)
        PROVE  TypeOK'
    BY <2>3, WithdrawProtocolFeesTypes
  <2>4. ASSUME NEW new_bps \in FeeRates, SetProtocolFeeBps(new_bps) PROVE TypeOK'
    BY <2>4, SetProtocolFeeBpsTypes
  <2>5. CASE Pause \/ Unpause \/ ActivateEmergencyPause \/ ResolveEmergency
    BY <2>5, SwitchTypes
  <2> QED
    BY <1>4, <2>1, <2>2, <2>3, <2>4, <2>5 DEF Administer
<1>5. ASSUME NEW id \in DOMAIN contracts, NEW i \in Indices(id), ExpireApprovals(id, i)
      PROVE  TypeOK'
  BY <1>5, ExpireApprovalsTypes
<1>6. CASE UNCHANGED vars
  BY <1>6 DEF vars, books, records, funds, control, TypeOK, BooksTypeOK, RecordsTypeOK,
              FundsTypeOK, ControlTypeOK, Indices
<1> QED
  BY <1>1, <1>2, <1>3, <1>4, <1>5, <1>6 DEF Next

(* Every variable has its type in every reachable state: the partial       *)
(* functions of storage have exactly the keys that were allocated, and an  *)
(* approval, dispute or close record never outlives or precedes its        *)
(* contract.                                                               *)
THEOREM TypeCorrect == Spec => []TypeOK
<1> QED
  BY InitTypes, NextTypes, PTL DEF Spec

(***************************************************************************)
(* The pause switches.                                                     *)
(***************************************************************************)

(* Only the four switch entrypoints touch the two switches.                *)
LEMMA SwitchesKept ==
  ASSUME [Next]_vars, ~(Pause \/ Unpause \/ ActivateEmergencyPause \/ ResolveEmergency)
  PROVE  UNCHANGED <<paused, emergency>>
<1>1. ASSUME NEW t \in Terms, CreateContract(t) PROVE UNCHANGED control
  BY <1>1 DEF CreateContract
<1>2. ASSUME NEW id \in DOMAIN contracts, Participate(id) PROVE UNCHANGED control
  BY <1>2 DEF Participate, DepositFunds, ApproveMilestones, ReleaseMilestone,
     RefundUnreleasedMilestones, CancelContract, RaiseDispute, ResolveDispute, FinalizeContract,
     WriteFinalizations, IssueReputation, SimulateIssueReputation
<1>3. ASSUME NEW ids, NEW finalizer, FinalizeContractsBatch(ids, finalizer)
      PROVE  UNCHANGED control
  BY <1>3 DEF FinalizeContractsBatch, WriteFinalizations
<1>4. ASSUME NEW id, NEW i, RollbackMilestone(id, i) \/ RollbackContract(id)
             \/ ExpireApprovals(id, i)
      PROVE  UNCHANGED control
  BY <1>4 DEF RollbackMilestone, RollbackContract, ExpireApprovals
<1>5. ASSUME NEW amount, WithdrawProtocolFees(amount) PROVE UNCHANGED control
  BY <1>5 DEF WithdrawProtocolFees
<1>6. ASSUME NEW new_bps, SetProtocolFeeBps(new_bps) PROVE UNCHANGED <<paused, emergency>>
  BY <1>6 DEF SetProtocolFeeBps
<1>7. CASE UNCHANGED vars
  BY <1>7 DEF vars, control
<1> QED
  BY <1>1, <1>2, <1>3, <1>4, <1>5, <1>6, <1>7 DEF Next, Administer, control

LEMMA NextSwitches == EmergencyImpliesPaused /\ [Next]_vars => EmergencyImpliesPaused'
<1> SUFFICES ASSUME EmergencyImpliesPaused, [Next]_vars PROVE EmergencyImpliesPaused'
  OBVIOUS
<1>1. CASE Pause
  BY <1>1 DEF Pause, EmergencyImpliesPaused
<1>2. CASE Unpause
  BY <1>2 DEF Unpause, EmergencyImpliesPaused
<1>3. CASE ActivateEmergencyPause
  BY <1>3 DEF ActivateEmergencyPause, EmergencyImpliesPaused
<1>4. CASE ResolveEmergency
  BY <1>4 DEF ResolveEmergency, EmergencyImpliesPaused
<1>5. CASE UNCHANGED <<paused, emergency>>
  BY <1>5 DEF EmergencyImpliesPaused
<1> QED
  BY <1>1, <1>2, <1>3, <1>4, <1>5, SwitchesKept

(* An emergency always has the ordinary pause switch on as well, so the    *)
(* one money entrypoint that looks only at that switch is stopped too.     *)
THEOREM EmergencyPauses == Spec => []EmergencyImpliesPaused
<1>1. Init => EmergencyImpliesPaused
  BY DEF Init, EmergencyImpliesPaused
<1> QED
  BY <1>1, NextSwitches, PTL DEF Spec

LEMMA PausedStep ==
  ASSUME paused \/ emergency, EmergencyImpliesPaused, [Next]_vars
  PROVE  /\ UNCHANGED <<books, funds, disputes, pending_credits>>
         /\ approvals' \subseteq approvals
<1> DEFINE Still == /\ UNCHANGED <<books, funds, disputes, pending_credits>>
                    /\ approvals' \subseteq approvals
<1>0. paused
  BY DEF EmergencyImpliesPaused
<1>1. ASSUME NEW t \in Terms PROVE ~CreateContract(t)
  BY <1>0 DEF CreateContract, NotPaused
<1>2. ASSUME NEW id PROVE ~Participate(id)
  BY <1>0 DEF NotPaused, Participate, DepositFunds, CanDeposit, ApproveMilestones, ReleaseMilestone,
         CanRelease, RefundUnreleasedMilestones, CanRefund, CancelContract, RaiseDispute,
         ResolveDispute, CanResolve, FinalizeContract, IssueReputation,
         SimulateIssueReputation, CanRate
<1>3. ASSUME NEW ids, NEW finalizer PROVE ~FinalizeContractsBatch(ids, finalizer)
  BY <1>0 DEF FinalizeContractsBatch, NotPaused
<1>4. ASSUME NEW id, NEW i, ExpireApprovals(id, i) PROVE Still
  BY <1>4 DEF ExpireApprovals, ClearApprovals
<1>5. ASSUME NEW id, NEW i PROVE ~RollbackMilestone(id, i)
  BY <1>0 DEF RollbackMilestone, NotPaused
<1>6. ASSUME NEW id, RollbackContract(id) PROVE Still
  BY <1>6 DEF RollbackContract
<1>7. ASSUME NEW amount PROVE ~WithdrawProtocolFees(amount)
  BY <1>0 DEF WithdrawProtocolFees
<1>8. ASSUME NEW new_bps, SetProtocolFeeBps(new_bps) PROVE Still
  BY <1>8 DEF SetProtocolFeeBps, records
<1>9. ASSUME Pause \/ Unpause \/ ActivateEmergencyPause \/ ResolveEmergency PROVE Still
  BY <1>9 DEF Pause, Unpause, ActivateEmergencyPause, ResolveEmergency, records
<1>10. ASSUME UNCHANGED vars PROVE Still
  BY <1>10 DEF vars, records
<1> HIDE DEF Still
<1>11. Still
  BY <1>1, <1>2, <1>3, <1>4, <1>5, <1>6, <1>7, <1>8, <1>9, <1>10 DEF Next, Administer
<1> QED
  BY <1>11 DEF Still

(* While the contract is paused or in an emergency nothing that is worth   *)
(* money moves: no entrypoint changes books, funds, dispute records or     *)
(* credits, and approvals can only run out.  The emergency alone would not *)
(* stop a withdrawal; no order of the four calls leaves it on alone.       *)
THEOREM PausedMeansStill == Spec => PauseStopsMoney
<1>1. EmergencyImpliesPaused /\ [Next]_vars =>
        [paused \/ emergency =>
           /\ UNCHANGED <<books, funds, disputes, pending_credits>>
           /\ approvals' \subseteq approvals]_vars
  BY PausedStep
<1> QED
  BY <1>1, EmergencyPauses, PTL DEF Spec, PauseStopsMoney

(***************************************************************************)
(* The accounting bound.  It is not inductive by itself: a roll-back       *)
(* subtracts the price of a milestone less the fee recorded with it, which *)
(* raises the counters if the fee exceeds the price.  FeesRecorded rules   *)
(* that out; it holds because the fee is computed at a rate of at most     *)
(* 100% and is kept with the milestone.                                    *)
(***************************************************************************)

VectorOK(m) == \A i \in DOMAIN m.amounts : m.amounts[i] > 0 /\ m.protocol_fee[i] \in 0 .. m.amounts[i]

ContractOK(c, m) ==
  /\ c.released_amount + c.refunded_amount <= c.funded_amount
  /\ c.funded_amount <= TotalAmount(m.amounts)

FeesRecorded == \A id \in DOMAIN contracts : VectorOK(milestones[id])

AccountingInv == TypeOK /\ FeesRecorded /\ AccountingBound

(* The invariant survives a step that changes one contract within bounds.  *)
LEMMA ContractStep ==
  ASSUME AccountingInv, NEW id \in DOMAIN contracts,
         NEW c, contracts' = [contracts EXCEPT ![id] = c],
         NEW m, milestones' = [milestones EXCEPT ![id] = m],
         VectorOK(m), ContractOK(c, m), accumulated_fees' >= 0, custody' >= 0
  PROVE  FeesRecorded' /\ AccountingBound'
<1>1. DOMAIN contracts' = DOMAIN contracts /\ DOMAIN milestones = DOMAIN contracts
  BY DEF AccountingInv, TypeOK, BooksTypeOK
<1>2. ASSUME NEW x \in DOMAIN contracts PROVE VectorOK(milestones'[x]) /\ ContractOK(contracts'[x], milestones'[x])
  <2>1. CASE x = id
    BY <1>1, <2>1
  <2>2. CASE x # id
    <3>1. contracts'[x] = contracts[x] /\ milestones'[x] = milestones[x]
      BY <1>1, <2>2
    <3> QED
      BY <3>1 DEF AccountingInv, FeesRecorded, AccountingBound, ContractOK
  <2> QED
    BY <2>1, <2>2
<1> QED
  BY <1>1, <1>2 DEF FeesRecorded, AccountingBound, ContractOK

(* And one that changes neither milestones nor the counters of contracts.  *)
LEMMA CountersKept ==
  ASSUME AccountingInv, DOMAIN contracts' = DOMAIN contracts, UNCHANGED milestones,
         \A id \in DOMAIN contracts :
           /\ contracts'[id].released_amount = contracts[id].released_amount
           /\ contracts'[id].refunded_amount = contracts[id].refunded_amount
           /\ contracts'[id].funded_amount = contracts[id].funded_amount,
         accumulated_fees' >= 0, custody' >= 0
  PROVE  FeesRecorded' /\ AccountingBound'
  BY DEF AccountingInv, FeesRecorded, AccountingBound

LEMMA CreateContractAccounting ==
  ASSUME AccountingInv, NEW t \in Terms, CreateContract(t)
  PROVE  FeesRecorded' /\ AccountingBound'
<1> DEFINE n == next_contract_id
           c == NewContract(t)
           m == NewMilestones(t)
<1>1. /\ contracts' = With(contracts, n, c) /\ milestones' = With(milestones, n, m)
      /\ UNCHANGED <<accumulated_fees, custody>>
      /\ DOMAIN milestones = DOMAIN contracts /\ n \notin DOMAIN contracts
  BY DEF CreateContract, funds, AccountingInv, TypeOK, BooksTypeOK, Exists
<1>2. VectorOK(m)
  <2>1. t \in TermsType /\ AcceptableTerms(t)
    BY InputsAssumption DEF CreateContract
  <2> QED
    BY <2>1 DEF AcceptableTerms, TermsType, VectorOK, NewMilestones
<1>3. ContractOK(c, m)
  <2>1. TotalAmount(t.amounts) \in Nat
    BY AmountsAssumption DEF CreateContract, AcceptableTerms, Stroops
  <2> QED
    BY <2>1 DEF ContractOK, NewContract, NewMilestones
<1> HIDE DEF c, m
<1>4. ASSUME NEW x \in DOMAIN contracts'
      PROVE  VectorOK(milestones'[x]) /\ ContractOK(contracts'[x], milestones'[x])
  <2>1. CASE x = n
    BY <1>1, <1>2, <1>3, <2>1 DEF With
  <2>2. CASE x # n
    <3>1. /\ x \in DOMAIN contracts
          /\ contracts'[x] = contracts[x] /\ milestones'[x] = milestones[x]
      BY <1>1, <1>4, <2>2 DEF With
    <3> QED
      BY <3>1 DEF AccountingInv, FeesRecorded, AccountingBound, ContractOK
  <2> QED
    BY <2>1, <2>2
<1> QED
  BY <1>1, <1>4 DEF AccountingInv, FeesRecorded, AccountingBound, ContractOK

LEMMA DepositFundsAccounting ==
  ASSUME AccountingInv, NEW id \in DOMAIN contracts, NEW amount \in DepositAmounts,
         DepositFunds(id, amount)
  PROVE  FeesRecorded' /\ AccountingBound'
<1> DEFINE m      == milestones[id]
           funded == contracts[id].funded_amount + amount
           status == IF funded = TotalAmount(m.amounts) THEN "Funded" ELSE "PartiallyFunded"
           c2     == [contracts[id] EXCEPT !.funded_amount = funded, !.status = status]
<1>1. amount \in Int /\ contracts[id] \in ContractType /\ custody \in Int
  BY InputsAssumption DEF AccountingInv, TypeOK, BooksTypeOK, FundsTypeOK
<1>2. /\ amount > 0 /\ funded <= TotalAmount(m.amounts) /\ custody' = custody + amount
      /\ contracts' = [contracts EXCEPT ![id] = c2] /\ UNCHANGED <<milestones, accumulated_fees>>
  BY DEF DepositFunds, CanDeposit, Deposited
<1>3. ContractOK(c2, m)
  <2>1. /\ c2.released_amount = contracts[id].released_amount
        /\ c2.refunded_amount = contracts[id].refunded_amount /\ c2.funded_amount = funded
    <3> HIDE DEF funded, status
    <3> QED
      BY <1>1 DEF ContractType
  <2>2. contracts[id].released_amount + contracts[id].refunded_amount <= contracts[id].funded_amount
    BY DEF AccountingInv, AccountingBound
  <2>3. contracts[id].released_amount + contracts[id].refunded_amount <= funded
    BY <1>1, <1>2, <2>2 DEF ContractType
  <2> QED
    BY <1>2, <2>1, <2>3 DEF ContractOK
<1>4. VectorOK(m)
  BY DEF AccountingInv, FeesRecorded
<1>5. milestones' = [milestones EXCEPT ![id] = m]
  BY <1>2 DEF AccountingInv, TypeOK, BooksTypeOK
<1>6. accumulated_fees' >= 0 /\ custody' >= 0
  BY <1>1, <1>2 DEF AccountingInv, AccountingBound
<1> HIDE DEF c2, m
<1> QED
  BY <1>2, <1>3, <1>4, <1>5, <1>6, ContractStep

(* The code's own check after a release leaves room for all fees; here it  *)
(* is only needed for the two counters of the contract.                    *)
LEMMA ReleaseMilestoneAccounting ==
  ASSUME AccountingInv, NEW id \in DOMAIN contracts, NEW i \in Indices(id),
         NEW caller \in Address, ReleaseMilestone(id, i, caller)
  PROVE  FeesRecorded' /\ AccountingBound'
<1> DEFINE c      == contracts[id]
           m      == milestones[id]
           gross  == m.amounts[i]
           fee    == ProtocolFee(gross, protocol_fee_bps)
           net    == NetAmount(gross, fee)
           m2     == Released(m, i, fee)
           status == StatusAfter(c, m2)
           paid   == c.released_amount + net
           c2     == [c EXCEPT !.released_amount = paid, !.status = status]
<1>1. /\ c \in ContractType /\ MilestonesType(m) /\ i \in DOMAIN m.amounts /\ VectorOK(m)
      /\ c.funded_amount <= TotalAmount(m.amounts)
      /\ custody \in Int /\ accumulated_fees \in Int /\ accumulated_fees >= 0
      /\ protocol_fee_bps \in 0 .. BPS_DENOMINATOR
  BY DEF AccountingInv, TypeOK, BooksTypeOK, FundsTypeOK, ControlTypeOK, Indices, FeesRecorded,
         AccountingBound
<1>2. gross \in Nat
  BY <1>1 DEF VectorOK, MilestonesType
<1>3. fee \in 0 .. gross
  BY <1>1, <1>2, FeeWithinAmount
<1>4. /\ contracts' = [contracts EXCEPT ![id] = c2] /\ milestones' = [milestones EXCEPT ![id] = m2]
      /\ accumulated_fees' = accumulated_fees + fee
      /\ custody >= net /\ custody' = custody - net
      /\ c2.released_amount + c.refunded_amount + accumulated_fees + fee <= c.funded_amount
  BY DEF ReleaseMilestone, CanRelease, Paid, TransferOut
<1> HIDE DEF fee
<1>5. net \in Int /\ paid \in Int
  BY <1>1, <1>2, <1>3 DEF NetAmount, ContractType
<1> HIDE DEF net
<1>6. VectorOK(m2) /\ m2.amounts = m.amounts
  <2>1. fee \in Int
    BY <1>2, <1>3
  <2> HIDE DEF m
  <2>2. /\ m2.amounts = m.amounts /\ m2.protocol_fee = [m.protocol_fee EXCEPT ![i] = fee]
    BY <1>1, <2>1, ReleasedVector
  <2> HIDE DEF m2
  <2> QED
    BY <1>1, <1>3, <2>2 DEF VectorOK, MilestonesType
<1> HIDE DEF m2, status, m
<1>7. /\ c2.released_amount = paid /\ c2.refunded_amount = c.refunded_amount
      /\ c2.funded_amount = c.funded_amount
  <2> HIDE DEF paid
  <2> QED
    BY <1>1 DEF ContractType
<1>8. paid + c.refunded_amount + accumulated_fees + fee <= c.funded_amount
  BY <1>4, <1>7
<1> HIDE DEF paid
<1>9. ContractOK(c2, m2)
  <2>1. paid + c.refunded_amount <= c.funded_amount
    BY <1>1, <1>2, <1>3, <1>5, <1>8 DEF ContractType
  <2> QED
    BY <1>1, <1>6, <1>7, <2>1 DEF ContractOK
<1>10. accumulated_fees' >= 0 /\ custody' >= 0
  BY <1>1, <1>2, <1>3, <1>4, <1>5
<1> HIDE DEF c2
<1> QED
  BY <1>4, <1>6, <1>9, <1>10, ContractStep

LEMMA RollbackMilestoneAccounting ==
  ASSUME AccountingInv, NEW id \in DOMAIN contracts, NEW i \in Indices(id),
         RollbackMilestone(id, i)
  PROVE  FeesRecorded' /\ AccountingBound'
<1> DEFINE c        == contracts[id]
           m        == milestones[id]
           fee      == IF i \in m.released THEN m.protocol_fee[i] ELSE 0
           released == IF i \in m.released THEN NetAmount(m.amounts[i], fee) ELSE 0
           refunded == IF i \in m.refunded THEN m.amounts[i] ELSE 0
           paid     == c.released_amount - released
           returned == c.refunded_amount - refunded
           c2       == [c EXCEPT !.released_amount = paid, !.refunded_amount = returned]
           m2       == RolledBack(m, i)
<1>1. /\ c \in ContractType /\ MilestonesType(m) /\ i \in DOMAIN m.amounts
      /\ VectorOK(m) /\ ContractOK(c, m)
      /\ custody \in Int /\ accumulated_fees \in Int /\ accumulated_fees >= 0 /\ custody >= 0
  BY DEF AccountingInv, TypeOK, BooksTypeOK, FundsTypeOK, Indices, FeesRecorded,
         AccountingBound, ContractOK
<1>2. fee \in Nat /\ released \in Nat /\ refunded \in Nat
  BY <1>1 DEF VectorOK, MilestonesType, NetAmount
<1>3. /\ contracts' = [contracts EXCEPT ![id] = c2] /\ milestones' = [milestones EXCEPT ![id] = m2]
      /\ accumulated_fees' = accumulated_fees - ReversedFee(fee) /\ UNCHANGED custody
  BY DEF RollbackMilestone
<1> HIDE DEF fee, released, refunded
<1>4. VectorOK(m2) /\ m2.amounts = m.amounts
  <2> HIDE DEF m
  <2>1. /\ m2.amounts = m.amounts
        /\ m2.protocol_fee =
             [m.protocol_fee EXCEPT ![i] = IF i \in m.released THEN 0 ELSE m.protocol_fee[i]]
    BY <1>1, RolledBackVector
  <2> HIDE DEF m2
  <2> QED
    BY <1>1, <2>1 DEF VectorOK, MilestonesType
<1> HIDE DEF m2
<1>5. paid \in Int /\ returned \in Int /\ paid + returned <= c.funded_amount
  BY <1>1, <1>2 DEF ContractOK, ContractType
<1> HIDE DEF paid, returned
<1>6. /\ c2.released_amount = paid /\ c2.refunded_amount = returned
      /\ c2.funded_amount = c.funded_amount
  BY <1>1 DEF ContractType
<1>7. ContractOK(c2, m2)
  BY <1>1, <1>4, <1>5, <1>6 DEF ContractOK
<1>8. accumulated_fees' >= 0 /\ custody' >= 0
  BY <1>1, <1>2, <1>3 DEF ReversedFee
<1> HIDE DEF c2
<1> QED
  BY <1>3, <1>4, <1>7, <1>8, ContractStep

LEMMA RefundUnreleasedMilestonesAccounting ==
  ASSUME AccountingInv, NEW id \in DOMAIN contracts, NEW indices \in SUBSET Indices(id),
         RefundUnreleasedMilestones(id, indices)
  PROVE  FeesRecorded' /\ AccountingBound'
<1> DEFINE c        == contracts[id]
           m        == milestones[id]
           total    == AmountOf(m.amounts, indices)
           m2       == Refunded(m, indices)
           status   == StatusAfter(c, m2)
           returned == c.refunded_amount + total
           c2       == [c EXCEPT !.refunded_amount = returned, !.status = status]
<1>1. /\ c \in ContractType /\ MilestonesType(m) /\ indices \in SUBSET DOMAIN m.amounts
      /\ VectorOK(m) /\ ContractOK(c, m)
      /\ custody \in Int /\ accumulated_fees >= 0
  BY DEF AccountingInv, TypeOK, BooksTypeOK, FundsTypeOK, Indices, FeesRecorded,
         AccountingBound, ContractOK
<1>2. /\ contracts' = [contracts EXCEPT ![id] = c2] /\ milestones' = [milestones EXCEPT ![id] = m2]
      /\ total \in Stroops /\ total <= Available(id)
      /\ custody >= total /\ custody' = custody - total /\ UNCHANGED accumulated_fees
  BY DEF RefundUnreleasedMilestones, CanRefund, TakenBack, TransferOut
<1>3. VectorOK(m2) /\ m2.amounts = m.amounts
  <2> HIDE DEF m
  <2>1. m2.amounts = m.amounts /\ m2.protocol_fee = m.protocol_fee
    BY <1>1, RefundedVector
  <2> QED
    BY <1>1, <2>1 DEF VectorOK
<1> HIDE DEF m2, status, total
<1>4. total \in Int /\ returned \in Int /\ c.released_amount + returned <= c.funded_amount
  <2>1. total \in Int
    BY <1>2, AmountsAssumption DEF Stroops
  <2> QED
    BY <1>1, <1>2, <2>1 DEF Available, AvailableBalance, ContractType
<1> HIDE DEF returned
<1>5. /\ c2.refunded_amount = returned /\ c2.released_amount = c.released_amount
      /\ c2.funded_amount = c.funded_amount
  BY <1>1 DEF ContractType
<1>6. ContractOK(c2, m2)
  BY <1>1, <1>3, <1>4, <1>5 DEF ContractOK
<1>7. accumulated_fees' >= 0 /\ custody' >= 0
  BY <1>1, <1>2, <1>4
<1> HIDE DEF c2
<1> QED
  BY <1>2, <1>3, <1>6, <1>7, ContractStep

LEMMA CancelContractAccounting ==
  ASSUME AccountingInv, NEW id \in DOMAIN contracts, CancelContract(id)
  PROVE  FeesRecorded' /\ AccountingBound'
<1> DEFINE c        == contracts[id]
           m        == milestones[id]
           returned == c.refunded_amount + Available(id)
           c2       == [c EXCEPT !.refunded_amount = returned, !.status = "Cancelled"]
<1>1. /\ c \in ContractType /\ VectorOK(m) /\ ContractOK(c, m)
      /\ custody \in Int /\ accumulated_fees >= 0
  BY DEF AccountingInv, TypeOK, BooksTypeOK, FundsTypeOK, FeesRecorded, AccountingBound, ContractOK
<1>2. /\ contracts' = [contracts EXCEPT ![id] = c2] /\ milestones' = [milestones EXCEPT ![id] = m]
      /\ custody >= Available(id) /\ custody' = custody - Available(id)
      /\ UNCHANGED accumulated_fees
  BY DEF CancelContract, TransferOut, AccountingInv, TypeOK, BooksTypeOK
<1> HIDE DEF m
<1>3. /\ Available(id) \in Int /\ returned \in Int
      /\ c.released_amount + returned = c.funded_amount
  BY <1>1 DEF Available, AvailableBalance, ContractType
<1> HIDE DEF returned
<1>4. /\ c2.refunded_amount = returned /\ c2.released_amount = c.released_amount
      /\ c2.funded_amount = c.funded_amount
  BY <1>1 DEF ContractType
<1>5. ContractOK(c2, m)
  BY <1>1, <1>3, <1>4 DEF ContractOK, ContractType
<1>6. accumulated_fees' >= 0 /\ custody' >= 0
  BY <1>1, <1>2, <1>3
<1> HIDE DEF c2
<1> QED
  BY <1>1, <1>2, <1>5, <1>6, ContractStep

LEMMA ResolveDisputeAccounting ==
  ASSUME AccountingInv, NEW id \in DOMAIN contracts, NEW caller \in Address,
         NEW r \in Resolutions, ResolveDispute(id, caller, r)
  PROVE  FeesRecorded' /\ AccountingBound'
<1> DEFINE c        == contracts[id]
           m        == milestones[id]
           returned == c.refunded_amount + ClientPayout(Available(id), r)
           paid     == c.released_amount + FreelancerPayout(Available(id), r)
           c1       == [c EXCEPT !.refunded_amount = returned, !.released_amount = paid]
           status   == FinalStatusAfterResolution(c1)
           c2       == [c1 EXCEPT !.status = status]
<1>1. /\ c \in ContractType /\ VectorOK(m) /\ ContractOK(c, m)
      /\ accumulated_fees >= 0 /\ custody >= 0
  BY DEF AccountingInv, TypeOK, BooksTypeOK, FeesRecorded, AccountingBound, ContractOK
<1>2. /\ contracts' = [contracts EXCEPT ![id] = c2] /\ milestones' = [milestones EXCEPT ![id] = m]
      /\ c1.released_amount + c1.refunded_amount = c.funded_amount
      /\ UNCHANGED <<custody, accumulated_fees>>
  BY DEF ResolveDispute, CanResolve, AccountingInv, TypeOK, BooksTypeOK
<1> HIDE DEF m, returned, paid, status
<1>3. /\ c2.refunded_amount = c1.refunded_amount /\ c2.released_amount = c1.released_amount
      /\ c2.funded_amount = c.funded_amount
  BY <1>1 DEF ContractType
<1> HIDE DEF c1
<1>4. ContractOK(c2, m)
  BY <1>1, <1>2, <1>3 DEF ContractOK, ContractType
<1> HIDE DEF c2
<1> QED
  BY <1>1, <1>2, <1>4, ContractStep

(* A step that leaves the books, the fees and the custody balance alone.   *)
LEMMA UntouchedAccounting ==
  ASSUME AccountingInv, UNCHANGED <<books, accumulated_fees, custody>>
  PROVE  FeesRecorded' /\ AccountingBound'
  BY DEF AccountingInv, books, FeesRecorded, AccountingBound

LEMMA NextAccounting == AccountingInv /\ [Next]_vars => AccountingInv'
<1> SUFFICES ASSUME AccountingInv, [Next]_vars PROVE AccountingInv'
  OBVIOUS
<1> DEFINE Bounded == FeesRecorded /\ AccountingBound
<1>1. TypeOK'
  BY NextTypes DEF AccountingInv
<1>2. ASSUME NEW t \in Terms, CreateContract(t) PROVE Bounded'
  BY <1>2, CreateContractAccounting
<1>3. ASSUME NEW id \in DOMAIN contracts, Participate(id) PROVE Bounded'
  <2>1. ASSUME NEW amount \in DepositAmounts, DepositFunds(id, amount) PROVE Bounded'
    BY <2>1, DepositFundsAccounting
  <2>2. ASSUME NEW caller \in Address, NEW indices \in SUBSET Indices(id),
               ApproveMilestones(id, indices, caller)
        PROVE  Bounded'
    BY <2>2, UntouchedAccounting DEF ApproveMilestones, funds
  <2>3. ASSUME NEW caller \in Address, NEW i \in Indices(id), ReleaseMilestone(id, i, caller)
        PROVE  Bounded'
    BY <2>3, ReleaseMilestoneAccounting
  <2>4. ASSUME NEW indices \in SUBSET Indices(id), RefundUnreleasedMilestones(id, indices)
        PROVE  Bounded'
    BY <2>4, RefundUnreleasedMilestonesAccounting
  <2>5. CASE CancelContract(id)
    BY <2>5, CancelContractAccounting
  <2>6. ASSUME NEW caller \in Address, RaiseDispute(id, caller) PROVE Bounded'
    BY <2>6, CountersKept DEF RaiseDispute, AccountingInv, TypeOK, BooksTypeOK, ContractType,
         funds, AccountingBound
  <2>7. ASSUME NEW caller \in Address, NEW r \in Resolutions, ResolveDispute(id, caller, r)
        PROVE  Bounded'
    BY <2>7, ResolveDisputeAccounting
  <2>8. ASSUME NEW finalizer, FinalizeContract(id, finalizer) PROVE Bounded'
    BY <2>8, UntouchedAccounting DEF FinalizeContract, WriteFinalizations, funds
  <2>9. CASE IssueReputation(id)
    BY <2>9, CountersKept DEF IssueReputation, AccountingInv, TypeOK, BooksTypeOK, ContractType,
         funds, AccountingBound
  <2>10. CASE SimulateIssueReputation(id)
    BY <2>10, UntouchedAccounting DEF SimulateIssueReputation, funds
  <2> HIDE DEF Bounded
  <2> QED
    BY <1>3, <2>1, <2>2, <2>3, <2>4, <2>5, <2>6, <2>7, <2>8, <2>9, <2>10 DEF Participate
<1>4. ASSUME NEW ids, NEW finalizer, FinalizeContractsBatch(ids, finalizer) PROVE Bounded'
  BY <1>4, UntouchedAccounting DEF FinalizeContractsBatch, WriteFinalizations, funds
<1>5. ASSUME Administer PROVE Bounded'
  <2>1. ASSUME NEW id \in DOMAIN contracts, NEW i \in Indices(id), RollbackMilestone(id, i)
        PROVE  Bounded'
    BY <2>1, RollbackMilestoneAccounting
  <2>2. ASSUME NEW id, RollbackContract(id) PROVE Bounded'
    BY <2>2, UntouchedAccounting DEF RollbackContract, funds
  <2>3. ASSUME NEW amount \in 1 .. accumulated_fees, WithdrawProtocolFees(amount)
        PROVE  Bounded'
    <3>1. /\ accumulated_fees \in Int /\ custody \in Int
          /\ amount \in Int /\ amount <= accumulated_fees /\ amount <= custody
      BY <2>3 DEF WithdrawProtocolFees, TransferOut, AccountingInv, TypeOK, FundsTypeOK
    <3>2. accumulated_fees' >= 0 /\ custody' >= 0
      BY <2>3, <3>1 DEF WithdrawProtocolFees, TransferOut
    <3> QED
      BY <2>3, <3>2, CountersKept DEF WithdrawProtocolFees, books
  <2>4. ASSUME NEW new_bps, SetProtocolFeeBps(new_bps) PROVE Bounded'
    BY <2>4, UntouchedAccounting DEF SetProtocolFeeBps, funds
  <2>5. CASE Pause \/ Unpause \/ ActivateEmergencyPause \/ ResolveEmergency
    BY <2>5, UntouchedAccounting DEF Pause, Unpause, ActivateEmergencyPause, ResolveEmergency,
         funds
  <2> HIDE DEF Bounded
  <2> QED
    BY <1>5, <2>1, <2>2, <2>3, <2>4, <2>5 DEF Administer
<1>6. ASSUME NEW id, NEW i, ExpireApprovals(id, i) PROVE Bounded'
  BY <1>6, UntouchedAccounting DEF ExpireApprovals, funds
<1>7. ASSUME UNCHANGED vars PROVE Bounded'
  <2>1. UNCHANGED books /\ UNCHANGED funds
    BY <1>7 DEF vars
  <2> QED
    BY <2>1, UntouchedAccounting DEF funds
<1>8. Bounded'
  BY <1>2, <1>3, <1>4, <1>5, <1>6, <1>7 DEF Next
<1> QED
  BY <1>1, <1>8 DEF AccountingInv

(* No contract ever disposes of more than it was funded with or is funded  *)
(* beyond its milestones, and neither the fee counter nor the custody      *)
(* balance is overdrawn, for any number of contracts, amounts and rates.   *)
THEOREM AccountingHolds == Spec => []AccountingBound
<1>1. Init => AccountingInv
  BY InitTypes DEF Init, AccountingInv, FeesRecorded, AccountingBound
<1>2. AccountingInv => AccountingBound
  BY DEF AccountingInv
<1> QED
  BY <1>1, <1>2, NextAccounting, PTL DEF Spec

(***************************************************************************)
(* Closed contracts.                                                       *)
(***************************************************************************)

(* What a step may not change about a closed contract x.                   *)
Frozen(x) ==
  /\ [contracts'[x] EXCEPT !.reputation_issued = contracts[x].reputation_issued] = contracts[x]
  /\ contracts[x].reputation_issued => contracts'[x].reputation_issued
  /\ milestones'[x] = milestones[x]

LEMMA Untouched ==
  ASSUME TypeOK, NEW x \in DOMAIN contracts,
         contracts'[x] = contracts[x], milestones'[x] = milestones[x]
  PROVE  Frozen(x)
<1>1. contracts[x] \in ContractType
  BY DEF TypeOK, BooksTypeOK
<1>2. [contracts[x] EXCEPT !.reputation_issued = contracts[x].reputation_issued] = contracts[x]
  BY <1>1 DEF ContractType
<1> QED
  BY <1>2 DEF Frozen

(* Every entrypoint but issue_reputation that writes a contract wants it   *)
(* open, and a new contract gets an id no contract has.                    *)
LEMMA NextFreezes ==
  ASSUME TypeOK, [Next]_vars, NEW x \in DOMAIN contracts, contracts[x].status \in TerminalStatus
  PROVE  Frozen(x)
<1> DEFINE Same == contracts'[x] = contracts[x] /\ milestones'[x] = milestones[x]
<1>1. ASSUME NEW t \in Terms, CreateContract(t) PROVE Same
  BY <1>1 DEF CreateContract, Exists, With, TypeOK, BooksTypeOK
<1>2. ASSUME NEW id \in DOMAIN contracts, Participate(id), ~IssueReputation(id) PROVE Same
  <2>1. ASSUME NEW amount, DepositFunds(id, amount) PROVE Same
    BY <2>1 DEF DepositFunds, CanDeposit, TerminalStatus
  <2>2. ASSUME NEW caller, NEW indices, ApproveMilestones(id, indices, caller) PROVE Same
    BY <2>2 DEF ApproveMilestones, books
  <2>3. ASSUME NEW caller, NEW i, ReleaseMilestone(id, i, caller) PROVE Same
    BY <2>3 DEF ReleaseMilestone, CanRelease, TerminalStatus
  <2>4. ASSUME NEW indices, RefundUnreleasedMilestones(id, indices) PROVE Same
    BY <2>4 DEF RefundUnreleasedMilestones, CanRefund, TerminalStatus
  <2>5. ASSUME CancelContract(id) PROVE Same
    BY <2>5 DEF CancelContract, TerminalStatus
  <2>6. ASSUME NEW caller, RaiseDispute(id, caller) PROVE Same
    BY <2>6 DEF RaiseDispute, DisputableStatus, TerminalStatus
  <2>7. ASSUME NEW caller, NEW r, ResolveDispute(id, caller, r) PROVE Same
    BY <2>7 DEF ResolveDispute, CanResolve, TerminalStatus
  <2>8. ASSUME NEW finalizer, FinalizeContract(id, finalizer) PROVE Same
    BY <2>8 DEF FinalizeContract, WriteFinalizations, books
  <2>9. ASSUME SimulateIssueReputation(id) PROVE Same
    BY <2>9 DEF SimulateIssueReputation, books
  <2> HIDE DEF Same
  <2> QED
    BY <1>2, <2>1, <2>2, <2>3, <2>4, <2>5, <2>6, <2>7, <2>8, <2>9 DEF Participate
<1>3. ASSUME NEW id \in DOMAIN contracts, IssueReputation(id) PROVE Frozen(x)
  <2>1. CASE x # id
    BY <1>3, <2>1, Untouched DEF IssueReputation
  <2>2. CASE x = id
    <3>1. contracts[x] \in ContractType
      BY DEF TypeOK, BooksTypeOK
    <3>2. contracts'[x] = [contracts[x] EXCEPT !.reputation_issued = TRUE]
      BY <1>3, <2>2 DEF IssueReputation, TypeOK, BooksTypeOK
    <3> QED
      BY <1>3, <3>1, <3>2 DEF Frozen, IssueReputation, ContractType
  <2> QED
    BY <2>1, <2>2
<1>4. ASSUME NEW ids, NEW finalizer, FinalizeContractsBatch(ids, finalizer) PROVE Same
  BY <1>4 DEF FinalizeContractsBatch, WriteFinalizations, books
<1>5. ASSUME Administer PROVE Same
  <2>1. ASSUME NEW id, NEW i, RollbackMilestone(id, i) PROVE Same
    BY <2>1 DEF RollbackMilestone, RollbackStatus, TerminalStatus
  <2>2. ASSUME NEW id, RollbackContract(id) PROVE Same
    BY <2>2 DEF RollbackContract, books
  <2>3. ASSUME NEW amount, WithdrawProtocolFees(amount) PROVE Same
    BY <2>3 DEF WithdrawProtocolFees, books
  <2>4. ASSUME NEW new_bps, SetProtocolFeeBps(new_bps) PROVE Same
    BY <2>4 DEF SetProtocolFeeBps, books
  <2>5. ASSUME Pause \/ Unpause \/ ActivateEmergencyPause \/ ResolveEmergency PROVE Same
    BY <2>5 DEF Pause, Unpause, ActivateEmergencyPause, ResolveEmergency, books
  <2> HIDE DEF Same
  <2> QED
    BY <1>5, <2>1, <2>2, <2>3, <2>4, <2>5 DEF Administer
<1>6. ASSUME NEW id, NEW i, ExpireApprovals(id, i) PROVE Same
  BY <1>6 DEF ExpireApprovals, books
<1>7. ASSUME UNCHANGED vars PROVE Same
  BY <1>7 DEF vars, books
<1>8. Same => Frozen(x)
  BY Untouched
<1> HIDE DEF Same
<1> QED
  BY <1>1, <1>2, <1>3, <1>4, <1>5, <1>6, <1>7, <1>8 DEF Next

(* A contract that was completed, cancelled or refunded keeps its status,  *)
(* its books and its milestones for ever: no deposit, release, refund,     *)
(* decision, roll-back or reused id touches it.  The rating flag may still *)
(* be set, and is then never taken away.                                   *)
THEOREM ClosedForEver == Spec => TerminalIsFinal
<1> DEFINE Final == \A id \in DOMAIN contracts : contracts[id].status \in TerminalStatus => Frozen(id)
<1>1. TypeOK /\ [Next]_vars => [Final]_vars
  BY NextFreezes
<1>2. Spec => [][Final]_vars
  <2> HIDE DEF Final
  <2> QED
    BY <1>1, TypeCorrect, PTL DEF Spec
<1> QED
  BY <1>2 DEF TerminalIsFinal, Frozen

(***************************************************************************)
(* What the records look at.                                               *)
(***************************************************************************)

(* One contract and its milestones change, the others stay.                *)
LEMMA OneContractChanges ==
  ASSUME TypeOK, NEW id \in DOMAIN contracts,
         NEW c, contracts' = [contracts EXCEPT ![id] = c],
         NEW m, milestones' = [milestones EXCEPT ![id] = m]
  PROVE  /\ DOMAIN contracts' = DOMAIN contracts /\ DOMAIN milestones' = DOMAIN milestones
         /\ DOMAIN milestones = DOMAIN contracts
         /\ contracts'[id] = c /\ milestones'[id] = m
         /\ \A x \in DOMAIN contracts \ {id} :
              contracts'[x] = contracts[x] /\ milestones'[x] = milestones[x]
  BY DEF TypeOK, BooksTypeOK

(* Unchanged milestones, written as a change of one contract.              *)
LEMMA SameMilestones ==
  ASSUME TypeOK, NEW id \in DOMAIN contracts, UNCHANGED milestones
  PROVE  milestones' = [milestones EXCEPT ![id] = milestones[id]]
<1>1. milestones = [x \in DOMAIN milestones |-> milestones[x]]
  BY DEF TypeOK, BooksTypeOK
<1> QED
  BY <1>1

(* A new contract leaves the others alone.                                 *)
LEMMA NewContractApart ==
  ASSUME TypeOK, NEW t \in Terms, CreateContract(t)
  PROVE  /\ next_contract_id \notin DOMAIN contracts
         /\ DOMAIN contracts' = DOMAIN contracts \cup {next_contract_id}
         /\ contracts'[next_contract_id].status = "Created"
         /\ \A x \in DOMAIN contracts :
              contracts'[x] = contracts[x] /\ milestones'[x] = milestones[x]
  BY DEF CreateContract, Exists, With, NewContract, TypeOK, BooksTypeOK

(* The amounts of a milestone vector are integers.                         *)
LEMMA AmountTypes ==
  ASSUME TypeOK, NEW id \in DOMAIN contracts, NEW i \in Indices(id)
  PROVE  milestones[id].amounts[i] \in Int /\ MilestonesType(milestones[id])
  BY DEF TypeOK, BooksTypeOK, MilestonesType, Indices

(* Where a disposal leads: the status stays, or nothing is left.           *)
LEMMA StatusAfterCases ==
  ASSUME NEW c, NEW m, MilestonesType(m)
  PROVE  \/ StatusAfter(c, m) = c.status
         \/ /\ StatusAfter(c, m) \in {"Completed", "Refunded"}
            /\ m.released \cup m.refunded = DOMAIN m.amounts
<1>1. CASE m.released \cup m.refunded # DOMAIN m.amounts
  BY <1>1 DEF StatusAfter, MilestonesType
<1>2. CASE m.released \cup m.refunded = DOMAIN m.amounts /\ m.refunded = DOMAIN m.amounts
  BY <1>2 DEF StatusAfter
<1>3. CASE m.released \cup m.refunded = DOMAIN m.amounts /\ m.refunded # DOMAIN m.amounts
  BY <1>3 DEF StatusAfter
<1> QED
  BY <1>1, <1>2, <1>3

(***************************************************************************)
(* Dispute records.  DisputeRecords by itself is not inductive: a record   *)
(* left behind by a contract all of whose milestones are disposed of is    *)
(* harmless only because that contract is closed, so that no roll-back     *)
(* opens a milestone of it again.                                          *)
(***************************************************************************)
DisputeOK(id, status, m, D) ==
  /\ status = "Disputed" => id \in D
  /\ id \in D => \/ status = "Disputed"
                 \/ /\ status \in {"Completed", "Refunded"}
                    /\ m.released \cup m.refunded = DOMAIN m.amounts

DisputeInv ==
  \A id \in DOMAIN contracts : DisputeOK(id, contracts[id].status, milestones[id], disputes)

LEMMA DisputeStep ==
  ASSUME TypeOK, DisputeInv, NEW id \in DOMAIN contracts,
         NEW c, contracts' = [contracts EXCEPT ![id] = c],
         NEW m, milestones' = [milestones EXCEPT ![id] = m],
         \A x \in DOMAIN contracts \ {id} : x \in disputes' <=> x \in disputes,
         DisputeOK(id, c.status, m, disputes')
  PROVE  DisputeInv'
  BY OneContractChanges DEF DisputeInv, DisputeOK

(* Steps that leave statuses, milestones and dispute records alone.        *)
LEMMA DisputeKept ==
  ASSUME TypeOK, DisputeInv, UNCHANGED <<milestones, disputes>>,
         DOMAIN contracts' = DOMAIN contracts,
         \A x \in DOMAIN contracts : contracts'[x].status = contracts[x].status
  PROVE  DisputeInv'
  BY DEF DisputeInv, DisputeOK

LEMMA ParticipateDisputes ==
  ASSUME TypeOK, DisputeInv, NEW id \in DOMAIN contracts, Participate(id)
  PROVE  DisputeInv'
<1> DEFINE c == contracts[id]
           m == milestones[id]
<1>1. ASSUME NEW amount, DepositFunds(id, amount) PROVE DisputeInv'
  <2> DEFINE funded == c.funded_amount + amount
             status == IF funded = TotalAmount(m.amounts) THEN "Funded" ELSE "PartiallyFunded"
             c2 == [c EXCEPT !.funded_amount = funded, !.status = status]
  <2>1. contracts' = [contracts EXCEPT ![id] = c2] /\ UNCHANGED <<milestones, disputes>>
    BY <1>1 DEF DepositFunds, CanDeposit, Deposited, records
  <2>2. c2.status = status
    BY DEF TypeOK, BooksTypeOK, ContractType
  <2>3. id \notin disputes
    BY <1>1 DEF DepositFunds, CanDeposit, DisputeInv, DisputeOK
  <2>4. DisputeOK(id, c2.status, m, disputes')
    BY <2>1, <2>2, <2>3 DEF DisputeOK
  <2> HIDE DEF c2
  <2> QED
    BY <2>1, <2>4, SameMilestones, DisputeStep
<1>2. ASSUME NEW caller, NEW indices, ApproveMilestones(id, indices, caller) PROVE DisputeInv'
  BY <1>2, DisputeKept DEF ApproveMilestones, books
<1>3. ASSUME NEW caller, NEW i \in Indices(id), ReleaseMilestone(id, i, caller) PROVE DisputeInv'
  <2> DEFINE fee == ProtocolFee(m.amounts[i], protocol_fee_bps)
             m2  == Released(m, i, fee)
             c2  == [c EXCEPT !.released_amount = @ + NetAmount(m.amounts[i], fee),
                              !.status = StatusAfter(c, m2)]
  <2>1. /\ contracts' = [contracts EXCEPT ![id] = c2]
        /\ milestones' = [milestones EXCEPT ![id] = m2]
        /\ UNCHANGED disputes /\ c.status = "Funded"
    BY <1>3 DEF ReleaseMilestone, CanRelease, Paid
  <2>2. c2.status = StatusAfter(c, m2)
    BY DEF TypeOK, BooksTypeOK, ContractType
  <2>types. MilestonesType(m2)
    BY AmountTypes, FeeIsInt, ReleasedVector DEF TypeOK, BooksTypeOK, ControlTypeOK, Indices
  <2> HIDE DEF m2, c2
  <2>3. id \notin disputes /\ c2.status # "Disputed"
    BY <2>1, <2>2, <2>types, StatusAfterCases DEF DisputeInv, DisputeOK
  <2>4. DisputeOK(id, c2.status, m2, disputes')
    BY <2>1, <2>3 DEF DisputeOK
  <2> QED
    BY <2>1, <2>4, DisputeStep
<1>4. ASSUME NEW indices, RefundUnreleasedMilestones(id, indices) PROVE DisputeInv'
  <2> DEFINE m2 == Refunded(m, indices)
             c2 == [c EXCEPT !.refunded_amount = @ + AmountOf(m.amounts, indices),
                             !.status = StatusAfter(c, m2)]
  <2>1. /\ contracts' = [contracts EXCEPT ![id] = c2]
        /\ milestones' = [milestones EXCEPT ![id] = m2]
        /\ UNCHANGED disputes /\ c.status \in {"Created", "Funded", "Disputed"}
    BY <1>4 DEF RefundUnreleasedMilestones, CanRefund, TakenBack
  <2>2. c2.status = StatusAfter(c, m2)
    BY DEF TypeOK, BooksTypeOK, ContractType
  <2>types. MilestonesType(m2)
    BY <1>4, RefundedVector
    DEF TypeOK, BooksTypeOK, RefundUnreleasedMilestones, CanRefund, Unresolved, Indices
  <2> HIDE DEF m2, c2
  <2>3. DisputeOK(id, c2.status, m2, disputes)
    BY <2>1, <2>2, <2>types, StatusAfterCases DEF DisputeInv, DisputeOK
  <2> QED
    BY <2>1, <2>3, DisputeStep
<1>5. ASSUME CancelContract(id) PROVE DisputeInv'
  <2> DEFINE c2 == [c EXCEPT !.refunded_amount = @ + Available(id), !.status = "Cancelled"]
  <2>1. contracts' = [contracts EXCEPT ![id] = c2] /\ UNCHANGED <<milestones, disputes>>
    BY <1>5 DEF CancelContract, records
  <2>2. c2.status = "Cancelled"
    BY DEF TypeOK, BooksTypeOK, ContractType
  <2>3. id \notin disputes
    BY <1>5 DEF CancelContract, DisputeInv, DisputeOK
  <2>4. DisputeOK(id, c2.status, m, disputes')
    BY <2>1, <2>2, <2>3 DEF DisputeOK
  <2> HIDE DEF c2
  <2> QED
    BY <2>1, <2>4, SameMilestones, DisputeStep
<1>6. ASSUME NEW caller, RaiseDispute(id, caller) PROVE DisputeInv'
  <2> DEFINE c2 == [c EXCEPT !.status = "Disputed"]
  <2>1. /\ contracts' = [contracts EXCEPT ![id] = c2] /\ UNCHANGED milestones
        /\ disputes' = disputes \cup {id}
    BY <1>6 DEF RaiseDispute, StoreDispute
  <2>2. c2.status = "Disputed"
    BY DEF TypeOK, BooksTypeOK, ContractType
  <2> HIDE DEF c2
  <2>3. DisputeOK(id, c2.status, m, disputes')
    BY <2>1, <2>2 DEF DisputeOK
  <2> QED
    BY <2>1, <2>3, SameMilestones, DisputeStep
<1>7. ASSUME NEW caller, NEW r, ResolveDispute(id, caller, r) PROVE DisputeInv'
  <2> DEFINE c1 == [c EXCEPT !.refunded_amount = @ + ClientPayout(Available(id), r),
                             !.released_amount = @ + FreelancerPayout(Available(id), r)]
             c2 == [c1 EXCEPT !.status = FinalStatusAfterResolution(c1)]
  <2>1. /\ contracts' = [contracts EXCEPT ![id] = c2] /\ UNCHANGED milestones
        /\ disputes' = disputes \ {id}
    BY <1>7 DEF ResolveDispute, RemoveDispute
  <2>2. c2.status = FinalStatusAfterResolution(c1)
    BY DEF TypeOK, BooksTypeOK, ContractType
  <2> HIDE DEF c2, c1
  <2>3. c2.status # "Disputed"
    BY <2>2 DEF FinalStatusAfterResolution
  <2>4. DisputeOK(id, c2.status, m, disputes')
    BY <2>1, <2>3 DEF DisputeOK
  <2> QED
    BY <2>1, <2>4, SameMilestones, DisputeStep
<1>8. ASSUME NEW finalizer, FinalizeContract(id, finalizer) PROVE DisputeInv'
  BY <1>8, DisputeKept DEF FinalizeContract, WriteFinalizations, books
<1>9. ASSUME IssueReputation(id) PROVE DisputeInv'
  <2>1. \A x \in DOMAIN contracts : contracts'[x].status = contracts[x].status
    BY <1>9 DEF IssueReputation, TypeOK, BooksTypeOK, ContractType
  <2> QED
    BY <1>9, <2>1, DisputeKept DEF IssueReputation
<1>10. ASSUME SimulateIssueReputation(id) PROVE DisputeInv'
  BY <1>10, DisputeKept DEF SimulateIssueReputation, books
<1> QED
  BY <1>1, <1>2, <1>3, <1>4, <1>5, <1>6, <1>7, <1>8, <1>9, <1>10 DEF Participate

LEMMA NextDisputes ==
  ASSUME TypeOK, DisputeInv, [Next]_vars
  PROVE  DisputeInv'
<1>1. ASSUME NEW t \in Terms, CreateContract(t) PROVE DisputeInv'
  <2>1. UNCHANGED disputes
    BY <1>1 DEF CreateContract, records
  <2>2. next_contract_id \notin disputes
    BY <1>1, NewContractApart DEF TypeOK, RecordsTypeOK
  <2> QED
    BY <1>1, <2>1, <2>2, NewContractApart DEF DisputeInv, DisputeOK
<1>2. ASSUME NEW id \in DOMAIN contracts, Participate(id) PROVE DisputeInv'
  BY <1>2, ParticipateDisputes
<1>3. ASSUME NEW ids, NEW finalizer, FinalizeContractsBatch(ids, finalizer) PROVE DisputeInv'
  BY <1>3, DisputeKept DEF FinalizeContractsBatch, WriteFinalizations, books
<1>4. ASSUME NEW id \in DOMAIN contracts, NEW i, RollbackMilestone(id, i) PROVE DisputeInv'
  <2>1. id \notin disputes /\ contracts[id].status # "Disputed"
    BY <1>4 DEF RollbackMilestone, RollbackStatus, DisputeInv, DisputeOK
  <2>2. \E c : contracts' = [contracts EXCEPT ![id] = c] /\ c.status = contracts[id].status
    <3> DEFINE fee == IF i \in milestones[id].released THEN milestones[id].protocol_fee[i] ELSE 0
               released == IF i \in milestones[id].released
                           THEN NetAmount(milestones[id].amounts[i], fee) ELSE 0
               refunded == IF i \in milestones[id].refunded THEN milestones[id].amounts[i] ELSE 0
               c == [contracts[id] EXCEPT !.released_amount = @ - released,
                                          !.refunded_amount = @ - refunded]
    <3>1. contracts' = [contracts EXCEPT ![id] = c]
      BY <1>4 DEF RollbackMilestone
    <3>2. c.status = contracts[id].status
      BY DEF TypeOK, BooksTypeOK, ContractType
    <3> QED
      BY <3>1, <3>2
  <2>3. milestones' = [milestones EXCEPT ![id] = RolledBack(milestones[id], i)]
        /\ UNCHANGED disputes
    BY <1>4 DEF RollbackMilestone
  <2> QED
    BY <2>1, <2>2, <2>3, DisputeStep DEF DisputeOK
<1>5. ASSUME NEW id, RollbackContract(id) PROVE DisputeInv'
  BY <1>5, DisputeKept DEF RollbackContract, books
<1>6. ASSUME NEW amount, WithdrawProtocolFees(amount) PROVE DisputeInv'
  BY <1>6, DisputeKept DEF WithdrawProtocolFees, books, records
<1>7. ASSUME NEW new_bps, SetProtocolFeeBps(new_bps) PROVE DisputeInv'
  BY <1>7, DisputeKept DEF SetProtocolFeeBps, books, records
<1>8. ASSUME Pause \/ Unpause \/ ActivateEmergencyPause \/ ResolveEmergency PROVE DisputeInv'
  BY <1>8, DisputeKept
  DEF Pause, Unpause, ActivateEmergencyPause, ResolveEmergency, books, records
<1>9. ASSUME NEW id, NEW i, ExpireApprovals(id, i) PROVE DisputeInv'
  BY <1>9, DisputeKept DEF ExpireApprovals, books
<1>10. ASSUME UNCHANGED vars PROVE DisputeInv'
  BY <1>10, DisputeKept DEF vars, books, records
<1> QED
  BY <1>1, <1>2, <1>3, <1>4, <1>5, <1>6, <1>7, <1>8, <1>9, <1>10 DEF Next, Administer

(* Whatever disputes, refunds, decisions, finalizations and roll-backs do  *)
(* to it, a disputed contract has its dispute record, and the only records *)
(* without a dispute are those of contracts whose client took everything   *)
(* back meanwhile.                                                         *)
THEOREM DisputesRecorded == Spec => []DisputeRecords
<1>1. Init => DisputeInv
  BY DEF Init, DisputeInv
<1>2. TypeOK /\ DisputeInv /\ [Next]_vars => DisputeInv'
  BY NextDisputes
<1>3. TypeOK /\ DisputeInv => DisputeRecords
  BY DEF TypeOK, RecordsTypeOK, DisputeInv, DisputeOK, DisputeRecords, Unresolved, Indices
<1> QED
  BY <1>1, <1>2, <1>3, TypeCorrect, PTL DEF Spec

(***************************************************************************)
(* Approvals.                                                              *)
(***************************************************************************)

(* What ApprovalsFresh asks of one flag.                                   *)
FlagOK(a, c, m) ==
  /\ a[2] \notin m.released
  /\ a[3] \in AuthorizedRoles(c.release_authorization)
  /\ c.status # "Created"

LEMMA FlagStep ==
  ASSUME TypeOK, ApprovalsFresh, NEW id \in DOMAIN contracts,
         NEW c, contracts' = [contracts EXCEPT ![id] = c],
         NEW m, milestones' = [milestones EXCEPT ![id] = m],
         approvals' \subseteq approvals,
         \A a \in approvals' : a[1] = id => FlagOK(a, c, m)
  PROVE  ApprovalsFresh'
<1> SUFFICES ASSUME NEW a \in approvals'
             PROVE  FlagOK(a, contracts'[a[1]], milestones'[a[1]])
  BY DEF ApprovalsFresh, FlagOK
<1>1. a[1] \in DOMAIN contracts
  BY DEF TypeOK, RecordsTypeOK
<1>2. FlagOK(a, contracts[a[1]], milestones[a[1]])
  BY DEF ApprovalsFresh, FlagOK
<1>3. CASE a[1] = id
  BY <1>3, OneContractChanges
<1>4. CASE a[1] # id
  <2>1. contracts'[a[1]] = contracts[a[1]] /\ milestones'[a[1]] = milestones[a[1]]
    BY <1>1, <1>4, OneContractChanges
  <2> QED
    BY <1>2, <2>1
<1> QED
  BY <1>3, <1>4

(* Steps that at most remove flags.                                        *)
LEMMA FlagsKept ==
  ASSUME ApprovalsFresh, UNCHANGED <<contracts, milestones>>, approvals' \subseteq approvals
  PROVE  ApprovalsFresh'
  BY DEF ApprovalsFresh

LEMMA ParticipateFlags ==
  ASSUME TypeOK, ApprovalsFresh, NEW id \in DOMAIN contracts, Participate(id)
  PROVE  ApprovalsFresh'
<1> DEFINE c == contracts[id]
           m == milestones[id]
<1>0. \A a \in approvals : a[1] = id => FlagOK(a, c, m)
  BY DEF ApprovalsFresh, FlagOK
<1>1. ASSUME NEW amount, DepositFunds(id, amount) PROVE ApprovalsFresh'
  <2> DEFINE funded == c.funded_amount + amount
             status == IF funded = TotalAmount(m.amounts) THEN "Funded" ELSE "PartiallyFunded"
             c2 == [c EXCEPT !.funded_amount = funded, !.status = status]
  <2>1. contracts' = [contracts EXCEPT ![id] = c2] /\ UNCHANGED <<milestones, approvals>>
    BY <1>1 DEF DepositFunds, CanDeposit, Deposited, records
  <2>2. c2.status # "Created" /\ c2.release_authorization = c.release_authorization
    BY DEF TypeOK, BooksTypeOK, ContractType
  <2> HIDE DEF c2
  <2>3. \A a \in approvals' : a[1] = id => FlagOK(a, c2, m)
    BY <1>0, <2>1, <2>2 DEF FlagOK
  <2> QED
    BY <2>1, <2>3, SameMilestones, FlagStep
<1>2. ASSUME NEW caller, NEW indices, ApproveMilestones(id, indices, caller) PROVE ApprovalsFresh'
  <2> DEFINE role  == CallerRole(c, caller)
             flags == {<<id, i, role>> : i \in indices}
  <2>1. approvals' = approvals \cup flags /\ UNCHANGED <<contracts, milestones>>
    BY <1>2 DEF ApproveMilestones, books
  <2>2. /\ c.status # "Created" /\ role \in AuthorizedRoles(c.release_authorization)
        /\ \A i \in indices : i \notin m.released
    BY <1>2 DEF ApproveMilestones, MayApprove
  <2>3. ASSUME NEW a \in flags PROVE a[1] = id /\ FlagOK(a, c, m)
    <3>1. PICK i \in indices : a = <<id, i, role>>
      OBVIOUS
    <3> HIDE DEF role
    <3> QED
      BY <2>2, <3>1 DEF FlagOK
  <2> HIDE DEF flags
  <2>4. ASSUME NEW a \in approvals' PROVE FlagOK(a, contracts[a[1]], milestones[a[1]])
    BY <2>1, <2>3 DEF ApprovalsFresh, FlagOK
  <2> QED
    BY <2>1, <2>4 DEF ApprovalsFresh, FlagOK
<1>3. ASSUME NEW caller, NEW i \in Indices(id), ReleaseMilestone(id, i, caller)
      PROVE  ApprovalsFresh'
  <2> DEFINE fee == ProtocolFee(m.amounts[i], protocol_fee_bps)
             m2  == Released(m, i, fee)
             c2  == [c EXCEPT !.released_amount = @ + NetAmount(m.amounts[i], fee),
                              !.status = StatusAfter(c, m2)]
  <2>1. /\ contracts' = [contracts EXCEPT ![id] = c2]
        /\ milestones' = [milestones EXCEPT ![id] = m2]
        /\ approvals' = {a \in approvals : ~(a[1] = id /\ a[2] = i)}
        /\ c.status = "Funded"
    BY <1>3 DEF ReleaseMilestone, CanRelease, Paid, ClearApprovals
  <2>2. c2.status = StatusAfter(c, m2) /\ c2.release_authorization = c.release_authorization
    BY DEF TypeOK, BooksTypeOK, ContractType
  <2>3. MilestonesType(m2) /\ m2.released = m.released \cup {i}
    <3>1. fee \in Int
      BY AmountTypes, FeeIsInt DEF TypeOK, ControlTypeOK
    <3>2. MilestonesType(m) /\ i \in DOMAIN m.amounts
      BY AmountTypes DEF Indices
    <3> HIDE DEF fee, m
    <3>3. MilestonesType(m2)
      BY <3>1, <3>2, ReleasedVector
    <3>4. m2.released = m.released \cup {i}
      BY <3>2 DEF Released, MilestonesType
    <3> QED
      BY <3>3, <3>4
  <2> HIDE DEF m2, c2
  <2>4. c2.status # "Created"
    BY <2>1, <2>2, <2>3, StatusAfterCases
  <2>5. \A a \in approvals' : a[1] = id => FlagOK(a, c2, m2)
    BY <1>0, <2>1, <2>2, <2>3, <2>4 DEF FlagOK
  <2>6. approvals' \subseteq approvals
    BY <2>1
  <2> QED
    BY <2>1, <2>5, <2>6, FlagStep
<1>4. ASSUME NEW indices, RefundUnreleasedMilestones(id, indices) PROVE ApprovalsFresh'
  <2> DEFINE m2 == Refunded(m, indices)
             c2 == [c EXCEPT !.refunded_amount = @ + AmountOf(m.amounts, indices),
                             !.status = StatusAfter(c, m2)]
  <2>1. /\ contracts' = [contracts EXCEPT ![id] = c2]
        /\ milestones' = [milestones EXCEPT ![id] = m2]
        /\ UNCHANGED approvals
    BY <1>4 DEF RefundUnreleasedMilestones, CanRefund, TakenBack
  <2>2. c2.status = StatusAfter(c, m2) /\ c2.release_authorization = c.release_authorization
    BY DEF TypeOK, BooksTypeOK, ContractType
  <2>3. MilestonesType(m2) /\ m2.released = m.released
    BY <1>4, AmountTypes, RefundedVector
    DEF TypeOK, BooksTypeOK, RefundUnreleasedMilestones, CanRefund, Unresolved, Indices
  <2> HIDE DEF m2, c2
  <2>4. c.status # "Created" => c2.status # "Created"
    BY <2>2, <2>3, StatusAfterCases
  <2>5. \A a \in approvals' : a[1] = id => FlagOK(a, c2, m2)
    BY <1>0, <2>1, <2>2, <2>3, <2>4 DEF FlagOK
  <2> QED
    BY <2>1, <2>5, FlagStep
<1>5. ASSUME CancelContract(id) PROVE ApprovalsFresh'
  <2> DEFINE c2 == [c EXCEPT !.refunded_amount = @ + Available(id), !.status = "Cancelled"]
  <2>1. contracts' = [contracts EXCEPT ![id] = c2] /\ UNCHANGED <<milestones, approvals>>
    BY <1>5 DEF CancelContract, records
  <2>2. c2.status # "Created" /\ c2.release_authorization = c.release_authorization
    BY DEF TypeOK, BooksTypeOK, ContractType
  <2> HIDE DEF c2
  <2>3. \A a \in approvals' : a[1] = id => FlagOK(a, c2, m)
    BY <1>0, <2>1, <2>2 DEF FlagOK
  <2> QED
    BY <2>1, <2>3, SameMilestones, FlagStep
<1>6. ASSUME NEW caller, RaiseDispute(id, caller) PROVE ApprovalsFresh'
  <2> DEFINE c2 == [c EXCEPT !.status = "Disputed"]
  <2>1. contracts' = [contracts EXCEPT ![id] = c2] /\ UNCHANGED <<milestones, approvals>>
    BY <1>6 DEF RaiseDispute
  <2>2. c2.status # "Created" /\ c2.release_authorization = c.release_authorization
    BY DEF TypeOK, BooksTypeOK, ContractType
  <2> HIDE DEF c2
  <2>3. \A a \in approvals' : a[1] = id => FlagOK(a, c2, m)
    BY <1>0, <2>1, <2>2 DEF FlagOK
  <2> QED
    BY <2>1, <2>3, SameMilestones, FlagStep
<1>7. ASSUME NEW caller, NEW r, ResolveDispute(id, caller, r) PROVE ApprovalsFresh'
  <2> DEFINE c1 == [c EXCEPT !.refunded_amount = @ + ClientPayout(Available(id), r),
                             !.released_amount = @ + FreelancerPayout(Available(id), r)]
             c2 == [c1 EXCEPT !.status = FinalStatusAfterResolution(c1)]
  <2>1. contracts' = [contracts EXCEPT ![id] = c2] /\ UNCHANGED <<milestones, approvals>>
    BY <1>7 DEF ResolveDispute
  <2>2. c2.status = FinalStatusAfterResolution(c1)
        /\ c2.release_authorization = c.release_authorization
    BY DEF TypeOK, BooksTypeOK, ContractType
  <2> HIDE DEF c2, c1
  <2>3. c2.status # "Created"
    BY <2>2 DEF FinalStatusAfterResolution
  <2>4. \A a \in approvals' : a[1] = id => FlagOK(a, c2, m)
    BY <1>0, <2>1, <2>2, <2>3 DEF FlagOK
  <2> QED
    BY <2>1, <2>4, SameMilestones, FlagStep
<1>8. ASSUME NEW finalizer, FinalizeContract(id, finalizer) PROVE ApprovalsFresh'
  BY <1>8, FlagsKept DEF FinalizeContract, WriteFinalizations, books
<1>9. ASSUME IssueReputation(id) PROVE ApprovalsFresh'
  <2> DEFINE c2 == [c EXCEPT !.reputation_issued = TRUE]
  <2>1. contracts' = [contracts EXCEPT ![id] = c2] /\ UNCHANGED <<milestones, approvals>>
    BY <1>9 DEF IssueReputation
  <2>2. c2.status = c.status /\ c2.release_authorization = c.release_authorization
    BY DEF TypeOK, BooksTypeOK, ContractType
  <2> HIDE DEF c2
  <2>3. \A a \in approvals' : a[1] = id => FlagOK(a, c2, m)
    BY <1>0, <2>1, <2>2 DEF FlagOK
  <2> QED
    BY <2>1, <2>3, SameMilestones, FlagStep
<1>10. ASSUME SimulateIssueReputation(id) PROVE ApprovalsFresh'
  BY <1>10, FlagsKept DEF SimulateIssueReputation, books
<1> QED
  BY <1>1, <1>2, <1>3, <1>4, <1>5, <1>6, <1>7, <1>8, <1>9, <1>10 DEF Participate

LEMMA NextFlags ==
  ASSUME TypeOK, ApprovalsFresh, [Next]_vars
  PROVE  ApprovalsFresh'
<1>1. ASSUME NEW t \in Terms, CreateContract(t) PROVE ApprovalsFresh'
  <2>1. UNCHANGED approvals
    BY <1>1 DEF CreateContract, records
  <2>2. \A a \in approvals : a[1] \in DOMAIN contracts
    BY DEF TypeOK, RecordsTypeOK
  <2> QED
    BY <1>1, <2>1, <2>2, NewContractApart DEF ApprovalsFresh
<1>2. ASSUME NEW id \in DOMAIN contracts, Participate(id) PROVE ApprovalsFresh'
  BY <1>2, ParticipateFlags
<1>3. ASSUME NEW ids, NEW finalizer, FinalizeContractsBatch(ids, finalizer) PROVE ApprovalsFresh'
  BY <1>3, FlagsKept DEF FinalizeContractsBatch, WriteFinalizations, books
<1>4. ASSUME NEW id \in DOMAIN contracts, NEW i \in Indices(id), RollbackMilestone(id, i)
      PROVE  ApprovalsFresh'
  <2> DEFINE m == milestones[id]
             fee == IF i \in m.released THEN m.protocol_fee[i] ELSE 0
             released == IF i \in m.released THEN NetAmount(m.amounts[i], fee) ELSE 0
             refunded == IF i \in m.refunded THEN m.amounts[i] ELSE 0
             c2 == [contracts[id] EXCEPT !.released_amount = @ - released,
                                         !.refunded_amount = @ - refunded]
             m2 == RolledBack(m, i)
  <2>1. contracts' = [contracts EXCEPT ![id] = c2] /\ milestones' = [milestones EXCEPT ![id] = m2]
    BY <1>4 DEF RollbackMilestone
  <2>2. /\ c2.status = contracts[id].status
        /\ c2.release_authorization = contracts[id].release_authorization
    BY DEF TypeOK, BooksTypeOK, ContractType
  <2>3. m2.released = m.released \ {i}
    BY AmountTypes, RolledBackVector DEF Indices
  <2>4. approvals' \subseteq approvals
    BY <1>4 DEF RollbackMilestone, ClearApprovals
  <2> HIDE DEF c2, m2
  <2>5. \A a \in approvals' : a[1] = id => FlagOK(a, c2, m2)
    BY <2>2, <2>3, <2>4 DEF FlagOK, ApprovalsFresh
  <2> QED
    BY <2>1, <2>4, <2>5, FlagStep
<1>5. ASSUME NEW id, RollbackContract(id) PROVE ApprovalsFresh'
  BY <1>5, FlagsKept DEF RollbackContract, books
<1>6. ASSUME NEW amount, WithdrawProtocolFees(amount) PROVE ApprovalsFresh'
  BY <1>6, FlagsKept DEF WithdrawProtocolFees, books, records
<1>7. ASSUME NEW new_bps, SetProtocolFeeBps(new_bps) PROVE ApprovalsFresh'
  BY <1>7, FlagsKept DEF SetProtocolFeeBps, books, records
<1>8. ASSUME Pause \/ Unpause \/ ActivateEmergencyPause \/ ResolveEmergency
      PROVE  ApprovalsFresh'
  BY <1>8, FlagsKept
  DEF Pause, Unpause, ActivateEmergencyPause, ResolveEmergency, books, records
<1>9. ASSUME NEW id, NEW i, ExpireApprovals(id, i) PROVE ApprovalsFresh'
  BY <1>9, FlagsKept DEF ExpireApprovals, ClearApprovals, books
<1>10. ASSUME UNCHANGED vars PROVE ApprovalsFresh'
  BY <1>10, FlagsKept DEF vars, books, records
<1> QED
  BY <1>1, <1>2, <1>3, <1>4, <1>5, <1>6, <1>7, <1>8, <1>9, <1>10 DEF Next, Administer

(* No approval is left over that a later release could spend a second      *)
(* time: not after the milestone was released, nor after the release was   *)
(* rolled back, nor under a role the contract's mode does not trust.       *)
THEOREM ApprovalsStayFresh == Spec => []ApprovalsFresh
<1>1. Init => ApprovalsFresh
  BY DEF Init, ApprovalsFresh
<1>2. TypeOK /\ ApprovalsFresh /\ [Next]_vars => ApprovalsFresh'
  BY NextFlags
<1> QED
  BY <1>1, <1>2, TypeCorrect, PTL DEF Spec

(***************************************************************************)
(* Close records.                                                          *)
(***************************************************************************)

(* A step may not touch what a close record summarises: an entrypoint that *)
(* writes a contract wants it not finalized, issue_reputation excepted.    *)
LEMMA NextKeepsFinalized ==
  ASSUME TypeOK, [Next]_vars, NEW x \in DOMAIN finalization
  PROVE  Frozen(x)
<1> DEFINE Same == contracts'[x] = contracts[x] /\ milestones'[x] = milestones[x]
<1>0. x \in DOMAIN contracts
  BY DEF TypeOK, RecordsTypeOK
<1>1. ASSUME NEW t \in Terms, CreateContract(t) PROVE Same
  BY <1>0, <1>1, NewContractApart
<1>2. ASSUME NEW id \in DOMAIN contracts, Participate(id), ~IssueReputation(id) PROVE Same
  <2>1. ASSUME NEW amount, DepositFunds(id, amount) PROVE Same
    BY <2>1 DEF DepositFunds, CanDeposit, Finalized
  <2>2. ASSUME NEW caller, NEW indices, ApproveMilestones(id, indices, caller) PROVE Same
    BY <2>2 DEF ApproveMilestones, books
  <2>3. ASSUME NEW caller, NEW i, ReleaseMilestone(id, i, caller) PROVE Same
    BY <2>3 DEF ReleaseMilestone, CanRelease, Finalized
  <2>4. ASSUME NEW indices, RefundUnreleasedMilestones(id, indices) PROVE Same
    BY <2>4 DEF RefundUnreleasedMilestones, CanRefund, Finalized
  <2>5. ASSUME CancelContract(id) PROVE Same
    BY <2>5 DEF CancelContract, Finalized
  <2>6. ASSUME NEW caller, RaiseDispute(id, caller) PROVE Same
    BY <2>6 DEF RaiseDispute, Finalized
  <2>7. ASSUME NEW caller, NEW r, ResolveDispute(id, caller, r) PROVE Same
    BY <2>7 DEF ResolveDispute, CanResolve, Finalized
  <2>8. ASSUME NEW finalizer, FinalizeContract(id, finalizer) PROVE Same
    BY <2>8 DEF FinalizeContract, WriteFinalizations, books
  <2>9. ASSUME SimulateIssueReputation(id) PROVE Same
    BY <2>9 DEF SimulateIssueReputation, books
  <2> HIDE DEF Same
  <2> QED
    BY <1>2, <2>1, <2>2, <2>3, <2>4, <2>5, <2>6, <2>7, <2>8, <2>9 DEF Participate
<1>3. ASSUME NEW id \in DOMAIN contracts, IssueReputation(id) PROVE Frozen(x)
  <2>1. CASE x # id
    BY <1>0, <1>3, <2>1, Untouched DEF IssueReputation
  <2>2. CASE x = id
    <3>1. contracts[x] \in ContractType
      BY <1>0 DEF TypeOK, BooksTypeOK
    <3>2. contracts'[x] = [contracts[x] EXCEPT !.reputation_issued = TRUE]
      BY <1>0, <1>3, <2>2 DEF IssueReputation, TypeOK, BooksTypeOK
    <3> QED
      BY <1>3, <3>1, <3>2 DEF Frozen, IssueReputation, ContractType
  <2> QED
    BY <2>1, <2>2
<1>4. ASSUME NEW ids, NEW finalizer, FinalizeContractsBatch(ids, finalizer) PROVE Same
  BY <1>4 DEF FinalizeContractsBatch, WriteFinalizations, books
<1>5. ASSUME Administer PROVE Same
  <2>1. ASSUME NEW id, NEW i, RollbackMilestone(id, i) PROVE Same
    BY <2>1 DEF RollbackMilestone, Finalized
  <2>2. ASSUME NEW id, RollbackContract(id) PROVE Same
    BY <2>2 DEF RollbackContract, books
  <2>3. ASSUME NEW amount, WithdrawProtocolFees(amount) PROVE Same
    BY <2>3 DEF WithdrawProtocolFees, books
  <2>4. ASSUME NEW new_bps, SetProtocolFeeBps(new_bps) PROVE Same
    BY <2>4 DEF SetProtocolFeeBps, books
  <2>5. ASSUME Pause \/ Unpause \/ ActivateEmergencyPause \/ ResolveEmergency PROVE Same
    BY <2>5 DEF Pause, Unpause, ActivateEmergencyPause, ResolveEmergency, books
  <2> HIDE DEF Same
  <2> QED
    BY <1>5, <2>1, <2>2, <2>3, <2>4, <2>5 DEF Administer
<1>6. ASSUME NEW id, NEW i, ExpireApprovals(id, i) PROVE Same
  BY <1>6 DEF ExpireApprovals, books
<1>7. ASSUME UNCHANGED vars PROVE Same
  BY <1>7 DEF vars, books
<1>8. Same => Frozen(x)
  BY <1>0, Untouched
<1> HIDE DEF Same
<1> QED
  BY <1>1, <1>2, <1>3, <1>4, <1>5, <1>6, <1>7, <1>8 DEF Next

(* A close record, but for the rating flag.                                *)
NotRated == FALSE
Unrated(record) == [record EXCEPT !.reputation_issued = NotRated]

SummaryOf(status, issued, funded, released, available, vector) ==
  [status |-> status, reputation_issued |-> issued, funded_amount |-> funded,
   released_amount |-> released, refundable_balance |-> available, milestones |-> vector]

LEMMA UnratedSummary ==
  ASSUME NEW s, NEW issued, NEW f, NEW r, NEW b, NEW v
  PROVE  Unrated(SummaryOf(s, issued, f, r, b, v)) = SummaryOf(s, NotRated, f, r, b, v)
<1> DEFINE L == Unrated(SummaryOf(s, issued, f, r, b, v))
           B == SummaryOf(s, NotRated, f, r, b, v)
           F == {"status", "reputation_issued", "funded_amount", "released_amount",
                 "refundable_balance", "milestones"}
<1>1. L = [x \in F |-> L[x]]
  BY DEF Unrated, SummaryOf
<1>2. B = [x \in F |-> B[x]]
  BY DEF SummaryOf
<1>3. \A x \in F : L[x] = B[x]
  <2>1. L["status"] = s /\ L["funded_amount"] = f /\ L["released_amount"] = r
        /\ L["refundable_balance"] = b /\ L["milestones"] = v
    BY DEF Unrated, SummaryOf
  <2>2. B["status"] = s /\ B["funded_amount"] = f /\ B["released_amount"] = r
        /\ B["refundable_balance"] = b /\ B["milestones"] = v
    BY DEF SummaryOf
  <2>3. L["reputation_issued"] = B["reputation_issued"]
    BY DEF Unrated, SummaryOf
  <2> HIDE DEF L, B
  <2> QED
    BY <2>1, <2>2, <2>3
<1> HIDE DEF L, B
<1>4. L = B
  BY <1>1, <1>2, <1>3
<1> QED
  BY <1>4 DEF L, B

(* What a frozen contract's summary says does not change, but that the     *)
(* contract may be rated.                                                  *)
LEMMA FrozenSummary ==
  ASSUME TypeOK, TypeOK', NEW x \in DOMAIN contracts, x \in DOMAIN contracts', Frozen(x)
  PROVE  \/ Summary(x)' = Summary(x)
         \/ Unrated(Summary(x)) = Summary(x) /\ Unrated(Summary(x)') = Unrated(Summary(x))
<1>1. contracts[x] \in ContractType /\ contracts'[x] \in ContractType
  BY DEF TypeOK, BooksTypeOK
<1>2. /\ contracts'[x].status = contracts[x].status
      /\ contracts'[x].funded_amount = contracts[x].funded_amount
      /\ contracts'[x].released_amount = contracts[x].released_amount
      /\ contracts'[x].refunded_amount = contracts[x].refunded_amount
  BY <1>1 DEF Frozen, ContractType
<1>3. milestones'[x] = milestones[x]
  BY DEF Frozen
<1>4. Indices(x)' = Indices(x) /\ Available(x)' = Available(x)
  BY <1>2, <1>3 DEF Indices, Available, AvailableBalance
<1> DEFINE flags == [i \in Indices(x) |->
             [amount |-> milestones[x].amounts[i],
              released |-> i \in milestones[x].released,
              refunded |-> i \in milestones[x].refunded]]
<1>5. flags' = flags
  BY <1>3, <1>4, Zenon
<1>6. Summary(x) =
        SummaryOf(contracts[x].status, contracts[x].reputation_issued,
                  contracts[x].funded_amount, contracts[x].released_amount, Available(x), flags)
  BY DEF Summary, SummaryOf
<1>7. Summary(x)' =
        SummaryOf(contracts'[x].status, contracts'[x].reputation_issued,
                  contracts'[x].funded_amount, contracts'[x].released_amount, Available(x)',
                  flags')
  BY DEF Summary, SummaryOf
<1> HIDE DEF flags
<1>8. \/ contracts'[x].reputation_issued = contracts[x].reputation_issued
      \/ contracts[x].reputation_issued = FALSE
  BY <1>1 DEF Frozen, ContractType
<1> DEFINE Of(issued) ==
             SummaryOf(contracts[x].status, issued, contracts[x].funded_amount,
                       contracts[x].released_amount, Available(x), flags)
<1>9. Summary(x) = Of(contracts[x].reputation_issued)
  BY <1>6
<1>10. Summary(x)' = Of(contracts'[x].reputation_issued)
  BY <1>2, <1>4, <1>5, <1>7
<1>11. contracts[x].reputation_issued = FALSE
           => contracts[x].reputation_issued = NotRated
  BY DEF NotRated
<1>12. \A issued : Unrated(Of(issued)) = Of(NotRated)
  BY UnratedSummary
<1> HIDE DEF Of
<1>13. CASE contracts'[x].reputation_issued = contracts[x].reputation_issued
  BY <1>9, <1>10, <1>13
<1>14. CASE contracts[x].reputation_issued = NotRated
  <2>1. Unrated(Summary(x)) = Summary(x)
    BY <1>9, <1>12, <1>14
  <2>2. Unrated(Summary(x)') = Of(NotRated) /\ Unrated(Summary(x)) = Of(NotRated)
    BY <1>9, <1>10, <1>12
  <2> QED
    BY <2>1, <2>2
<1> QED
  BY <1>8, <1>11, <1>13, <1>14

(* Where the close records of a step come from.                            *)
LEMMA RecordsOfStep ==
  ASSUME [Next]_vars, NEW x \in DOMAIN finalization'
  PROVE  \/ x \in DOMAIN finalization /\ finalization'[x] = finalization[x]
         \/ /\ finalization'[x] = Summary(x) /\ UNCHANGED books /\ x \in DOMAIN contracts
            /\ contracts[x].status \in {"Completed", "Disputed"}
<1> DEFINE Kept == x \in DOMAIN finalization /\ finalization'[x] = finalization[x]
           New  == /\ finalization'[x] = Summary(x) /\ UNCHANGED books /\ x \in DOMAIN contracts
                   /\ contracts[x].status \in {"Completed", "Disputed"}
<1>1. ASSUME NEW t \in Terms, CreateContract(t) PROVE Kept
  BY <1>1 DEF CreateContract, records
<1>2. ASSUME NEW id \in DOMAIN contracts, Participate(id) PROVE Kept \/ New
  <2>1. ASSUME NEW amount, DepositFunds(id, amount) PROVE Kept
    BY <2>1 DEF DepositFunds, records
  <2>2. ASSUME NEW caller, NEW indices, ApproveMilestones(id, indices, caller) PROVE Kept
    BY <2>2 DEF ApproveMilestones
  <2>3. ASSUME NEW caller, NEW i, ReleaseMilestone(id, i, caller) PROVE Kept
    BY <2>3 DEF ReleaseMilestone
  <2>4. ASSUME NEW indices, RefundUnreleasedMilestones(id, indices) PROVE Kept
    BY <2>4 DEF RefundUnreleasedMilestones
  <2>5. ASSUME CancelContract(id) PROVE Kept
    BY <2>5 DEF CancelContract, records
  <2>6. ASSUME NEW caller, RaiseDispute(id, caller) PROVE Kept
    BY <2>6 DEF RaiseDispute
  <2>7. ASSUME NEW caller, NEW r, ResolveDispute(id, caller, r) PROVE Kept
    BY <2>7 DEF ResolveDispute
  <2>8. ASSUME NEW finalizer, FinalizeContract(id, finalizer) PROVE Kept \/ New
    BY <2>8 DEF FinalizeContract, WriteFinalizations, Finalizable
  <2>9. ASSUME IssueReputation(id) \/ SimulateIssueReputation(id) PROVE Kept
    BY <2>9 DEF IssueReputation, SimulateIssueReputation
  <2> HIDE DEF Kept, New
  <2> QED
    BY <1>2, <2>1, <2>2, <2>3, <2>4, <2>5, <2>6, <2>7, <2>8, <2>9 DEF Participate
<1>3. ASSUME NEW ids \in SUBSET DOMAIN contracts, NEW finalizer, FinalizeContractsBatch(ids, finalizer)
      PROVE  Kept \/ New
  BY <1>3 DEF FinalizeContractsBatch, WriteFinalizations, Finalizable
<1>4. ASSUME Administer PROVE Kept
  <2>1. ASSUME NEW id, NEW i, RollbackMilestone(id, i) PROVE Kept
    BY <2>1 DEF RollbackMilestone
  <2>2. ASSUME NEW id, RollbackContract(id) PROVE Kept
    BY <2>2 DEF RollbackContract
  <2>3. ASSUME NEW amount, WithdrawProtocolFees(amount) PROVE Kept
    BY <2>3 DEF WithdrawProtocolFees, records
  <2>4. ASSUME NEW new_bps, SetProtocolFeeBps(new_bps) PROVE Kept
    BY <2>4 DEF SetProtocolFeeBps, records
  <2>5. ASSUME Pause \/ Unpause \/ ActivateEmergencyPause \/ ResolveEmergency PROVE Kept
    BY <2>5 DEF Pause, Unpause, ActivateEmergencyPause, ResolveEmergency, records
  <2> HIDE DEF Kept
  <2> QED
    BY <1>4, <2>1, <2>2, <2>3, <2>4, <2>5 DEF Administer
<1>5. ASSUME NEW id, NEW i, ExpireApprovals(id, i) PROVE Kept
  BY <1>5 DEF ExpireApprovals
<1>6. ASSUME UNCHANGED vars PROVE Kept
  BY <1>6 DEF vars, records
<1> HIDE DEF Kept, New
<1>7. Kept \/ New
  BY <1>1, <1>2, <1>3, <1>4, <1>5, <1>6 DEF Next
<1> QED
  BY <1>7 DEF Kept, New

LEMMA NextSummaries ==
  ASSUME TypeOK, TypeOK', SummaryIsCurrent, [Next]_vars
  PROVE  SummaryIsCurrent'
<1> SUFFICES ASSUME NEW x \in DOMAIN finalization'
             PROVE  finalization'[x] \in {Summary(x)', Unrated(Summary(x)')}
  BY DEF SummaryIsCurrent, Unrated, NotRated
<1>1. x \in DOMAIN contracts'
  BY DEF TypeOK, RecordsTypeOK
<1>2. CASE x \in DOMAIN finalization /\ finalization'[x] = finalization[x]
  <2>1. x \in DOMAIN contracts
    BY <1>2 DEF TypeOK, RecordsTypeOK
  <2>2. finalization[x] \in {Summary(x), Unrated(Summary(x))}
    BY <1>2 DEF SummaryIsCurrent, Unrated, NotRated
  <2> QED
    BY <1>1, <1>2, <2>1, <2>2, NextKeepsFinalized, FrozenSummary
<1>3. CASE finalization'[x] = Summary(x) /\ UNCHANGED books /\ x \in DOMAIN contracts
  <2>1. Frozen(x)
    BY <1>3, Untouched DEF books
  <2> QED
    BY <1>1, <1>3, <2>1, FrozenSummary
<1> QED
  BY <1>2, <1>3, RecordsOfStep

(* What a close record says of a contract stays true as long as the record *)
(* stands, whichever entrypoints are called on the contract meanwhile: all *)
(* it can miss is a rating given since.                                    *)
THEOREM SummariesStayCurrent == Spec => []SummaryIsCurrent
<1>1. Init => SummaryIsCurrent
  BY DEF Init, SummaryIsCurrent
<1>2. TypeOK /\ TypeOK' /\ SummaryIsCurrent /\ [Next]_vars => SummaryIsCurrent'
  BY NextSummaries
<1> QED
  BY <1>1, <1>2, TypeCorrect, PTL DEF Spec
=============================================================================
