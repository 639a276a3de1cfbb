------------------------- MODULE EscrowBooksProofs -------------------------
(***************************************************************************)
(* Theorems about Escrow's books: the counters of a contract are the sums  *)
(* of its milestones, its status agrees with both, and it moves as         *)
(* EscrowLifecycle describes.  What the previews of EscrowViews foretell   *)
(* and what the copies of EscrowCopies do follows from the same invariant. *)
(***************************************************************************)
EXTENDS EscrowProofs, EscrowViews, EscrowCopies, SumTheorems

(***************************************************************************)
(* Sums over a milestone vector.                                           *)
(***************************************************************************)

(* No milestone is disposed of twice, only a released one has a fee, and   *)
(* there is at least one.                                                  *)
FlagsOK(m) ==
  /\ m.released \cap m.refunded = {}
  /\ \A i \in DOMAIN m.amounts \ m.released : m.protocol_fee[i] = 0
  /\ DOMAIN m.amounts # {}

LEMMA VectorSums ==
  ASSUME NEW m, MilestonesType(m), VectorOK(m), NEW S \in SUBSET DOMAIN m.amounts
  PROVE  /\ IsFiniteSet(S)
         /\ AmountOf(m.amounts, S) \in Nat /\ AmountOf(m.protocol_fee, S) \in Nat
         /\ S # {} => AmountOf(m.amounts, S) > 0
<1>1. DOMAIN m.amounts = 1 .. Len(m.amounts) /\ Len(m.amounts) \in Nat
  BY DEF MilestonesType
<1>2. IsFiniteSet(S)
  <2>1. IsFiniteSet(DOMAIN m.amounts)
    <3> DEFINE n == Len(m.amounts)
    <3>1. n \in Int /\ DOMAIN m.amounts = 1 .. n
      BY <1>1
    <3> HIDE DEF n
    <3> QED
      BY <3>1, FS_Interval
  <2> QED
    BY <2>1, FS_Subset
<1>3. \A i \in S : m.amounts[i] \in Nat \ {0} /\ m.protocol_fee[i] \in Nat
  BY DEF MilestonesType, VectorOK
<1>4. AmountOf(m.amounts, S) \in Nat /\ AmountOf(m.protocol_fee, S) \in Nat
  BY <1>2, <1>3, SumIsNat DEF AmountOf
<1>5. ASSUME S # {} PROVE AmountOf(m.amounts, S) > 0
  <2>1. AmountOf(m.amounts, S) \in Nat \ {0}
    BY <1>2, <1>3, <1>5, SumIsPositive DEF AmountOf
  <2> QED
    BY <2>1
<1> QED
  BY <1>2, <1>4, <1>5

(* Two sets of milestones that do not meet.                                *)
LEMMA AmountsAdd ==
  ASSUME NEW m, MilestonesType(m), VectorOK(m),
         NEW A \in SUBSET DOMAIN m.amounts, NEW B \in SUBSET DOMAIN m.amounts, A \cap B = {}
  PROVE  AmountOf(m.amounts, A \cup B) = AmountOf(m.amounts, A) + AmountOf(m.amounts, B)
<1>1. IsFiniteSet(A) /\ IsFiniteSet(B)
  BY VectorSums
<1>2. \A i \in A \cup B : m.amounts[i] \in Int
  BY DEF MilestonesType
<1> QED
  BY <1>1, <1>2, SumOfUnion DEF AmountOf

(* The milestones taken out of a set.                                      *)
LEMMA AmountsWithout ==
  ASSUME NEW m, MilestonesType(m), VectorOK(m),
         NEW A \in SUBSET DOMAIN m.amounts, NEW i \in A
  PROVE  AmountOf(m.amounts, A) = m.amounts[i] + AmountOf(m.amounts, A \ {i})
<1>1. IsFiniteSet(A)
  BY VectorSums
<1>2. \A x \in A : m.amounts[x] \in Int
  BY DEF MilestonesType
<1> QED
  BY <1>1, <1>2, SumWithout DEF AmountOf

(* The price of a contract is what was released, what was refunded and     *)
(* what is left; the fees recorded are those of the milestones released.   *)
LEMMA PriceSplits ==
  ASSUME NEW m, MilestonesType(m), VectorOK(m), FlagsOK(m)
  PROVE  /\ TotalAmount(m.amounts) =
              AmountOf(m.amounts, m.released) + AmountOf(m.amounts, m.refunded)
                + AmountOf(m.amounts, DOMAIN m.amounts \ (m.released \cup m.refunded))
         /\ TotalAmount(m.protocol_fee) = AmountOf(m.protocol_fee, m.released)
         /\ AmountOf(m.protocol_fee, m.released) <= AmountOf(m.amounts, m.released)
<1> DEFINE D == DOMAIN m.amounts
           R == m.released
           F == m.refunded
           U == D \ (R \cup F)
<1>1. R \subseteq D /\ F \subseteq D /\ R \cap F = {} /\ DOMAIN m.protocol_fee = D
  BY DEF MilestonesType, FlagsOK
<1>2. TotalAmount(m.amounts) = AmountOf(m.amounts, D)
  BY DEF TotalAmount, SumFunction, AmountOf
<1>3. TotalAmount(m.protocol_fee) = AmountOf(m.protocol_fee, D)
  BY <1>1 DEF TotalAmount, SumFunction, AmountOf
<1>4. D = (R \cup F) \cup U /\ (R \cup F) \cap U = {} /\ U \subseteq D /\ R \cup F \subseteq D
  BY <1>1
<1>5. AmountOf(m.amounts, D) = AmountOf(m.amounts, (R \cup F) \cup U)
  BY <1>4, Zenon
<1>6. AmountOf(m.amounts, (R \cup F) \cup U) = AmountOf(m.amounts, R \cup F) + AmountOf(m.amounts, U)
  <2> HIDE DEF U, R, F
  <2> QED
    BY <1>4, AmountsAdd
<1>7. AmountOf(m.amounts, R \cup F) = AmountOf(m.amounts, R) + AmountOf(m.amounts, F)
  BY <1>1, AmountsAdd
<1>8. AmountOf(m.protocol_fee, D) = AmountOf(m.protocol_fee, R)
  <2> DEFINE N == D \ R
  <2>1. IsFiniteSet(R) /\ IsFiniteSet(N) /\ N \subseteq D
    BY <1>1, VectorSums
  <2>2. AmountOf(m.protocol_fee, N) = 0
    <3>1. \A i \in N : m.protocol_fee[i] = 0
      BY DEF FlagsOK
    <3> QED
      BY <2>1, <3>1, SumOfZeros DEF AmountOf
  <2>3. AmountOf(m.protocol_fee, R \cup N) = AmountOf(m.protocol_fee, R) + AmountOf(m.protocol_fee, N)
    <3>1. \A i \in R \cup N : m.protocol_fee[i] \in Int
      BY <1>1 DEF MilestonesType
    <3>2. R \cap N = {}
      OBVIOUS
    <3> HIDE DEF N, R
    <3> QED
      BY <2>1, <3>1, <3>2, SumOfUnion DEF AmountOf
  <2>4. D = R \cup N
    BY <1>1
  <2>5. AmountOf(m.protocol_fee, D) = AmountOf(m.protocol_fee, R \cup N)
    BY <2>4, Zenon
  <2>6. AmountOf(m.protocol_fee, R) \in Nat
    BY <1>1, VectorSums
  <2> HIDE DEF N, R, D
  <2> QED
    BY <2>2, <2>3, <2>5, <2>6
<1>9. AmountOf(m.protocol_fee, R) <= AmountOf(m.amounts, R)
  <2>1. IsFiniteSet(R)
    BY <1>1, VectorSums
  <2>2. \A i \in R : m.protocol_fee[i] \in Int /\ m.amounts[i] \in Int /\ m.protocol_fee[i] <= m.amounts[i]
    BY <1>1 DEF MilestonesType, VectorOK
  <2> QED
    BY <2>1, <2>2, SumsOrdered DEF AmountOf
<1> QED
  BY <1>2, <1>3, <1>5, <1>6, <1>7, <1>8, <1>9
(***************************************************************************)
(* What each entrypoint does to the record c of its contract and to its    *)
(* milestones m, field by field.                                           *)
(***************************************************************************)
SameDeal(c2, c) ==
  /\ c2.client = c.client /\ c2.freelancer = c.freelancer /\ c2.arbiter = c.arbiter
  /\ c2.release_authorization = c.release_authorization

SameTerms(c2, c) == SameDeal(c2, c) /\ c2.reputation_issued = c.reputation_issued

Becomes(id, c2, m2) ==
  contracts' = [contracts EXCEPT ![id] = c2] /\ milestones' = [milestones EXCEPT ![id] = m2]

LEMMA ContractFacts ==
  ASSUME AccountingInv, NEW id \in DOMAIN contracts
  PROVE  /\ contracts[id] \in ContractType /\ MilestonesType(milestones[id])
         /\ VectorOK(milestones[id]) /\ ContractOK(contracts[id], milestones[id])
         /\ custody \in Int /\ accumulated_fees \in Int /\ custody >= 0 /\ accumulated_fees >= 0
         /\ unrecovered \in Int /\ undistributed \in Int
         /\ protocol_fee_bps \in 0 .. BPS_DENOMINATOR
         /\ Available(id) = contracts[id].funded_amount - contracts[id].released_amount
                              - contracts[id].refunded_amount
  BY DEF AccountingInv, TypeOK, BooksTypeOK, FundsTypeOK, ControlTypeOK, FeesRecorded,
         AccountingBound, ContractOK, Available, AvailableBalance

DepositWith(id, c, m, c2, amount) ==
  /\ Becomes(id, c2, m) /\ SameTerms(c2, c)
  /\ amount \in Nat \ {0} /\ c.status \in {"Created", "PartiallyFunded"}
  /\ c2.funded_amount = c.funded_amount + amount
  /\ c2.funded_amount <= TotalAmount(m.amounts)
  /\ c2.released_amount = c.released_amount /\ c2.refunded_amount = c.refunded_amount
  /\ \/ c2.funded_amount = TotalAmount(m.amounts) /\ c2.status = "Funded"
     \/ c2.funded_amount # TotalAmount(m.amounts) /\ c2.status = "PartiallyFunded"
  /\ custody' = custody + amount
  /\ UNCHANGED <<records, accumulated_fees, unrecovered, undistributed, control>>

LEMMA DepositEffect ==
  ASSUME AccountingInv, NEW id \in DOMAIN contracts, NEW amount \in DepositAmounts,
         DepositFunds(id, amount)
  PROVE  \E c2 \in ContractType : DepositWith(id, contracts[id], milestones[id], c2, amount)
<1> DEFINE c      == contracts[id]
           m      == milestones[id]
           funded == c.funded_amount + amount
           status == IF funded = TotalAmount(m.amounts) THEN "Funded" ELSE "PartiallyFunded"
           c2     == [c EXCEPT !.funded_amount = funded, !.status = status]
<1>1. /\ c.status \in {"Created", "PartiallyFunded"} /\ amount > 0
      /\ funded <= TotalAmount(m.amounts)
      /\ contracts' = [contracts EXCEPT ![id] = c2] /\ UNCHANGED milestones
      /\ custody' = custody + amount
      /\ UNCHANGED <<records, accumulated_fees, unrecovered, undistributed, control>>
  BY DEF DepositFunds, CanDeposit, Deposited
<1>2. c \in ContractType /\ amount \in Int
  BY InputsAssumption, ContractFacts
<1>3. funded \in Int /\ status \in ContractStatus
  BY <1>2 DEF ContractType, ContractStatus
<1>4. \/ funded = TotalAmount(m.amounts) /\ status = "Funded"
      \/ funded # TotalAmount(m.amounts) /\ status = "PartiallyFunded"
  OBVIOUS
<1>5. milestones' = [milestones EXCEPT ![id] = m]
  BY <1>1, SameMilestones DEF AccountingInv
<1> HIDE DEF status, m
<1>6. /\ c2 \in ContractType /\ c2.funded_amount = funded /\ c2.status = status
      /\ c2.released_amount = c.released_amount /\ c2.refunded_amount = c.refunded_amount
      /\ SameTerms(c2, c)
  <2> HIDE DEF funded
  <2> QED
    BY <1>2, <1>3 DEF ContractType, SameTerms, SameDeal
<1> HIDE DEF c2
<1>7. Becomes(id, c2, m)
  BY <1>1, <1>5 DEF Becomes
<1>8. DepositWith(id, c, m, c2, amount)
  BY <1>1, <1>2, <1>4, <1>6, <1>7 DEF DepositWith
<1> QED
  BY <1>6, <1>8 DEF m

ReleaseWith(id, i, c, m, c2, m2, fee) ==
  /\ Becomes(id, c2, m2) /\ SameTerms(c2, c) /\ MilestonesType(m2)
  /\ m2.amounts = m.amounts
  /\ m2.released = m.released \cup {i} /\ m2.refunded = m.refunded
  /\ m2.protocol_fee = [m.protocol_fee EXCEPT ![i] = fee]
  /\ i \in DOMAIN m.amounts \ (m.released \cup m.refunded)
  /\ c.status = "Funded" /\ c2.status = StatusAfter(c, m2)
  /\ fee = ProtocolFee(m.amounts[i], protocol_fee_bps) /\ fee \in 0 .. m.amounts[i]
  /\ c2.released_amount = c.released_amount + m.amounts[i] - fee
  /\ c2.refunded_amount = c.refunded_amount /\ c2.funded_amount = c.funded_amount
  /\ custody' = custody - (m.amounts[i] - fee)
  /\ accumulated_fees' = accumulated_fees + fee
  /\ CreditOnCompletion(c2)
  /\ UNCHANGED <<disputes, finalization, unrecovered, undistributed, control>>

LEMMA ReleaseEffect ==
  ASSUME AccountingInv, NEW id \in DOMAIN contracts, NEW i \in Indices(id),
         NEW caller \in Address, ReleaseMilestone(id, i, caller)
  PROVE  \E c2 \in ContractType, fee \in Int : \E m2 :
           ReleaseWith(id, i, contracts[id], milestones[id], c2, m2, fee)
<1> DEFINE c      == contracts[id]
           m      == milestones[id]
           gross  == m.amounts[i]
           fee    == ProtocolFee(gross, protocol_fee_bps)
           net    == NetAmount(gross, fee)
           m2     == Released(m, i, fee)
           status == StatusAfter(c, m2)
           paid   == c.released_amount + net
           c2     == [c EXCEPT !.released_amount = paid, !.status = status]
<1>1. /\ contracts' = [contracts EXCEPT ![id] = c2] /\ milestones' = [milestones EXCEPT ![id] = m2]
      /\ c.status = "Funded" /\ i \in DOMAIN m.amounts \ (m.released \cup m.refunded)
      /\ custody' = custody - net /\ accumulated_fees' = accumulated_fees + fee
      /\ CreditOnCompletion(c2)
      /\ UNCHANGED <<disputes, finalization, unrecovered, undistributed, control>>
  BY DEF ReleaseMilestone, CanRelease, Paid, TransferOut, Unresolved, Indices
<1>2. /\ c \in ContractType /\ MilestonesType(m) /\ VectorOK(m)
      /\ protocol_fee_bps \in 0 .. BPS_DENOMINATOR
  BY ContractFacts
<1>3. gross \in Nat
  BY <1>1, <1>2 DEF VectorOK, MilestonesType
<1>4. fee \in 0 .. gross
  BY <1>2, <1>3, FeeWithinAmount
<1> HIDE DEF m
<1>5. /\ MilestonesType(m2) /\ m2.amounts = m.amounts
      /\ m2.released = m.released \cup {i} /\ m2.refunded = m.refunded
      /\ m2.protocol_fee = [m.protocol_fee EXCEPT ![i] = fee]
  <2>1. fee \in Int /\ i \in DOMAIN m.amounts
    BY <1>1, <1>3, <1>4
  <2> HIDE DEF fee
  <2>2. MilestonesType(m2)
    BY <1>2, <2>1, ReleasedVector
  <2>3. m2.amounts = m.amounts /\ m2.released = m.released \cup {i} /\ m2.refunded = m.refunded
    BY <1>2 DEF Released, MilestonesType
  <2>4. m2.protocol_fee = [m.protocol_fee EXCEPT ![i] = fee]
    BY <1>2, <2>1, ReleasedVector
  <2> HIDE DEF m2
  <2> QED
    BY <2>2, <2>3, <2>4
<1> HIDE DEF m2
<1>6. status \in ContractStatus
  BY <1>2 DEF StatusAfter, ContractStatus, ContractType
<1>7. fee \in Int /\ paid \in Int /\ paid = c.released_amount + gross - fee /\ net = gross - fee
  BY <1>2, <1>3, <1>4 DEF NetAmount, ContractType
<1> HIDE DEF status, paid, net, fee, gross
<1>8. /\ c2 \in ContractType /\ c2.released_amount = paid /\ c2.status = status
      /\ c2.funded_amount = c.funded_amount /\ c2.refunded_amount = c.refunded_amount
      /\ SameTerms(c2, c)
  BY <1>2, <1>6, <1>7 DEF ContractType, SameTerms, SameDeal
<1> HIDE DEF c2
<1>9. Becomes(id, c2, m2)
  BY <1>1 DEF Becomes
<1>10. fee = ProtocolFee(m.amounts[i], protocol_fee_bps) /\ gross = m.amounts[i]
  BY DEF fee, gross
<1>11. status = StatusAfter(c, m2)
  BY DEF status
<1>12. ReleaseWith(id, i, c, m, c2, m2, fee)
  BY <1>1, <1>4, <1>5, <1>7, <1>8, <1>9, <1>10, <1>11 DEF ReleaseWith
<1> QED
  BY <1>7, <1>8, <1>12 DEF m

RollbackWith(id, i, c, m, c2, m2, fee, released, refunded, reversed) ==
  /\ Becomes(id, c2, m2) /\ SameTerms(c2, c) /\ MilestonesType(m2)
  /\ m2.amounts = m.amounts
  /\ m2.released = m.released \ {i} /\ m2.refunded = m.refunded \ {i}
  /\ m2.protocol_fee =
       [m.protocol_fee EXCEPT ![i] = IF i \in m.released THEN 0 ELSE m.protocol_fee[i]]
  /\ i \in m.released \cup m.refunded
  /\ c.status \in RollbackStatus /\ c2.status = c.status
  /\ fee = (IF i \in m.released THEN m.protocol_fee[i] ELSE 0)
  /\ released = (IF i \in m.released THEN m.amounts[i] - m.protocol_fee[i] ELSE 0)
  /\ refunded = (IF i \in m.refunded THEN m.amounts[i] ELSE 0)
  /\ c2.released_amount = c.released_amount - released
  /\ c2.refunded_amount = c.refunded_amount - refunded
  /\ c2.funded_amount = c.funded_amount
  /\ accumulated_fees' = accumulated_fees - reversed
  /\ unrecovered' = unrecovered + released + refunded + (fee - reversed)
  /\ UNCHANGED <<disputes, finalization, pending_credits, custody, undistributed, control>>

LEMMA RollbackEffect ==
  ASSUME AccountingInv, NEW id \in DOMAIN contracts, NEW i \in Indices(id),
         RollbackMilestone(id, i)
  PROVE  \E c2 \in ContractType, fee \in Nat, released \in Nat, refunded \in Nat, reversed \in Int :
           \E m2 : RollbackWith(id, i, contracts[id], milestones[id], c2, m2,
                                fee, released, refunded, reversed)
<1> DEFINE c        == contracts[id]
           m        == milestones[id]
           fee      == IF i \in m.released THEN m.protocol_fee[i] ELSE 0
           released == IF i \in m.released THEN NetAmount(m.amounts[i], fee) ELSE 0
           refunded == IF i \in m.refunded THEN m.amounts[i] ELSE 0
           paid     == c.released_amount - released
           returned == c.refunded_amount - refunded
           reversed == ReversedFee(fee)
           c2       == [c EXCEPT !.released_amount = paid, !.refunded_amount = returned]
           m2       == RolledBack(m, i)
<1>1. /\ contracts' = [contracts EXCEPT ![id] = c2] /\ milestones' = [milestones EXCEPT ![id] = m2]
      /\ i \in m.released \cup m.refunded /\ c.status \in RollbackStatus
      /\ accumulated_fees' = accumulated_fees - reversed
      /\ unrecovered' = unrecovered + released + refunded + (fee - reversed)
      /\ UNCHANGED <<disputes, finalization, pending_credits, custody, undistributed, control>>
  BY DEF RollbackMilestone
<1>2. c \in ContractType /\ MilestonesType(m) /\ VectorOK(m) /\ i \in DOMAIN m.amounts
  BY ContractFacts DEF Indices
<1>3. fee \in Nat /\ released \in Nat /\ refunded \in Nat
  BY <1>2 DEF VectorOK, MilestonesType, NetAmount
<1>4. /\ fee = (IF i \in m.released THEN m.protocol_fee[i] ELSE 0)
      /\ released = (IF i \in m.released THEN m.amounts[i] - m.protocol_fee[i] ELSE 0)
      /\ refunded = (IF i \in m.refunded THEN m.amounts[i] ELSE 0)
  BY DEF NetAmount
<1> HIDE DEF fee, released, refunded
<1>5. reversed \in Int
  BY <1>3 DEF ReversedFee
<1> HIDE DEF m, reversed
<1>6. /\ MilestonesType(m2) /\ m2.amounts = m.amounts
      /\ m2.released = m.released \ {i} /\ m2.refunded = m.refunded \ {i}
      /\ m2.protocol_fee =
           [m.protocol_fee EXCEPT ![i] = IF i \in m.released THEN 0 ELSE m.protocol_fee[i]]
  <2>1. MilestonesType(m2)
    BY <1>2, RolledBackVector
  <2>2. m2.amounts = m.amounts /\ m2.released = m.released \ {i} /\ m2.refunded = m.refunded \ {i}
    BY <1>2, RolledBackVector
  <2>3. m2.protocol_fee =
           [m.protocol_fee EXCEPT ![i] = IF i \in m.released THEN 0 ELSE m.protocol_fee[i]]
    BY <1>2, RolledBackVector
  <2> HIDE DEF m2
  <2> QED
    BY <2>1, <2>2, <2>3
<1> HIDE DEF m2
<1>7. paid \in Int /\ returned \in Int
  BY <1>2, <1>3 DEF ContractType
<1> HIDE DEF paid, returned
<1>8. /\ c2 \in ContractType /\ c2.released_amount = paid /\ c2.refunded_amount = returned
      /\ c2.funded_amount = c.funded_amount /\ c2.status = c.status /\ SameTerms(c2, c)
  BY <1>2, <1>7 DEF ContractType, SameTerms, SameDeal
<1> HIDE DEF c2
<1>9. Becomes(id, c2, m2)
  BY <1>1 DEF Becomes
<1>10. paid = c.released_amount - released /\ returned = c.refunded_amount - refunded
  BY DEF paid, returned
<1>11. RollbackWith(id, i, c, m, c2, m2, fee, released, refunded, reversed)
  BY <1>1, <1>4, <1>6, <1>8, <1>9, <1>10 DEF RollbackWith, m
<1> QED
  BY <1>3, <1>5, <1>8, <1>11 DEF m
RefundWith(id, indices, c, m, c2, m2, total) ==
  /\ Becomes(id, c2, m2) /\ SameTerms(c2, c) /\ MilestonesType(m2)
  /\ m2.amounts = m.amounts /\ m2.protocol_fee = m.protocol_fee
  /\ m2.released = m.released /\ m2.refunded = m.refunded \cup indices
  /\ indices # {} /\ indices \subseteq DOMAIN m.amounts \ (m.released \cup m.refunded)
  /\ c.status \in {"Created", "Funded", "Disputed"} /\ c2.status = StatusAfter(c, m2)
  /\ total = AmountOf(m.amounts, indices)
  /\ total <= c.funded_amount - c.released_amount - c.refunded_amount
  /\ c2.refunded_amount = c.refunded_amount + total
  /\ c2.released_amount = c.released_amount /\ c2.funded_amount = c.funded_amount
  /\ custody' = custody - total
  /\ CreditOnCompletion(c2)
  /\ UNCHANGED <<approvals, disputes, finalization, accumulated_fees, unrecovered,
                 undistributed, control>>

LEMMA RefundEffect ==
  ASSUME AccountingInv, NEW id \in DOMAIN contracts, NEW indices \in SUBSET Indices(id),
         RefundUnreleasedMilestones(id, indices)
  PROVE  \E c2 \in ContractType, total \in Nat : \E m2 :
           RefundWith(id, indices, contracts[id], milestones[id], c2, m2, total)
<1> DEFINE c        == contracts[id]
           m        == milestones[id]
           total    == AmountOf(m.amounts, indices)
           m2       == Refunded(m, indices)
           status   == StatusAfter(c, m2)
           returned == c.refunded_amount + total
           c2       == [c EXCEPT !.refunded_amount = returned, !.status = status]
<1>1. /\ contracts' = [contracts EXCEPT ![id] = c2] /\ milestones' = [milestones EXCEPT ![id] = m2]
      /\ indices # {} /\ indices \subseteq DOMAIN m.amounts \ (m.released \cup m.refunded)
      /\ c.status \in {"Created", "Funded", "Disputed"}
      /\ total \in Stroops /\ total <= Available(id)
      /\ custody' = custody - total /\ CreditOnCompletion(c2)
      /\ UNCHANGED <<approvals, disputes, finalization, accumulated_fees, unrecovered,
                     undistributed, control>>
  BY DEF RefundUnreleasedMilestones, CanRefund, TakenBack, TransferOut, Unresolved, Indices
<1>2. /\ c \in ContractType /\ MilestonesType(m)
      /\ Available(id) = c.funded_amount - c.released_amount - c.refunded_amount
  BY ContractFacts
<1>3. total \in Nat
  BY <1>1, AmountsAssumption DEF Stroops
<1>4. returned \in Int /\ returned = c.refunded_amount + total
  <2> HIDE DEF total
  <2> QED
    BY <1>2, <1>3 DEF ContractType
<1> HIDE DEF m
<1>5. indices \in SUBSET DOMAIN m.amounts
  BY <1>1
<1>6. /\ MilestonesType(m2) /\ m2.amounts = m.amounts /\ m2.protocol_fee = m.protocol_fee
      /\ m2.released = m.released /\ m2.refunded = m.refunded \cup indices
  <2>1. MilestonesType(m2)
    BY <1>2, <1>5, RefundedVector
  <2>2. /\ m2.amounts = m.amounts /\ m2.protocol_fee = m.protocol_fee
        /\ m2.released = m.released /\ m2.refunded = m.refunded \cup indices
    BY <1>2 DEF Refunded, MilestonesType
  <2> HIDE DEF m2
  <2> QED
    BY <2>1, <2>2
<1> HIDE DEF m2
<1>7. status \in ContractStatus /\ status = StatusAfter(c, m2)
  BY <1>2 DEF StatusAfter, ContractStatus, ContractType
<1>8. total = AmountOf(m.amounts, indices)
  OBVIOUS
<1> HIDE DEF status, returned, total
<1>9. /\ c2 \in ContractType /\ c2.refunded_amount = returned /\ c2.status = status
      /\ c2.funded_amount = c.funded_amount /\ c2.released_amount = c.released_amount
      /\ SameTerms(c2, c)
  BY <1>2, <1>4, <1>7 DEF ContractType, SameTerms, SameDeal
<1> HIDE DEF c2
<1>10. Becomes(id, c2, m2)
  BY <1>1 DEF Becomes
<1>11. RefundWith(id, indices, c, m, c2, m2, total)
  BY <1>1, <1>2, <1>4, <1>6, <1>7, <1>8, <1>9, <1>10 DEF RefundWith
<1> QED
  BY <1>3, <1>9, <1>11 DEF m

CancelWith(id, c, m, c2, left) ==
  /\ Becomes(id, c2, m) /\ SameTerms(c2, c)
  /\ c.status \in {"Created", "Funded"} /\ c2.status = "Cancelled"
  /\ c.released_amount = 0
  /\ left = c.funded_amount - c.released_amount - c.refunded_amount
  /\ c2.released_amount = c.released_amount /\ c2.refunded_amount = c.refunded_amount + left
  /\ c2.funded_amount = c.funded_amount
  /\ custody' = custody - left
  /\ UNCHANGED <<records, accumulated_fees, unrecovered, undistributed, control>>

LEMMA CancelEffect ==
  ASSUME AccountingInv, NEW id \in DOMAIN contracts, CancelContract(id)
  PROVE  \E c2 \in ContractType, left \in Int :
           CancelWith(id, contracts[id], milestones[id], c2, left)
<1> DEFINE c        == contracts[id]
           m        == milestones[id]
           left     == Available(id)
           returned == c.refunded_amount + left
           c2       == [c EXCEPT !.refunded_amount = returned, !.status = "Cancelled"]
<1>1. /\ contracts' = [contracts EXCEPT ![id] = c2] /\ UNCHANGED milestones
      /\ c.status \in {"Created", "Funded"} /\ c.released_amount = 0
      /\ custody' = custody - left
      /\ UNCHANGED <<records, accumulated_fees, unrecovered, undistributed, control>>
  BY DEF CancelContract, TransferOut
<1>2. /\ c \in ContractType
      /\ left = c.funded_amount - c.released_amount - c.refunded_amount
  BY ContractFacts
<1>3. left \in Int /\ returned \in Int /\ returned = c.refunded_amount + left
  BY <1>2 DEF ContractType
<1>4. milestones' = [milestones EXCEPT ![id] = m]
  BY <1>1, SameMilestones DEF AccountingInv
<1> HIDE DEF m, left, returned
<1>5. /\ c2 \in ContractType /\ c2.refunded_amount = returned /\ c2.status = "Cancelled"
      /\ c2.funded_amount = c.funded_amount /\ c2.released_amount = c.released_amount
      /\ SameTerms(c2, c)
  BY <1>2, <1>3 DEF ContractType, ContractStatus, SameTerms, SameDeal
<1> HIDE DEF c2
<1>6. CancelWith(id, c, m, c2, left)
  BY <1>1, <1>2, <1>3, <1>4, <1>5 DEF CancelWith, Becomes
<1> QED
  BY <1>3, <1>5, <1>6 DEF m

RaiseWith(id, c, m, c2) ==
  /\ Becomes(id, c2, m) /\ SameTerms(c2, c)
  /\ c.status \in DisputableStatus /\ c2.status = "Disputed" /\ c.arbiter # NoArbiter
  /\ c2.released_amount = c.released_amount /\ c2.refunded_amount = c.refunded_amount
  /\ c2.funded_amount = c.funded_amount
  /\ UNCHANGED <<finalization, pending_credits, funds, control>>

LEMMA RaiseEffect ==
  ASSUME AccountingInv, NEW id \in DOMAIN contracts, NEW caller, RaiseDispute(id, caller)
  PROVE  \E c2 \in ContractType : RaiseWith(id, contracts[id], milestones[id], c2)
<1> DEFINE c  == contracts[id]
           m  == milestones[id]
           c2 == [c EXCEPT !.status = "Disputed"]
<1>1. /\ contracts' = [contracts EXCEPT ![id] = c2] /\ UNCHANGED milestones
      /\ c.status \in DisputableStatus /\ c.arbiter # NoArbiter
      /\ UNCHANGED <<finalization, pending_credits, funds, control>>
  BY DEF RaiseDispute
<1>2. c \in ContractType
  BY ContractFacts
<1>3. milestones' = [milestones EXCEPT ![id] = m]
  BY <1>1, SameMilestones DEF AccountingInv
<1> HIDE DEF m
<1>4. /\ c2 \in ContractType /\ c2.status = "Disputed"
      /\ c2.released_amount = c.released_amount /\ c2.refunded_amount = c.refunded_amount
      /\ c2.funded_amount = c.funded_amount /\ SameTerms(c2, c)
  BY <1>2 DEF ContractType, ContractStatus, SameTerms, SameDeal
<1> HIDE DEF c2
<1>5. RaiseWith(id, c, m, c2)
  BY <1>1, <1>3, <1>4 DEF RaiseWith, Becomes
<1> QED
  BY <1>4, <1>5 DEF m

ResolveWith(id, c, m, c2) ==
  /\ Becomes(id, c2, m) /\ SameTerms(c2, c)
  /\ c.status = "Disputed"
  /\ c2.funded_amount = c.funded_amount
  /\ c2.released_amount + c2.refunded_amount = c.funded_amount
  /\ c2.released_amount >= 0 /\ c2.refunded_amount >= 0
  /\ \/ c2.status = "Refunded" /\ c2.refunded_amount = c2.funded_amount
     \/ c2.status = "Completed" /\ c2.refunded_amount # c2.funded_amount
  /\ CreditOnCompletion(c2)
  /\ undistributed' = undistributed + (c.funded_amount - c.released_amount - c.refunded_amount)
  /\ UNCHANGED <<finalization, custody, accumulated_fees, unrecovered, control>>

LEMMA ResolveEffect ==
  ASSUME AccountingInv, NEW id \in DOMAIN contracts, NEW caller \in Address,
         NEW r \in Resolutions, ResolveDispute(id, caller, r)
  PROVE  \E c2 \in ContractType : ResolveWith(id, contracts[id], milestones[id], c2)
<1> DEFINE c        == contracts[id]
           m        == milestones[id]
           returned == c.refunded_amount + ClientPayout(Available(id), r)
           paid     == c.released_amount + FreelancerPayout(Available(id), r)
           c1       == [c EXCEPT !.refunded_amount = returned, !.released_amount = paid]
           status   == FinalStatusAfterResolution(c1)
           c2       == [c1 EXCEPT !.status = status]
<1>1. /\ contracts' = [contracts EXCEPT ![id] = c2] /\ UNCHANGED milestones
      /\ c.status = "Disputed"
      /\ c1.refunded_amount \in Stroops /\ c1.released_amount \in Stroops
      /\ c1.released_amount + c1.refunded_amount = c.funded_amount
      /\ CreditOnCompletion(c2)
      /\ undistributed' = undistributed + Available(id)
      /\ UNCHANGED <<finalization, custody, accumulated_fees, unrecovered, control>>
  BY DEF ResolveDispute, CanResolve
<1>2. /\ c \in ContractType
      /\ Available(id) = c.funded_amount - c.released_amount - c.refunded_amount
  BY ContractFacts
<1>3. milestones' = [milestones EXCEPT ![id] = m]
  BY <1>1, SameMilestones DEF AccountingInv
<1> HIDE DEF m, returned, paid
<1>4. c1.refunded_amount = returned /\ c1.released_amount = paid
  BY <1>2 DEF ContractType
<1>5. returned \in Nat /\ paid \in Nat
  BY <1>1, <1>4, AmountsAssumption DEF Stroops
<1>6. /\ c1 \in ContractType /\ c1.funded_amount = c.funded_amount /\ SameTerms(c1, c)
  <2>1. returned \in Int /\ paid \in Int
    BY <1>5
  <2> QED
    BY <1>2, <2>1 DEF ContractType, SameTerms, SameDeal
<1> HIDE DEF c1
<1>7. \/ status = "Refunded" /\ c1.refunded_amount = c1.funded_amount
      \/ status = "Completed" /\ c1.refunded_amount # c1.funded_amount
  BY DEF FinalStatusAfterResolution
<1>8. status \in ContractStatus
  BY <1>7 DEF ContractStatus
<1> HIDE DEF status
<1>9. /\ c2 \in ContractType /\ c2.status = status
      /\ c2.funded_amount = c1.funded_amount
      /\ c2.released_amount = c1.released_amount /\ c2.refunded_amount = c1.refunded_amount
      /\ SameTerms(c2, c1)
  BY <1>6, <1>8 DEF ContractType, SameTerms, SameDeal
<1>10. SameTerms(c2, c)
  BY <1>6, <1>9 DEF SameTerms, SameDeal
<1> HIDE DEF c2
<1>11. c2.released_amount >= 0 /\ c2.refunded_amount >= 0
  BY <1>4, <1>5, <1>9
<1>12. ResolveWith(id, c, m, c2)
  BY <1>1, <1>2, <1>3, <1>6, <1>7, <1>9, <1>10, <1>11 DEF ResolveWith, Becomes
<1> QED
  BY <1>9, <1>12 DEF m

RateWith(id, c, m, c2) ==
  /\ Becomes(id, c2, m)
  /\ SameDeal(c2, c) /\ c2.status = c.status
  /\ c2.released_amount = c.released_amount /\ c2.refunded_amount = c.refunded_amount
  /\ c2.funded_amount = c.funded_amount
  /\ c.status = "Completed" /\ ~c.reputation_issued /\ c2.reputation_issued
  /\ pending_credits[c.freelancer] > 0
  /\ ConsumeCredit(c.freelancer)
  /\ UNCHANGED <<finalization, funds, control>>

LEMMA RateEffect ==
  ASSUME AccountingInv, NEW id \in DOMAIN contracts, IssueReputation(id)
  PROVE  \E c2 \in ContractType : RateWith(id, contracts[id], milestones[id], c2)
<1> DEFINE c  == contracts[id]
           m  == milestones[id]
           c2 == [c EXCEPT !.reputation_issued = TRUE]
<1>1. /\ contracts' = [contracts EXCEPT ![id] = c2] /\ UNCHANGED milestones
      /\ c.status = "Completed" /\ ~c.reputation_issued /\ pending_credits[c.freelancer] > 0
      /\ ConsumeCredit(c.freelancer) /\ UNCHANGED <<finalization, funds, control>>
  BY DEF IssueReputation, CanRate
<1>2. c \in ContractType
  BY ContractFacts
<1>3. milestones' = [milestones EXCEPT ![id] = m]
  BY <1>1, SameMilestones DEF AccountingInv
<1> HIDE DEF m
<1>4. /\ c2 \in ContractType /\ c2.reputation_issued
      /\ SameDeal(c2, c) /\ c2.status = c.status
      /\ c2.released_amount = c.released_amount /\ c2.refunded_amount = c.refunded_amount
      /\ c2.funded_amount = c.funded_amount
  BY <1>2 DEF ContractType, SameDeal
<1> HIDE DEF c2
<1>5. RateWith(id, c, m, c2)
  BY <1>1, <1>3, <1>4 DEF RateWith, Becomes
<1> QED
  BY <1>4, <1>5 DEF m

(* The steps that change neither a contract nor a milestone.               *)
Bookkeeping ==
  \/ \E id \in DOMAIN contracts :
       \/ \E caller \in Address, indices \in SUBSET Indices(id) :
            ApproveMilestones(id, indices, caller)
       \/ \E finalizer \in Address : FinalizeContract(id, finalizer)
       \/ SimulateIssueReputation(id)
       \/ RollbackContract(id)
       \/ \E i \in Indices(id) : ExpireApprovals(id, i)
  \/ \E ids \in SUBSET DOMAIN contracts : \E finalizer \in [ids -> Address] :
       FinalizeContractsBatch(ids, finalizer)
  \/ \E amount \in 1 .. accumulated_fees : WithdrawProtocolFees(amount)
  \/ \E new_bps \in FeeRates : SetProtocolFeeBps(new_bps)
  \/ Pause \/ Unpause \/ ActivateEmergencyPause \/ ResolveEmergency

LEMMA BooksUntouched ==
  ASSUME Bookkeeping
  PROVE  UNCHANGED books
<1>1. ASSUME NEW id, NEW caller, NEW indices, ApproveMilestones(id, indices, caller)
      PROVE  UNCHANGED books
  BY <1>1 DEF ApproveMilestones
<1>2. ASSUME NEW id, NEW finalizer, FinalizeContract(id, finalizer) PROVE UNCHANGED books
  BY <1>2 DEF FinalizeContract, WriteFinalizations
<1>3. ASSUME NEW id, SimulateIssueReputation(id) PROVE UNCHANGED books
  BY <1>3 DEF SimulateIssueReputation
<1>4. ASSUME NEW id, RollbackContract(id) PROVE UNCHANGED books
  BY <1>4 DEF RollbackContract
<1>5. ASSUME NEW id, NEW i, ExpireApprovals(id, i) PROVE UNCHANGED books
  BY <1>5 DEF ExpireApprovals
<1>6. ASSUME NEW ids, NEW finalizer, FinalizeContractsBatch(ids, finalizer) PROVE UNCHANGED books
  BY <1>6 DEF FinalizeContractsBatch, WriteFinalizations
<1>7. ASSUME NEW amount, WithdrawProtocolFees(amount) PROVE UNCHANGED books
  BY <1>7 DEF WithdrawProtocolFees
<1>8. ASSUME NEW new_bps, SetProtocolFeeBps(new_bps) PROVE UNCHANGED books
  BY <1>8 DEF SetProtocolFeeBps
<1>9. ASSUME Pause \/ Unpause \/ ActivateEmergencyPause \/ ResolveEmergency PROVE UNCHANGED books
  BY <1>9 DEF Pause, Unpause, ActivateEmergencyPause, ResolveEmergency
<1> HIDE DEF books
<1> QED
  BY <1>1, <1>2, <1>3, <1>4, <1>5, <1>6, <1>7, <1>8, <1>9 DEF Bookkeeping
(***************************************************************************)
(* Every step, in these terms.                                             *)
(***************************************************************************)
ContractMoves(id, c, m, c2) ==
  \/ \E amount \in DepositAmounts : DepositWith(id, c, m, c2, amount)
  \/ \E i \in Indices(id), fee \in Int : \E m2 : ReleaseWith(id, i, c, m, c2, m2, fee)
  \/ \E i \in Indices(id), fee \in Nat, released \in Nat, refunded \in Nat, reversed \in Int :
       \E m2 : RollbackWith(id, i, c, m, c2, m2, fee, released, refunded, reversed)
  \/ \E indices \in SUBSET Indices(id), total \in Nat :
       \E m2 : RefundWith(id, indices, c, m, c2, m2, total)
  \/ \E left \in Int : CancelWith(id, c, m, c2, left)
  \/ RaiseWith(id, c, m, c2)
  \/ ResolveWith(id, c, m, c2)
  \/ RateWith(id, c, m, c2)

LEMMA NextCases ==
  ASSUME AccountingInv, Next
  PROVE  \/ \E t \in Terms : CreateContract(t)
         \/ \E id \in DOMAIN contracts, c2 \in ContractType :
              ContractMoves(id, contracts[id], milestones[id], c2)
         \/ Bookkeeping
<1> DEFINE Moves == \E id \in DOMAIN contracts, c2 \in ContractType :
                      ContractMoves(id, contracts[id], milestones[id], c2)
<1>1. ASSUME NEW id \in DOMAIN contracts, Participate(id) PROVE Moves \/ Bookkeeping
  <2>1. ASSUME NEW amount \in DepositAmounts, DepositFunds(id, amount) PROVE Moves
    BY <2>1, DepositEffect DEF ContractMoves
  <2>2. ASSUME NEW caller \in Address, NEW i \in Indices(id), ReleaseMilestone(id, i, caller)
        PROVE  Moves
    BY <2>2, ReleaseEffect DEF ContractMoves
  <2>3. ASSUME NEW indices \in SUBSET Indices(id), RefundUnreleasedMilestones(id, indices)
        PROVE  Moves
    BY <2>3, RefundEffect DEF ContractMoves
  <2>4. ASSUME CancelContract(id) PROVE Moves
    BY <2>4, CancelEffect DEF ContractMoves
  <2>5. ASSUME NEW caller \in Address, RaiseDispute(id, caller) PROVE Moves
    BY <2>5, RaiseEffect DEF ContractMoves
  <2>6. ASSUME NEW caller \in Address, NEW r \in Resolutions, ResolveDispute(id, caller, r)
        PROVE  Moves
    BY <2>6, ResolveEffect DEF ContractMoves
  <2>7. ASSUME IssueReputation(id) PROVE Moves
    BY <2>7, RateEffect DEF ContractMoves
  <2> HIDE DEF Moves
  <2>8. ASSUME NEW caller \in Address, NEW indices \in SUBSET Indices(id),
               ApproveMilestones(id, indices, caller)
        PROVE  Bookkeeping
    BY <2>8 DEF Bookkeeping
  <2>9. ASSUME NEW finalizer \in Address, FinalizeContract(id, finalizer) PROVE Bookkeeping
    BY <2>9 DEF Bookkeeping
  <2>10. ASSUME SimulateIssueReputation(id) PROVE Bookkeeping
    BY <2>10 DEF Bookkeeping
  <2> QED
    BY <1>1, <2>1, <2>2, <2>3, <2>4, <2>5, <2>6, <2>7, <2>8, <2>9, <2>10 DEF Participate
<1>2. ASSUME Administer PROVE Moves \/ Bookkeeping
  <2>1. ASSUME NEW id \in DOMAIN contracts, NEW i \in Indices(id), RollbackMilestone(id, i)
        PROVE  Moves
    BY <2>1, RollbackEffect DEF ContractMoves
  <2> HIDE DEF Moves
  <2> QED
    BY <1>2, <2>1 DEF Administer, Bookkeeping
<1> HIDE DEF Moves
<1>3. \/ \E t \in Terms : CreateContract(t)
      \/ Moves \/ Bookkeeping
  BY <1>1, <1>2 DEF Next, Bookkeeping
<1> QED
  BY <1>3 DEF Moves

(***************************************************************************)
(* The sums after each change of the flags.                                *)
(***************************************************************************)
Left(m) == DOMAIN m.amounts \ (m.released \cup m.refunded)

NetPaid(m) == AmountOf(m.amounts, m.released) - AmountOf(m.protocol_fee, m.released)

Returned(m) == AmountOf(m.amounts, m.refunded)

VectorInv(m) == MilestonesType(m) /\ VectorOK(m) /\ FlagsOK(m)

LEMMA VectorParts ==
  ASSUME NEW m, VectorInv(m)
  PROVE  /\ m.released \subseteq DOMAIN m.amounts /\ m.refunded \subseteq DOMAIN m.amounts
         /\ Left(m) \subseteq DOMAIN m.amounts /\ m.released \cap m.refunded = {}
         /\ AmountOf(m.amounts, m.released) \in Nat /\ AmountOf(m.protocol_fee, m.released) \in Nat
         /\ NetPaid(m) \in Nat /\ Returned(m) \in Nat /\ AmountOf(m.amounts, Left(m)) \in Nat
         /\ TotalAmount(m.amounts) =
              AmountOf(m.amounts, m.released) + Returned(m) + AmountOf(m.amounts, Left(m))
         /\ TotalAmount(m.protocol_fee) = AmountOf(m.protocol_fee, m.released)
         /\ TotalAmount(m.amounts) \in Nat \ {0}
<1>1. /\ m.released \subseteq DOMAIN m.amounts /\ m.refunded \subseteq DOMAIN m.amounts
      /\ Left(m) \subseteq DOMAIN m.amounts /\ m.released \cap m.refunded = {}
  BY DEF VectorInv, MilestonesType, FlagsOK, Left
<1>2. /\ AmountOf(m.amounts, m.released) \in Nat /\ AmountOf(m.protocol_fee, m.released) \in Nat
      /\ AmountOf(m.amounts, m.refunded) \in Nat /\ AmountOf(m.amounts, Left(m)) \in Nat
  BY <1>1, VectorSums DEF VectorInv
<1>3. /\ TotalAmount(m.amounts) =
           AmountOf(m.amounts, m.released) + AmountOf(m.amounts, m.refunded)
             + AmountOf(m.amounts, Left(m))
      /\ TotalAmount(m.protocol_fee) = AmountOf(m.protocol_fee, m.released)
      /\ AmountOf(m.protocol_fee, m.released) <= AmountOf(m.amounts, m.released)
  BY PriceSplits DEF VectorInv, Left
<1>4. TotalAmount(m.amounts) > 0
  <2>1. DOMAIN m.amounts # {} => AmountOf(m.amounts, DOMAIN m.amounts) > 0
    BY VectorSums DEF VectorInv
  <2> QED
    BY <2>1 DEF VectorInv, FlagsOK, TotalAmount, SumFunction, AmountOf
<1> QED
  BY <1>1, <1>2, <1>3, <1>4 DEF NetPaid, Returned

LEMMA VectorTypes ==
  ASSUME NEW m, VectorInv(m)
  PROVE  /\ DOMAIN m.protocol_fee = DOMAIN m.amounts
         /\ \A i \in DOMAIN m.amounts : m.amounts[i] \in Int /\ m.protocol_fee[i] \in Int
         /\ \A S \in SUBSET DOMAIN m.amounts :
              /\ IsFiniteSet(S)
              /\ AmountOf(m.amounts, S) \in Int /\ AmountOf(m.protocol_fee, S) \in Int
<1>1. MilestonesType(m) /\ VectorOK(m)
  BY DEF VectorInv
<1>2. ASSUME NEW S \in SUBSET DOMAIN m.amounts
      PROVE  /\ IsFiniteSet(S)
             /\ AmountOf(m.amounts, S) \in Int /\ AmountOf(m.protocol_fee, S) \in Int
  BY <1>1, VectorSums
<1> QED
  BY <1>1, <1>2 DEF MilestonesType

LEMMA ReleasedSums ==
  ASSUME NEW m, VectorInv(m), NEW i \in Left(m), NEW fee \in Int, fee \in 0 .. m.amounts[i],
         NEW m2, MilestonesType(m2), m2.amounts = m.amounts,
         m2.released = m.released \cup {i}, m2.refunded = m.refunded,
         m2.protocol_fee = [m.protocol_fee EXCEPT ![i] = fee]
  PROVE  /\ VectorInv(m2)
         /\ NetPaid(m2) = NetPaid(m) + m.amounts[i] - fee
         /\ Returned(m2) = Returned(m)
         /\ TotalAmount(m2.protocol_fee) = TotalAmount(m.protocol_fee) + fee
<1> DEFINE R == m.released
<1>1. /\ R \subseteq DOMAIN m.amounts /\ i \in DOMAIN m.amounts /\ i \notin R /\ i \notin m.refunded
      /\ DOMAIN m.protocol_fee = DOMAIN m.amounts
      /\ IsFiniteSet(R) /\ AmountOf(m.amounts, R) \in Int /\ AmountOf(m.protocol_fee, R) \in Int
      /\ \A x \in DOMAIN m.amounts : m.amounts[x] \in Int /\ m.protocol_fee[x] \in Int
  BY VectorParts, VectorTypes DEF Left
<1>2. VectorOK(m2)
  BY <1>1 DEF VectorInv, VectorOK, MilestonesType
<1>3. FlagsOK(m2)
  BY <1>1 DEF VectorInv, FlagsOK, MilestonesType
<1>4. VectorInv(m2)
  BY <1>2, <1>3 DEF VectorInv
<1>5. m2.protocol_fee[i] = fee /\ \A x \in R : m2.protocol_fee[x] = m.protocol_fee[x]
  BY <1>1
<1> HIDE DEF R
<1>6. AmountOf(m.amounts, R \cup {i}) = m.amounts[i] + AmountOf(m.amounts, R)
  <2>1. \A x \in R \cup {i} : m.amounts[x] \in Int
    BY <1>1
  <2> QED
    BY <1>1, <2>1, SumWith DEF AmountOf
<1>7. AmountOf(m2.protocol_fee, R \cup {i}) = fee + AmountOf(m.protocol_fee, R)
  <2>1. \A x \in R \cup {i} : m2.protocol_fee[x] \in Int
    BY <1>1, <1>5
  <2>2. SumFunctionOnSet(m2.protocol_fee, R \cup {i}) =
          m2.protocol_fee[i] + SumFunctionOnSet(m2.protocol_fee, R)
    BY <1>1, <2>1, SumWith
  <2>3. SumFunctionOnSet(m2.protocol_fee, R) = SumFunctionOnSet(m.protocol_fee, R)
    BY <1>1, <1>5, SumsEqual
  <2> QED
    BY <1>5, <2>2, <2>3 DEF AmountOf
<1>8. m2.released = R \cup {i}
  BY DEF R
<1>9. /\ AmountOf(m2.amounts, m2.released) = m.amounts[i] + AmountOf(m.amounts, R)
      /\ AmountOf(m2.protocol_fee, m2.released) = fee + AmountOf(m.protocol_fee, R)
  BY <1>6, <1>7, <1>8
<1>10. NetPaid(m2) = NetPaid(m) + m.amounts[i] - fee
  BY <1>1, <1>9 DEF NetPaid, R
<1>11. TotalAmount(m2.protocol_fee) = TotalAmount(m.protocol_fee) + fee
  BY <1>1, <1>4, <1>9, VectorParts DEF R
<1> QED
  BY <1>4, <1>10, <1>11 DEF Returned

LEMMA RolledBackSums ==
  ASSUME NEW m, VectorInv(m), NEW i \in m.released \cup m.refunded,
         NEW m2, MilestonesType(m2), m2.amounts = m.amounts,
         m2.released = m.released \ {i}, m2.refunded = m.refunded \ {i},
         m2.protocol_fee =
           [m.protocol_fee EXCEPT ![i] = IF i \in m.released THEN 0 ELSE m.protocol_fee[i]]
  PROVE  /\ VectorInv(m2)
         /\ i \in m.released =>
              /\ i \notin m.refunded
              /\ NetPaid(m2) = NetPaid(m) - (m.amounts[i] - m.protocol_fee[i])
              /\ Returned(m2) = Returned(m)
              /\ TotalAmount(m2.protocol_fee) = TotalAmount(m.protocol_fee) - m.protocol_fee[i]
         /\ i \in m.refunded =>
              /\ i \notin m.released
              /\ NetPaid(m2) = NetPaid(m) /\ Returned(m2) = Returned(m) - m.amounts[i]
              /\ TotalAmount(m2.protocol_fee) = TotalAmount(m.protocol_fee)
<1>1. /\ m.released \subseteq DOMAIN m.amounts /\ m.refunded \subseteq DOMAIN m.amounts
      /\ m.released \cap m.refunded = {} /\ i \in DOMAIN m.amounts
      /\ DOMAIN m.protocol_fee = DOMAIN m.amounts
      /\ \A x \in DOMAIN m.amounts : m.amounts[x] \in Int /\ m.protocol_fee[x] \in Int
  BY VectorParts, VectorTypes
<1>2. VectorOK(m2)
  BY <1>1 DEF VectorInv, VectorOK, MilestonesType
<1>3. FlagsOK(m2)
  BY <1>1 DEF VectorInv, FlagsOK, MilestonesType
<1>4. VectorInv(m2)
  BY <1>2, <1>3 DEF VectorInv
<1>5. ASSUME i \in m.released
      PROVE  /\ NetPaid(m2) = NetPaid(m) - (m.amounts[i] - m.protocol_fee[i])
             /\ Returned(m2) = Returned(m)
             /\ TotalAmount(m2.protocol_fee) = TotalAmount(m.protocol_fee) - m.protocol_fee[i]
  <2> DEFINE A == m.released
             R == A \ {i}
  <2>1. R \in SUBSET DOMAIN m.amounts /\ A \in SUBSET DOMAIN m.amounts /\ i \in A
    BY <1>1, <1>5
  <2>2. \A x \in R : m2.protocol_fee[x] = m.protocol_fee[x]
    BY <1>1
  <2>3. m2.released = R /\ m2.refunded = m.refunded
    BY <1>1, <1>5
  <2> HIDE DEF A
  <2>4. AmountOf(m.amounts, A) = m.amounts[i] + AmountOf(m.amounts, R)
    BY <2>1, AmountsWithout DEF VectorInv
  <2>5. IsFiniteSet(A) /\ \A x \in A : m.protocol_fee[x] \in Int
    BY <1>1, <2>1, VectorTypes
  <2>6. AmountOf(m.protocol_fee, A) = m.protocol_fee[i] + AmountOf(m.protocol_fee, R)
    BY <2>1, <2>5, SumWithout DEF AmountOf
  <2> HIDE DEF R
  <2>7. /\ IsFiniteSet(R) /\ AmountOf(m.amounts, R) \in Int /\ AmountOf(m.protocol_fee, R) \in Int
        /\ m.amounts[i] \in Int /\ m.protocol_fee[i] \in Int
    BY <1>1, <2>1, VectorTypes
  <2>8. AmountOf(m2.protocol_fee, R) = AmountOf(m.protocol_fee, R)
    <3> DEFINE f2 == m2.protocol_fee
               f  == m.protocol_fee
    <3>0. IsFiniteSet(R) /\ \A x \in R : f2[x] = f[x]
      BY <2>2, <2>7
    <3> HIDE DEF f2, f
    <3>1. SumFunctionOnSet(f2, R) = SumFunctionOnSet(f, R)
      BY <3>0, SumsEqual
    <3> USE DEF f2, f
    <3> QED
      BY <3>1 DEF AmountOf
  <2>9. NetPaid(m2) = NetPaid(m) - (m.amounts[i] - m.protocol_fee[i])
    <3>1. AmountOf(m2.amounts, m2.released) = AmountOf(m.amounts, R)
      BY <2>3
    <3>2. AmountOf(m2.protocol_fee, m2.released) = AmountOf(m.protocol_fee, R)
      BY <2>3, <2>8
    <3>3. NetPaid(m) = AmountOf(m.amounts, A) - AmountOf(m.protocol_fee, A)
      BY DEF NetPaid, A
    <3> QED
      BY <2>4, <2>6, <2>7, <3>1, <3>2, <3>3 DEF NetPaid
  <2>10. TotalAmount(m2.protocol_fee) = TotalAmount(m.protocol_fee) - m.protocol_fee[i]
    <3>1. TotalAmount(m2.protocol_fee) = AmountOf(m2.protocol_fee, m2.released)
      BY <1>4, VectorParts
    <3>2. TotalAmount(m.protocol_fee) = AmountOf(m.protocol_fee, A)
      BY VectorParts DEF A
    <3> QED
      BY <2>3, <2>6, <2>7, <2>8, <3>1, <3>2
  <2> QED
    BY <2>3, <2>9, <2>10 DEF Returned
<1>6. ASSUME i \in m.refunded
      PROVE  /\ NetPaid(m2) = NetPaid(m) /\ Returned(m2) = Returned(m) - m.amounts[i]
             /\ TotalAmount(m2.protocol_fee) = TotalAmount(m.protocol_fee)
  <2> DEFINE B == m.refunded
             F == B \ {i}
  <2>1. i \notin m.released /\ m2.released = m.released
    BY <1>1, <1>6
  <2>2. m2.protocol_fee = m.protocol_fee
    BY <1>1, <2>1 DEF VectorInv, MilestonesType
  <2>3. /\ F \in SUBSET DOMAIN m.amounts /\ m2.refunded = F
        /\ i \in B /\ B \in SUBSET DOMAIN m.amounts
    BY <1>1, <1>6
  <2> HIDE DEF B
  <2>4. AmountOf(m.amounts, B) = m.amounts[i] + AmountOf(m.amounts, F)
    BY <2>3, AmountsWithout DEF VectorInv
  <2> HIDE DEF F
  <2>5. AmountOf(m.amounts, F) \in Int /\ m.amounts[i] \in Int
    BY <1>1, <2>3, VectorTypes
  <2>6. Returned(m2) = Returned(m) - m.amounts[i]
    <3>1. Returned(m2) = AmountOf(m.amounts, F) /\ Returned(m) = AmountOf(m.amounts, B)
      BY <2>3 DEF Returned, B
    <3> QED
      BY <2>4, <2>5, <3>1
  <2> QED
    BY <2>1, <2>2, <2>6 DEF NetPaid
<1> QED
  BY <1>1, <1>4, <1>5, <1>6

LEMMA RefundedSums ==
  ASSUME NEW m, VectorInv(m), NEW indices \in SUBSET Left(m),
         NEW m2, MilestonesType(m2), m2.amounts = m.amounts, m2.protocol_fee = m.protocol_fee,
         m2.released = m.released, m2.refunded = m.refunded \cup indices
  PROVE  /\ VectorInv(m2)
         /\ NetPaid(m2) = NetPaid(m)
         /\ Returned(m2) = Returned(m) + AmountOf(m.amounts, indices)
<1>1. /\ m.refunded \subseteq DOMAIN m.amounts /\ indices \subseteq DOMAIN m.amounts
      /\ m.refunded \cap indices = {} /\ m.released \cap indices = {}
  BY DEF VectorInv, MilestonesType, Left
<1>2. VectorInv(m2)
  BY <1>1 DEF VectorInv, VectorOK, FlagsOK
<1>3. AmountOf(m.amounts, m.refunded \cup indices) =
        AmountOf(m.amounts, m.refunded) + AmountOf(m.amounts, indices)
  BY <1>1, AmountsAdd DEF VectorInv
<1> QED
  BY <1>2, <1>3 DEF NetPaid, Returned
(***************************************************************************)
(* The invariant.  The two counters alone are not inductive: what a refund *)
(* or a roll-back adds or takes depends on the flags, and that a refund of *)
(* a contract without deposits is refused depends on the stage.            *)
(***************************************************************************)
CountersOK(c, m) ==
  c.status \in OpenStatus => c.released_amount = NetPaid(m) /\ c.refunded_amount = Returned(m)

StageOK(c, m) ==
  LET total == TotalAmount(m.amounts)
      fresh == m.released = {} /\ m.refunded = {}
  IN
  /\ c.status = "Created" => c.funded_amount = 0 /\ fresh
  /\ c.status = "PartiallyFunded" => c.funded_amount \in 1 .. total - 1 /\ fresh
  /\ c.status = "Funded" => c.funded_amount = total /\ Left(m) # {}
  /\ c.status = "Disputed" => Left(m) # {}
  /\ c.status \in {"Cancelled", "Refunded"} =>
       c.released_amount = 0 /\ c.refunded_amount = c.funded_amount

BookOK(c, m) == VectorInv(m) /\ ContractOK(c, m) /\ CountersOK(c, m) /\ StageOK(c, m)

BooksInv == AccountingInv /\ \A id \in DOMAIN contracts : BookOK(contracts[id], milestones[id])

(* Nothing disposed of: both counters are 0.                               *)
LEMMA FreshCounters ==
  ASSUME NEW c, NEW m, BookOK(c, m), c.status \in OpenStatus, m.released = {}, m.refunded = {}
  PROVE  c.released_amount = 0 /\ c.refunded_amount = 0 /\ Left(m) = DOMAIN m.amounts /\ Left(m) # {}
<1>1. AmountOf(m.amounts, {}) = 0 /\ AmountOf(m.protocol_fee, {}) = 0
  BY SumOverNothing DEF AmountOf
<1> QED
  BY <1>1 DEF BookOK, CountersOK, NetPaid, Returned, Left, VectorInv, FlagsOK

LEMMA DepositBook ==
  ASSUME NEW id, NEW c \in ContractType, NEW m, BookOK(c, m), NEW c2 \in ContractType, NEW amount,
         DepositWith(id, c, m, c2, amount)
  PROVE  BookOK(c2, m)
<1>1. /\ c.status \in OpenStatus /\ m.released = {} /\ m.refunded = {} /\ c.funded_amount >= 0
      /\ amount \in Nat \ {0}
  BY DEF DepositWith, OpenStatus, BookOK, StageOK
<1>2. /\ c2.released_amount = c.released_amount /\ c2.refunded_amount = c.refunded_amount
      /\ c2.funded_amount = c.funded_amount + amount
      /\ c2.funded_amount <= TotalAmount(m.amounts)
      /\ \/ c2.funded_amount = TotalAmount(m.amounts) /\ c2.status = "Funded"
         \/ c2.funded_amount # TotalAmount(m.amounts) /\ c2.status = "PartiallyFunded"
  BY DEF DepositWith
<1>3. c.released_amount = 0 /\ c.refunded_amount = 0 /\ Left(m) # {}
  BY <1>1, FreshCounters
<1>4. VectorInv(m) /\ TotalAmount(m.amounts) \in Nat
  BY VectorParts DEF BookOK
<1>5. c.funded_amount \in Int /\ c2.funded_amount \in Int
  BY DEF ContractType
<1>6. ContractOK(c2, m)
  BY <1>1, <1>2, <1>3, <1>4, <1>5 DEF ContractOK
<1>7. CountersOK(c2, m)
  BY <1>1, <1>2 DEF BookOK, CountersOK
<1>8. StageOK(c2, m)
  BY <1>1, <1>2, <1>3, <1>4, <1>5 DEF StageOK
<1> QED
  BY <1>4, <1>6, <1>7, <1>8 DEF BookOK

(* Closing by disposal: of a vector that is used up, either something was  *)
(* released or everything was refunded.                                    *)
LEMMA ClosingCases ==
  ASSUME NEW c, NEW m, VectorInv(m)
  PROVE  \/ Left(m) # {} /\ StatusAfter(c, m) = c.status
         \/ Left(m) = {} /\ StatusAfter(c, m) = "Refunded" /\ m.refunded = DOMAIN m.amounts
              /\ m.released = {}
         \/ Left(m) = {} /\ StatusAfter(c, m) = "Completed" /\ m.released # {}
<1>1. /\ m.released \subseteq DOMAIN m.amounts /\ m.refunded \subseteq DOMAIN m.amounts
      /\ m.released \cap m.refunded = {}
  BY VectorParts
<1>2. CASE m.released \cup m.refunded # DOMAIN m.amounts
  BY <1>1, <1>2 DEF StatusAfter, Left
<1>3. CASE m.released \cup m.refunded = DOMAIN m.amounts /\ m.refunded = DOMAIN m.amounts
  BY <1>1, <1>3 DEF StatusAfter, Left
<1>4. CASE m.released \cup m.refunded = DOMAIN m.amounts /\ m.refunded # DOMAIN m.amounts
  BY <1>1, <1>4 DEF StatusAfter, Left
<1> QED
  BY <1>2, <1>3, <1>4

LEMMA ReleaseBook ==
  ASSUME NEW id, NEW i, NEW c \in ContractType, NEW m, BookOK(c, m),
         NEW c2 \in ContractType, NEW m2, NEW fee \in Int, ContractOK(c2, m2),
         ReleaseWith(id, i, c, m, c2, m2, fee)
  PROVE  BookOK(c2, m2)
<1>1. /\ VectorInv(m) /\ i \in Left(m) /\ fee \in 0 .. m.amounts[i]
      /\ MilestonesType(m2) /\ m2.amounts = m.amounts
      /\ m2.released = m.released \cup {i} /\ m2.refunded = m.refunded
      /\ m2.protocol_fee = [m.protocol_fee EXCEPT ![i] = fee]
  BY DEF ReleaseWith, BookOK, Left
<1>2. /\ VectorInv(m2)
      /\ NetPaid(m2) = NetPaid(m) + m.amounts[i] - fee
      /\ Returned(m2) = Returned(m)
  BY <1>1, ReleasedSums
<1>3. /\ c.status = "Funded" /\ c2.status = StatusAfter(c, m2)
      /\ c2.released_amount = c.released_amount + m.amounts[i] - fee
      /\ c2.refunded_amount = c.refunded_amount /\ c2.funded_amount = c.funded_amount
  BY DEF ReleaseWith
<1>4. /\ c.released_amount = NetPaid(m) /\ c.refunded_amount = Returned(m)
      /\ c.funded_amount = TotalAmount(m.amounts)
  BY <1>3 DEF BookOK, CountersOK, StageOK, OpenStatus
<1>5. CountersOK(c2, m2)
  BY <1>2, <1>3, <1>4 DEF CountersOK
<1>6. m2.released # {}
  BY <1>1
<1>7. StageOK(c2, m2)
  BY <1>1, <1>2, <1>3, <1>4, <1>6, ClosingCases DEF StageOK
<1> QED
  BY <1>2, <1>5, <1>7 DEF BookOK

LEMMA RollbackBook ==
  ASSUME NEW id, NEW i, NEW c \in ContractType, NEW m, BookOK(c, m),
         NEW c2 \in ContractType, NEW m2, ContractOK(c2, m2),
         NEW fee, NEW released, NEW refunded, NEW reversed,
         RollbackWith(id, i, c, m, c2, m2, fee, released, refunded, reversed)
  PROVE  BookOK(c2, m2)
<1>1. /\ VectorInv(m) /\ i \in m.released \cup m.refunded
      /\ MilestonesType(m2) /\ m2.amounts = m.amounts
      /\ m2.released = m.released \ {i} /\ m2.refunded = m.refunded \ {i}
      /\ m2.protocol_fee =
           [m.protocol_fee EXCEPT ![i] = IF i \in m.released THEN 0 ELSE m.protocol_fee[i]]
  BY DEF RollbackWith, BookOK
<1>2. /\ c.status \in RollbackStatus /\ c2.status = c.status
      /\ released = (IF i \in m.released THEN m.amounts[i] - m.protocol_fee[i] ELSE 0)
      /\ refunded = (IF i \in m.refunded THEN m.amounts[i] ELSE 0)
      /\ c2.released_amount = c.released_amount - released
      /\ c2.refunded_amount = c.refunded_amount - refunded
      /\ c2.funded_amount = c.funded_amount
  BY DEF RollbackWith
<1>3. c.status = "Funded"
  BY <1>1, <1>2 DEF RollbackStatus, BookOK, StageOK
<1>4. /\ c.released_amount = NetPaid(m) /\ c.refunded_amount = Returned(m)
      /\ c.funded_amount = TotalAmount(m.amounts)
  BY <1>3 DEF BookOK, CountersOK, StageOK, OpenStatus
<1>5. /\ VectorInv(m2)
      /\ i \in m.released =>
           /\ i \notin m.refunded
           /\ NetPaid(m2) = NetPaid(m) - (m.amounts[i] - m.protocol_fee[i])
           /\ Returned(m2) = Returned(m)
      /\ i \in m.refunded =>
           /\ i \notin m.released
           /\ NetPaid(m2) = NetPaid(m) /\ Returned(m2) = Returned(m) - m.amounts[i]
  BY <1>1, RolledBackSums
<1>6. NetPaid(m) \in Int /\ Returned(m) \in Int
  BY <1>1, VectorParts
<1>7. CountersOK(c2, m2)
  <2>1. CASE i \in m.released
    BY <1>2, <1>4, <1>5, <1>6, <2>1 DEF CountersOK
  <2>2. CASE i \in m.refunded
    BY <1>2, <1>4, <1>5, <1>6, <2>2 DEF CountersOK
  <2> QED
    BY <1>1, <2>1, <2>2
<1>8. i \in Left(m2)
  BY <1>1, VectorParts DEF Left
<1>9. StageOK(c2, m2)
  BY <1>1, <1>2, <1>3, <1>4, <1>8 DEF StageOK
<1> QED
  BY <1>5, <1>7, <1>9 DEF BookOK

LEMMA RefundBook ==
  ASSUME NEW id, NEW indices, NEW c \in ContractType, NEW m, BookOK(c, m),
         NEW c2 \in ContractType, NEW m2, NEW total \in Nat, ContractOK(c2, m2),
         RefundWith(id, indices, c, m, c2, m2, total)
  PROVE  BookOK(c2, m2) /\ c.status \in {"Funded", "Disputed"}
<1>1. /\ VectorInv(m) /\ indices \in SUBSET Left(m) /\ indices # {}
      /\ MilestonesType(m2) /\ m2.amounts = m.amounts /\ m2.protocol_fee = m.protocol_fee
      /\ m2.released = m.released /\ m2.refunded = m.refunded \cup indices
      /\ total = AmountOf(m.amounts, indices)
  BY DEF RefundWith, BookOK, Left
<1>2. /\ VectorInv(m2) /\ NetPaid(m2) = NetPaid(m)
      /\ Returned(m2) = Returned(m) + total
  BY <1>1, RefundedSums
<1>3. /\ c.status \in {"Created", "Funded", "Disputed"} /\ c2.status = StatusAfter(c, m2)
      /\ c2.refunded_amount = c.refunded_amount + total
      /\ c2.released_amount = c.released_amount /\ c2.funded_amount = c.funded_amount
      /\ total <= c.funded_amount - c.released_amount - c.refunded_amount
      /\ SameTerms(c2, c)
  BY DEF RefundWith
<1>4. c.released_amount = NetPaid(m) /\ c.refunded_amount = Returned(m)
  BY <1>3 DEF BookOK, CountersOK, OpenStatus
<1>5. total > 0
  <2>1. indices \in SUBSET DOMAIN m.amounts
    BY <1>1, VectorParts
  <2> QED
    BY <1>1, <2>1, VectorSums DEF VectorInv
<1>6. c.status # "Created"
  <2> SUFFICES ASSUME c.status = "Created" PROVE FALSE
    OBVIOUS
  <2>1. c.funded_amount = 0 /\ m.released = {} /\ m.refunded = {} /\ c.status \in OpenStatus
    BY DEF BookOK, StageOK, OpenStatus
  <2>2. c.released_amount = 0 /\ c.refunded_amount = 0
    BY <2>1, FreshCounters
  <2> QED
    BY <1>3, <1>5, <2>1, <2>2
<1>7. CountersOK(c2, m2)
  BY <1>2, <1>3, <1>4 DEF CountersOK
<1>8. StageOK(c2, m2)
  <2>1. CASE Left(m2) # {} /\ StatusAfter(c, m2) = c.status
    BY <1>1, <1>3, <1>6, <2>1 DEF StageOK, BookOK
  <2>2. CASE StatusAfter(c, m2) = "Refunded" /\ m2.refunded = DOMAIN m2.amounts
               /\ m2.released = {}
    <3>1. NetPaid(m2) = 0
      <4>1. AmountOf(m2.amounts, {}) = 0 /\ AmountOf(m2.protocol_fee, {}) = 0
        BY SumOverNothing DEF AmountOf
      <4> QED
        BY <2>2, <4>1 DEF NetPaid
    <3>2. Returned(m2) = TotalAmount(m2.amounts)
      BY <2>2 DEF Returned, TotalAmount, SumFunction, AmountOf
    <3>3. c2.released_amount = 0 /\ c2.refunded_amount = TotalAmount(m2.amounts)
      BY <1>2, <1>3, <1>4, <3>1, <3>2
    <3>4. c2.refunded_amount = c2.funded_amount
      BY <3>3 DEF ContractOK, ContractType
    <3> QED
      BY <1>3, <2>2, <3>3, <3>4 DEF StageOK
  <2>3. CASE StatusAfter(c, m2) = "Completed"
    BY <1>3, <2>3 DEF StageOK
  <2> QED
    BY <1>2, <2>1, <2>2, <2>3, ClosingCases
<1> QED
  BY <1>2, <1>3, <1>6, <1>7, <1>8 DEF BookOK
LEMMA OtherBooks ==
  ASSUME NEW id, NEW c \in ContractType, NEW m, BookOK(c, m),
         NEW c2 \in ContractType, ContractOK(c2, m),
         \/ \E left \in Int : CancelWith(id, c, m, c2, left)
         \/ RaiseWith(id, c, m, c2)
         \/ ResolveWith(id, c, m, c2)
         \/ RateWith(id, c, m, c2)
  PROVE  BookOK(c2, m)
<1>0. /\ VectorInv(m) /\ c.funded_amount \in Int /\ c.released_amount \in Int /\ c.refunded_amount \in Int
      /\ c2.funded_amount \in Int /\ c2.released_amount \in Int /\ c2.refunded_amount \in Int
  BY DEF ContractType, BookOK
<1>1. ASSUME NEW left \in Int, CancelWith(id, c, m, c2, left) PROVE BookOK(c2, m)
  <2>1. /\ c2.status = "Cancelled" /\ c2.released_amount = 0
        /\ c2.refunded_amount = c2.funded_amount
    BY <1>0, <1>1 DEF CancelWith
  <2> QED
    BY <1>0, <2>1 DEF BookOK, CountersOK, StageOK, OpenStatus
<1>2. ASSUME RaiseWith(id, c, m, c2) PROVE BookOK(c2, m)
  <2>1. /\ c.status \in {"PartiallyFunded", "Funded"} /\ c2.status = "Disputed"
        /\ c2.released_amount = c.released_amount /\ c2.refunded_amount = c.refunded_amount
    BY <1>2 DEF RaiseWith, DisputableStatus
  <2>2. CountersOK(c2, m)
    BY <2>1 DEF BookOK, CountersOK, OpenStatus
  <2>3. Left(m) # {}
    <3>1. CASE c.status = "Funded"
      BY <3>1 DEF BookOK, StageOK
    <3>2. CASE c.status = "PartiallyFunded"
      BY <3>2, FreshCounters DEF BookOK, StageOK, OpenStatus
    <3> QED
      BY <2>1, <3>1, <3>2
  <2> QED
    BY <1>0, <2>1, <2>2, <2>3 DEF BookOK, StageOK
<1>3. ASSUME ResolveWith(id, c, m, c2) PROVE BookOK(c2, m)
  <2>1. /\ c2.released_amount + c2.refunded_amount = c2.funded_amount
        /\ \/ c2.status = "Refunded" /\ c2.refunded_amount = c2.funded_amount
           \/ c2.status = "Completed"
    BY <1>3 DEF ResolveWith
  <2> QED
    BY <1>0, <2>1 DEF BookOK, CountersOK, StageOK, OpenStatus
<1>4. ASSUME RateWith(id, c, m, c2) PROVE BookOK(c2, m)
  BY <1>0, <1>4 DEF RateWith, BookOK, CountersOK, StageOK, OpenStatus
<1> QED
  BY <1>1, <1>2, <1>3, <1>4

LEMMA NewBook ==
  ASSUME AccountingInv, AccountingInv', NEW t \in Terms, CreateContract(t)
  PROVE  BookOK(contracts'[next_contract_id], milestones'[next_contract_id])
<1> DEFINE n == next_contract_id
           c == NewContract(t)
           m == NewMilestones(t)
<1>1. contracts'[n] = c /\ milestones'[n] = m /\ n \in DOMAIN contracts'
  BY DEF CreateContract, With
<1>2. MilestonesType(m) /\ VectorOK(m) /\ ContractOK(c, m)
  <2>1. MilestonesType(milestones'[n]) /\ VectorOK(milestones'[n])
        /\ ContractOK(contracts'[n], milestones'[n])
    BY <1>1 DEF AccountingInv, TypeOK, BooksTypeOK, FeesRecorded, AccountingBound, ContractOK
  <2> QED
    BY <1>1, <2>1
<1>3. FlagsOK(m)
  <2>1. t.amounts \in Seq(Int) /\ Len(t.amounts) >= 1
    BY InputsAssumption DEF CreateContract, AcceptableTerms, TermsType
  <2>2. m.released = {} /\ m.refunded = {} /\ m.amounts = t.amounts
        /\ \A i \in DOMAIN m.amounts : m.protocol_fee[i] = 0
    BY DEF NewMilestones
  <2>3. 1 \in DOMAIN t.amounts
    BY <2>1
  <2> HIDE DEF m
  <2> QED
    BY <2>2, <2>3 DEF FlagsOK
<1>4. CountersOK(c, m)
  <2>1. NetPaid(m) = 0 /\ Returned(m) = 0
    <3>1. \A f : AmountOf(f, {}) = 0
      BY SumOverNothing DEF AmountOf
    <3>2. m.released = {} /\ m.refunded = {}
      BY DEF NewMilestones
    <3> QED
      BY <3>1, <3>2 DEF NetPaid, Returned
  <2>2. c.released_amount = 0 /\ c.refunded_amount = 0
    BY DEF NewContract
  <2> QED
    BY <2>1, <2>2 DEF CountersOK
<1>5. StageOK(c, m)
  BY DEF StageOK, NewContract, NewMilestones
<1> HIDE DEF c, m
<1> QED
  BY <1>1, <1>2, <1>3, <1>4, <1>5 DEF BookOK, VectorInv

LEMMA MovedBook ==
  ASSUME BooksInv, AccountingInv', NEW id \in DOMAIN contracts, NEW c2 \in ContractType,
         ContractMoves(id, contracts[id], milestones[id], c2)
  PROVE  \E m2 : Becomes(id, c2, m2) /\ BookOK(c2, m2)
<1> DEFINE c == contracts[id]
           m == milestones[id]
<1>1. AccountingInv /\ c \in ContractType /\ BookOK(c, m)
  BY ContractFacts DEF BooksInv
<1>2. ASSUME NEW m2, Becomes(id, c2, m2) PROVE ContractOK(c2, m2)
  <2>1. TypeOK
    BY <1>1 DEF AccountingInv
  <2>2. id \in DOMAIN contracts' /\ contracts'[id] = c2 /\ milestones'[id] = m2
    BY <1>2, <2>1, OneContractChanges DEF Becomes
  <2> QED
    BY <2>2 DEF AccountingInv, AccountingBound, ContractOK
<1> HIDE DEF c, m
<1> DEFINE Goal == \E m2 : Becomes(id, c2, m2) /\ BookOK(c2, m2)
<1>3. ASSUME NEW amount, DepositWith(id, c, m, c2, amount) PROVE Goal
  BY <1>1, <1>3, DepositBook DEF DepositWith
<1>4. ASSUME NEW i, NEW fee \in Int, NEW m2, ReleaseWith(id, i, c, m, c2, m2, fee) PROVE Goal
  <2>1. Becomes(id, c2, m2)
    BY <1>4 DEF ReleaseWith
  <2>2. BookOK(c2, m2)
    BY <1>1, <1>2, <1>4, <2>1, ReleaseBook
  <2> QED
    BY <2>1, <2>2
<1>5. ASSUME NEW i, NEW fee, NEW released, NEW refunded, NEW reversed, NEW m2,
             RollbackWith(id, i, c, m, c2, m2, fee, released, refunded, reversed)
      PROVE  Goal
  <2>1. Becomes(id, c2, m2)
    BY <1>5 DEF RollbackWith
  <2>2. BookOK(c2, m2)
    BY <1>1, <1>2, <1>5, <2>1, RollbackBook
  <2> QED
    BY <2>1, <2>2
<1>6. ASSUME NEW indices, NEW total \in Nat, NEW m2, RefundWith(id, indices, c, m, c2, m2, total)
      PROVE  Goal
  <2>1. Becomes(id, c2, m2)
    BY <1>6 DEF RefundWith
  <2>2. BookOK(c2, m2)
    BY <1>1, <1>2, <1>6, <2>1, RefundBook
  <2> QED
    BY <2>1, <2>2
<1>7. ASSUME \/ \E left \in Int : CancelWith(id, c, m, c2, left)
             \/ RaiseWith(id, c, m, c2)
             \/ ResolveWith(id, c, m, c2)
             \/ RateWith(id, c, m, c2)
      PROVE  Goal
  <2>1. Becomes(id, c2, m)
    BY <1>7 DEF CancelWith, RaiseWith, ResolveWith, RateWith
  <2>2. BookOK(c2, m)
    BY <1>1, <1>2, <1>7, <2>1, OtherBooks
  <2> QED
    BY <2>1, <2>2
<1>8. ContractMoves(id, c, m, c2)
  BY DEF c, m
<1> HIDE DEF Goal
<1>9. Goal
  BY <1>3, <1>4, <1>5, <1>6, <1>7, <1>8 DEF ContractMoves
<1> QED
  BY <1>9 DEF Goal

LEMMA NextBooks == BooksInv /\ [Next]_vars => BooksInv'
<1> SUFFICES ASSUME BooksInv, [Next]_vars PROVE BooksInv'
  OBVIOUS
<1>1. AccountingInv /\ AccountingInv' /\ TypeOK
  BY NextAccounting DEF BooksInv, AccountingInv
<1> DEFINE Books == \A id \in DOMAIN contracts : BookOK(contracts[id], milestones[id])
<1>2. ASSUME NEW t \in Terms, CreateContract(t) PROVE Books'
  BY <1>1, <1>2, NewBook, NewContractApart DEF BooksInv
<1>3. ASSUME NEW id \in DOMAIN contracts, NEW c2 \in ContractType,
             ContractMoves(id, contracts[id], milestones[id], c2)
      PROVE  Books'
  <2>1. PICK m2 : Becomes(id, c2, m2) /\ BookOK(c2, m2)
    BY <1>1, <1>3, MovedBook
  <2> QED
    BY <1>1, <2>1, OneContractChanges DEF Becomes, BooksInv
<1>4. ASSUME UNCHANGED books PROVE Books'
  BY <1>4 DEF books, BooksInv
<1>5. Bookkeeping \/ UNCHANGED vars => UNCHANGED books
  BY BooksUntouched DEF vars
<1> HIDE DEF Books
<1>6. Books'
  BY <1>1, <1>2, <1>3, <1>4, <1>5, NextCases
<1> QED
  BY <1>1, <1>6 DEF BooksInv, Books

LEMMA InitBooks == Init => BooksInv
  BY InitTypes DEF Init, AccountingInv, FeesRecorded, AccountingBound, BooksInv

LEMMA BooksHold == Spec => []BooksInv
  BY InitBooks, NextBooks, PTL DEF Spec

(***************************************************************************)
(* What never changes while a contract lives.                              *)
(***************************************************************************)

(* The parties, the approval mode and the prices stay as they were, what   *)
(* was paid in stays on the books, no contract starts over, and a dispute  *)
(* opens only where there is an arbiter.                                   *)
Onward(c2, c) ==
  /\ c.funded_amount <= c2.funded_amount
  /\ c.status # "Created" => c2.status # "Created"
  /\ c2.status = "Disputed" => c.status = "Disputed" \/ c.arbiter # NoArbiter

DealKept(x) ==
  /\ x \in DOMAIN contracts' /\ SameDeal(contracts'[x], contracts[x])
  /\ milestones'[x].amounts = milestones[x].amounts
  /\ Onward(contracts'[x], contracts[x])

LEMMA MoveKeepsDeal ==
  ASSUME NEW id \in DOMAIN contracts, NEW c \in ContractType, NEW m, NEW c2,
         ContractMoves(id, c, m, c2)
  PROVE  /\ SameDeal(c2, c) /\ Onward(c2, c)
         /\ \E m2 : Becomes(id, c2, m2) /\ m2.amounts = m.amounts
<1> DEFINE Goal == /\ SameDeal(c2, c) /\ Onward(c2, c)
                   /\ \E m2 : Becomes(id, c2, m2) /\ m2.amounts = m.amounts
<1>0. c.funded_amount \in Int
  BY DEF ContractType
<1>1. ASSUME NEW amount, DepositWith(id, c, m, c2, amount) PROVE Goal
  BY <1>0, <1>1 DEF DepositWith, SameTerms, Onward
<1>2. ASSUME NEW i, NEW fee, NEW m2, ReleaseWith(id, i, c, m, c2, m2, fee) PROVE Goal
  <2>1. Becomes(id, c2, m2) /\ m2.amounts = m.amounts /\ SameDeal(c2, c)
    BY <1>2 DEF ReleaseWith, SameTerms
  <2>2. /\ MilestonesType(m2) /\ c2.status = StatusAfter(c, m2)
        /\ c2.funded_amount = c.funded_amount
    BY <1>2 DEF ReleaseWith
  <2> QED
    BY <1>0, <2>1, <2>2, StatusAfterCases DEF Onward
<1>3. ASSUME NEW i, NEW fee, NEW released, NEW refunded, NEW reversed, NEW m2,
             RollbackWith(id, i, c, m, c2, m2, fee, released, refunded, reversed)
      PROVE  Goal
  BY <1>0, <1>3 DEF RollbackWith, RollbackStatus, SameTerms, Onward
<1>4. ASSUME NEW indices, NEW total, NEW m2, RefundWith(id, indices, c, m, c2, m2, total)
      PROVE  Goal
  <2>1. Becomes(id, c2, m2) /\ m2.amounts = m.amounts /\ SameDeal(c2, c)
    BY <1>4 DEF RefundWith, SameTerms
  <2>2. /\ MilestonesType(m2) /\ c2.status = StatusAfter(c, m2)
        /\ c2.funded_amount = c.funded_amount
    BY <1>4 DEF RefundWith
  <2> QED
    BY <1>0, <2>1, <2>2, StatusAfterCases DEF Onward
<1>5. ASSUME NEW left, CancelWith(id, c, m, c2, left) PROVE Goal
  BY <1>0, <1>5 DEF CancelWith, SameTerms, Onward
<1>6. ASSUME RaiseWith(id, c, m, c2) PROVE Goal
  BY <1>0, <1>6 DEF RaiseWith, SameTerms, Onward
<1>7. ASSUME ResolveWith(id, c, m, c2) PROVE Goal
  BY <1>0, <1>7 DEF ResolveWith, SameTerms, Onward
<1>8. ASSUME RateWith(id, c, m, c2) PROVE Goal
  BY <1>0, <1>8 DEF RateWith, Onward
<1> HIDE DEF Goal
<1>9. Goal
  BY <1>1, <1>2, <1>3, <1>4, <1>5, <1>6, <1>7, <1>8 DEF ContractMoves
<1> QED
  BY <1>9 DEF Goal

LEMMA NextKeepsDeal ==
  ASSUME AccountingInv, [Next]_vars, NEW x \in DOMAIN contracts
  PROVE  DealKept(x)
<1>1. TypeOK
  BY DEF AccountingInv
<1>0. ASSUME NEW y \in DOMAIN contracts PROVE contracts[y] \in ContractType /\ Onward(contracts[y], contracts[y])
  BY <1>1 DEF TypeOK, BooksTypeOK, ContractType, Onward
<1>2. ASSUME NEW t \in Terms, CreateContract(t) PROVE DealKept(x)
  BY <1>0, <1>1, <1>2, NewContractApart DEF DealKept, SameDeal
<1>3. ASSUME NEW id \in DOMAIN contracts, NEW c2 \in ContractType,
             ContractMoves(id, contracts[id], milestones[id], c2)
      PROVE  DealKept(x)
  <2>1. PICK m2 : Becomes(id, c2, m2) /\ m2.amounts = milestones[id].amounts
    BY <1>0, <1>3, MoveKeepsDeal
  <2>2. /\ DOMAIN contracts' = DOMAIN contracts
        /\ contracts'[id] = c2 /\ milestones'[id] = m2
        /\ \A y \in DOMAIN contracts \ {id} :
             contracts'[y] = contracts[y] /\ milestones'[y] = milestones[y]
    BY <1>1, <2>1, OneContractChanges DEF Becomes
  <2>3. CASE x = id
    BY <1>0, <1>3, <2>1, <2>2, <2>3, MoveKeepsDeal DEF DealKept
  <2>4. CASE x # id
    BY <1>0, <2>2, <2>4 DEF DealKept, SameDeal
  <2> QED
    BY <2>3, <2>4
<1>4. ASSUME UNCHANGED books PROVE DealKept(x)
  BY <1>0, <1>4 DEF books, DealKept, SameDeal
<1>5. Bookkeeping \/ UNCHANGED vars => UNCHANGED books
  BY BooksUntouched DEF vars
<1> QED
  BY <1>2, <1>3, <1>4, <1>5, NextCases

(* Only create_contract makes a contract.                                  *)
LEMMA NewIdsAreCreated ==
  ASSUME AccountingInv, [Next]_vars, NEW x \in DOMAIN contracts' \ DOMAIN contracts
  PROVE  x = next_contract_id /\ \E t \in Terms : CreateContract(t)
<1>1. TypeOK
  BY DEF AccountingInv
<1>2. ASSUME NEW t \in Terms, CreateContract(t) PROVE x = next_contract_id
  BY <1>1, <1>2, NewContractApart
<1>3. ASSUME NEW id \in DOMAIN contracts, NEW c2 \in ContractType,
             ContractMoves(id, contracts[id], milestones[id], c2)
      PROVE  FALSE
  <2>1. PICK m2 : Becomes(id, c2, m2)
    BY <1>3, ContractFacts, MoveKeepsDeal
  <2> QED
    BY <1>1, <2>1, OneContractChanges DEF Becomes
<1>4. ASSUME UNCHANGED books PROVE FALSE
  BY <1>4 DEF books
<1>5. Bookkeeping \/ UNCHANGED vars => UNCHANGED books
  BY BooksUntouched DEF vars
<1> QED
  BY <1>2, <1>3, <1>4, <1>5, NextCases

(* The parties a contract starts with are apart.                           *)
LEMMA NewDeal ==
  ASSUME TypeOK, NEW t \in Terms, CreateContract(t)
  PROVE  LET c == contracts'[next_contract_id] IN
         /\ c.status = "Created" /\ c.freelancer \notin {c.client, c.arbiter}
         /\ c.release_authorization \in {"ArbiterOnly", "ClientAndArbiter"} => c.arbiter # NoArbiter
<1>1. contracts'[next_contract_id] = NewContract(t)
  BY DEF CreateContract, With
<1>2. /\ NewContract(t).client = t.client /\ NewContract(t).freelancer = t.freelancer
      /\ NewContract(t).arbiter = t.arbiter /\ NewContract(t).status = "Created"
      /\ NewContract(t).release_authorization = t.release_authorization
  BY DEF NewContract
<1>3. AcceptableTerms(t)
  BY DEF CreateContract
<1> QED
  BY <1>1, <1>2, <1>3 DEF AcceptableTerms

(* A contract in dispute has an arbiter.                                   *)
ArbiterInv ==
  \A id \in DOMAIN contracts : contracts[id].status = "Disputed" => contracts[id].arbiter # NoArbiter

LEMMA NextArbiters ==
  ASSUME AccountingInv, ArbiterInv, [Next]_vars
  PROVE  ArbiterInv'
<1> SUFFICES ASSUME NEW x \in DOMAIN contracts', contracts'[x].status = "Disputed"
             PROVE  contracts'[x].arbiter # NoArbiter
  BY DEF ArbiterInv
<1>1. CASE x \in DOMAIN contracts
  BY <1>1, NextKeepsDeal DEF DealKept, SameDeal, Onward, ArbiterInv
<1>2. CASE x \notin DOMAIN contracts
  <2>1. TypeOK /\ x = next_contract_id /\ \E t \in Terms : CreateContract(t)
    BY <1>2, NewIdsAreCreated DEF AccountingInv
  <2> QED
    BY <2>1, NewDeal
<1> QED
  BY <1>1, <1>2

LEMMA BooksMatch == BooksInv => BooksMatchMilestones
  BY DEF BooksInv, BooksMatchMilestones, BookOK, VectorInv, FlagsOK, CountersOK, NetPaid, Returned

(* Until it closes, a contract's counters are exactly what its milestone   *)
(* flags add up to, net of the fees recorded, whatever the fee rate was    *)
(* changed to and however often releases and refunds were rolled back, for *)
(* any number of milestones and any amounts.                               *)
THEOREM BooksAddUp == Spec => []BooksMatchMilestones
  BY BooksMatch, BooksHold, PTL

LEMMA FundedLeft ==
  ASSUME BooksInv, NEW id \in DOMAIN contracts, contracts[id].status \in OpenStatus,
         contracts[id].funded_amount = TotalAmount(milestones[id].amounts)
  PROVE  Available(id) - RecordedFees(id) = AmountOf(milestones[id].amounts, Unresolved(id))
<1> DEFINE c == contracts[id]
           m == milestones[id]
<1>1. /\ BookOK(c, m) /\ c.funded_amount = TotalAmount(m.amounts) /\ c.status \in OpenStatus
      /\ Available(id) = c.funded_amount - c.released_amount - c.refunded_amount
      /\ RecordedFees(id) = TotalAmount(m.protocol_fee) /\ Unresolved(id) = Left(m)
  BY ContractFacts DEF BooksInv, RecordedFees, Unresolved, Indices, Left
<1> HIDE DEF c, m
<1>2. c.released_amount = NetPaid(m) /\ c.refunded_amount = Returned(m) /\ VectorInv(m)
  BY <1>1 DEF BookOK, CountersOK
<1>3. Available(id) - RecordedFees(id) = AmountOf(m.amounts, Left(m))
  BY <1>1, <1>2, VectorParts DEF NetPaid
<1> QED
  BY <1>1, <1>3 DEF m

LEMMA FundedCovers == BooksInv => FundedCoversMilestones
  BY FundedLeft DEF FundedCoversMilestones

(* A fully funded contract keeps, to the stroop, the price of the          *)
(* milestones still to be disposed of, so that every one of them can be    *)
(* released or refunded.                                                   *)
THEOREM FundedIsCovered == Spec => []FundedCoversMilestones
  BY FundedCovers, BooksHold, PTL

(* What a reader adds up from the milestones a summary shows as open.      *)
ShownLeft(s) ==
  SumFunction([i \in {j \in DOMAIN s.milestones : ~s.milestones[j].disposed} |->
                 s.milestones[i].amount])

LEMMA ShownIsUnresolved ==
  ASSUME BooksInv, NEW id \in DOMAIN contracts
  PROVE  ShownLeft(GetContractSummary(id)) = AmountOf(milestones[id].amounts, Unresolved(id))
<1> DEFINE s    == GetContractSummary(id)
           m    == milestones[id]
           open == {j \in DOMAIN s.milestones : ~s.milestones[j].disposed}
           f    == [i \in open |-> s.milestones[i].amount]
<1>1. /\ DOMAIN s.milestones = DOMAIN m.amounts
      /\ \A j \in DOMAIN m.amounts :
           /\ s.milestones[j].amount = m.amounts[j]
           /\ s.milestones[j].disposed <=> j \in m.released \cup m.refunded
  BY DEF GetContractSummary, Indices
<1> HIDE DEF s
<1>2. open = Unresolved(id)
  BY <1>1 DEF Unresolved, Indices
<1>3. Unresolved(id) \subseteq DOMAIN m.amounts
  BY DEF Unresolved, Indices
<1>4. IsFiniteSet(Unresolved(id))
  BY <1>3, VectorTypes DEF BooksInv, BookOK
<1>5. \A i \in Unresolved(id) : f[i] = m.amounts[i]
  BY <1>1, <1>2, <1>3
<1>6. DOMAIN f = Unresolved(id)
  BY <1>2
<1>7. ShownLeft(s) = SumFunctionOnSet(f, DOMAIN f)
  BY DEF ShownLeft, SumFunction
<1> HIDE DEF f, m, open
<1>8. SumFunctionOnSet(f, Unresolved(id)) = SumFunctionOnSet(m.amounts, Unresolved(id))
  BY <1>4, <1>5, SumsEqual
<1> QED
  BY <1>6, <1>7, <1>8 DEF AmountOf, m, s

(* The fees recorded in a contract are not negative, and nothing while     *)
(* nothing is released.                                                    *)
LEMMA FeesOfReleased ==
  ASSUME BooksInv, NEW id \in DOMAIN contracts
  PROVE  /\ RecordedFees(id) \in Nat
         /\ Cardinality(milestones[id].released) = 0 => RecordedFees(id) = 0
<1> DEFINE m == milestones[id]
<1>1. VectorInv(m)
  BY DEF BooksInv, BookOK
<1>2. /\ RecordedFees(id) = AmountOf(m.protocol_fee, m.released)
      /\ AmountOf(m.protocol_fee, m.released) \in Nat /\ m.released \subseteq DOMAIN m.amounts
  BY <1>1, VectorParts DEF RecordedFees
<1>3. ASSUME Cardinality(m.released) = 0 PROVE AmountOf(m.protocol_fee, m.released) = 0
  <2>1. IsFiniteSet(m.released)
    BY <1>1, <1>2, VectorTypes
  <2>2. m.released = {}
    BY <1>3, <2>1, FS_EmptySet
  <2> QED
    BY <2>2, SumOverNothing DEF AmountOf
<1> QED
  BY <1>2, <1>3

(* The summary alone tells a reader what is left of an open, fully funded  *)
(* contract, for any number of milestones, any fees and any roll-backs:    *)
(* the balance it shows covers the open milestones it shows, and exceeds   *)
(* them only by the fees of released ones.                                 *)
THEOREM SummariesExplain == Spec => []SummaryExplainsBalance
<1>1. ASSUME BooksInv, NEW id \in DOMAIN contracts
      PROVE  LET s == GetContractSummary(id) IN
             s.status \in OpenStatus /\ s.funded_amount = s.total_amount =>
               /\ s.refundable_balance >= ShownLeft(s)
               /\ s.released_milestone_count = 0 => s.refundable_balance = ShownLeft(s)
  <2> DEFINE s     == GetContractSummary(id)
             price == AmountOf(milestones[id].amounts, Unresolved(id))
  <2>1. /\ s.status = contracts[id].status /\ s.funded_amount = contracts[id].funded_amount
        /\ s.total_amount = TotalAmount(milestones[id].amounts)
        /\ s.refundable_balance = Available(id)
        /\ s.released_milestone_count = Cardinality(milestones[id].released)
    BY DEF GetContractSummary, GetRefundableBalance, Available, AvailableBalance
  <2>2. ShownLeft(s) = price
    BY <1>1, ShownIsUnresolved
  <2>3. Available(id) \in Int /\ RecordedFees(id) \in Nat
    <3>1. Available(id) = contracts[id].funded_amount - contracts[id].released_amount
                            - contracts[id].refunded_amount
      BY <1>1, ContractFacts DEF BooksInv
    <3>2. contracts[id] \in ContractType
      BY <1>1, ContractFacts DEF BooksInv
    <3> QED
      BY <1>1, <3>1, <3>2, FeesOfReleased DEF ContractType
  <2> HIDE DEF s, price
  <2>4. ASSUME s.status \in OpenStatus, s.funded_amount = s.total_amount
        PROVE  Available(id) - RecordedFees(id) = price
    BY <1>1, <2>1, <2>4, FundedLeft DEF price
  <2>5. s.status \in OpenStatus /\ s.funded_amount = s.total_amount =>
          /\ s.refundable_balance >= ShownLeft(s)
          /\ s.released_milestone_count = 0 => s.refundable_balance = ShownLeft(s)
    BY <1>1, <2>1, <2>2, <2>3, <2>4, FeesOfReleased
  <2> QED
    BY <2>5 DEF s
<1>2. BooksInv => SummaryExplainsBalance
  BY <1>1 DEF SummaryExplainsBalance, ShownLeft
<1> QED
  BY <1>2, BooksHold, PTL

(***************************************************************************)
(* A contract is Completed only if the freelancer got something.  That     *)
(* needs fees below 100%: the admin may set a rate of 10000 basis points,  *)
(* at which a release pays the freelancer nothing.                         *)
(***************************************************************************)
PartialFees == BPS_DENOMINATOR \notin FeeRates

PaidOK(c, m) ==
  /\ \A i \in DOMAIN m.amounts : m.protocol_fee[i] < m.amounts[i]
  /\ c.status = "Completed" => c.released_amount > 0

PaidInv ==
  /\ protocol_fee_bps < BPS_DENOMINATOR
  /\ \A id \in DOMAIN contracts : PaidOK(contracts[id], milestones[id])

LEMMA FeeBelowAmount ==
  ASSUME NEW amount \in Nat \ {0}, NEW bps \in 0 .. BPS_DENOMINATOR, bps < BPS_DENOMINATOR
  PROVE  ProtocolFee(amount, bps) < amount
<1> DEFINE k == amount * bps
<1>1. k \in Nat
  BY DEF BPS_DENOMINATOR
<1>2. k <= amount * (BPS_DENOMINATOR - 1)
  BY DEF BPS_DENOMINATOR
<1> HIDE DEF k
<1>3. k \div BPS_DENOMINATOR < amount
  BY <1>1, <1>2 DEF BPS_DENOMINATOR
<1> QED
  BY <1>3 DEF k, ProtocolFee

(* What was released was paid for.                                         *)
LEMMA ReleasedIsPaid ==
  ASSUME NEW m, VectorInv(m), m.released # {},
         \A i \in DOMAIN m.amounts : m.protocol_fee[i] < m.amounts[i]
  PROVE  NetPaid(m) > 0
<1> DEFINE R == m.released
<1>1. /\ R \subseteq DOMAIN m.amounts /\ IsFiniteSet(R)
      /\ AmountOf(m.amounts, R) \in Int /\ AmountOf(m.protocol_fee, R) \in Int
      /\ \A i \in R : m.amounts[i] \in Int /\ m.protocol_fee[i] \in Int
                        /\ m.protocol_fee[i] < m.amounts[i]
  BY VectorParts, VectorTypes
<1> HIDE DEF R
<1>2. AmountOf(m.protocol_fee, R) < AmountOf(m.amounts, R)
  <2>1. R # {}
    BY DEF R
  <2> QED
    BY <1>1, <2>1, SumsStrict DEF AmountOf
<1> QED
  BY <1>1, <1>2 DEF NetPaid, R

LEMMA MovedPaid ==
  ASSUME BooksInv, PaidInv, AccountingInv', NEW id \in DOMAIN contracts, NEW c2 \in ContractType,
         ContractMoves(id, contracts[id], milestones[id], c2)
  PROVE  \E m2 : Becomes(id, c2, m2) /\ PaidOK(c2, m2)
<1> DEFINE c == contracts[id]
           m == milestones[id]
           Goal == \E m2 : Becomes(id, c2, m2) /\ PaidOK(c2, m2)
<1>1. /\ c \in ContractType /\ BookOK(c, m) /\ PaidOK(c, m)
      /\ protocol_fee_bps \in 0 .. BPS_DENOMINATOR /\ protocol_fee_bps < BPS_DENOMINATOR
  BY ContractFacts DEF BooksInv, PaidInv
<1>2. ContractMoves(id, c, m, c2)
  OBVIOUS
<1> HIDE DEF c, m
<1>3. /\ VectorInv(m) /\ c.released_amount \in Int /\ c2.released_amount \in Int
      /\ c2.funded_amount \in Int /\ c2.refunded_amount \in Int
  BY <1>1 DEF ContractType, BookOK
<1>4. ASSUME NEW amount, DepositWith(id, c, m, c2, amount) PROVE Goal
  BY <1>1, <1>4 DEF DepositWith, PaidOK
<1>5. ASSUME NEW i, NEW fee \in Int, NEW m2, ReleaseWith(id, i, c, m, c2, m2, fee) PROVE Goal
  <2>1. /\ Becomes(id, c2, m2) /\ m2.amounts = m.amounts
        /\ m2.protocol_fee = [m.protocol_fee EXCEPT ![i] = fee]
        /\ i \in DOMAIN m.amounts /\ c.status = "Funded"
        /\ fee = ProtocolFee(m.amounts[i], protocol_fee_bps)
        /\ c2.released_amount = c.released_amount + m.amounts[i] - fee
    BY <1>5 DEF ReleaseWith
  <2>2. m.amounts[i] \in Nat \ {0} /\ DOMAIN m.protocol_fee = DOMAIN m.amounts
    BY <1>3, <2>1 DEF VectorInv, VectorOK, MilestonesType
  <2>3. fee < m.amounts[i]
    BY <1>1, <2>1, <2>2, FeeBelowAmount
  <2>4. \A x \in DOMAIN m2.amounts : m2.protocol_fee[x] < m2.amounts[x]
    BY <1>1, <2>1, <2>2, <2>3 DEF PaidOK
  <2>5. c.released_amount = NetPaid(m) /\ NetPaid(m) \in Nat
    BY <1>1, <1>3, <2>1, VectorParts DEF BookOK, CountersOK, OpenStatus
  <2>6. c2.released_amount > 0
    BY <2>1, <2>2, <2>3, <2>5
  <2> QED
    BY <2>1, <2>4, <2>6 DEF PaidOK
<1>6. ASSUME NEW i, NEW fee, NEW released, NEW refunded, NEW reversed, NEW m2,
             RollbackWith(id, i, c, m, c2, m2, fee, released, refunded, reversed)
      PROVE  Goal
  <2>1. /\ Becomes(id, c2, m2) /\ m2.amounts = m.amounts
        /\ m2.protocol_fee =
             [m.protocol_fee EXCEPT ![i] = IF i \in m.released THEN 0 ELSE m.protocol_fee[i]]
        /\ c2.status # "Completed"
    BY <1>6 DEF RollbackWith, RollbackStatus
  <2>2. \A x \in DOMAIN m.amounts : m.amounts[x] > 0 /\ DOMAIN m.protocol_fee = DOMAIN m.amounts
    BY <1>3 DEF VectorInv, VectorOK, MilestonesType
  <2>3. \A x \in DOMAIN m2.amounts : m2.protocol_fee[x] < m2.amounts[x]
    BY <1>1, <2>1, <2>2 DEF PaidOK
  <2> QED
    BY <2>1, <2>3 DEF PaidOK
<1>7. ASSUME NEW indices, NEW total \in Nat, NEW m2, RefundWith(id, indices, c, m, c2, m2, total)
      PROVE  Goal
  <2>1. /\ Becomes(id, c2, m2) /\ MilestonesType(m2) /\ m2.amounts = m.amounts
        /\ m2.protocol_fee = m.protocol_fee
        /\ m2.released = m.released /\ m2.refunded = m.refunded \cup indices
        /\ indices \in SUBSET Left(m)
        /\ c.status \in OpenStatus /\ c.status # "Completed" /\ c2.status = StatusAfter(c, m2)
        /\ c2.released_amount = c.released_amount
    BY <1>7 DEF RefundWith, Left, OpenStatus
  <2>2. VectorInv(m2)
    BY <1>3, <2>1, RefundedSums
  <2>3. c.released_amount = NetPaid(m)
    BY <1>1, <2>1 DEF BookOK, CountersOK
  <2>4. ASSUME c2.status = "Completed" PROVE c2.released_amount > 0
    <3>1. m2.released # {}
      BY <2>1, <2>2, <2>4, ClosingCases
    <3>2. NetPaid(m) > 0
      BY <1>1, <1>3, <2>1, <3>1, ReleasedIsPaid DEF PaidOK
    <3> QED
      BY <2>1, <2>3, <3>2
  <2> QED
    BY <1>1, <2>1, <2>4 DEF PaidOK
<1>8. ASSUME NEW left \in Int, CancelWith(id, c, m, c2, left) PROVE Goal
  BY <1>1, <1>8 DEF CancelWith, PaidOK
<1>9. ASSUME RaiseWith(id, c, m, c2) PROVE Goal
  BY <1>1, <1>9 DEF RaiseWith, PaidOK
<1>10. ASSUME ResolveWith(id, c, m, c2) PROVE Goal
  <2>1. c2.status = "Completed" => c2.released_amount > 0
    BY <1>3, <1>10 DEF ResolveWith
  <2> QED
    BY <1>1, <1>10, <2>1 DEF ResolveWith, PaidOK
<1>11. ASSUME RateWith(id, c, m, c2) PROVE Goal
  BY <1>1, <1>11 DEF RateWith, PaidOK
<1> HIDE DEF Goal
<1>12. Goal
  BY <1>2, <1>4, <1>5, <1>6, <1>7, <1>8, <1>9, <1>10, <1>11 DEF ContractMoves
<1> QED
  BY <1>12 DEF Goal

(* The rate only moves by set_protocol_fee_bps.                            *)
LEMMA RateBelow ==
  ASSUME PartialFees, AccountingInv, protocol_fee_bps < BPS_DENOMINATOR, Next
  PROVE  protocol_fee_bps' < BPS_DENOMINATOR
<1>1. ASSUME NEW t \in Terms, CreateContract(t) PROVE UNCHANGED protocol_fee_bps
  BY <1>1 DEF CreateContract, control
<1>2. ASSUME NEW id \in DOMAIN contracts, NEW c2 \in ContractType,
             ContractMoves(id, contracts[id], milestones[id], c2)
      PROVE  UNCHANGED protocol_fee_bps
  <2> DEFINE c == contracts[id]
             m == milestones[id]
             Same == UNCHANGED protocol_fee_bps
  <2>1. ASSUME NEW amount, DepositWith(id, c, m, c2, amount) PROVE Same
    BY <2>1 DEF DepositWith, control
  <2>2. ASSUME NEW i, NEW fee, NEW m2, ReleaseWith(id, i, c, m, c2, m2, fee) PROVE Same
    BY <2>2 DEF ReleaseWith, control
  <2>3. ASSUME NEW i, NEW fee, NEW released, NEW refunded, NEW reversed, NEW m2,
               RollbackWith(id, i, c, m, c2, m2, fee, released, refunded, reversed)
        PROVE  Same
    BY <2>3 DEF RollbackWith, control
  <2>4. ASSUME NEW indices, NEW total, NEW m2, RefundWith(id, indices, c, m, c2, m2, total)
        PROVE  Same
    BY <2>4 DEF RefundWith, control
  <2>5. ASSUME NEW left, CancelWith(id, c, m, c2, left) PROVE Same
    BY <2>5 DEF CancelWith, control
  <2>6. RaiseWith(id, c, m, c2) \/ ResolveWith(id, c, m, c2) \/ RateWith(id, c, m, c2) => Same
    BY DEF RaiseWith, ResolveWith, RateWith, control
  <2> HIDE DEF Same, c, m
  <2>7. ContractMoves(id, c, m, c2)
    BY <1>2 DEF c, m
  <2>8. Same
    BY <2>1, <2>2, <2>3, <2>4, <2>5, <2>6, <2>7 DEF ContractMoves
  <2> QED
    BY <2>8 DEF Same
<1>3. ASSUME NEW new_bps \in FeeRates, SetProtocolFeeBps(new_bps)
      PROVE  protocol_fee_bps' < BPS_DENOMINATOR
  <2>1. new_bps \in Nat /\ new_bps # BPS_DENOMINATOR /\ new_bps <= BPS_DENOMINATOR
    BY <1>3, InputsAssumption DEF SetProtocolFeeBps, PartialFees
  <2> QED
    BY <1>3, <2>1 DEF SetProtocolFeeBps, BPS_DENOMINATOR
<1>4. ASSUME Bookkeeping, \A new_bps \in FeeRates : ~SetProtocolFeeBps(new_bps)
      PROVE  UNCHANGED protocol_fee_bps
  <2>1. ASSUME NEW id, NEW caller, NEW indices, ApproveMilestones(id, indices, caller)
        PROVE  UNCHANGED protocol_fee_bps
    BY <2>1 DEF ApproveMilestones, control
  <2>2. ASSUME NEW id, NEW finalizer, FinalizeContract(id, finalizer)
        PROVE  UNCHANGED protocol_fee_bps
    BY <2>2 DEF FinalizeContract, WriteFinalizations, control
  <2>3. ASSUME NEW id, SimulateIssueReputation(id) PROVE UNCHANGED protocol_fee_bps
    BY <2>3 DEF SimulateIssueReputation, control
  <2>4. ASSUME NEW id, RollbackContract(id) PROVE UNCHANGED protocol_fee_bps
    BY <2>4 DEF RollbackContract, control
  <2>5. ASSUME NEW id, NEW i, ExpireApprovals(id, i) PROVE UNCHANGED protocol_fee_bps
    BY <2>5 DEF ExpireApprovals, control
  <2>6. ASSUME NEW ids, NEW finalizer, FinalizeContractsBatch(ids, finalizer)
        PROVE  UNCHANGED protocol_fee_bps
    BY <2>6 DEF FinalizeContractsBatch, WriteFinalizations, control
  <2>7. ASSUME NEW amount, WithdrawProtocolFees(amount) PROVE UNCHANGED protocol_fee_bps
    BY <2>7 DEF WithdrawProtocolFees, control
  <2>8. ASSUME Pause \/ Unpause \/ ActivateEmergencyPause \/ ResolveEmergency
        PROVE  UNCHANGED protocol_fee_bps
    BY <2>8 DEF Pause, Unpause, ActivateEmergencyPause, ResolveEmergency
  <2> QED
    BY <1>4, <2>1, <2>2, <2>3, <2>4, <2>5, <2>6, <2>7, <2>8 DEF Bookkeeping
<1> QED
  BY <1>1, <1>2, <1>3, <1>4, NextCases

LEMMA NextPaid ==
  ASSUME PartialFees, BooksInv, PaidInv, [Next]_vars
  PROVE  PaidInv'
<1>1. AccountingInv /\ AccountingInv' /\ TypeOK
  BY NextAccounting DEF BooksInv, AccountingInv
<1> DEFINE PaidEach == \A id \in DOMAIN contracts : PaidOK(contracts[id], milestones[id])
<1>2. ASSUME NEW t \in Terms, CreateContract(t) PROVE PaidEach'
  <2> DEFINE n == next_contract_id
             m == milestones'[n]
  <2>1. contracts'[n].status = "Created"
    BY <1>1, <1>2, NewContractApart
  <2>2. BookOK(contracts'[n], m)
    BY <1>1, <1>2, NewBook
  <2>3. m.released = {}
    BY <2>1, <2>2 DEF BookOK, StageOK
  <2>4. \A i \in DOMAIN m.amounts : m.protocol_fee[i] = 0 /\ m.amounts[i] > 0
    BY <2>2, <2>3 DEF BookOK, VectorInv, VectorOK, FlagsOK
  <2>5. PaidOK(contracts'[n], m)
    BY <2>1, <2>4 DEF PaidOK
  <2> QED
    BY <1>1, <1>2, <2>5, NewContractApart DEF PaidInv
<1>3. ASSUME NEW id \in DOMAIN contracts, NEW c2 \in ContractType,
             ContractMoves(id, contracts[id], milestones[id], c2)
      PROVE  PaidEach'
  <2>1. PICK m2 : Becomes(id, c2, m2) /\ PaidOK(c2, m2)
    BY <1>1, <1>3, MovedPaid
  <2> QED
    BY <1>1, <2>1, OneContractChanges DEF Becomes, PaidInv
<1>4. ASSUME UNCHANGED books PROVE PaidEach'
  BY <1>4 DEF books, PaidInv
<1>5. Bookkeeping \/ UNCHANGED vars => UNCHANGED books
  BY BooksUntouched DEF vars
<1> HIDE DEF PaidEach
<1>6. PaidEach'
  BY <1>1, <1>2, <1>3, <1>4, <1>5, NextCases
<1>7. protocol_fee_bps' < BPS_DENOMINATOR
  <2>1. UNCHANGED vars => UNCHANGED protocol_fee_bps
    BY DEF vars, control
  <2> QED
    BY <1>1, <2>1, RateBelow DEF PaidInv
<1> QED
  BY <1>6, <1>7 DEF PaidInv, PaidEach

(* While no fee rate takes everything, the status of a contract tells the  *)
(* truth about its books and its milestones: in particular a completed     *)
(* contract paid its freelancer, and a cancelled or refunded one gave the  *)
(* client all of its deposits back.                                        *)
THEOREM StatusTellsTheTruth ==
  ASSUME PartialFees
  PROVE  Spec => []StatusMatchesBooks
<1>1. Init => PaidInv
  BY DEF Init, PaidInv, BPS_DENOMINATOR
<1>2. BooksInv /\ PaidInv /\ [Next]_vars => PaidInv'
  BY NextPaid
<1>3. Init => ArbiterInv
  BY DEF Init, ArbiterInv
<1>4. BooksInv /\ ArbiterInv /\ [Next]_vars => ArbiterInv'
  BY NextArbiters DEF BooksInv
<1>5. ASSUME BooksInv, PaidInv, ArbiterInv, NEW id \in DOMAIN contracts
      PROVE  LET c     == contracts[id]
                 m     == milestones[id]
                 total == TotalAmount(m.amounts)
             IN
             CASE c.status = "Created"         -> c.funded_amount = 0
               [] c.status = "PartiallyFunded" -> /\ c.funded_amount \in 1 .. total - 1
                                                  /\ Unresolved(id) = DOMAIN m.amounts
               [] c.status = "Funded"          -> c.funded_amount = total /\ Unresolved(id) # {}
               [] c.status = "Disputed"        -> c.arbiter # NoArbiter /\ Unresolved(id) # {}
               [] c.status = "Completed"       -> c.released_amount > 0
               [] OTHER -> c.released_amount = 0 /\ c.refunded_amount = c.funded_amount
  <2> DEFINE c == contracts[id]
             m == milestones[id]
  <2>1. BookOK(c, m) /\ PaidOK(c, m) /\ c.status \in ContractStatus
    BY <1>5, ContractFacts DEF BooksInv, PaidInv, ContractType
  <2>2. Unresolved(id) = Left(m)
    BY DEF Unresolved, Indices, Left
  <2> HIDE DEF c, m
  <2>3. CASE c.status = "Created"
    BY <2>1, <2>3 DEF BookOK, StageOK, c
  <2>4. CASE c.status = "PartiallyFunded"
    BY <2>1, <2>2, <2>4 DEF BookOK, StageOK, Left, c, m
  <2>5. CASE c.status = "Funded"
    BY <2>1, <2>2, <2>5 DEF BookOK, StageOK, c, m
  <2>6. CASE c.status = "Disputed"
    BY <1>5, <2>1, <2>2, <2>6 DEF BookOK, StageOK, ArbiterInv, c, m
  <2>7. CASE c.status = "Completed"
    BY <2>1, <2>7 DEF PaidOK, c
  <2>8. CASE c.status \in {"Cancelled", "Refunded"}
    BY <2>1, <2>8 DEF BookOK, StageOK, c
  <2> QED
    BY <2>1, <2>3, <2>4, <2>5, <2>6, <2>7, <2>8 DEF ContractStatus
<1>6. BooksInv /\ PaidInv /\ ArbiterInv => StatusMatchesBooks
  BY <1>5 DEF StatusMatchesBooks
<1> QED
  BY <1>1, <1>2, <1>6, <1>3, <1>4, BooksHold, PTL DEF Spec

(***************************************************************************)
(* The life of a contract.                                                 *)
(***************************************************************************)

(* A move of a contract is a step of the transition table, or none.  That  *)
(* a refund cannot close a contract which was never paid into is a matter  *)
(* of the books: there is nothing to refund.                               *)
LEMMA MovedStatus ==
  ASSUME BooksInv, AccountingInv', NEW id \in DOMAIN contracts, NEW c2 \in ContractType,
         ContractMoves(id, contracts[id], milestones[id], c2)
  PROVE  /\ \E m2 : Becomes(id, c2, m2)
         /\ \/ c2.status = contracts[id].status
            \/ c2.status \in Lifecycle!Successors(contracts[id].status)
         /\ UNCHANGED finalization
<1> DEFINE c == contracts[id]
           m == milestones[id]
           Goal == /\ \E m2 : Becomes(id, c2, m2)
                   /\ c2.status = c.status \/ c2.status \in Lifecycle!Successors(c.status)
                   /\ UNCHANGED finalization
<1>1. AccountingInv /\ c \in ContractType /\ BookOK(c, m) /\ ContractMoves(id, c, m, c2)
  BY ContractFacts DEF BooksInv
<1>2. ASSUME NEW m2, Becomes(id, c2, m2) PROVE ContractOK(c2, m2)
  <2>1. TypeOK
    BY <1>1 DEF AccountingInv
  <2>2. id \in DOMAIN contracts' /\ contracts'[id] = c2 /\ milestones'[id] = m2
    BY <1>2, <2>1, OneContractChanges DEF Becomes
  <2> QED
    BY <2>2 DEF AccountingInv, AccountingBound, ContractOK
<1> HIDE DEF c, m
<1>3. ASSUME NEW amount, DepositWith(id, c, m, c2, amount) PROVE Goal
  BY <1>3 DEF DepositWith, Lifecycle!Successors, records
<1>4. ASSUME NEW i, NEW fee \in Int, NEW m2, ReleaseWith(id, i, c, m, c2, m2, fee) PROVE Goal
  <2>1. /\ Becomes(id, c2, m2) /\ c.status = "Funded" /\ c2.status = StatusAfter(c, m2)
        /\ MilestonesType(m2) /\ UNCHANGED finalization
    BY <1>4 DEF ReleaseWith
  <2> QED
    BY <2>1, StatusAfterCases DEF Lifecycle!Successors
<1>5. ASSUME NEW i, NEW fee, NEW released, NEW refunded, NEW reversed, NEW m2,
             RollbackWith(id, i, c, m, c2, m2, fee, released, refunded, reversed)
      PROVE  Goal
  BY <1>5 DEF RollbackWith
<1>6. ASSUME NEW indices, NEW total \in Nat, NEW m2, RefundWith(id, indices, c, m, c2, m2, total)
      PROVE  Goal
  <2>1. /\ Becomes(id, c2, m2) /\ c2.status = StatusAfter(c, m2)
        /\ MilestonesType(m2) /\ UNCHANGED finalization
    BY <1>6 DEF RefundWith
  <2>2. c.status \in {"Funded", "Disputed"}
    BY <1>1, <1>2, <1>6, <2>1, RefundBook
  <2>3. c2.status = c.status \/ c2.status \in {"Completed", "Refunded"}
    BY <2>1, StatusAfterCases
  <2> QED
    BY <2>1, <2>2, <2>3 DEF Lifecycle!Successors
<1>7. ASSUME NEW left, CancelWith(id, c, m, c2, left) PROVE Goal
  BY <1>7 DEF CancelWith, Lifecycle!Successors, records
<1>8. ASSUME RaiseWith(id, c, m, c2) PROVE Goal
  BY <1>8 DEF RaiseWith, DisputableStatus, Lifecycle!Successors
<1>9. ASSUME ResolveWith(id, c, m, c2) PROVE Goal
  BY <1>9 DEF ResolveWith, Lifecycle!Successors
<1>10. ASSUME RateWith(id, c, m, c2) PROVE Goal
  BY <1>10 DEF RateWith
<1> HIDE DEF Goal
<1>11. Goal
  BY <1>1, <1>3, <1>4, <1>5, <1>6, <1>7, <1>8, <1>9, <1>10 DEF ContractMoves
<1> QED
  BY <1>11 DEF Goal, c

StatusOf == [id \in DOMAIN contracts |-> contracts[id].status]

LEMMA MovesAdvance ==
  ASSUME BooksInv, [Next]_vars, NEW id \in DOMAIN contracts, NEW c2 \in ContractType,
         ContractMoves(id, contracts[id], milestones[id], c2)
  PROVE  \/ Lifecycle!Advance(id)
         \/ UNCHANGED Lifecycle!vars
<1>0. AccountingInv /\ AccountingInv' /\ TypeOK
  BY NextAccounting DEF BooksInv, AccountingInv
<1>1. /\ \E m2 : Becomes(id, c2, m2)
      /\ \/ c2.status = contracts[id].status
         \/ c2.status \in Lifecycle!Successors(contracts[id].status)
      /\ UNCHANGED finalization
  BY <1>0, MovedStatus
<1>2. PICK m2 : Becomes(id, c2, m2)
  BY <1>1
<1>3. /\ DOMAIN contracts' = DOMAIN contracts /\ contracts'[id] = c2
      /\ \A x \in DOMAIN contracts \ {id} : contracts'[x] = contracts[x]
  BY <1>0, <1>2, OneContractChanges DEF Becomes
<1>4. StatusOf' = [StatusOf EXCEPT ![id] = c2.status]
  BY <1>3 DEF StatusOf
<1>5. CASE c2.status = contracts[id].status
  <2>1. StatusOf' = StatusOf
    BY <1>3, <1>5 DEF StatusOf
  <2> QED
    BY <1>1, <2>1 DEF Lifecycle!vars, StatusOf
<1>6. CASE c2.status # contracts[id].status
  <2>1. id \notin DOMAIN finalization
    <3> SUFFICES ASSUME id \in DOMAIN finalization PROVE FALSE
      OBVIOUS
    <3>1. Frozen(id)
      BY <1>0, NextKeepsFinalized
    <3>2. c2.status = contracts[id].status
      BY <1>0, <1>3, <3>1 DEF Frozen, TypeOK, BooksTypeOK, ContractType
    <3> QED
      BY <1>6, <3>2
  <2>2. Lifecycle!Advance(id)
    <3>1. id \in DOMAIN StatusOf \ DOMAIN finalization
      BY <2>1 DEF StatusOf
    <3>2. c2.status \in Lifecycle!Successors(StatusOf[id])
      BY <1>1, <1>6 DEF StatusOf
    <3> QED
      BY <1>1, <1>4, <3>1, <3>2 DEF Lifecycle!Advance, StatusOf
  <2> QED
    BY <2>2
<1> QED
  BY <1>5, <1>6

LEMMA CreationOpens ==
  ASSUME TypeOK, NEW t \in Terms, CreateContract(t)
  PROVE  Lifecycle!Open(next_contract_id)
<1>1. /\ next_contract_id \notin DOMAIN contracts
      /\ DOMAIN contracts' = DOMAIN contracts \cup {next_contract_id}
      /\ contracts'[next_contract_id].status = "Created"
      /\ \A x \in DOMAIN contracts : contracts'[x] = contracts[x]
  BY NewContractApart
<1>2. UNCHANGED finalization
  BY DEF CreateContract, records
<1> QED
  BY <1>1, <1>2 DEF Lifecycle!Open

(* Close records come and go for contracts in the right state only.        *)
LEMMA BookkeepingMaps ==
  ASSUME TypeOK, Bookkeeping
  PROVE  \/ \E ids \in SUBSET (1 .. MAX_CONTRACT_ID - 1) : Lifecycle!Close(ids)
         \/ \E id \in 1 .. MAX_CONTRACT_ID - 1 : Lifecycle!Reopen(id)
         \/ UNCHANGED Lifecycle!vars
<1> DEFINE Ids == 1 .. MAX_CONTRACT_ID - 1
           Goal == \/ \E ids \in SUBSET Ids : Lifecycle!Close(ids)
                   \/ \E id \in Ids : Lifecycle!Reopen(id)
                   \/ UNCHANGED Lifecycle!vars
<1>1. UNCHANGED contracts
  BY BooksUntouched DEF books
<1>2. DOMAIN contracts \subseteq Ids
  BY LimitsAssumption DEF TypeOK, BooksTypeOK
<1>3. ASSUME UNCHANGED finalization PROVE Goal
  BY <1>1, <1>3 DEF Lifecycle!vars
<1>4. ASSUME NEW ids, NEW finalizer, WriteFinalizations(ids),
             \A id \in ids : Finalizable(id, finalizer[id])
      PROVE  Goal
  <2>1. \A id \in ids : id \in DOMAIN contracts /\ id \notin DOMAIN finalization
                          /\ contracts[id].status \in {"Completed", "Disputed"}
    BY <1>4 DEF Finalizable, Exists, Finalized
  <2>2. DOMAIN finalization' = DOMAIN finalization \cup ids
    BY <1>4 DEF WriteFinalizations
  <2>3. ids \in SUBSET Ids
    BY <1>2, <2>1
  <2>4. Lifecycle!Close(ids)
    BY <1>1, <2>1, <2>2 DEF Lifecycle!Close
  <2> QED
    BY <2>3, <2>4
<1>5. ASSUME NEW id, NEW finalizer, FinalizeContract(id, finalizer) PROVE Goal
  <2>1. WriteFinalizations({id}) /\ Finalizable(id, finalizer)
    BY <1>5 DEF FinalizeContract
  <2>2. \A x \in {id} : Finalizable(x, [y \in {id} |-> finalizer][x])
    BY <2>1
  <2> HIDE DEF Goal
  <2> QED
    BY <1>4, <2>1, <2>2
<1>6. ASSUME NEW ids, NEW finalizer, FinalizeContractsBatch(ids, finalizer) PROVE Goal
  BY <1>4, <1>6 DEF FinalizeContractsBatch
<1>7. ASSUME NEW id \in DOMAIN contracts, RollbackContract(id) PROVE Goal
  <2>1. id \in DOMAIN finalization /\ DOMAIN finalization' = DOMAIN finalization \ {id}
    BY <1>7 DEF RollbackContract, Finalized
  <2>2. Lifecycle!Reopen(id)
    BY <1>1, <2>1 DEF Lifecycle!Reopen
  <2> QED
    BY <1>2, <2>2
<1> HIDE DEF Goal
<1>8. ASSUME NEW id, NEW caller, NEW indices, ApproveMilestones(id, indices, caller) PROVE Goal
  BY <1>3, <1>8 DEF ApproveMilestones
<1>9. ASSUME NEW id, SimulateIssueReputation(id) PROVE Goal
  BY <1>3, <1>9 DEF SimulateIssueReputation
<1>10. ASSUME NEW id, NEW i, ExpireApprovals(id, i) PROVE Goal
  BY <1>3, <1>10 DEF ExpireApprovals
<1>11. ASSUME NEW amount, WithdrawProtocolFees(amount) PROVE Goal
  BY <1>3, <1>11 DEF WithdrawProtocolFees, records
<1>12. ASSUME NEW new_bps, SetProtocolFeeBps(new_bps) PROVE Goal
  BY <1>3, <1>12 DEF SetProtocolFeeBps, records
<1>13. ASSUME Pause \/ Unpause \/ ActivateEmergencyPause \/ ResolveEmergency PROVE Goal
  BY <1>3, <1>13 DEF Pause, Unpause, ActivateEmergencyPause, ResolveEmergency, records
<1>14. Goal
  BY <1>5, <1>6, <1>7, <1>8, <1>9, <1>10, <1>11, <1>12, <1>13 DEF Bookkeeping
<1> QED
  BY <1>14 DEF Goal

LEMMA NextMaps == BooksInv /\ [Next]_vars => [Lifecycle!Next]_(Lifecycle!vars)
<1> SUFFICES ASSUME BooksInv, [Next]_vars PROVE Lifecycle!Next \/ UNCHANGED Lifecycle!vars
  OBVIOUS
<1>1. TypeOK /\ AccountingInv
  BY DEF BooksInv, AccountingInv
<1>2. DOMAIN contracts \subseteq 1 .. MAX_CONTRACT_ID - 1
  BY <1>1, LimitsAssumption DEF TypeOK, BooksTypeOK
<1>3. ASSUME NEW t \in Terms, CreateContract(t) PROVE Lifecycle!Next
  <2>1. next_contract_id \in 1 .. MAX_CONTRACT_ID - 1
    BY <1>1, <1>3, LimitsAssumption DEF CreateContract, TypeOK, BooksTypeOK
  <2>2. Lifecycle!Open(next_contract_id)
    BY <1>1, <1>3, CreationOpens
  <2>3. PICK n \in 1 .. MAX_CONTRACT_ID - 1 : n = next_contract_id
    BY <2>1
  <2>4. Lifecycle!Open(n)
    BY <2>2, <2>3 DEF Lifecycle!Open
  <2> QED
    BY <2>4 DEF Lifecycle!Next
<1>4. ASSUME NEW id \in DOMAIN contracts, NEW c2 \in ContractType,
             ContractMoves(id, contracts[id], milestones[id], c2)
      PROVE  Lifecycle!Next \/ UNCHANGED Lifecycle!vars
  BY <1>2, <1>4, MovesAdvance DEF Lifecycle!Next
<1>5. ASSUME Bookkeeping PROVE Lifecycle!Next \/ UNCHANGED Lifecycle!vars
  BY <1>1, <1>5, BookkeepingMaps DEF Lifecycle!Next
<1>6. ASSUME UNCHANGED vars PROVE UNCHANGED Lifecycle!vars
  BY <1>6 DEF vars, books, records, Lifecycle!vars
<1> QED
  BY <1>1, <1>3, <1>4, <1>5, <1>6, NextCases

LEMMA InitMaps == Init => Lifecycle!Init
  BY DEF Init, Lifecycle!Init

(* Whatever money does, contracts live the life the transition table of    *)
(* ContractStatus describes, ids are used once, and a close record freezes *)
(* the state: the escrow implements EscrowLifecycle.                       *)
THEOREM LivesTheLifecycle == Spec => ImplementsLifecycle
  BY InitMaps, NextMaps, BooksHold, PTL DEF Spec, ImplementsLifecycle, Lifecycle!Spec

(***************************************************************************)
(* The preview of a deposit.                                               *)
(***************************************************************************)

(* What a deposit asks for and its preview does not look at.               *)
PreviewInv ==
  \A id \in DOMAIN contracts :
    /\ TotalAmount(milestones[id].amounts) \in Stroops
    /\ Finalized(id) => contracts[id].status \in {"Completed", "Disputed"}

LEMMA NextPreview ==
  ASSUME BooksInv, PreviewInv, [Next]_vars
  PROVE  PreviewInv'
<1> SUFFICES ASSUME NEW x \in DOMAIN contracts'
             PROVE  /\ TotalAmount(milestones'[x].amounts) \in Stroops
                    /\ Finalized(x)' => contracts'[x].status \in {"Completed", "Disputed"}
  BY DEF PreviewInv
<1>0. AccountingInv /\ TypeOK /\ DOMAIN contracts = DOMAIN milestones
  BY DEF BooksInv, AccountingInv, TypeOK, BooksTypeOK
<1>1. CASE x \notin DOMAIN contracts
  <2>1. PICK t \in Terms : CreateContract(t) /\ x = next_contract_id
    BY <1>0, <1>1, NewIdsAreCreated
  <2>2. milestones'[x].amounts = t.amounts
    BY <1>0, <2>1 DEF CreateContract, With, NewMilestones
  <2>3. TotalAmount(t.amounts) \in Stroops
    BY <2>1 DEF CreateContract, AcceptableTerms
  <2>4. x \notin DOMAIN finalization'
    BY <1>0, <1>1, <2>1 DEF CreateContract, records, TypeOK, RecordsTypeOK
  <2> QED
    BY <2>2, <2>3, <2>4 DEF Finalized
<1>2. CASE x \in DOMAIN contracts
  <2>1. milestones'[x].amounts = milestones[x].amounts
    BY <1>0, <1>2, NextKeepsDeal DEF DealKept
  <2>2. TotalAmount(milestones'[x].amounts) \in Stroops
    BY <1>2, <2>1 DEF PreviewInv
  <2>3. ASSUME x \in DOMAIN finalization' PROVE contracts'[x].status \in {"Completed", "Disputed"}
    <3>1. CASE x \in DOMAIN finalization
      <4>1. Frozen(x)
        BY <1>0, <3>1, NextKeepsFinalized
      <4>2. contracts[x] \in ContractType
        BY <1>0, <1>2 DEF TypeOK, BooksTypeOK
      <4>3. contracts'[x].status = contracts[x].status
        BY <4>1, <4>2 DEF Frozen, ContractType
      <4> QED
        BY <1>2, <3>1, <4>3 DEF PreviewInv, Finalized
    <3>2. CASE x \notin DOMAIN finalization
      BY <2>3, <3>2, RecordsOfStep DEF books
    <3> QED
      BY <3>1, <3>2
  <2> QED
    BY <2>2, <2>3 DEF Finalized
<1> QED
  BY <1>1, <1>2

LEMMA PreviewHolds == Spec => [](BooksInv /\ PreviewInv)
<1>1. Init => BooksInv /\ PreviewInv
  BY InitBooks DEF Init, PreviewInv
<1>2. BooksInv /\ PreviewInv /\ [Next]_vars => BooksInv' /\ PreviewInv'
  BY NextBooks, NextPreview
<1> QED
  BY <1>1, <1>2, PTL DEF Spec

LEMMA PreviewMeans ==
  ASSUME BooksInv, PreviewInv
  PROVE  PreviewIsHonest
<1> SUFFICES ASSUME NEW id \in DOMAIN contracts, NEW amount \in DepositAmounts
             PROVE  /\ CanDeposit(id, amount) <=> PreviewAccepts(id, amount)
                    /\ PreviewAccepts(id, amount) =>
                         LET deposited == Deposited(contracts[id],
                                            TotalAmount(milestones[id].amounts), amount)
                         IN  /\ deposited.funded_amount =
                                  Projected(id, amount).new_funded_amount
                             /\ deposited.status = Projected(id, amount).projected_status
  BY DEF PreviewIsHonest
<1> DEFINE total == TotalAmount(milestones[id].amounts)
<1>1. /\ contracts[id].status \in {"Created", "PartiallyFunded"} => ~Finalized(id)
      /\ total \in Stroops
  BY DEF PreviewInv
<1>2. contracts[id] \in ContractType
  BY ContractFacts DEF BooksInv
<1> HIDE DEF total
<1>3. CanDeposit(id, amount) <=> PreviewAccepts(id, amount)
  BY <1>1 DEF CanDeposit, PreviewAccepts, total
<1>4. /\ Deposited(contracts[id], total, amount).funded_amount =
           Projected(id, amount).new_funded_amount
      /\ Deposited(contracts[id], total, amount).status = Projected(id, amount).projected_status
  BY <1>2 DEF Deposited, Projected, ContractType, total
<1> QED
  BY <1>3, <1>4 DEF total

(* In every state simulate_deposit_funds accepts what deposit_funds does,  *)
(* though it looks neither at the close record nor at the sum of the       *)
(* milestones: no contract that can still be funded would be refused for   *)
(* either.  And the deposit leads to the amount and the status foretold.   *)
THEOREM PreviewHonest == Spec => []PreviewIsHonest
  BY PreviewHolds, PreviewMeans, PTL

(* The deposit, told as its preview tells it.                              *)
DepositAsPreviewed(id, amount) ==
  /\ PreviewAccepts(id, amount)
  /\ contracts' = [contracts EXCEPT
       ![id].funded_amount = Projected(id, amount).new_funded_amount,
       ![id].status = Projected(id, amount).projected_status]
  /\ custody' = custody + amount
  /\ UNCHANGED <<next_contract_id, milestones, records, accumulated_fees, unrecovered,
                 undistributed, control>>

LEMMA DepositIsPreviewed ==
  ASSUME PreviewInv, NEW id \in DOMAIN contracts, NEW amount
  PROVE  DepositFunds(id, amount) <=> DepositAsPreviewed(id, amount)
<1> DEFINE total == TotalAmount(milestones[id].amounts)
           p == Projected(id, amount)
<1>1. /\ p.new_funded_amount = contracts[id].funded_amount + amount
      /\ p.projected_status = IF contracts[id].funded_amount + amount = total
                              THEN "Funded" ELSE "PartiallyFunded"
  BY DEF Projected
<1>2. contracts[id].status \in {"Created", "PartiallyFunded"} => ~Finalized(id)
  BY DEF PreviewInv
<1>3. total \in Stroops
  BY DEF PreviewInv
<1>4. [contracts EXCEPT ![id].funded_amount = p.new_funded_amount,
                        ![id].status = p.projected_status]
      = [contracts EXCEPT ![id] = [contracts[id] EXCEPT !.funded_amount = p.new_funded_amount,
                                                        !.status = p.projected_status]]
  OBVIOUS
<1> HIDE DEF p, total
<1> QED
  BY <1>1, <1>2, <1>3, <1>4
  DEF DepositFunds, CanDeposit, Deposited, PreviewAccepts, DepositAsPreviewed, p, total

PreviewedStep ==
  \E id \in DOMAIN contracts, amount \in DepositAmounts : DepositAsPreviewed(id, amount)

(* A deposit that asked only for what simulate_deposit_funds asks for, and *)
(* then did what it foretells, would be a deposit of Escrow: the preview   *)
(* looks neither at the close record nor at the sum of the milestones, and *)
(* no contract that can still be funded would be refused for either.       *)
THEOREM PreviewForetells == Init /\ [][Next \/ PreviewedStep]_vars => Spec
<1>1. Init => BooksInv /\ PreviewInv
  BY InitBooks DEF Init, PreviewInv
<1>2. PreviewInv /\ PreviewedStep => Next
  <2> SUFFICES ASSUME PreviewInv, NEW id \in DOMAIN contracts, NEW amount \in DepositAmounts,
                      DepositAsPreviewed(id, amount)
               PROVE  Participate(id)
    BY DEF PreviewedStep, Next
  <2> QED
    BY DepositIsPreviewed DEF Participate
<1>3. BooksInv /\ PreviewInv /\ [Next \/ PreviewedStep]_vars =>
        [Next]_vars /\ BooksInv' /\ PreviewInv'
  BY <1>2, NextBooks, NextPreview
<1> QED
  BY <1>1, <1>3, PTL DEF Spec

(***************************************************************************)
(* What an arbiter decides.                                                *)
(***************************************************************************)

(* The two legs of an award are together what was left.                    *)
LEMMA LegsAddUp ==
  ASSUME NEW available \in Int, NEW r \in Resolutions, ResolutionAccepted(available, r)
  PROVE  ClientPayout(available, r) + FreelancerPayout(available, r) = available
<1>1. CASE r.kind = "Split"
  <2>1. ValidSplit(available, r)
    BY <1>1 DEF ResolutionAccepted
  <2>2. ClientPayout(available, r) = r.client /\ FreelancerPayout(available, r) = r.freelancer
    BY <1>1 DEF ClientPayout, FreelancerPayout
  <2> QED
    BY <2>1, <2>2 DEF ValidSplit
<1>2. CASE r.kind # "Split"
  <2>1. ClientPayout(available, r) = available - FreelancerPayout(available, r)
    BY <1>2 DEF ClientPayout
  <2> QED
    BY <2>1, PayoutsAreInt
<1> QED
  BY <1>1, <1>2

(* Neither leg of an accepted award takes from what was disposed of        *)
(* before.                                                                 *)
LEMMA LegsAreNat ==
  ASSUME NEW available \in Nat, NEW r \in Resolutions, ResolutionAccepted(available, r)
  PROVE  ClientPayout(available, r) \in Nat /\ FreelancerPayout(available, r) \in Nat
<1>1. r.kind \in {"FullRefund", "PartialRefund", "FullPayout", "Split"}
  BY DEF Resolutions, FixedResolution, Split
<1>2. CASE r.kind = "Split"
  BY <1>2, AmountsAssumption
  DEF ResolutionAccepted, ValidSplit, ClientPayout, FreelancerPayout
<1>3. CASE r.kind = "FullRefund"
  BY <1>3 DEF ClientPayout, FreelancerPayout
<1>4. CASE r.kind = "FullPayout"
  BY <1>4 DEF ClientPayout, FreelancerPayout
<1>5. CASE r.kind = "PartialRefund"
  <2>1. (available * 30) \div 100 \in 0 .. available
    OBVIOUS
  <2>2. FreelancerPayout(available, r) = (available * 30) \div 100
    BY <1>5
    DEF FreelancerPayout, PartialRefundFreelancerLeg, PARTIAL_REFUND_FREELANCER_SHARE,
        PARTIAL_REFUND_DENOMINATOR
  <2>3. ClientPayout(available, r) = available - FreelancerPayout(available, r)
    BY <1>5 DEF ClientPayout
  <2> QED
    BY <2>1, <2>2, <2>3
<1> QED
  BY <1>1, <1>2, <1>3, <1>4, <1>5

(* What resolve_dispute asks for about the amounts is that the award       *)
(* itself be well formed.  A full refund and a full payout always are; a   *)
(* partial refund is while 30 times what is left does not overflow.        *)
DisputeIsDecidable ==
  \A id \in DOMAIN contracts :
    contracts[id].status = "Disputed" /\ NotPaused /\ ~Finalized(id) =>
      /\ contracts[id].arbiter # NoArbiter
      /\ \A r \in Resolutions :
           ResolutionAccepted(Available(id), r) => CanResolve(id, contracts[id].arbiter, r)
      /\ \A kind \in {"FullRefund", "FullPayout"} :
           CanResolve(id, contracts[id].arbiter, FixedResolution(kind))

LEMMA DecidableMeans ==
  ASSUME BooksInv, PreviewInv, ArbiterInv
  PROVE  DisputeIsDecidable
<1> SUFFICES ASSUME NEW id \in DOMAIN contracts, contracts[id].status = "Disputed",
                    NotPaused, ~Finalized(id)
             PROVE  /\ contracts[id].arbiter # NoArbiter
                    /\ \A r \in Resolutions : ResolutionAccepted(Available(id), r) =>
                         CanResolve(id, contracts[id].arbiter, r)
                    /\ \A kind \in {"FullRefund", "FullPayout"} :
                         CanResolve(id, contracts[id].arbiter, FixedResolution(kind))
  BY DEF DisputeIsDecidable
<1> DEFINE c == contracts[id]
           m == milestones[id]
<1>1. /\ c \in ContractType /\ BookOK(c, m) /\ VectorInv(m) /\ ContractOK(c, m)
      /\ Available(id) = c.funded_amount - c.released_amount - c.refunded_amount
      /\ TotalAmount(m.amounts) \in Stroops
  BY ContractFacts DEF BooksInv, BookOK, PreviewInv
<1>2. c.released_amount \in Nat /\ c.refunded_amount \in Nat
  BY <1>1, VectorParts DEF BookOK, CountersOK, OpenStatus
<1>3. c.funded_amount \in Int /\ c.funded_amount <= I128_MAX /\ Available(id) \in Nat
  BY <1>1, <1>2, AmountsAssumption DEF ContractType, ContractOK, Stroops
<1> HIDE DEF c, m
<1>4. ASSUME NEW r \in Resolutions, ResolutionAccepted(Available(id), r)
      PROVE  CanResolve(id, contracts[id].arbiter, r)
  <2> DEFINE x == ClientPayout(Available(id), r)
             y == FreelancerPayout(Available(id), r)
  <2>1. x \in Nat /\ y \in Nat /\ x + y = Available(id)
    BY <1>3, <1>4, LegsAreNat, LegsAddUp
  <2> HIDE DEF x, y
  <2>2. /\ c.refunded_amount + x \in Stroops /\ c.released_amount + y \in Stroops
        /\ (c.released_amount + y) + (c.refunded_amount + x) = c.funded_amount
    BY <1>1, <1>2, <1>3, <2>1, AmountsAssumption DEF Stroops
  <2> QED
    BY <1>4, <2>2 DEF CanResolve, c, x, y
<1>5. ASSUME NEW kind \in {"FullRefund", "FullPayout"}
      PROVE  /\ FixedResolution(kind) \in Resolutions
             /\ ResolutionAccepted(Available(id), FixedResolution(kind))
  BY DEF Resolutions, FixedResolution, ResolutionAccepted
<1>6. contracts[id].arbiter # NoArbiter
  BY DEF ArbiterInv
<1> QED
  BY <1>4, <1>5, <1>6

(* An open dispute can be decided: the arbiter there is may give all that  *)
(* is left to either side, or divide it, and no check behind the award's   *)
(* own ever rejects what it accepts, whatever was released, refunded or    *)
(* rolled back before.                                                     *)
THEOREM DisputesAreDecidable == Spec => []DisputeIsDecidable
<1>1. Init => ArbiterInv
  BY DEF Init, ArbiterInv
<1>2. BooksInv /\ ArbiterInv /\ [Next]_vars => ArbiterInv'
  BY NextArbiters DEF BooksInv
<1>3. BooksInv /\ PreviewInv /\ ArbiterInv => DisputeIsDecidable
  BY DecidableMeans
<1> QED
  BY <1>1, <1>2, <1>3, PreviewHolds, PTL DEF Spec

(***************************************************************************)
(* The copies of the release and of the refund.                            *)
(***************************************************************************)

(* A milestone that is still open has no fee on record, so that a release  *)
(* without a fee leaves nothing in the vector a copy could forget, and the *)
(* last one to be released was not refunded, so that it completes.         *)
LEMMA SameRelease ==
  ASSUME BooksInv, NEW id \in DOMAIN contracts, NEW i \in Unresolved(id), Fee(id, i) = 0
  PROVE  /\ Released(milestones[id], i, Fee(id, i)) = MarkedReleased(id, i)
         /\ StatusAfter(contracts[id], Released(milestones[id], i, Fee(id, i))) = ReleasedStatus(id, i)
<1> DEFINE m == milestones[id]
<1>1. VectorInv(m)
  BY DEF BooksInv, BookOK
<1>2. i \in DOMAIN m.amounts \ (m.released \cup m.refunded)
  BY DEF Unresolved, Indices
<1>3. m.protocol_fee[i] = 0 /\ m.released \subseteq DOMAIN m.amounts /\ m.refunded \subseteq DOMAIN m.amounts
  BY <1>1, <1>2, VectorParts DEF VectorInv, FlagsOK
<1>4. m.protocol_fee \in Seq(Int) /\ m = [amounts |-> m.amounts, released |-> m.released,
                                          refunded |-> m.refunded, protocol_fee |-> m.protocol_fee]
  BY <1>1 DEF VectorInv, MilestonesType
<1>5. [m.protocol_fee EXCEPT ![i] = 0] = m.protocol_fee
  BY <1>3, <1>4
<1>6. Released(m, i, Fee(id, i)) = MarkedReleased(id, i)
  BY <1>4, <1>5 DEF Released, MarkedReleased
<1>7. /\ Released(m, i, Fee(id, i)).released = m.released \cup {i}
      /\ Released(m, i, Fee(id, i)).refunded = m.refunded
      /\ Released(m, i, Fee(id, i)).amounts = m.amounts
  BY <1>4, <1>6 DEF MarkedReleased
<1>8. StatusAfter(contracts[id], Released(m, i, Fee(id, i))) = ReleasedStatus(id, i)
  BY <1>2, <1>3, <1>7 DEF StatusAfter, ReleasedStatus, Unresolved, Indices
<1> QED
  BY <1>6, <1>8

LEMMA SameRefund ==
  ASSUME BooksInv, NEW id \in DOMAIN contracts, NEW indices, indices \subseteq Unresolved(id)
  PROVE  StatusAfter(contracts[id], Refunded(milestones[id], indices)) = RefundedStatus(id, indices)
<1> DEFINE m == milestones[id]
           m2 == Refunded(m, indices)
<1>1. VectorInv(m)
  BY DEF BooksInv, BookOK
<1>2. m.released \subseteq DOMAIN m.amounts /\ m.refunded \subseteq DOMAIN m.amounts
  BY <1>1, VectorParts
<1>3. /\ m2.released = m.released /\ m2.refunded = m.refunded \cup indices
      /\ m2.amounts = m.amounts
  BY <1>1 DEF Refunded, VectorInv, MilestonesType
<1> HIDE DEF m2
<1>4. m2.released \cup m2.refunded = DOMAIN m2.amounts <=> Unresolved(id) = indices
  BY <1>2, <1>3 DEF Unresolved, Indices
<1>5. m2.refunded = DOMAIN m2.amounts <=> m.refunded \cup indices = Indices(id)
  BY <1>3 DEF Indices
<1>6. CASE Unresolved(id) # indices
  <2>1. StatusAfter(contracts[id], m2) = contracts[id].status
    <3>1. m2.released \cup m2.refunded # DOMAIN m2.amounts /\ m2.refunded # DOMAIN m2.amounts
      BY <1>2, <1>3, <1>4, <1>6
    <3> QED
      BY <3>1 DEF StatusAfter
  <2>2. RefundedStatus(id, indices) = contracts[id].status
    BY <1>6 DEF RefundedStatus
  <2> QED
    BY <2>1, <2>2 DEF m2
<1>7. CASE Unresolved(id) = indices /\ m.refunded \cup indices = Indices(id)
  <2>1. StatusAfter(contracts[id], m2) = "Refunded"
    BY <1>4, <1>5, <1>7 DEF StatusAfter
  <2>2. RefundedStatus(id, indices) = "Refunded"
    BY <1>7 DEF RefundedStatus
  <2> QED
    BY <2>1, <2>2 DEF m2
<1>8. CASE Unresolved(id) = indices /\ m.refunded \cup indices # Indices(id)
  <2>1. StatusAfter(contracts[id], m2) = "Completed"
    BY <1>4, <1>5, <1>8 DEF StatusAfter
  <2>2. RefundedStatus(id, indices) = "Completed"
    BY <1>8 DEF RefundedStatus
  <2> QED
    BY <2>1, <2>2 DEF m2
<1> QED
  BY <1>6, <1>7, <1>8

LEMMA CopiedRelease ==
  ASSUME BooksInv, NEW id \in DOMAIN contracts, NEW i \in Unresolved(id), Fee(id, i) = 0
  PROVE  /\ MarkedReleased(id, i) = Released(milestones[id], i, 0)
         /\ ReleasedContract(id, i) =
              Paid(contracts[id], Released(milestones[id], i, 0), NetAmount(Gross(id, i), 0))
BY SameRelease DEF ReleasedContract, Paid, Net, NetAmount

LEMMA CopiedGuard ==
  ASSUME BooksInv, NEW id \in DOMAIN contracts, NEW i, NEW caller
  PROVE  CanReleaseImpl(id, i, caller) <=> CanRelease(id, i, caller)
<1>1. CASE i \notin Unresolved(id)
  BY <1>1 DEF CanRelease, CanReleaseImpl, Releasable
<1>2. CASE i \in Unresolved(id)
  <2> DEFINE gross == Gross(id, i)
  <2>1. accumulated_fees \in Int /\ accumulated_fees >= 0
    BY DEF BooksInv, AccountingInv, AccountingBound, TypeOK, FundsTypeOK
  <2>2. Available(id) \in Int
    BY DEF Available, AvailableBalance, BooksInv, AccountingInv, TypeOK, BooksTypeOK, ContractType
  <2>3. gross \in Int
    <3>1. milestones[id].amounts \in Seq(Int)
      BY DEF BooksInv, BookOK, VectorInv, MilestonesType
    <3>2. i \in DOMAIN milestones[id].amounts
      BY <1>2 DEF Unresolved, Indices
    <3> QED
      BY <3>1, <3>2 DEF Gross
  <2> HIDE DEF gross
  <2>4. gross <= Available(id) - accumulated_fees => gross <= Available(id)
    BY <2>1, <2>2, <2>3
  <2> QED
    BY <2>4 DEF CanRelease, CanReleaseImpl, Releasable, Net, NetAmount, Fee, Gross, gross
<1> QED
  BY <1>1, <1>2

LEMMA CopiedRefund ==
  ASSUME BooksInv, NEW id \in DOMAIN contracts, NEW indices
  PROVE  /\ CanRefundCopy(id, indices) <=> CanRefund(id, indices)
         /\ indices \subseteq Unresolved(id) =>
              /\ MarkedRefunded(id, indices) = Refunded(milestones[id], indices)
              /\ RefundedContract(id, indices) =
                   TakenBack(contracts[id], Refunded(milestones[id], indices),
                             RefundTotal(id, indices))
<1>1. CanRefundCopy(id, indices) <=> CanRefund(id, indices)
  BY DEF CanRefundCopy, CanRefund, RefundTotal
<1>2. MarkedRefunded(id, indices) = Refunded(milestones[id], indices)
  BY DEF MarkedRefunded, Refunded
<1>3. ASSUME indices \subseteq Unresolved(id)
      PROVE  RefundedContract(id, indices) =
               TakenBack(contracts[id], Refunded(milestones[id], indices),
                         RefundTotal(id, indices))
  BY <1>3, SameRefund DEF RefundedContract, TakenBack
<1> QED
  BY <1>1, <1>2, <1>3

LEMMA CopiesMean ==
  ASSUME BooksInv
  PROVE  Interchangeable
<1>1. ASSUME NEW id \in DOMAIN contracts, NEW caller \in Address, NEW i \in Indices(id),
             Fee(id, i) = 0
      PROVE  /\ CanReleaseImpl(id, i, caller) <=> CanRelease(id, i, caller)
             /\ CanRelease(id, i, caller) =>
                  /\ MarkedReleased(id, i) = Released(milestones[id], i, 0)
                  /\ ReleasedContract(id, i) =
                       Paid(contracts[id], Released(milestones[id], i, 0),
                            NetAmount(Gross(id, i), 0))
  <2>1. CanRelease(id, i, caller) => i \in Unresolved(id)
    BY DEF CanRelease
  <2> QED
    BY <1>1, <2>1, CopiedGuard, CopiedRelease
<1>2. ASSUME NEW id \in DOMAIN contracts, NEW indices \in SUBSET Indices(id)
      PROVE  /\ CanRefundCopy(id, indices) <=> CanRefund(id, indices)
             /\ CanRefund(id, indices) =>
                  /\ MarkedRefunded(id, indices) = Refunded(milestones[id], indices)
                  /\ RefundedContract(id, indices) =
                       TakenBack(contracts[id], Refunded(milestones[id], indices),
                                 RefundTotal(id, indices))
  <2>1. CanRefund(id, indices) => indices \subseteq Unresolved(id)
    BY DEF CanRefund
  <2> QED
    BY <2>1, CopiedRefund
<1> QED
  BY <1>1, <1>2 DEF Interchangeable

(* In every state Escrow reaches, the copies of release_milestone and of   *)
(* refund_unreleased_milestones accept what the originals accept, where no *)
(* fee is due on the release, and leave the same contract and milestones.  *)
THEOREM CopiesInterchangeable == Spec => []Interchangeable
<1>1. Init => BooksInv
  BY InitBooks
<1>2. BooksInv /\ [Next]_vars => BooksInv'
  BY NextBooks
<1>3. BooksInv => Interchangeable
  BY CopiesMean
<1> QED
  BY <1>1, <1>2, <1>3, PTL DEF Spec

(* The steps of a build that takes the copies in, used where no fee is due. *)
CopyStep ==
  \E id \in DOMAIN contracts :
    \/ \E caller \in Address, i \in Indices(id) :
         Fee(id, i) = 0 /\ ReleaseMilestoneImpl(id, i, caller)
    \/ \E indices \in SUBSET Indices(id) : RefundMilestonesCopy(id, indices)

(* A build that took in the releases and the refunds of milestones.rs and  *)
(* refund.rs would still be the escrow Escrow describes, as long as no fee *)
(* is charged where milestones.rs releases: status, books, credit and      *)
(* records after the last milestone are the same.                          *)
THEOREM CopiesAreEscrow == Init /\ [][Next \/ CopyStep]_vars => Spec
<1>1. BooksInv /\ CopyStep => Next
  <2> SUFFICES ASSUME BooksInv, NEW id \in DOMAIN contracts,
                      \/ \E caller \in Address, i \in Indices(id) :
                           Fee(id, i) = 0 /\ ReleaseMilestoneImpl(id, i, caller)
                      \/ \E indices \in SUBSET Indices(id) : RefundMilestonesCopy(id, indices)
               PROVE  Participate(id)
    BY DEF CopyStep, Next
  <2>1. ASSUME NEW caller \in Address, NEW i \in Indices(id), Fee(id, i) = 0,
               ReleaseMilestoneImpl(id, i, caller)
        PROVE  ReleaseMilestone(id, i, caller)
    <3>1. CanRelease(id, i, caller)
      BY <2>1, CopiedGuard DEF ReleaseMilestoneImpl
    <3>2. i \in Unresolved(id)
      BY <3>1 DEF CanRelease
    <3>3. /\ MarkedReleased(id, i) = Released(milestones[id], i, 0)
          /\ ReleasedContract(id, i) =
               Paid(contracts[id], Released(milestones[id], i, 0), NetAmount(Gross(id, i), 0))
      BY <2>1, <3>2, CopiedRelease
    <3> QED
      BY <2>1, <3>1, <3>3
      DEF ReleaseMilestone, ReleaseMilestoneImpl, Fee, Gross, Net, NetAmount
  <2>2. ASSUME NEW indices \in SUBSET Indices(id), RefundMilestonesCopy(id, indices)
        PROVE  RefundUnreleasedMilestones(id, indices)
    <3>1. CanRefund(id, indices)
      BY <2>2, CopiedRefund DEF RefundMilestonesCopy
    <3>2. indices \subseteq Unresolved(id)
      BY <3>1 DEF CanRefund
    <3> QED
      BY <2>2, <3>1, <3>2, CopiedRefund
      DEF RefundUnreleasedMilestones, RefundMilestonesCopy, RefundTotal
  <2> QED
    BY <2>1, <2>2 DEF Participate
<1>2. BooksInv /\ [Next \/ CopyStep]_vars => [Next]_vars /\ BooksInv'
  BY <1>1, NextBooks
<1>3. Init => BooksInv
  BY InitBooks
<1> QED
  BY <1>2, <1>3, PTL DEF Spec
=============================================================================
