------------------------ MODULE EscrowCustodyProofs ------------------------
(***************************************************************************)
(* Theorems about what all the contracts of a deployment share: the token  *)
(* balance of the escrow address, accounted for to the stroop by the books *)
(* of the contracts, and the credit counters of the freelancers.           *)
(***************************************************************************)
EXTENDS EscrowBooksProofs

(***************************************************************************)
(* Custody.                                                                *)
(***************************************************************************)

(* What the books of one contract still hold, less the fees recorded in it *)
Held(c, m) ==
  c.funded_amount - c.released_amount - c.refunded_amount - TotalAmount(m.protocol_fee)

Holdings == [id \in DOMAIN contracts |-> Held(contracts[id], milestones[id])]

(* The tokens that only the contracts' books can account for.              *)
Backing == custody + unrecovered - accumulated_fees - undistributed

CustodyInv == BooksInv /\ Backing = SumFunctionOnSet(Holdings, DOMAIN contracts)

LEMMA FundTypes ==
  ASSUME AccountingInv
  PROVE  /\ custody \in Int /\ unrecovered \in Int /\ accumulated_fees \in Int
         /\ undistributed \in Int /\ Backing \in Int
  BY DEF AccountingInv, TypeOK, FundsTypeOK, Backing

LEMMA HeldIsInt ==
  ASSUME NEW c \in ContractType, NEW m, VectorInv(m)
  PROVE  Held(c, m) \in Int /\ TotalAmount(m.protocol_fee) \in Int
<1>1. TotalAmount(m.protocol_fee) \in Int
  BY VectorParts
<1> QED
  BY <1>1 DEF Held, ContractType

LEMMA ContractIds ==
  ASSUME TypeOK
  PROVE  IsFiniteSet(DOMAIN contracts)
<1> DEFINE n == next_contract_id - 1
<1>1. n \in Int /\ DOMAIN contracts = 1 .. n
  BY LimitsAssumption DEF TypeOK, BooksTypeOK
<1> HIDE DEF n
<1> QED
  BY <1>1, FS_Interval

(* Each entrypoint moves tokens and the one contract's books by the same   *)
(* amount, or records the difference.                                      *)
Balanced(c, m, c2, m2) ==
  VectorInv(m2) /\ Backing' = Backing + (Held(c2, m2) - Held(c, m))

LEMMA ReleaseBalanced ==
  ASSUME AccountingInv, NEW id, NEW i, NEW c \in ContractType, NEW m, VectorInv(m),
         NEW c2 \in ContractType, NEW m2, NEW fee \in Int,
         ReleaseWith(id, i, c, m, c2, m2, fee)
  PROVE  Balanced(c, m, c2, m2)
<1>1. /\ i \in Left(m) /\ fee \in 0 .. m.amounts[i]
      /\ MilestonesType(m2) /\ m2.amounts = m.amounts
      /\ m2.released = m.released \cup {i} /\ m2.refunded = m.refunded
      /\ m2.protocol_fee = [m.protocol_fee EXCEPT ![i] = fee]
  BY DEF ReleaseWith, Left
<1>2. VectorInv(m2) /\ TotalAmount(m2.protocol_fee) = TotalAmount(m.protocol_fee) + fee
  BY <1>1, ReleasedSums
<1> DEFINE gross == m.amounts[i]
<1>3. gross \in Int
  BY <1>1, VectorParts, VectorTypes
<1>4. /\ c2.released_amount = c.released_amount + gross - fee
      /\ c2.refunded_amount = c.refunded_amount /\ c2.funded_amount = c.funded_amount
      /\ custody' = custody - (gross - fee) /\ accumulated_fees' = accumulated_fees + fee
      /\ UNCHANGED <<unrecovered, undistributed>>
  BY DEF ReleaseWith
<1> HIDE DEF gross
<1>5. /\ c.released_amount \in Int /\ c.refunded_amount \in Int /\ c.funded_amount \in Int
      /\ TotalAmount(m.protocol_fee) \in Int
  BY HeldIsInt DEF ContractType
<1>6. Backing' = Backing + (Held(c2, m2) - Held(c, m))
  BY <1>2, <1>3, <1>4, <1>5, FundTypes DEF Backing, Held
<1> QED
  BY <1>2, <1>6 DEF Balanced

LEMMA RollbackBalanced ==
  ASSUME AccountingInv, NEW id, NEW i, NEW c \in ContractType, NEW m, VectorInv(m),
         NEW c2 \in ContractType, NEW m2, NEW fee \in Nat, NEW released \in Nat,
         NEW refunded \in Nat, NEW reversed \in Int,
         RollbackWith(id, i, c, m, c2, m2, fee, released, refunded, reversed)
  PROVE  Balanced(c, m, c2, m2)
<1>1. /\ i \in m.released \cup m.refunded
      /\ MilestonesType(m2) /\ m2.amounts = m.amounts
      /\ m2.released = m.released \ {i} /\ m2.refunded = m.refunded \ {i}
      /\ m2.protocol_fee =
           [m.protocol_fee EXCEPT ![i] = IF i \in m.released THEN 0 ELSE m.protocol_fee[i]]
  BY DEF RollbackWith
<1>2. /\ VectorInv(m2)
      /\ i \in m.released =>
           TotalAmount(m2.protocol_fee) = TotalAmount(m.protocol_fee) - m.protocol_fee[i]
      /\ i \in m.refunded =>
           i \notin m.released /\ TotalAmount(m2.protocol_fee) = TotalAmount(m.protocol_fee)
  BY <1>1, RolledBackSums
<1>3. fee = (IF i \in m.released THEN m.protocol_fee[i] ELSE 0)
  BY DEF RollbackWith
<1>4. TotalAmount(m2.protocol_fee) = TotalAmount(m.protocol_fee) - fee
  <2>1. TotalAmount(m.protocol_fee) \in Int
    BY HeldIsInt
  <2> QED
    BY <1>1, <1>2, <1>3, <2>1
<1>5. /\ c2.released_amount = c.released_amount - released
      /\ c2.refunded_amount = c.refunded_amount - refunded
      /\ c2.funded_amount = c.funded_amount
      /\ accumulated_fees' = accumulated_fees - reversed
      /\ unrecovered' = unrecovered + released + refunded + (fee - reversed)
      /\ UNCHANGED <<custody, undistributed>>
  BY DEF RollbackWith
<1>6. /\ c.released_amount \in Int /\ c.refunded_amount \in Int /\ c.funded_amount \in Int
      /\ TotalAmount(m.protocol_fee) \in Int
  BY HeldIsInt DEF ContractType
<1>7. Backing' = Backing + (Held(c2, m2) - Held(c, m))
  BY <1>4, <1>5, <1>6, FundTypes DEF Backing, Held
<1> QED
  BY <1>2, <1>7 DEF Balanced

LEMMA RefundBalanced ==
  ASSUME AccountingInv, NEW id, NEW indices, NEW c \in ContractType, NEW m, VectorInv(m),
         NEW c2 \in ContractType, NEW m2, NEW total \in Nat,
         RefundWith(id, indices, c, m, c2, m2, total)
  PROVE  Balanced(c, m, c2, m2)
<1>1. /\ indices \in SUBSET Left(m)
      /\ MilestonesType(m2) /\ m2.amounts = m.amounts /\ m2.protocol_fee = m.protocol_fee
      /\ m2.released = m.released /\ m2.refunded = m.refunded \cup indices
  BY DEF RefundWith, Left
<1>2. VectorInv(m2)
  BY <1>1, RefundedSums
<1>3. /\ c2.refunded_amount = c.refunded_amount + total
      /\ c2.released_amount = c.released_amount /\ c2.funded_amount = c.funded_amount
      /\ custody' = custody - total
      /\ UNCHANGED <<accumulated_fees, unrecovered, undistributed>>
  BY DEF RefundWith
<1>4. /\ c.released_amount \in Int /\ c.refunded_amount \in Int /\ c.funded_amount \in Int
      /\ TotalAmount(m.protocol_fee) \in Int
  BY HeldIsInt DEF ContractType
<1>5. Backing' = Backing + (Held(c2, m2) - Held(c, m))
  BY <1>1, <1>3, <1>4, FundTypes DEF Backing, Held
<1> QED
  BY <1>2, <1>5 DEF Balanced

LEMMA OthersBalanced ==
  ASSUME AccountingInv, NEW id, NEW c \in ContractType, NEW m, VectorInv(m),
         NEW c2 \in ContractType,
         \/ \E amount \in DepositAmounts : DepositWith(id, c, m, c2, amount)
         \/ \E left \in Int : CancelWith(id, c, m, c2, left)
         \/ RaiseWith(id, c, m, c2)
         \/ ResolveWith(id, c, m, c2)
         \/ RateWith(id, c, m, c2)
  PROVE  Balanced(c, m, c2, m)
<1>1. /\ c.released_amount \in Int /\ c.refunded_amount \in Int /\ c.funded_amount \in Int
      /\ c2.released_amount \in Int /\ c2.refunded_amount \in Int /\ c2.funded_amount \in Int
      /\ TotalAmount(m.protocol_fee) \in Int
  BY HeldIsInt DEF ContractType
<1> DEFINE Goal == Backing' = Backing + (Held(c2, m) - Held(c, m))
<1>2. ASSUME NEW amount \in DepositAmounts, DepositWith(id, c, m, c2, amount) PROVE Goal
  <2>1. /\ amount \in Int /\ c2.funded_amount = c.funded_amount + amount
        /\ c2.released_amount = c.released_amount /\ c2.refunded_amount = c.refunded_amount
        /\ custody' = custody + amount
        /\ UNCHANGED <<accumulated_fees, unrecovered, undistributed>>
    BY <1>2 DEF DepositWith
  <2> QED
    BY <1>1, <2>1, FundTypes DEF Backing, Held
<1>3. ASSUME NEW left \in Int, CancelWith(id, c, m, c2, left) PROVE Goal
  <2>1. /\ c2.refunded_amount = c.refunded_amount + left
        /\ c2.released_amount = c.released_amount /\ c2.funded_amount = c.funded_amount
        /\ custody' = custody - left
        /\ UNCHANGED <<accumulated_fees, unrecovered, undistributed>>
    BY <1>3 DEF CancelWith
  <2> QED
    BY <1>1, <2>1, FundTypes DEF Backing, Held
<1>4. ASSUME RaiseWith(id, c, m, c2) \/ RateWith(id, c, m, c2) PROVE Goal
  <2>1. /\ c2.released_amount = c.released_amount /\ c2.refunded_amount = c.refunded_amount
        /\ c2.funded_amount = c.funded_amount
        /\ UNCHANGED <<custody, accumulated_fees, unrecovered, undistributed>>
    BY <1>4 DEF RaiseWith, RateWith, funds
  <2> QED
    BY <1>1, <2>1, FundTypes DEF Backing, Held
<1>5. ASSUME ResolveWith(id, c, m, c2) PROVE Goal
  <2>1. /\ c2.funded_amount = c.funded_amount
        /\ c2.released_amount + c2.refunded_amount = c.funded_amount
        /\ undistributed' =
             undistributed + (c.funded_amount - c.released_amount - c.refunded_amount)
        /\ UNCHANGED <<custody, accumulated_fees, unrecovered>>
    BY <1>5 DEF ResolveWith
  <2> QED
    BY <1>1, <2>1, FundTypes DEF Backing, Held
<1> HIDE DEF Goal
<1>6. Goal
  BY <1>2, <1>3, <1>4, <1>5
<1> QED
  BY <1>6 DEF Goal, Balanced

LEMMA MovedBalanced ==
  ASSUME BooksInv, NEW id \in DOMAIN contracts, NEW c2 \in ContractType,
         ContractMoves(id, contracts[id], milestones[id], c2)
  PROVE  \E m2 : Becomes(id, c2, m2) /\ Balanced(contracts[id], milestones[id], c2, m2)
<1> DEFINE c == contracts[id]
           m == milestones[id]
           Goal == \E m2 : Becomes(id, c2, m2) /\ Balanced(c, m, c2, m2)
<1>1. AccountingInv /\ c \in ContractType /\ VectorInv(m)
  BY ContractFacts DEF BooksInv, BookOK
<1>2. ContractMoves(id, c, m, c2)
  OBVIOUS
<1> HIDE DEF c, m
<1>3. ASSUME NEW i, NEW fee \in Int, NEW m2, ReleaseWith(id, i, c, m, c2, m2, fee) PROVE Goal
  <2>1. Becomes(id, c2, m2)
    BY <1>3 DEF ReleaseWith
  <2> QED
    BY <1>1, <1>3, <2>1, ReleaseBalanced
<1>4. ASSUME NEW i, NEW fee \in Nat, NEW released \in Nat, NEW refunded \in Nat,
             NEW reversed \in Int, NEW m2,
             RollbackWith(id, i, c, m, c2, m2, fee, released, refunded, reversed)
      PROVE  Goal
  <2>1. Becomes(id, c2, m2)
    BY <1>4 DEF RollbackWith
  <2>2. Balanced(c, m, c2, m2)
    BY <1>1, <1>4, RollbackBalanced
  <2> QED
    BY <2>1, <2>2
<1>5. ASSUME NEW indices, NEW total \in Nat, NEW m2, RefundWith(id, indices, c, m, c2, m2, total)
      PROVE  Goal
  <2>1. Becomes(id, c2, m2)
    BY <1>5 DEF RefundWith
  <2> QED
    BY <1>1, <1>5, <2>1, RefundBalanced
<1>6. ASSUME \/ \E amount \in DepositAmounts : DepositWith(id, c, m, c2, amount)
             \/ \E left \in Int : CancelWith(id, c, m, c2, left)
             \/ RaiseWith(id, c, m, c2)
             \/ ResolveWith(id, c, m, c2)
             \/ RateWith(id, c, m, c2)
      PROVE  Goal
  <2>1. Becomes(id, c2, m)
    BY <1>6 DEF DepositWith, CancelWith, RaiseWith, ResolveWith, RateWith
  <2>2. Balanced(c, m, c2, m)
    BY <1>1, <1>6, OthersBalanced
  <2> QED
    BY <2>1, <2>2
<1> HIDE DEF Goal
<1>7. Goal
  BY <1>2, <1>3, <1>4, <1>5, <1>6 DEF ContractMoves
<1> QED
  BY <1>7 DEF Goal, c, m

LEMMA HoldingsAreInts ==
  ASSUME BooksInv, NEW id \in DOMAIN contracts
  PROVE  Holdings[id] = Held(contracts[id], milestones[id]) /\ Holdings[id] \in Int
<1>1. contracts[id] \in ContractType /\ VectorInv(milestones[id])
  BY ContractFacts DEF BooksInv, BookOK
<1> QED
  BY <1>1, HeldIsInt DEF Holdings

(* One contract's holding changes: so does the sum, by as much.            *)
LEMMA HoldingsMove ==
  ASSUME CustodyInv, BooksInv', NEW id \in DOMAIN contracts, NEW c2, NEW m2,
         Becomes(id, c2, m2), Balanced(contracts[id], milestones[id], c2, m2)
  PROVE  Backing' = SumFunctionOnSet(Holdings, DOMAIN contracts)'
<1> DEFINE S  == DOMAIN contracts
           h  == Holdings
           h2 == Holdings'
<1>1. /\ DOMAIN contracts' = S /\ contracts'[id] = c2 /\ milestones'[id] = m2
      /\ \A x \in S \ {id} : contracts'[x] = contracts[x] /\ milestones'[x] = milestones[x]
  BY OneContractChanges DEF CustodyInv, BooksInv, AccountingInv, Becomes
<1>2. IsFiniteSet(S) /\ \A x \in S : h[x] \in Int
  BY ContractIds, HoldingsAreInts DEF CustodyInv, BooksInv, AccountingInv
<1>3. h[id] = Held(contracts[id], milestones[id]) /\ h2[id] = Held(c2, m2)
      /\ \A x \in S \ {id} : h2[x] = h[x]
  BY <1>1 DEF Holdings
<1>4. h2[id] \in Int
  <2>1. contracts'[id] \in ContractType /\ VectorInv(milestones'[id])
    BY <1>1 DEF BooksInv, BookOK, AccountingInv, TypeOK, BooksTypeOK
  <2> QED
    BY <1>1, <1>3, <2>1, HeldIsInt
<1>5. Backing' = Backing + (h2[id] - h[id]) /\ Backing = SumFunctionOnSet(h, S)
  BY <1>3 DEF Balanced, CustodyInv
<1>6. SumFunctionOnSet(Holdings, DOMAIN contracts)' = SumFunctionOnSet(h2, S)
  BY <1>1
<1>7. id \in S
  OBVIOUS
<1> HIDE DEF h, h2, S
<1>8. SumFunctionOnSet(h2, S) = SumFunctionOnSet(h, S) - h[id] + h2[id]
  BY <1>2, <1>3, <1>4, <1>7, SumChanges
<1>9. SumFunctionOnSet(h, S) \in Int /\ h[id] \in Int
  BY <1>2, <1>7, SumIsInt
<1> QED
  BY <1>4, <1>5, <1>6, <1>8, <1>9

(* A new contract holds nothing.                                           *)
LEMMA HoldingsGrow ==
  ASSUME CustodyInv, BooksInv', NEW t \in Terms, CreateContract(t)
  PROVE  Backing' = SumFunctionOnSet(Holdings, DOMAIN contracts)'
<1> DEFINE S  == DOMAIN contracts
           n  == next_contract_id
           h  == Holdings
           h2 == Holdings'
<1>1. AccountingInv /\ AccountingInv'
  BY DEF CustodyInv, BooksInv
<1>2. /\ n \notin S /\ DOMAIN contracts' = S \cup {n}
      /\ \A x \in S : contracts'[x] = contracts[x] /\ milestones'[x] = milestones[x]
  BY <1>1, NewContractApart DEF AccountingInv
<1>3. Held(contracts'[n], milestones'[n]) = 0
  <2> DEFINE c == NewContract(t)
             m == NewMilestones(t)
  <2>1. contracts'[n] = c /\ milestones'[n] = m
    BY DEF CreateContract, With
  <2>2. VectorInv(m)
    BY <1>1, <2>1, NewBook DEF BookOK
  <2>3. TotalAmount(m.protocol_fee) = AmountOf(m.protocol_fee, m.released)
    BY <2>2, VectorParts
  <2>4. m.released = {}
    BY DEF NewMilestones
  <2>5. AmountOf(m.protocol_fee, {}) = 0
    BY SumOverNothing DEF AmountOf
  <2>6. c.funded_amount = 0 /\ c.released_amount = 0 /\ c.refunded_amount = 0
    BY DEF NewContract
  <2> HIDE DEF c, m
  <2> QED
    BY <2>1, <2>3, <2>4, <2>5, <2>6 DEF Held
<1>4. IsFiniteSet(S) /\ \A x \in S : h[x] \in Int
  BY ContractIds, HoldingsAreInts DEF CustodyInv, BooksInv, AccountingInv
<1>5. h2[n] = 0 /\ \A x \in S : h2[x] = h[x]
  BY <1>2, <1>3 DEF Holdings
<1>6. Backing' = Backing
  BY DEF CreateContract, funds, Backing
<1>7. Backing = SumFunctionOnSet(h, S)
  BY DEF CustodyInv
<1>8. SumFunctionOnSet(Holdings, DOMAIN contracts)' = SumFunctionOnSet(h2, S \cup {n})
  BY <1>2
<1> HIDE DEF h, h2, S, n
<1>9. SumFunctionOnSet(h2, S \cup {n}) = h2[n] + SumFunctionOnSet(h2, S)
  <2>1. \A x \in S \cup {n} : h2[x] \in Int
    BY <1>4, <1>5
  <2> QED
    BY <1>2, <1>4, <2>1, SumWith DEF n, S
<1>10. SumFunctionOnSet(h2, S) = SumFunctionOnSet(h, S)
  BY <1>4, <1>5, SumsEqual
<1>11. SumFunctionOnSet(h, S) \in Int
  BY <1>4, SumIsInt
<1> QED
  BY <1>5, <1>6, <1>7, <1>8, <1>9, <1>10, <1>11

(* The other steps leave the tokens alone, but for the admin taking fees.  *)
LEMMA BookkeepingFunds ==
  ASSUME Bookkeeping
  PROVE  \/ UNCHANGED funds
         \/ \E amount \in 1 .. accumulated_fees : WithdrawProtocolFees(amount)
<1>1. ASSUME NEW id, NEW caller, NEW indices, ApproveMilestones(id, indices, caller)
      PROVE  UNCHANGED funds
  BY <1>1 DEF ApproveMilestones
<1>2. ASSUME NEW id, NEW finalizer, FinalizeContract(id, finalizer) PROVE UNCHANGED funds
  BY <1>2 DEF FinalizeContract, WriteFinalizations
<1>3. ASSUME NEW id, SimulateIssueReputation(id) PROVE UNCHANGED funds
  BY <1>3 DEF SimulateIssueReputation
<1>4. ASSUME NEW id, RollbackContract(id) PROVE UNCHANGED funds
  BY <1>4 DEF RollbackContract
<1>5. ASSUME NEW id, NEW i, ExpireApprovals(id, i) PROVE UNCHANGED funds
  BY <1>5 DEF ExpireApprovals
<1>6. ASSUME NEW ids, NEW finalizer, FinalizeContractsBatch(ids, finalizer) PROVE UNCHANGED funds
  BY <1>6 DEF FinalizeContractsBatch, WriteFinalizations
<1>7. ASSUME NEW new_bps, SetProtocolFeeBps(new_bps) PROVE UNCHANGED funds
  BY <1>7 DEF SetProtocolFeeBps
<1>8. ASSUME Pause \/ Unpause \/ ActivateEmergencyPause \/ ResolveEmergency PROVE UNCHANGED funds
  BY <1>8 DEF Pause, Unpause, ActivateEmergencyPause, ResolveEmergency
<1> HIDE DEF funds
<1> QED
  BY <1>1, <1>2, <1>3, <1>4, <1>5, <1>6, <1>7, <1>8 DEF Bookkeeping

(* What the admin takes out, the fee counter answers for.                  *)
LEMMA BookkeepingBalanced ==
  ASSUME AccountingInv, Bookkeeping
  PROVE  Backing' = Backing /\ UNCHANGED undistributed
<1>1. CASE UNCHANGED funds
  BY <1>1 DEF funds, Backing
<1>2. ASSUME NEW amount \in 1 .. accumulated_fees, WithdrawProtocolFees(amount)
      PROVE  Backing' = Backing /\ UNCHANGED undistributed
  <2>1. /\ amount \in Int /\ custody' = custody - amount
        /\ accumulated_fees' = accumulated_fees - amount
        /\ UNCHANGED <<unrecovered, undistributed>>
    BY <1>2, FundTypes DEF WithdrawProtocolFees, TransferOut
  <2> QED
    BY <2>1, FundTypes DEF Backing
<1> QED
  BY <1>1, <1>2, BookkeepingFunds

LEMMA NextCustody == CustodyInv /\ [Next]_vars => CustodyInv'
<1> SUFFICES ASSUME CustodyInv, [Next]_vars PROVE CustodyInv'
  OBVIOUS
<1>1. BooksInv /\ BooksInv' /\ AccountingInv
  BY NextBooks DEF CustodyInv, BooksInv
<1> DEFINE Covered == Backing = SumFunctionOnSet(Holdings, DOMAIN contracts)
<1>2. ASSUME NEW t \in Terms, CreateContract(t) PROVE Covered'
  BY <1>1, <1>2, HoldingsGrow
<1>3. ASSUME NEW id \in DOMAIN contracts, NEW c2 \in ContractType,
             ContractMoves(id, contracts[id], milestones[id], c2)
      PROVE  Covered'
  BY <1>1, <1>3, MovedBalanced, HoldingsMove
<1>4. ASSUME UNCHANGED books, Backing' = Backing PROVE Covered'
  BY <1>4 DEF books, Holdings, CustodyInv
<1>5. ASSUME Bookkeeping \/ UNCHANGED vars PROVE UNCHANGED books /\ Backing' = Backing
  BY <1>1, <1>5, BooksUntouched, BookkeepingBalanced DEF vars, funds, Backing
<1> HIDE DEF Covered
<1>6. Covered'
  BY <1>1, <1>2, <1>3, <1>4, <1>5, NextCases
<1> QED
  BY <1>1, <1>6 DEF CustodyInv, Covered

LEMMA InitCustody == Init => CustodyInv
<1>1. Init => Backing = SumFunctionOnSet(Holdings, DOMAIN contracts)
  <2>1. Init => DOMAIN contracts = {} /\ Backing = 0
    BY DEF Init, Backing
  <2> QED
    BY <2>1, SumOverNothing
<1> QED
  BY <1>1, InitBooks DEF CustodyInv

LEMMA CustodyHolds == Spec => []CustodyInv
  BY InitCustody, NextCustody, PTL DEF Spec

(* Before the first deposit nothing is held, and nothing can be: without   *)
(* tokens coming in, contracts are created and cancelled and no more.      *)
Unfunded ==
  /\ custody = 0 /\ accumulated_fees = 0
  /\ \A id \in DOMAIN contracts : contracts[id].status \in {"Created", "Cancelled"}

LEMMA MovedUnfunded ==
  ASSUME BooksInv, AccountingInv', Unfunded, UNCHANGED custody,
         NEW id \in DOMAIN contracts, NEW c2 \in ContractType,
         ContractMoves(id, contracts[id], milestones[id], c2)
  PROVE  c2.status = "Cancelled" /\ UNCHANGED accumulated_fees
<1> DEFINE c == contracts[id]
           m == milestones[id]
           Goal == c2.status = "Cancelled" /\ UNCHANGED accumulated_fees
<1>1. /\ AccountingInv /\ BookOK(c, m) /\ c \in ContractType
      /\ c.status \in {"Created", "Cancelled"} /\ custody \in Int
  BY ContractFacts DEF BooksInv, Unfunded
<1>2. PICK m2 : Becomes(id, c2, m2) /\ BookOK(c2, m2)
  BY <1>1, MovedBook
<1>3. \A m3 : Becomes(id, c2, m3) => m3 = m2
  <2>1. TypeOK
    BY <1>1 DEF AccountingInv
  <2> QED
    BY <1>2, <2>1, OneContractChanges DEF Becomes
<1>4. ContractMoves(id, c, m, c2)
  OBVIOUS
<1> HIDE DEF c, m
<1>5. ASSUME NEW amount, DepositWith(id, c, m, c2, amount) PROVE Goal
  BY <1>1, <1>5 DEF DepositWith
<1>6. ASSUME NEW i, NEW fee, NEW m3, ReleaseWith(id, i, c, m, c2, m3, fee) PROVE Goal
  BY <1>1, <1>6 DEF ReleaseWith
<1>7. ASSUME NEW i, NEW fee, NEW released, NEW refunded, NEW reversed, NEW m3,
             RollbackWith(id, i, c, m, c2, m3, fee, released, refunded, reversed)
      PROVE  Goal
  BY <1>1, <1>7 DEF RollbackWith, RollbackStatus
<1>8. ASSUME NEW indices, NEW total \in Nat, NEW m3, RefundWith(id, indices, c, m, c2, m3, total)
      PROVE  Goal
  <2>1. m3 = m2 /\ ContractOK(c2, m3)
    BY <1>2, <1>3, <1>8 DEF RefundWith, BookOK
  <2>2. c.status \in {"Funded", "Disputed"}
    BY <1>1, <1>8, <2>1, RefundBook
  <2> QED
    BY <1>1, <2>2
<1>9. ASSUME NEW left, CancelWith(id, c, m, c2, left) PROVE Goal
  BY <1>9 DEF CancelWith
<1>10. ASSUME RaiseWith(id, c, m, c2) \/ ResolveWith(id, c, m, c2) \/ RateWith(id, c, m, c2)
       PROVE  Goal
  BY <1>1, <1>10 DEF RaiseWith, ResolveWith, RateWith, DisputableStatus
<1> HIDE DEF Goal
<1>11. Goal
  BY <1>4, <1>5, <1>6, <1>7, <1>8, <1>9, <1>10 DEF ContractMoves
<1> QED
  BY <1>11 DEF Goal

LEMMA UnfundedKept ==
  ASSUME BooksInv, Unfunded, [Next]_vars, UNCHANGED custody
  PROVE  Unfunded'
<1>1. AccountingInv /\ AccountingInv' /\ TypeOK
  BY NextAccounting DEF BooksInv, AccountingInv
<1>2. ASSUME NEW t \in Terms, CreateContract(t) PROVE Unfunded'
  BY <1>1, <1>2, NewContractApart DEF CreateContract, funds, Unfunded
<1>3. ASSUME NEW id \in DOMAIN contracts, NEW c2 \in ContractType,
             ContractMoves(id, contracts[id], milestones[id], c2)
      PROVE  Unfunded'
  <2>1. c2.status = "Cancelled" /\ UNCHANGED accumulated_fees
    BY <1>1, <1>3, MovedUnfunded
  <2>2. PICK m2 : Becomes(id, c2, m2)
    BY <1>1, <1>3, MovedBook
  <2>3. /\ DOMAIN contracts' = DOMAIN contracts /\ contracts'[id] = c2
        /\ \A x \in DOMAIN contracts \ {id} : contracts'[x] = contracts[x]
    BY <1>1, <2>2, OneContractChanges DEF Becomes
  <2> QED
    BY <2>1, <2>3 DEF Unfunded
<1>4. ASSUME UNCHANGED <<books, funds>> PROVE Unfunded'
  BY <1>4 DEF books, funds, Unfunded
<1>5. Bookkeeping \/ UNCHANGED vars => UNCHANGED <<books, funds>>
  <2>1. ~ \E amount \in 1 .. accumulated_fees : WithdrawProtocolFees(amount)
    BY DEF Unfunded
  <2> QED
    BY <2>1, BooksUntouched, BookkeepingFunds DEF vars
<1> QED
  BY <1>1, <1>2, <1>3, <1>4, <1>5, NextCases

LEMMA CustodyMeans ==
  ASSUME CustodyInv
  PROVE  CustodyEquation
<1> DEFINE f == [id \in DOMAIN contracts |-> Available(id) - RecordedFees(id)]
<1>1. \A id \in DOMAIN contracts : f[id] = Holdings[id]
  BY ContractFacts DEF CustodyInv, BooksInv, Holdings, Held, RecordedFees
<1>2. TotalAmount(f) = SumFunctionOnSet(f, DOMAIN contracts)
  BY DEF TotalAmount, SumFunction
<1>3. IsFiniteSet(DOMAIN contracts)
  BY ContractIds DEF CustodyInv, BooksInv, AccountingInv
<1>4. SumFunctionOnSet(f, DOMAIN contracts) = SumFunctionOnSet(Holdings, DOMAIN contracts)
  <2> HIDE DEF f
  <2> QED
    BY <1>1, <1>3, SumsEqual
<1> HIDE DEF f
<1>5. TotalAmount(f) = Backing
  BY <1>2, <1>4 DEF CustodyInv
<1>6. custody + unrecovered = accumulated_fees + undistributed + TotalAmount(f)
  BY <1>5, FundTypes DEF CustodyInv, BooksInv, Backing
<1> QED
  BY <1>6 DEF CustodyEquation, f

(* Whatever the calls and whatever the number of contracts that share the  *)
(* balance, its tokens are the protocol's fees and what the books of the   *)
(* contracts still hold, apart from what was rolled back in the books      *)
(* without tokens and awarded by arbiters without a transfer.              *)
THEOREM CustodyAccounted == Spec => []CustodyEquation
  BY CustodyMeans, CustodyHolds, PTL

(***************************************************************************)
(* Credits.  A contract counts once: from its completion to its rating.    *)
(***************************************************************************)
Rateable(c, a) == c.freelancer = a /\ c.status = "Completed" /\ ~c.reputation_issued

Earned(a) == {id \in DOMAIN contracts : Rateable(contracts[id], a)}

Backed == \A a \in Address : pending_credits[a] \in 0 .. Cardinality(Earned(a))

(* Without the last part a completion might earn a credit for a contract   *)
(* that is no longer to be rated.                                          *)
CreditsInv ==
  /\ BooksInv
  /\ Backed
  /\ \A id \in DOMAIN contracts :
       contracts[id].reputation_issued => contracts[id].status = "Completed"

(* What a step on a contract may mean for the credits.                     *)
Quiet(c, c2) ==
  /\ c2.freelancer = c.freelancer /\ c2.reputation_issued = c.reputation_issued
  /\ c.status # "Completed" /\ c2.status # "Completed"
  /\ UNCHANGED pending_credits

Completed(c, c2) ==
  /\ c2.freelancer = c.freelancer /\ c2.reputation_issued = c.reputation_issued
  /\ c.status # "Completed" /\ c2.status = "Completed"
  /\ pending_credits' = [pending_credits EXCEPT ![c.freelancer] = @ + 1]

GetsRated(c, c2) ==
  /\ c2.freelancer = c.freelancer /\ ~c.reputation_issued /\ c2.reputation_issued
  /\ c.status = "Completed" /\ c2.status = "Completed"
  /\ pending_credits[c.freelancer] > 0
  /\ pending_credits' = [pending_credits EXCEPT ![c.freelancer] = @ - 1]

LEMMA CreditCases ==
  ASSUME NEW id, NEW c, NEW m, VectorInv(m), NEW c2, ContractMoves(id, c, m, c2)
  PROVE  Quiet(c, c2) \/ Completed(c, c2) \/ GetsRated(c, c2)
<1> DEFINE Goal == Quiet(c, c2) \/ Completed(c, c2) \/ GetsRated(c, c2)
<1>1. ASSUME c.status # "Completed", SameTerms(c2, c), CreditOnCompletion(c2) PROVE Goal
  <2>1. CASE c2.status = "Completed"
    BY <1>1, <2>1 DEF SameTerms, SameDeal, CreditOnCompletion, GrantPendingReputationCredit, Completed
  <2>2. CASE c2.status # "Completed"
    BY <1>1, <2>2 DEF SameTerms, SameDeal, CreditOnCompletion, Quiet
  <2> QED
    BY <2>1, <2>2
<1>2. ASSUME c.status # "Completed", SameTerms(c2, c), c2.status # "Completed",
             UNCHANGED pending_credits
      PROVE  Goal
  BY <1>2 DEF SameTerms, SameDeal, Quiet
<1>3. ASSUME NEW amount, DepositWith(id, c, m, c2, amount) PROVE Goal
  BY <1>2, <1>3 DEF DepositWith, records
<1>4. ASSUME NEW i, NEW fee, NEW m2, ReleaseWith(id, i, c, m, c2, m2, fee) PROVE Goal
  BY <1>1, <1>4 DEF ReleaseWith
<1>5. ASSUME NEW i, NEW fee, NEW released, NEW refunded, NEW reversed, NEW m2,
             RollbackWith(id, i, c, m, c2, m2, fee, released, refunded, reversed)
      PROVE  Goal
  BY <1>2, <1>5 DEF RollbackWith, RollbackStatus
<1>6. ASSUME NEW indices, NEW total, NEW m2, RefundWith(id, indices, c, m, c2, m2, total)
      PROVE  Goal
  BY <1>1, <1>6 DEF RefundWith
<1>7. ASSUME NEW left, CancelWith(id, c, m, c2, left) PROVE Goal
  BY <1>2, <1>7 DEF CancelWith, records
<1>8. ASSUME RaiseWith(id, c, m, c2) PROVE Goal
  BY <1>2, <1>8 DEF RaiseWith, DisputableStatus
<1>9. ASSUME ResolveWith(id, c, m, c2) PROVE Goal
  BY <1>1, <1>9 DEF ResolveWith
<1>10. ASSUME RateWith(id, c, m, c2) PROVE Goal
  BY <1>10 DEF RateWith, SameDeal, ConsumeCredit, GetsRated
<1> HIDE DEF Goal
<1>11. Goal
  BY <1>3, <1>4, <1>5, <1>6, <1>7, <1>8, <1>9, <1>10 DEF ContractMoves
<1> QED
  BY <1>11 DEF Goal

LEMMA EarnedIsFinite ==
  ASSUME TypeOK, NEW a
  PROVE  IsFiniteSet(Earned(a)) /\ Cardinality(Earned(a)) \in Nat
<1>1. Earned(a) \subseteq DOMAIN contracts
  BY DEF Earned
<1>2. IsFiniteSet(Earned(a))
  BY <1>1, ContractIds, FS_Subset
<1> QED
  BY <1>2, FS_CardinalityType

LEMMA MovedCredits ==
  ASSUME CreditsInv, NEW id \in DOMAIN contracts, NEW c2 \in ContractType, NEW m2,
         Becomes(id, c2, m2),
         \/ Quiet(contracts[id], c2)
         \/ Completed(contracts[id], c2)
         \/ GetsRated(contracts[id], c2)
  PROVE  /\ Backed'
         /\ \A x \in DOMAIN contracts' :
              contracts'[x].reputation_issued => contracts'[x].status = "Completed"
<1> DEFINE c == contracts[id]
<1>1. /\ DOMAIN contracts' = DOMAIN contracts /\ contracts'[id] = c2
      /\ \A x \in DOMAIN contracts \ {id} : contracts'[x] = contracts[x]
  BY OneContractChanges DEF CreditsInv, BooksInv, AccountingInv, Becomes
<1>2. /\ TypeOK /\ c.freelancer \in Address /\ pending_credits \in [Address -> Int]
      /\ c.reputation_issued => c.status = "Completed"
  BY ContractFacts DEF CreditsInv, BooksInv, AccountingInv, TypeOK, RecordsTypeOK, ContractType
<1>3. \A x \in DOMAIN contracts' :
        contracts'[x].reputation_issued => contracts'[x].status = "Completed"
  BY <1>1, <1>2 DEF CreditsInv, Quiet, Completed, GetsRated
<1>4. ASSUME NEW a \in Address PROVE pending_credits'[a] \in 0 .. Cardinality(Earned(a)')
  <2> DEFINE before == Earned(a)
             after  == Earned(a)'
             k      == Cardinality(before)
  <2>1. IsFiniteSet(before) /\ k \in Nat /\ pending_credits[a] \in 0 .. k
    BY <1>2, EarnedIsFinite DEF CreditsInv, Backed
  <2>2. after = {x \in DOMAIN contracts : Rateable(contracts'[x], a)}
    BY <1>1 DEF Earned
  <2>3. CASE Quiet(c, c2)
    <3>1. after = before
      BY <1>1, <2>2, <2>3 DEF Quiet, Rateable, Earned
    <3> QED
      BY <2>1, <2>3, <3>1 DEF Quiet
  <2>4. CASE Completed(c, c2)
    <3>1. CASE a = c.freelancer
      <4>1. ~c.reputation_issued /\ ~c2.reputation_issued
        BY <1>2, <2>4 DEF Completed
      <4>2. id \notin before /\ after = before \cup {id}
        BY <1>1, <2>2, <2>4, <3>1, <4>1 DEF Completed, Rateable, Earned
      <4>3. Cardinality(after) = k + 1
        <5> HIDE DEF before, after
        <5>1. Cardinality(before \cup {id}) = Cardinality(before) + 1
          BY <2>1, <4>2, FS_AddElement
        <5> QED
          BY <4>2, <5>1
      <4>4. pending_credits'[a] = pending_credits[a] + 1
        BY <1>2, <2>4, <3>1 DEF Completed
      <4> QED
        BY <2>1, <4>3, <4>4
    <3>2. CASE a # c.freelancer
      <4>1. after = before
        BY <1>1, <2>2, <2>4, <3>2 DEF Completed, Rateable, Earned
      <4>2. pending_credits'[a] = pending_credits[a]
        BY <1>2, <2>4, <3>2 DEF Completed
      <4> QED
        BY <2>1, <4>1, <4>2
    <3> QED
      BY <3>1, <3>2
  <2>5. CASE GetsRated(c, c2)
    <3>1. CASE a = c.freelancer
      <4>1. id \in before /\ after = before \ {id}
        BY <1>1, <2>2, <2>5, <3>1 DEF GetsRated, Rateable, Earned
      <4>2. Cardinality(after) = k - 1
        <5> HIDE DEF before, after
        <5>1. Cardinality(before \ {id}) = Cardinality(before) - 1
          BY <2>1, <4>1, FS_RemoveElement
        <5> QED
          BY <4>1, <5>1
      <4>3. pending_credits'[a] = pending_credits[a] - 1 /\ pending_credits[a] > 0
        BY <1>2, <2>5, <3>1 DEF GetsRated
      <4> QED
        BY <2>1, <4>2, <4>3
    <3>2. CASE a # c.freelancer
      <4>1. after = before
        BY <1>1, <2>2, <2>5, <3>2 DEF GetsRated, Rateable, Earned
      <4>2. pending_credits'[a] = pending_credits[a]
        BY <1>2, <2>5, <3>2 DEF GetsRated
      <4> QED
        BY <2>1, <4>1, <4>2
    <3> QED
      BY <3>1, <3>2
  <2> QED
    BY <2>3, <2>4, <2>5
<1> QED
  BY <1>3, <1>4 DEF Backed

(* Of the steps that change no contract, only the preview moves a credit.  *)
LEMMA BookkeepingMoves ==
  ASSUME Bookkeeping
  PROVE  \/ UNCHANGED pending_credits
         \/ \E id \in DOMAIN contracts : SimulateIssueReputation(id)
<1>1. ASSUME NEW id, NEW caller, NEW indices, ApproveMilestones(id, indices, caller)
      PROVE  UNCHANGED pending_credits
  BY <1>1 DEF ApproveMilestones
<1>2. ASSUME NEW id, NEW finalizer, FinalizeContract(id, finalizer) PROVE UNCHANGED pending_credits
  BY <1>2 DEF FinalizeContract, WriteFinalizations
<1>3. ASSUME NEW id, RollbackContract(id) PROVE UNCHANGED pending_credits
  BY <1>3 DEF RollbackContract
<1>4. ASSUME NEW id, NEW i, ExpireApprovals(id, i) PROVE UNCHANGED pending_credits
  BY <1>4 DEF ExpireApprovals
<1>5. ASSUME NEW ids, NEW finalizer, FinalizeContractsBatch(ids, finalizer)
      PROVE  UNCHANGED pending_credits
  BY <1>5 DEF FinalizeContractsBatch, WriteFinalizations
<1>6. ASSUME NEW amount, WithdrawProtocolFees(amount) PROVE UNCHANGED pending_credits
  BY <1>6 DEF WithdrawProtocolFees, records
<1>7. ASSUME NEW new_bps, SetProtocolFeeBps(new_bps) PROVE UNCHANGED pending_credits
  BY <1>7 DEF SetProtocolFeeBps, records
<1>8. ASSUME Pause \/ Unpause \/ ActivateEmergencyPause \/ ResolveEmergency
      PROVE  UNCHANGED pending_credits
  BY <1>8 DEF Pause, Unpause, ActivateEmergencyPause, ResolveEmergency, records
<1> QED
  BY <1>1, <1>2, <1>3, <1>4, <1>5, <1>6, <1>7, <1>8 DEF Bookkeeping

LEMMA BookkeepingCredits ==
  ASSUME CreditsInv, Bookkeeping
  PROVE  Backed'
<1>1. UNCHANGED books
  BY BooksUntouched
<1>2. \A a : Earned(a)' = Earned(a)
  BY <1>1 DEF books, Earned
<1>3. TypeOK /\ pending_credits \in [Address -> Int]
  BY DEF CreditsInv, BooksInv, AccountingInv, TypeOK, RecordsTypeOK
<1>4. ASSUME UNCHANGED pending_credits PROVE Backed'
  BY <1>2, <1>4 DEF CreditsInv, Backed
<1>5. ASSUME NEW id \in DOMAIN contracts, SimulateIssueReputation(id) PROVE Backed'
  <2> DEFINE f == contracts[id].freelancer
  <2>1. pending_credits[f] > 0 /\ pending_credits' = [pending_credits EXCEPT ![f] = @ - 1]
    BY <1>5 DEF SimulateIssueReputation, CanRate, ConsumeCredit
  <2> HIDE DEF f
  <2>2. ASSUME NEW a \in Address PROVE pending_credits'[a] \in 0 .. Cardinality(Earned(a))
    <3>1. pending_credits[a] \in 0 .. Cardinality(Earned(a)) /\ Cardinality(Earned(a)) \in Nat
      BY <1>3, EarnedIsFinite DEF CreditsInv, Backed
    <3> QED
      BY <1>3, <2>1, <3>1
  <2> QED
    BY <1>2, <2>2 DEF Backed
<1> HIDE DEF Backed
<1> QED
  BY <1>4, <1>5, BookkeepingMoves

LEMMA CreationCredits ==
  ASSUME CreditsInv, NEW t \in Terms, CreateContract(t)
  PROVE  /\ Backed'
         /\ \A x \in DOMAIN contracts' :
              contracts'[x].reputation_issued => contracts'[x].status = "Completed"
<1> DEFINE n == next_contract_id
<1>1. /\ n \notin DOMAIN contracts /\ DOMAIN contracts' = DOMAIN contracts \cup {n}
      /\ contracts'[n].status = "Created" /\ \A x \in DOMAIN contracts : contracts'[x] = contracts[x]
  BY NewContractApart DEF CreditsInv, BooksInv, AccountingInv
<1>2. contracts'[n].reputation_issued = FALSE
  BY DEF CreateContract, With, NewContract
<1>3. \A a : Earned(a)' = Earned(a)
  BY <1>1 DEF Earned, Rateable
<1>4. UNCHANGED pending_credits
  BY DEF CreateContract, records
<1>5. Backed'
  BY <1>3, <1>4 DEF CreditsInv, Backed
<1> QED
  BY <1>1, <1>2, <1>5 DEF CreditsInv

LEMMA NextCredits == CreditsInv /\ [Next]_vars => CreditsInv'
<1> SUFFICES ASSUME CreditsInv, [Next]_vars PROVE CreditsInv'
  OBVIOUS
<1>1. BooksInv /\ BooksInv' /\ AccountingInv
  BY NextBooks DEF CreditsInv, BooksInv
<1> DEFINE RatedIsCompleted == \A id \in DOMAIN contracts :
             contracts[id].reputation_issued => contracts[id].status = "Completed"
<1>2. ASSUME NEW t \in Terms, CreateContract(t) PROVE Backed' /\ RatedIsCompleted'
  BY <1>2, CreationCredits
<1>3. ASSUME NEW id \in DOMAIN contracts, NEW c2 \in ContractType,
             ContractMoves(id, contracts[id], milestones[id], c2)
      PROVE  Backed' /\ RatedIsCompleted'
  <2>1. PICK m2 : Becomes(id, c2, m2)
    BY <1>1, <1>3, MovedBalanced
  <2>2. VectorInv(milestones[id])
    BY <1>1 DEF BooksInv, BookOK
  <2>3. \/ Quiet(contracts[id], c2)
        \/ Completed(contracts[id], c2)
        \/ GetsRated(contracts[id], c2)
    BY <1>3, <2>2, CreditCases
  <2> QED
    BY <2>1, <2>3, MovedCredits
<1>4. ASSUME Bookkeeping PROVE Backed' /\ RatedIsCompleted'
  BY <1>4, BookkeepingCredits, BooksUntouched DEF books, CreditsInv
<1>5. ASSUME UNCHANGED vars PROVE Backed' /\ RatedIsCompleted'
  BY <1>5 DEF vars, books, records, CreditsInv, Backed, Earned
<1> HIDE DEF RatedIsCompleted
<1>6. Backed' /\ RatedIsCompleted'
  BY <1>1, <1>2, <1>3, <1>4, <1>5, NextCases
<1> QED
  BY <1>1, <1>6 DEF CreditsInv, RatedIsCompleted

LEMMA InitCredits == Init => CreditsInv
<1>1. Init => Backed
  <2> SUFFICES ASSUME Init, NEW a \in Address PROVE 0 \in 0 .. Cardinality(Earned(a))
    BY DEF Backed, Init
  <2>1. Cardinality(Earned(a)) \in Nat
    BY InitBooks, EarnedIsFinite DEF BooksInv, AccountingInv
  <2> QED
    BY <2>1
<1>2. Init => DOMAIN contracts = {}
  BY DEF Init
<1> QED
  BY <1>1, <1>2, InitBooks DEF CreditsInv

LEMMA CreditsHold == Spec => []CreditsInv
  BY InitCredits, NextCredits, PTL DEF Spec

LEMMA CreditsMean == CreditsInv => CreditsBacked
  BY DEF CreditsInv, Backed, CreditsBacked, Earned, Rateable

(* For any number of contracts that complete, are rated, previewed or      *)
(* disputed in any order, a freelancer's credits are never negative and    *)
(* never more than his completed contracts still to be rated.              *)
THEOREM CreditsAreBacked == Spec => []CreditsBacked
  BY CreditsMean, CreditsHold, PTL

(* What the step on one contract does to the credits of one address.       *)
CreditStep(a) ==
  IF Completions(a) # {} THEN pending_credits'[a] = pending_credits[a] + 1
                         ELSE pending_credits'[a] <= pending_credits[a]

LEMMA MovedCompletions ==
  ASSUME CreditsInv, NEW id \in DOMAIN contracts, NEW c2 \in ContractType, NEW m2,
         Becomes(id, c2, m2), NEW a \in Address,
         \/ Quiet(contracts[id], c2)
         \/ Completed(contracts[id], c2)
         \/ GetsRated(contracts[id], c2)
  PROVE  CreditStep(a)
<1> DEFINE c == contracts[id]
<1>1. /\ contracts'[id] = c2
      /\ \A x \in DOMAIN contracts \ {id} : contracts'[x] = contracts[x]
  BY OneContractChanges DEF CreditsInv, BooksInv, AccountingInv, Becomes
<1>2. c.freelancer \in Address /\ pending_credits \in [Address -> Int]
  BY ContractFacts
  DEF CreditsInv, BooksInv, AccountingInv, TypeOK, RecordsTypeOK, ContractType
<1>3. CASE Quiet(c, c2)
  <2>1. Completions(a) = {}
    BY <1>1, <1>3 DEF Quiet, Completions
  <2> QED
    BY <1>2, <1>3, <2>1 DEF Quiet, CreditStep
<1>4. CASE Completed(c, c2)
  <2>1. CASE a = c.freelancer
    <3>1. id \in Completions(a)
      BY <1>1, <1>4, <2>1 DEF Completed, Completions
    <3>2. pending_credits'[a] = pending_credits[a] + 1
      BY <1>2, <1>4, <2>1 DEF Completed
    <3> QED
      BY <3>1, <3>2 DEF CreditStep
  <2>2. CASE a # c.freelancer
    <3>1. Completions(a) = {}
      BY <1>1, <2>2 DEF Completions
    <3>2. pending_credits'[a] = pending_credits[a]
      BY <1>2, <1>4, <2>2 DEF Completed
    <3> QED
      BY <1>2, <3>1, <3>2 DEF CreditStep
  <2> QED
    BY <2>1, <2>2
<1>5. CASE GetsRated(c, c2)
  <2>1. Completions(a) = {}
    BY <1>1, <1>5 DEF GetsRated, Completions
  <2>2. pending_credits'[a] <= pending_credits[a]
    BY <1>2, <1>5 DEF GetsRated
  <2> QED
    BY <2>1, <2>2 DEF CreditStep
<1> QED
  BY <1>3, <1>4, <1>5

(* A step that completes no contract grants no credit.                     *)
LEMMA NoCompletion ==
  ASSUME CreditsInv, NEW a \in Address,
         \A id \in DOMAIN contracts : contracts'[id] = contracts[id],
         \/ UNCHANGED pending_credits
         \/ \E id \in DOMAIN contracts : SimulateIssueReputation(id)
  PROVE  CreditStep(a)
<1>1. Completions(a) = {}
  BY DEF Completions
<1>2. pending_credits \in [Address -> Int]
  BY DEF CreditsInv, BooksInv, AccountingInv, TypeOK, RecordsTypeOK
<1>3. ASSUME NEW id \in DOMAIN contracts, SimulateIssueReputation(id)
      PROVE  pending_credits'[a] <= pending_credits[a]
  BY <1>2, <1>3 DEF SimulateIssueReputation, ConsumeCredit
<1> QED
  BY <1>1, <1>2, <1>3 DEF CreditStep

LEMMA NextCompletions ==
  ASSUME CreditsInv, [Next]_vars, NEW a \in Address
  PROVE  CreditStep(a)
<1>1. BooksInv /\ AccountingInv
  BY DEF CreditsInv, BooksInv
<1>2. ASSUME NEW t \in Terms, CreateContract(t) PROVE CreditStep(a)
  <2>1. UNCHANGED pending_credits
    BY <1>2 DEF CreateContract, records
  <2>2. \A id \in DOMAIN contracts : contracts'[id] = contracts[id]
    BY <1>1, <1>2, NewContractApart DEF AccountingInv
  <2> QED
    BY <2>1, <2>2, NoCompletion
<1>3. ASSUME NEW id \in DOMAIN contracts, NEW c2 \in ContractType,
             ContractMoves(id, contracts[id], milestones[id], c2)
      PROVE  CreditStep(a)
  <2>1. PICK m2 : Becomes(id, c2, m2)
    BY <1>1, <1>3, MovedBalanced
  <2>2. VectorInv(milestones[id])
    BY <1>1 DEF BooksInv, BookOK
  <2>3. \/ Quiet(contracts[id], c2)
        \/ Completed(contracts[id], c2)
        \/ GetsRated(contracts[id], c2)
    BY <1>3, <2>2, CreditCases
  <2> QED
    BY <2>1, <2>3, MovedCompletions
<1>4. ASSUME Bookkeeping PROVE CreditStep(a)
  BY <1>4, BookkeepingMoves, BooksUntouched, NoCompletion DEF books
<1>5. ASSUME UNCHANGED vars PROVE CreditStep(a)
  BY <1>5, NoCompletion DEF vars, books, records
<1> QED
  BY <1>1, <1>2, <1>3, <1>4, <1>5, NextCases

(* Whatever the entrypoint, a credit is granted exactly when a contract of *)
(* that freelancer completes: three paths complete a contract, and none    *)
(* grants twice or without completing.                                     *)
THEOREM CreditsAreEarned == Spec => CreditPerCompletion
<1>1. CreditsInv /\ [Next]_vars =>
        [\A a \in Address :
           IF Completions(a) # {} THEN pending_credits'[a] = pending_credits[a] + 1
                                  ELSE pending_credits'[a] <= pending_credits[a]]_vars
  BY NextCompletions DEF CreditStep
<1> QED
  BY <1>1, CreditsHold, PTL DEF Spec, CreditPerCompletion

(***************************************************************************)
(* Solvency.  Closing a contract must not take from the others: what an    *)
(* arbiter's award leaves in custody covers the fees that the books of the *)
(* closed contract no longer hold, because until then the contract held    *)
(* its own fees.  Again fees below 100% are needed: a contract whose       *)
(* release paid nothing but fees may be cancelled, and its client then     *)
(* takes the fees along.                                                   *)
(***************************************************************************)

(* A contract that was disputed before it was fully funded has released    *)
(* nothing.                                                                *)
Full(c, m) == c.funded_amount = TotalAmount(m.amounts) \/ m.released = {}

DisputedFull(c, m) == c.status = "Disputed" => Full(c, m)

(* What the books of a closed contract still hold of the common balance.   *)
Leftover(c, m) == IF c.status \in OpenStatus THEN 0 ELSE Held(c, m)

Leftovers == [id \in DOMAIN contracts |-> Leftover(contracts[id], milestones[id])]

LeftoverInv ==
  /\ \A id \in DOMAIN contracts : DisputedFull(contracts[id], milestones[id])
  /\ undistributed + SumFunctionOnSet(Leftovers, DOMAIN contracts) >= 0

(* While its counters are what its milestones add up to, a contract holds  *)
(* its own fees.                                                           *)
LEMMA CountedIsHeld ==
  ASSUME NEW c \in ContractType, NEW m, VectorInv(m), ContractOK(c, m), Full(c, m),
         c.released_amount = NetPaid(m), c.refunded_amount = Returned(m)
  PROVE  Held(c, m) >= 0
<1>1. /\ c.funded_amount \in Int /\ c.released_amount \in Int /\ c.refunded_amount \in Int
      /\ c.released_amount + c.refunded_amount <= c.funded_amount
  BY DEF ContractType, ContractOK
<1>2. CASE c.funded_amount = TotalAmount(m.amounts)
  BY <1>2, VectorParts DEF Held, NetPaid
<1>3. CASE m.released = {}
  <2>1. TotalAmount(m.protocol_fee) = AmountOf(m.protocol_fee, {})
    BY <1>3, VectorParts
  <2>2. AmountOf(m.protocol_fee, {}) = 0
    BY SumOverNothing DEF AmountOf
  <2> QED
    BY <1>1, <2>1, <2>2 DEF Held
<1> QED
  BY <1>2, <1>3 DEF Full

LEMMA OpenIsHeld ==
  ASSUME NEW c \in ContractType, NEW m, BookOK(c, m), DisputedFull(c, m), c.status \in OpenStatus
  PROVE  Full(c, m) /\ Held(c, m) >= 0
<1>1. Full(c, m)
  BY DEF BookOK, StageOK, OpenStatus, DisputedFull, Full
<1> QED
  BY <1>1, CountedIsHeld DEF BookOK, CountersOK

(* What a step on one contract does to its leftover.                       *)
Covers(c, m, c2, m2) ==
  /\ DisputedFull(c2, m2)
  /\ undistributed' + Leftover(c2, m2) >= undistributed + Leftover(c, m)

LEMMA ReleaseCovers ==
  ASSUME AccountingInv, NEW id, NEW i, NEW c \in ContractType, NEW m, BookOK(c, m),
         NEW c2 \in ContractType, NEW m2, BookOK(c2, m2), NEW fee \in Int,
         ReleaseWith(id, i, c, m, c2, m2, fee)
  PROVE  Covers(c, m, c2, m2)
<1>1. /\ i \in Left(m) /\ fee \in 0 .. m.amounts[i] /\ VectorInv(m)
      /\ MilestonesType(m2) /\ m2.amounts = m.amounts
      /\ m2.released = m.released \cup {i} /\ m2.refunded = m.refunded
      /\ m2.protocol_fee = [m.protocol_fee EXCEPT ![i] = fee]
  BY DEF ReleaseWith, Left, BookOK
<1>2. /\ VectorInv(m2) /\ NetPaid(m2) = NetPaid(m) + m.amounts[i] - fee
      /\ Returned(m2) = Returned(m)
  BY <1>1, ReleasedSums
<1>3. /\ c.status = "Funded" /\ c2.status = StatusAfter(c, m2)
      /\ c2.released_amount = c.released_amount + m.amounts[i] - fee
      /\ c2.refunded_amount = c.refunded_amount /\ c2.funded_amount = c.funded_amount
      /\ UNCHANGED undistributed
  BY DEF ReleaseWith
<1>4. /\ c.released_amount = NetPaid(m) /\ c.refunded_amount = Returned(m)
      /\ c.funded_amount = TotalAmount(m.amounts) /\ c.status \in OpenStatus
  BY <1>3 DEF BookOK, CountersOK, StageOK, OpenStatus
<1>5. Full(c2, m2)
  BY <1>1, <1>3, <1>4 DEF Full
<1>6. Held(c2, m2) >= 0
  BY <1>2, <1>3, <1>4, <1>5, CountedIsHeld DEF BookOK
<1>7. Leftover(c, m) = 0 /\ Leftover(c2, m2) >= 0 /\ Leftover(c2, m2) \in Int
  <2>1. Held(c2, m2) \in Int
    BY <1>2, HeldIsInt
  <2> QED
    BY <1>4, <1>6, <2>1 DEF Leftover
<1> QED
  BY <1>3, <1>5, <1>7, FundTypes DEF Covers, DisputedFull

LEMMA RefundCovers ==
  ASSUME AccountingInv, NEW id, NEW indices, NEW c \in ContractType, NEW m, BookOK(c, m),
         DisputedFull(c, m), NEW c2 \in ContractType, NEW m2, BookOK(c2, m2), NEW total \in Nat,
         RefundWith(id, indices, c, m, c2, m2, total)
  PROVE  Covers(c, m, c2, m2)
<1>1. /\ indices \in SUBSET Left(m) /\ VectorInv(m)
      /\ MilestonesType(m2) /\ m2.amounts = m.amounts /\ m2.protocol_fee = m.protocol_fee
      /\ m2.released = m.released /\ m2.refunded = m.refunded \cup indices
      /\ total = AmountOf(m.amounts, indices)
  BY DEF RefundWith, Left, BookOK
<1>2. VectorInv(m2) /\ NetPaid(m2) = NetPaid(m) /\ Returned(m2) = Returned(m) + total
  BY <1>1, RefundedSums
<1>3. /\ c.status \in OpenStatus
      /\ c2.refunded_amount = c.refunded_amount + total
      /\ c2.released_amount = c.released_amount /\ c2.funded_amount = c.funded_amount
      /\ UNCHANGED undistributed
  BY DEF RefundWith, OpenStatus
<1>4. /\ c.released_amount = NetPaid(m) /\ c.refunded_amount = Returned(m)
  BY <1>3 DEF BookOK, CountersOK
<1>5. Full(c2, m2)
  BY <1>1, <1>3, OpenIsHeld DEF Full
<1>6. Held(c2, m2) >= 0
  BY <1>2, <1>3, <1>4, <1>5, CountedIsHeld DEF BookOK
<1>7. Leftover(c, m) = 0 /\ Leftover(c2, m2) >= 0 /\ Leftover(c2, m2) \in Int
  <2>1. Held(c2, m2) \in Int
    BY <1>2, HeldIsInt
  <2> QED
    BY <1>3, <1>6, <2>1 DEF Leftover
<1> QED
  BY <1>3, <1>5, <1>7, FundTypes DEF Covers, DisputedFull

(* The client cancels only what was never released, fees included.         *)
LEMMA CancelCovers ==
  ASSUME AccountingInv, NEW id, NEW c \in ContractType, NEW m, BookOK(c, m), PaidOK(c, m),
         NEW c2 \in ContractType, NEW left \in Int, CancelWith(id, c, m, c2, left)
  PROVE  Covers(c, m, c2, m)
<1>1. /\ c.status \in OpenStatus /\ c2.status = "Cancelled" /\ c.released_amount = 0
      /\ left = c.funded_amount - c.released_amount - c.refunded_amount
      /\ c2.released_amount = c.released_amount /\ c2.refunded_amount = c.refunded_amount + left
      /\ c2.funded_amount = c.funded_amount
      /\ UNCHANGED undistributed
  BY DEF CancelWith, OpenStatus
<1>2. c.funded_amount \in Int /\ c.refunded_amount \in Int /\ VectorInv(m)
  BY DEF ContractType, BookOK
<1>3. m.released = {}
  <2>1. NetPaid(m) = 0
    BY <1>1 DEF BookOK, CountersOK
  <2> QED
    BY <1>2, <2>1, ReleasedIsPaid DEF PaidOK
<1>4. TotalAmount(m.protocol_fee) = 0
  <2>1. TotalAmount(m.protocol_fee) = AmountOf(m.protocol_fee, {})
    BY <1>2, <1>3, VectorParts
  <2> QED
    BY <2>1, SumOverNothing DEF AmountOf
<1>5. Held(c2, m) = 0
  BY <1>1, <1>2, <1>4 DEF Held
<1>6. Leftover(c, m) = 0 /\ Leftover(c2, m) = 0
  BY <1>1, <1>5 DEF Leftover
<1> QED
  BY <1>1, <1>6, FundTypes DEF Covers, DisputedFull

(* The award leaves in custody what the contract held, fees included.      *)
LEMMA ResolveCovers ==
  ASSUME AccountingInv, NEW id, NEW c \in ContractType, NEW m, BookOK(c, m), DisputedFull(c, m),
         NEW c2 \in ContractType, ResolveWith(id, c, m, c2)
  PROVE  Covers(c, m, c2, m)
<1>1. /\ c.status \in OpenStatus /\ c2.status \notin OpenStatus /\ c2.status # "Disputed"
      /\ c2.funded_amount = c.funded_amount
      /\ c2.released_amount + c2.refunded_amount = c.funded_amount
      /\ undistributed' =
           undistributed + (c.funded_amount - c.released_amount - c.refunded_amount)
  BY DEF ResolveWith, OpenStatus
<1>2. /\ c.funded_amount \in Int /\ c.released_amount \in Int /\ c.refunded_amount \in Int
      /\ c2.released_amount \in Int /\ c2.refunded_amount \in Int
      /\ TotalAmount(m.protocol_fee) \in Int
  BY HeldIsInt DEF ContractType, BookOK
<1>3. Held(c, m) >= 0
  BY <1>1, OpenIsHeld
<1>4. Leftover(c, m) = 0 /\ Leftover(c2, m) = Held(c2, m)
  BY <1>1 DEF Leftover
<1>5. undistributed' + Leftover(c2, m) >= undistributed + Leftover(c, m)
  BY <1>1, <1>2, <1>3, <1>4, FundTypes DEF Held
<1> QED
  BY <1>1, <1>5 DEF Covers, DisputedFull

LEMMA OthersCover ==
  ASSUME AccountingInv, NEW id, NEW c \in ContractType, NEW m, BookOK(c, m),
         NEW c2 \in ContractType, NEW m2, BookOK(c2, m2),
         \/ m2 = m /\ \E amount \in DepositAmounts : DepositWith(id, c, m, c2, amount)
         \/ \E i \in Indices(id), fee \in Nat, released \in Nat, refunded \in Nat, reversed \in Int :
              RollbackWith(id, i, c, m, c2, m2, fee, released, refunded, reversed)
         \/ m2 = m /\ RaiseWith(id, c, m, c2)
         \/ m2 = m /\ RateWith(id, c, m, c2)
  PROVE  Covers(c, m, c2, m2)
<1> DEFINE Open == c.status \in OpenStatus /\ c2.status \in OpenStatus /\ DisputedFull(c2, m2)
                     /\ UNCHANGED undistributed
           Goal == Covers(c, m, c2, m2)
<1>1. ASSUME Open PROVE Goal
  BY <1>1, FundTypes DEF Covers, Leftover
<1>2. ASSUME NEW amount, DepositWith(id, c, m, c2, amount) PROVE Open
  BY <1>2 DEF DepositWith, OpenStatus, DisputedFull
<1>3. ASSUME NEW i, NEW fee, NEW released, NEW refunded, NEW reversed,
             RollbackWith(id, i, c, m, c2, m2, fee, released, refunded, reversed)
      PROVE  Open
  BY <1>3 DEF RollbackWith, RollbackStatus, OpenStatus, DisputedFull
<1>4. ASSUME m2 = m, RaiseWith(id, c, m, c2) PROVE Open
  <2>1. /\ c.status \in {"PartiallyFunded", "Funded"} /\ c2.status = "Disputed"
        /\ c2.funded_amount = c.funded_amount /\ UNCHANGED undistributed
    BY <1>4 DEF RaiseWith, DisputableStatus, funds
  <2>2. Full(c2, m2)
    BY <1>4, <2>1 DEF BookOK, StageOK, Full
  <2> QED
    BY <2>1, <2>2 DEF OpenStatus, DisputedFull
<1>5. ASSUME m2 = m, RateWith(id, c, m, c2) PROVE Goal
  <2>1. /\ c.status = "Completed" /\ c2.status = "Completed" /\ UNCHANGED undistributed
        /\ c2.released_amount = c.released_amount /\ c2.refunded_amount = c.refunded_amount
        /\ c2.funded_amount = c.funded_amount
    BY <1>5 DEF RateWith, funds
  <2>2. Leftover(c2, m2) = Leftover(c, m) /\ Leftover(c, m) \in Int
    <3>1. Held(c, m) \in Int
      BY HeldIsInt DEF BookOK
    <3> QED
      BY <1>5, <2>1, <3>1 DEF Leftover, Held, OpenStatus
  <2> QED
    BY <2>1, <2>2, FundTypes DEF Covers, DisputedFull
<1> HIDE DEF Open, Goal
<1>6. Goal
  BY <1>1, <1>2, <1>3, <1>4, <1>5
<1> QED
  BY <1>6 DEF Goal

LEMMA MovedCovers ==
  ASSUME BooksInv, PaidInv, LeftoverInv, BooksInv', NEW id \in DOMAIN contracts,
         NEW c2 \in ContractType, ContractMoves(id, contracts[id], milestones[id], c2)
  PROVE  \E m2 : Becomes(id, c2, m2) /\ Covers(contracts[id], milestones[id], c2, m2)
<1> DEFINE c == contracts[id]
           m == milestones[id]
           Goal == \E m2 : Becomes(id, c2, m2) /\ Covers(c, m, c2, m2)
<1>1. AccountingInv /\ c \in ContractType /\ BookOK(c, m) /\ PaidOK(c, m) /\ DisputedFull(c, m)
  BY ContractFacts DEF BooksInv, PaidInv, LeftoverInv
<1>2. ContractMoves(id, c, m, c2)
  OBVIOUS
<1>3. ASSUME NEW m2, Becomes(id, c2, m2) PROVE BookOK(c2, m2)
  <2>1. id \in DOMAIN contracts' /\ contracts'[id] = c2 /\ milestones'[id] = m2
    BY <1>1, <1>3, OneContractChanges DEF Becomes, AccountingInv
  <2> QED
    BY <2>1 DEF BooksInv
<1> HIDE DEF c, m
<1>4. ASSUME NEW i, NEW fee \in Int, NEW m2, ReleaseWith(id, i, c, m, c2, m2, fee) PROVE Goal
  <2>1. Becomes(id, c2, m2)
    BY <1>4 DEF ReleaseWith
  <2> QED
    BY <1>1, <1>3, <1>4, <2>1, ReleaseCovers
<1>5. ASSUME NEW indices, NEW total \in Nat, NEW m2, RefundWith(id, indices, c, m, c2, m2, total)
      PROVE  Goal
  <2>1. Becomes(id, c2, m2)
    BY <1>5 DEF RefundWith
  <2> QED
    BY <1>1, <1>3, <1>5, <2>1, RefundCovers
<1>6. ASSUME NEW left \in Int, CancelWith(id, c, m, c2, left) PROVE Goal
  <2>1. Becomes(id, c2, m)
    BY <1>6 DEF CancelWith
  <2> QED
    BY <1>1, <1>6, <2>1, CancelCovers
<1>7. ASSUME ResolveWith(id, c, m, c2) PROVE Goal
  <2>1. Becomes(id, c2, m)
    BY <1>7 DEF ResolveWith
  <2> QED
    BY <1>1, <1>7, <2>1, ResolveCovers
<1>8. ASSUME NEW m2,
             \/ m2 = m /\ \E amount \in DepositAmounts : DepositWith(id, c, m, c2, amount)
             \/ \E i \in Indices(id), fee \in Nat, released \in Nat, refunded \in Nat, reversed \in Int :
                  RollbackWith(id, i, c, m, c2, m2, fee, released, refunded, reversed)
             \/ m2 = m /\ RaiseWith(id, c, m, c2)
             \/ m2 = m /\ RateWith(id, c, m, c2)
      PROVE  Goal
  <2>1. Becomes(id, c2, m2)
    BY <1>8 DEF DepositWith, RollbackWith, RaiseWith, RateWith
  <2>2. BookOK(c2, m2)
    BY <1>3, <2>1
  <2>3. Covers(c, m, c2, m2)
    BY <1>1, <1>8, <2>2, OthersCover
  <2> QED
    BY <2>1, <2>3
<1> HIDE DEF Goal
<1>9. Goal
  BY <1>2, <1>4, <1>5, <1>6, <1>7, <1>8 DEF ContractMoves
<1> QED
  BY <1>9 DEF Goal, c, m

LEMMA LeftoverIsInt ==
  ASSUME BooksInv, NEW id \in DOMAIN contracts
  PROVE  /\ Leftovers[id] = Leftover(contracts[id], milestones[id])
         /\ Leftovers[id] \in Int
<1>1. Held(contracts[id], milestones[id]) \in Int
  BY HoldingsAreInts
<1> QED
  BY <1>1 DEF Leftovers, Leftover

LEMMA LeftoverMoves ==
  ASSUME BooksInv, BooksInv', LeftoverInv, NEW id \in DOMAIN contracts, NEW c2, NEW m2,
         Becomes(id, c2, m2), Covers(contracts[id], milestones[id], c2, m2)
  PROVE  LeftoverInv'
<1> DEFINE S  == DOMAIN contracts
           h  == Leftovers
           h2 == Leftovers'
           u  == undistributed
           u2 == undistributed'
<1>1. /\ DOMAIN contracts' = S /\ contracts'[id] = c2 /\ milestones'[id] = m2
      /\ \A x \in S \ {id} : contracts'[x] = contracts[x] /\ milestones'[x] = milestones[x]
  BY OneContractChanges DEF BooksInv, AccountingInv, Becomes
<1>2. \A x \in DOMAIN contracts' : DisputedFull(contracts'[x], milestones'[x])
  BY <1>1 DEF LeftoverInv, Covers
<1>3. IsFiniteSet(S) /\ \A x \in S : h[x] \in Int
  BY ContractIds, LeftoverIsInt DEF BooksInv, AccountingInv
<1>4. h[id] = Leftover(contracts[id], milestones[id]) /\ h2[id] = Leftover(c2, m2)
      /\ \A x \in S \ {id} : h2[x] = h[x]
  BY <1>1 DEF Leftovers
<1>5. h2[id] \in Int
  <2>1. Held(contracts'[id], milestones'[id]) \in Int
    <3>1. contracts'[id] \in ContractType /\ VectorInv(milestones'[id])
      BY <1>1 DEF BooksInv, BookOK, AccountingInv, TypeOK, BooksTypeOK
    <3> QED
      BY <3>1, HeldIsInt
  <2> QED
    BY <1>1, <1>4, <2>1 DEF Leftover
<1>6. u2 + h2[id] >= u + h[id] /\ u + SumFunctionOnSet(h, S) >= 0
  BY <1>4 DEF Covers, LeftoverInv
<1>7. u \in Int /\ u2 \in Int
  BY DEF BooksInv, AccountingInv, TypeOK, FundsTypeOK
<1>8. SumFunctionOnSet(Leftovers, DOMAIN contracts)' = SumFunctionOnSet(h2, S)
  BY <1>1
<1>9. id \in S
  OBVIOUS
<1> HIDE DEF h, h2, S, u, u2
<1>10. SumFunctionOnSet(h2, S) = SumFunctionOnSet(h, S) - h[id] + h2[id]
  BY <1>3, <1>4, <1>5, <1>9, SumChanges
<1>11. SumFunctionOnSet(h, S) \in Int /\ h[id] \in Int
  BY <1>3, <1>9, SumIsInt
<1>12. u2 + SumFunctionOnSet(h2, S) >= 0
  BY <1>5, <1>6, <1>7, <1>10, <1>11
<1> QED
  BY <1>2, <1>8, <1>12 DEF LeftoverInv, u2

LEMMA LeftoverGrows ==
  ASSUME BooksInv, BooksInv', LeftoverInv, NEW t \in Terms, CreateContract(t)
  PROVE  LeftoverInv'
<1> DEFINE S  == DOMAIN contracts
           n  == next_contract_id
           h  == Leftovers
           h2 == Leftovers'
<1>1. /\ n \notin S /\ DOMAIN contracts' = S \cup {n} /\ contracts'[n].status = "Created"
      /\ \A x \in S : contracts'[x] = contracts[x] /\ milestones'[x] = milestones[x]
  BY NewContractApart DEF BooksInv, AccountingInv
<1>2. \A x \in DOMAIN contracts' : DisputedFull(contracts'[x], milestones'[x])
  BY <1>1 DEF LeftoverInv, DisputedFull
<1>3. IsFiniteSet(S) /\ \A x \in S : h[x] \in Int
  BY ContractIds, LeftoverIsInt DEF BooksInv, AccountingInv
<1>4. h2[n] = 0 /\ \A x \in S : h2[x] = h[x]
  BY <1>1 DEF Leftovers, Leftover, OpenStatus
<1>5. UNCHANGED undistributed
  BY DEF CreateContract, funds
<1>6. SumFunctionOnSet(Leftovers, DOMAIN contracts)' = SumFunctionOnSet(h2, S \cup {n})
  BY <1>1
<1>7. undistributed + SumFunctionOnSet(h, S) >= 0
  BY DEF LeftoverInv
<1> HIDE DEF h, h2, S, n
<1>8. SumFunctionOnSet(h2, S \cup {n}) = h2[n] + SumFunctionOnSet(h2, S)
  <2>1. \A x \in S \cup {n} : h2[x] \in Int
    BY <1>3, <1>4
  <2> QED
    BY <1>1, <1>3, <2>1, SumWith DEF n, S
<1>9. SumFunctionOnSet(h2, S) = SumFunctionOnSet(h, S)
  BY <1>3, <1>4, SumsEqual
<1>10. SumFunctionOnSet(h, S) \in Int
  BY <1>3, SumIsInt
<1>11. undistributed + SumFunctionOnSet(h2, S \cup {n}) >= 0
  BY <1>4, <1>7, <1>8, <1>9, <1>10
<1> QED
  BY <1>2, <1>5, <1>6, <1>11 DEF LeftoverInv

LEMMA NextLeftover ==
  ASSUME BooksInv, PaidInv, LeftoverInv, [Next]_vars
  PROVE  LeftoverInv'
<1>1. BooksInv' /\ AccountingInv
  BY NextBooks DEF BooksInv
<1>2. ASSUME NEW t \in Terms, CreateContract(t) PROVE LeftoverInv'
  BY <1>1, <1>2, LeftoverGrows
<1>3. ASSUME NEW id \in DOMAIN contracts, NEW c2 \in ContractType,
             ContractMoves(id, contracts[id], milestones[id], c2)
      PROVE  LeftoverInv'
  BY <1>1, <1>3, MovedCovers, LeftoverMoves
<1>4. ASSUME UNCHANGED books, UNCHANGED undistributed PROVE LeftoverInv'
  BY <1>4 DEF books, Leftovers, LeftoverInv
<1>5. Bookkeeping \/ UNCHANGED vars => UNCHANGED books /\ UNCHANGED undistributed
  BY <1>1, BooksUntouched, BookkeepingBalanced DEF vars, funds
<1> QED
  BY <1>1, <1>2, <1>3, <1>4, <1>5, NextCases

(* What solvency rests on.                                                 *)
SolventInv == CustodyInv /\ PaidInv /\ LeftoverInv /\ PreviewInv

LEMMA InitSolvent == Init => SolventInv
<1>1. Init => CustodyInv
  BY InitCustody
<1>2. Init => PaidInv
  BY DEF Init, PaidInv, BPS_DENOMINATOR
<1>3. ASSUME Init PROVE LeftoverInv /\ PreviewInv
  <2>1. DOMAIN contracts = {} /\ undistributed = 0
    BY <1>3 DEF Init
  <2> QED
    BY <2>1, SumOverNothing DEF LeftoverInv, PreviewInv
<1> QED
  BY <1>1, <1>2, <1>3 DEF SolventInv

LEMMA NextSolvent ==
  ASSUME PartialFees, SolventInv, [Next]_vars
  PROVE  SolventInv'
<1>1. BooksInv /\ CustodyInv /\ PaidInv /\ LeftoverInv /\ PreviewInv
  BY DEF SolventInv, CustodyInv
<1> QED
  BY <1>1, NextCustody, NextPaid, NextLeftover, NextPreview DEF SolventInv

LEMMA SolventHolds ==
  ASSUME PartialFees
  PROVE  Spec => []SolventInv
<1>1. SolventInv /\ [Next]_vars => SolventInv'
  BY NextSolvent
<1> QED
  BY <1>1, InitSolvent, PTL DEF Spec

OpenContracts == {x \in DOMAIN contracts : contracts[x].status \in OpenStatus}

(* What closed contracts hold is at least what they lack: the rest, which  *)
(* the tokens cover, is the open ones'.                                    *)
LEMMA OpenIsCovered ==
  ASSUME CustodyInv, LeftoverInv
  PROVE  /\ custody + unrecovered >= accumulated_fees + SumFunctionOnSet(Holdings, OpenContracts)
         /\ IsFiniteSet(OpenContracts) /\ OpenContracts \subseteq DOMAIN contracts
         /\ \A x \in OpenContracts : Holdings[x] \in Int
<1> DEFINE S == DOMAIN contracts
           O == OpenContracts
           C == S \ O
           H == Holdings
           L == Leftovers
           Sum(g, T) == SumFunctionOnSet(g, T)
<1>1. BooksInv /\ AccountingInv
  BY DEF CustodyInv, BooksInv
<1>2. /\ IsFiniteSet(S) /\ O \subseteq S
      /\ \A x \in S : H[x] \in Int /\ L[x] \in Int
      /\ \A x \in O : L[x] = 0
      /\ \A x \in C : L[x] = H[x]
  <2>1. \A x \in S : H[x] \in Int /\ L[x] \in Int
    BY <1>1, HoldingsAreInts, LeftoverIsInt
  <2>2. (\A x \in O : L[x] = 0) /\ \A x \in C : L[x] = H[x]
    BY DEF Leftovers, Leftover, Holdings, OpenContracts
  <2> QED
    BY <1>1, <2>1, <2>2, ContractIds DEF AccountingInv, OpenContracts
<1>3. Backing = Sum(H, S) /\ undistributed + Sum(L, S) >= 0
  BY DEF CustodyInv, LeftoverInv
<1>4. S = O \cup C /\ O \cap C = {}
  BY <1>2
<1>5. IsFiniteSet(O) /\ IsFiniteSet(C)
  BY <1>2, FS_Subset
<1> HIDE DEF S, O, C, H, L
<1>6. Sum(H, S) = Sum(H, O) + Sum(H, C) /\ Sum(L, S) = Sum(L, O) + Sum(L, C)
  <2>1. \A x \in O \cup C : H[x] \in Int /\ L[x] \in Int
    BY <1>2, <1>4
  <2>2. Sum(H, O \cup C) = Sum(H, O) + Sum(H, C)
    BY <1>4, <1>5, <2>1, SumOfUnion
  <2>3. Sum(L, O \cup C) = Sum(L, O) + Sum(L, C)
    BY <1>4, <1>5, <2>1, SumOfUnion
  <2> QED
    BY <1>4, <2>2, <2>3
<1>7. Sum(L, O) = 0 /\ Sum(L, C) = Sum(H, C)
  <2>1. Sum(L, O) = 0
    BY <1>2, <1>5, SumOfZeros
  <2>2. Sum(L, C) = Sum(H, C)
    BY <1>2, <1>5, SumsEqual
  <2> QED
    BY <2>1, <2>2
<1>8. (\A x \in O : H[x] \in Int) /\ \A x \in C : H[x] \in Int
  BY <1>2, <1>4
<1>9. Sum(H, O) \in Int /\ Sum(H, C) \in Int
  BY <1>5, <1>8, SumIsInt
<1> HIDE DEF Sum
<1>10. custody + unrecovered >= accumulated_fees + Sum(H, O)
  BY <1>1, <1>3, <1>6, <1>7, <1>9, FundTypes DEF Backing
<1> QED
  BY <1>2, <1>5, <1>8, <1>10 DEF O, S, H, Sum

LEMMA SolventMeans ==
  ASSUME SolventInv
  PROVE  Solvency
<1> DEFINE f == [id \in OpenContracts |-> Available(id) - RecordedFees(id)]
<1>1. CustodyInv /\ LeftoverInv /\ BooksInv
  BY DEF SolventInv, CustodyInv
<1>2. \A x \in OpenContracts : f[x] = Holdings[x]
  BY <1>1, ContractFacts DEF OpenContracts, BooksInv, Holdings, Held, RecordedFees
<1>3. TotalAmount(f) = SumFunctionOnSet(f, OpenContracts)
  BY DEF TotalAmount, SumFunction
<1> HIDE DEF f
<1>4. TotalAmount(f) = SumFunctionOnSet(Holdings, OpenContracts)
  BY <1>1, <1>2, <1>3, OpenIsCovered, SumsEqual
<1>5. custody + unrecovered >= accumulated_fees + TotalAmount(f)
  BY <1>1, <1>4, OpenIsCovered
<1> QED
  BY <1>5 DEF Solvency, f, OpenContracts

(* While no fee rate takes everything, the fees not yet withdrawn and the  *)
(* balances of all the contracts still open are covered together by what   *)
(* the deployment holds or has rolled back, for any number of contracts:   *)
(* closing one of them never uses the share of another.                    *)
THEOREM DeploymentIsSolvent ==
  ASSUME PartialFees
  PROVE  Spec => []Solvency
  BY SolventHolds, SolventMeans, PTL

(* An open contract holds no less than nothing, so that each one's share   *)
(* is covered by itself, and the fees even before the contracts.           *)
LEMMA OpenHoldings ==
  ASSUME CustodyInv, LeftoverInv
  PROVE  \A x \in OpenContracts : Holdings[x] \in Nat
<1> SUFFICES ASSUME NEW x \in OpenContracts PROVE Holdings[x] \in Nat
  OBVIOUS
<1>1. BooksInv /\ AccountingInv
  BY DEF CustodyInv, BooksInv
<1>2. /\ x \in DOMAIN contracts /\ contracts[x] \in ContractType
      /\ BookOK(contracts[x], milestones[x]) /\ DisputedFull(contracts[x], milestones[x])
      /\ contracts[x].status \in OpenStatus
  BY <1>1, ContractFacts DEF BooksInv, LeftoverInv, OpenContracts
<1> QED
  BY <1>1, <1>2, OpenIsHeld, HoldingsAreInts

LEMMA OneIsCovered ==
  ASSUME CustodyInv, LeftoverInv, NEW id \in OpenContracts
  PROVE  custody + unrecovered >= accumulated_fees + Held(contracts[id], milestones[id])
<1> DEFINE O == OpenContracts
           H == Holdings
<1>1. BooksInv /\ AccountingInv /\ id \in DOMAIN contracts
  BY DEF CustodyInv, BooksInv, OpenContracts
<1>2. /\ IsFiniteSet(O) /\ \A x \in O : H[x] \in Nat
      /\ custody + unrecovered >= accumulated_fees + SumFunctionOnSet(H, O)
  BY OpenIsCovered, OpenHoldings
<1>3. H[id] = Held(contracts[id], milestones[id]) /\ H[id] \in Nat
  BY <1>1, <1>2, HoldingsAreInts
<1> HIDE DEF O, H
<1>4. SumFunctionOnSet(H, O) = H[id] + SumFunctionOnSet(H, O \ {id})
  BY <1>2, SumWithout DEF O
<1>5. SumFunctionOnSet(H, O \ {id}) \in Nat
  <2>1. IsFiniteSet(O \ {id}) /\ \A x \in O \ {id} : H[x] \in Nat
    BY <1>2, FS_Subset
  <2> QED
    BY <2>1, SumIsNat
<1> QED
  BY <1>1, <1>2, <1>3, <1>4, <1>5, FundTypes

(* withdraw_protocol_fees checks the counter and leaves the balance to the *)
(* token's transfer: all that has been counted is there.                   *)
FeesAreThere == unrecovered = 0 => custody >= accumulated_fees

(* While no fee rate takes everything and no roll-back has cost the        *)
(* deployment tokens, the admin's withdrawal of the fees cannot fail for   *)
(* want of tokens, though the fees have no balance of their own.           *)
THEOREM FeesArePayable ==
  ASSUME PartialFees
  PROVE  Spec => []FeesAreThere
<1>1. ASSUME SolventInv PROVE FeesAreThere
  <2>1. CustodyInv /\ LeftoverInv /\ AccountingInv
    BY <1>1 DEF SolventInv, CustodyInv, BooksInv
  <2>2. SumFunctionOnSet(Holdings, OpenContracts) \in Nat
    BY <2>1, OpenIsCovered, OpenHoldings, SumIsNat
  <2> QED
    BY <2>1, <2>2, OpenIsCovered, FundTypes DEF FeesAreThere
<1> QED
  BY <1>1, SolventHolds, PTL

(* The refund of everything left of a Funded contract passes every check   *)
(* the entrypoint makes.                                                   *)
LEMMA ExitMeans ==
  ASSUME SolventInv
  PROVE  ClientCanExit
<1> SUFFICES ASSUME NEW id \in DOMAIN contracts, contracts[id].status = "Funded",
                    ~Finalized(id), NotPaused, unrecovered = 0
             PROVE  CanRefund(id, Unresolved(id))
  BY DEF ClientCanExit
<1> DEFINE c     == contracts[id]
           m     == milestones[id]
           total == AmountOf(m.amounts, Unresolved(id))
<1>1. BooksInv /\ CustodyInv /\ LeftoverInv /\ PreviewInv
  BY DEF SolventInv, CustodyInv
<1>2. /\ c \in ContractType /\ BookOK(c, m) /\ VectorInv(m) /\ AccountingInv
      /\ Available(id) = c.funded_amount - c.released_amount - c.refunded_amount
  BY <1>1, ContractFacts DEF BooksInv, BookOK
<1>3. Unresolved(id) = Left(m)
  BY DEF Unresolved, Indices, Left
<1>4. Left(m) # {} /\ c.funded_amount = TotalAmount(m.amounts) /\ TotalAmount(m.amounts) \in Stroops
  BY <1>1, <1>2 DEF BookOK, StageOK, PreviewInv
<1>5. /\ total \in Nat /\ Available(id) - RecordedFees(id) = total
      /\ RecordedFees(id) = TotalAmount(m.protocol_fee) /\ RecordedFees(id) \in Nat
  <2>1. FundedCoversMilestones
    BY <1>1, FundedCovers
  <2> QED
    BY <1>2, <1>3, <1>4, <2>1, VectorParts DEF FundedCoversMilestones, OpenStatus, RecordedFees
<1>6. custody >= total
  <2>1. id \in OpenContracts
    BY DEF OpenContracts, OpenStatus
  <2>2. Held(c, m) = total
    BY <1>2, <1>5 DEF Held
  <2> QED
    BY <1>1, <1>2, <1>5, <2>1, <2>2, OneIsCovered, ContractFacts
<1>7. c.released_amount \in Nat /\ c.refunded_amount \in Nat
  BY <1>2, VectorParts DEF BookOK, CountersOK, OpenStatus
<1> HIDE DEF c, m, total
<1>8. total \in Stroops /\ total <= Available(id) /\ c.refunded_amount + total \in Stroops
  <2>1. c.funded_amount \in Nat /\ c.funded_amount <= I128_MAX
    BY <1>4, AmountsAssumption DEF Stroops
  <2> QED
    BY <1>2, <1>5, <1>7, <2>1, AmountsAssumption DEF Stroops
<1> QED
  BY <1>3, <1>4, <1>6, <1>8 DEF CanRefund, c, m, total

(* While no fee rate takes everything and no roll-back has cost the        *)
(* deployment tokens, the client of a Funded contract can take back in one *)
(* call everything not yet disposed of, whatever happened to the other     *)
(* contracts and however many of them share the balance.                   *)
THEOREM ClientExits ==
  ASSUME PartialFees
  PROVE  Spec => []ClientCanExit
  BY SolventHolds, ExitMeans, PTL
=============================================================================
