------------------------- MODULE EscrowClockProofs -------------------------
(***************************************************************************)
(* Theorems about EscrowClock, for every value of the three periods the    *)
(* assumption allows and every value of Escrow's constants.                *)
(***************************************************************************)
EXTENDS EscrowClock, TLAPS

(***************************************************************************)
(* With the clock, the escrow still is Escrow.                             *)
(***************************************************************************)

(* A step of the escrow with the clock is a step of the escrow, or leaves  *)
(* its variables alone.                                                    *)
LEMMA ClockStep == [ClockNext]_clockVars => [Next]_vars
<1> SUFFICES ASSUME [ClockNext]_clockVars PROVE [Next]_vars
  OBVIOUS
<1>1. ASSUME NEW id \in DOMAIN contracts, NEW caller \in Address,
             NEW indices \in SUBSET Indices(id), indices # {},
             ApproveAndBump(id, indices, caller)
      PROVE  Next
  <2>1. Participate(id)
    BY <1>1 DEF ApproveAndBump, Participate
  <2> QED
    BY <2>1 DEF Next
<1>2. ASSUME NEW id \in DOMAIN contracts, NEW i \in Indices(id), GetMilestoneApprovals(id, i)
      PROVE  UNCHANGED vars
  BY <1>2 DEF GetMilestoneApprovals
<1>3. CASE Transact
  BY <1>3 DEF Transact, Next
<1>4. CASE Tick
  BY <1>4 DEF Tick
<1>5. ASSUME NEW id \in DOMAIN contracts, NEW i \in Indices(id), Evict(id, i)
      PROVE  Next
  BY <1>5 DEF Evict, Next
<1>6. CASE UNCHANGED clockVars
  BY <1>6 DEF clockVars
<1> QED
  BY <1>1, <1>2, <1>3, <1>4, <1>5, <1>6 DEF ClockNext

(* The escrow under the ledger clock does nothing Escrow does not do:      *)
(* every theorem about Spec holds of ClockSpec too.                        *)
THEOREM ClockImplementsEscrow == ClockSpec => ImplementsEscrow
<1>1. ClockInit => Init
  BY DEF ClockInit
<1> QED
  BY <1>1, ClockStep, PTL DEF ClockSpec, ImplementsEscrow, Spec

(***************************************************************************)
(* The time a record has: ClockTypeOK and InactivityBound together are     *)
(* inductive.  What a bump leaves depends on what was left, and that is    *)
(* known to be at most the full period because idle counts no less than 0. *)
(***************************************************************************)
ClockInv == ClockTypeOK /\ InactivityBound

(* A bump leaves at least the threshold and at most the full period.       *)
LEMMA ExtendedBounds ==
  ASSUME NEW left \in Int, left <= PENDING_APPROVAL_TTL_LEDGERS
  PROVE  Extended(left) \in PENDING_APPROVAL_BUMP_THRESHOLD .. PENDING_APPROVAL_TTL_LEDGERS
  BY ClockAssumption DEF Extended

(* What a record has left when it is touched.                              *)
LEMMA TimeLeftBounds ==
  ASSUME ClockInv, NEW r
  PROVE  TimeLeft(r) \in Int /\ TimeLeft(r) <= PENDING_APPROVAL_TTL_LEDGERS
<1>1. CASE r \in DOMAIN ttl
  <2>1. ttl[r] \in -1 .. PENDING_APPROVAL_TTL_LEDGERS
    BY <1>1 DEF ClockInv, ClockTypeOK
  <2> QED
    BY <1>1, <2>1, ClockAssumption DEF TimeLeft
<1>2. CASE r \notin DOMAIN ttl
  BY <1>2, ClockAssumption DEF TimeLeft
<1> QED
  BY <1>1, <1>2

(* A call that touches the records S, and adds none but those of S.        *)
LEMMA TouchedKeeps ==
  ASSUME ClockInv, NEW S, Touched(S), Records' \subseteq Records \cup S
  PROVE  ClockInv'
<1>1. ASSUME NEW r \in Records'
      PROVE  /\ ttl'[r] \in -1 .. PENDING_APPROVAL_TTL_LEDGERS
             /\ idle'[r] \in Nat
             /\ ttl'[r] + idle'[r]
                  \in PENDING_APPROVAL_BUMP_THRESHOLD .. PENDING_APPROVAL_TTL_LEDGERS
  <2>1. CASE r \in S
    <3> DEFINE left == Extended(TimeLeft(r))
    <3>1. ttl'[r] = left /\ idle'[r] = 0
      BY <2>1 DEF Touched
    <3>2. left \in PENDING_APPROVAL_BUMP_THRESHOLD .. PENDING_APPROVAL_TTL_LEDGERS
      BY TimeLeftBounds, ExtendedBounds
    <3> QED
      BY <3>1, <3>2, ClockAssumption
  <2>2. CASE r \notin S
    <3>1. r \in Records
      BY <2>2
    <3>2. ttl'[r] = ttl[r] /\ idle'[r] = idle[r]
      BY <2>2 DEF Touched
    <3> QED
      BY <3>1, <3>2 DEF ClockInv, ClockTypeOK, InactivityBound
  <2> QED
    BY <2>1, <2>2
<1>2. DOMAIN ttl' = Records' /\ DOMAIN idle' = Records'
  BY DEF Touched
<1>3. ttl' = [r \in Records' |-> ttl'[r]] /\ idle' = [r \in Records' |-> idle'[r]]
  BY DEF Touched
<1>4. ClockTypeOK'
  BY <1>1, <1>3 DEF ClockTypeOK
<1>5. InactivityBound'
  BY <1>1 DEF InactivityBound
<1> QED
  BY <1>4, <1>5 DEF ClockInv

LEMMA ClockInitInv == ClockInit => ClockInv
<1> SUFFICES ASSUME ClockInit PROVE ClockInv
  OBVIOUS
<1>1. Records = {}
  BY DEF ClockInit, Init, Records
<1> QED
  BY <1>1 DEF ClockInit, ClockInv, ClockTypeOK, InactivityBound

LEMMA ApproveAndBumpKeeps ==
  ASSUME ClockInv, NEW id \in DOMAIN contracts, NEW caller \in Address,
         NEW indices \in SUBSET Indices(id), ApproveAndBump(id, indices, caller)
  PROVE  ClockInv'
<1> DEFINE role  == CallerRole(contracts[id], caller)
           flags == {<<id, i, role>> : i \in indices}
<1>1. approvals' = approvals \cup flags
  BY DEF ApproveAndBump, ApproveMilestones
<1>2. \A a \in flags : <<a[1], a[2]>> \in {id} \X indices
  OBVIOUS
<1> HIDE DEF flags
<1>3. Records' \subseteq Records \cup ({id} \X indices)
  BY <1>1, <1>2 DEF Records
<1> QED
  BY <1>3, TouchedKeeps DEF ApproveAndBump

(* Reading a record.                                                       *)
LEMMA GetMilestoneApprovalsKeeps ==
  ASSUME ClockInv, NEW id, NEW i, GetMilestoneApprovals(id, i)
  PROVE  ClockInv'
<1>1. Records' = Records
  BY DEF GetMilestoneApprovals, vars, records, Records
<1> QED
  BY <1>1, TouchedKeeps DEF GetMilestoneApprovals

(* A step that touches no record and adds none.                            *)
LEMMA RemovalKeeps ==
  ASSUME ClockInv, approvals' \subseteq approvals, Touched({})
  PROVE  ClockInv'
<1>1. Records' \subseteq Records \cup {}
  BY DEF Records
<1> QED
  BY <1>1, TouchedKeeps

LEMMA TickKeeps ==
  ASSUME ClockInv, Settled, Tick
  PROVE  ClockInv'
<1>1. Records' = Records
  BY DEF Tick, vars, records, Records
<1>2. DOMAIN ttl = Records /\ DOMAIN idle = Records
  BY DEF ClockInv, ClockTypeOK
<1>3. ASSUME NEW r \in Records
      PROVE  /\ ttl[r] - 1 \in -1 .. PENDING_APPROVAL_TTL_LEDGERS
             /\ idle[r] + 1 \in Nat
             /\ (ttl[r] - 1) + (idle[r] + 1)
                  \in PENDING_APPROVAL_BUMP_THRESHOLD .. PENDING_APPROVAL_TTL_LEDGERS
  <2>1. ttl[r] \in -1 .. PENDING_APPROVAL_TTL_LEDGERS /\ idle[r] \in Nat
    BY DEF ClockInv, ClockTypeOK
  <2>2. ttl[r] + idle[r] \in PENDING_APPROVAL_BUMP_THRESHOLD .. PENDING_APPROVAL_TTL_LEDGERS
    BY DEF ClockInv, InactivityBound
  <2>3. ttl[r] >= 0
    BY <1>2 DEF Settled
  <2> QED
    BY <2>1, <2>2, <2>3, ClockAssumption
<1>4. ttl' = [r \in Records |-> ttl[r] - 1] /\ idle' = [r \in Records |-> idle[r] + 1]
  BY <1>2 DEF Tick
<1>5. ClockTypeOK'
  BY <1>1, <1>3, <1>4 DEF ClockTypeOK
<1>6. InactivityBound'
  BY <1>1, <1>3, <1>4 DEF InactivityBound
<1> QED
  BY <1>5, <1>6 DEF ClockInv

LEMMA ClockNextInv == ClockInv /\ [ClockNext]_clockVars => ClockInv'
<1> SUFFICES ASSUME ClockInv, [ClockNext]_clockVars PROVE ClockInv'
  OBVIOUS
<1>1. ASSUME NEW id \in DOMAIN contracts, NEW caller \in Address,
             NEW indices \in SUBSET Indices(id), ApproveAndBump(id, indices, caller)
      PROVE  ClockInv'
  BY <1>1, ApproveAndBumpKeeps
<1>2. ASSUME NEW id \in DOMAIN contracts, NEW i \in Indices(id), GetMilestoneApprovals(id, i)
      PROVE  ClockInv'
  BY <1>2, GetMilestoneApprovalsKeeps
<1>3. CASE Transact
  BY <1>3, RemovalKeeps DEF Transact
<1>4. CASE Settled /\ Tick
  BY <1>4, TickKeeps
<1>5. ASSUME NEW id \in DOMAIN contracts, NEW i \in Indices(id), Evict(id, i)
      PROVE  ClockInv'
  <2>1. approvals' \subseteq approvals
    BY <1>5 DEF Evict, ExpireApprovals, ClearApprovals
  <2> QED
    BY <1>5, <2>1, RemovalKeeps DEF Evict
<1>6. CASE UNCHANGED clockVars
  BY <1>6 DEF clockVars, clock, vars, records, ClockInv, ClockTypeOK, InactivityBound, Records
<1> QED
  BY <1>1, <1>2, <1>3, <1>4, <1>5, <1>6 DEF ClockNext

(* An approval just given, or just looked at, lives at least the bump      *)
(* threshold longer, and one that nobody looks at no longer than the full  *)
(* period, for all values of the periods with a host minimum below the     *)
(* threshold.                                                              *)
THEOREM InactivityBounded == ClockSpec => []InactivityBound
<1>1. ClockInv => InactivityBound
  BY DEF ClockInv
<1> QED
  BY <1>1, ClockInitInv, ClockNextInv, PTL DEF ClockSpec

(* Every live record, and no other, has its time.                          *)
THEOREM ClockTypes == ClockSpec => []ClockTypeOK
<1>1. ClockInv => ClockTypeOK
  BY DEF ClockInv
<1> QED
  BY <1>1, ClockInitInv, ClockNextInv, PTL DEF ClockSpec
=============================================================================
