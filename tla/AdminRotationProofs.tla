------------------------ MODULE AdminRotationProofs ------------------------
(***************************************************************************)
(* Theorems about AdminRotation, for any set of addresses and any delay.   *)
(***************************************************************************)
EXTENDS AdminRotation, TLAPS

(* Counting up to the delay stays within it and keeps an order.            *)
LEMMA OlderCounts ==
  ASSUME NEW m \in Delay, NEW n \in Delay, m >= n
  PROVE  Older(m) \in Delay /\ Older(m) >= Older(n)
  BY RotationAssumption DEF Older, Delay

(* Notices are kept for all addresses.                                     *)
LEMMA NoticeTypes ==
  ASSUME NEW a \in Address, NEW n \in Delay
  PROVE  /\ NoticeOf(a, n) \in [Address -> Delay] /\ NoticeOf(a, n)[a] = n
         /\ NoNotice \in [Address -> Delay]
  BY RotationAssumption DEF NoticeOf, NoNotice, Delay

(***************************************************************************)
(* The inductive invariant.  The type and the sponsor need nothing else;   *)
(* the notice needs that an address on proposal has had at least the       *)
(* notice its proposal is old.                                             *)
(***************************************************************************)
NoticeKeepsUp == \A p \in pending_admin : notice[p.proposed] >= p.age

RotationInv == TypeOK /\ SponsorInOffice /\ NoticeKeepsUp

LEMMA RotationInit == Init => RotationInv
<1> SUFFICES ASSUME Init PROVE RotationInv
  OBVIOUS
<1>1. notice \in [Address -> Delay]
  BY RotationAssumption DEF Init, NoNotice, Delay
<1> QED
  BY <1>1, RotationAssumption DEF Init, RotationInv, TypeOK, SponsorInOffice, NoticeKeepsUp

LEMMA InitializeKeeps ==
  ASSUME RotationInv, NEW a \in Address, Initialize(a)
  PROVE  RotationInv'
<1>1. pending_admin = {} /\ pending_admin' = {} /\ admin' = a /\ initialized' = TRUE
  BY DEF RotationInv, TypeOK, Initialize
<1> QED
  BY <1>1, RotationAssumption
  DEF RotationInv, TypeOK, SponsorInOffice, NoticeKeepsUp, Initialize, history

LEMMA ProposeKeeps ==
  ASSUME RotationInv, NEW a \in Address, ProposeGovernanceAdmin(a)
  PROVE  RotationInv'
<1> DEFINE p == [proposed |-> a, age |-> 0]
<1>1. pending_admin' = {p}
  BY DEF ProposeGovernanceAdmin, FreshAge
<1>2. p \in PendingAdminProposal
  BY RotationAssumption DEF PendingAdminProposal, Delay
<1>3. notice[a] \in Delay
  BY DEF RotationInv, TypeOK
<1>4. notice' \in [Address -> Delay] /\ notice'[a] = notice[a]
  BY <1>3, NoticeTypes DEF ProposeGovernanceAdmin
<1>5. TypeOK'
  BY <1>1, <1>2, <1>4 DEF RotationInv, TypeOK, ProposeGovernanceAdmin
<1>6. SponsorInOffice'
  BY DEF ProposeGovernanceAdmin, SponsorInOffice
<1>7. NoticeKeepsUp'
  BY <1>1, <1>3, <1>4 DEF NoticeKeepsUp, Delay
<1> QED
  BY <1>5, <1>6, <1>7 DEF RotationInv

LEMMA AcceptKeeps ==
  ASSUME RotationInv, AcceptGovernanceAdmin
  PROVE  RotationInv' /\ notice[admin'] >= ADMIN_ROTATION_MIN_DELAY_LEDGERS
<1> PICK p \in pending_admin : p.age >= ADMIN_ROTATION_MIN_DELAY_LEDGERS /\ admin' = p.proposed
  BY DEF AcceptGovernanceAdmin
<1>1. p.proposed \in Address /\ p.age \in Delay
  BY DEF RotationInv, TypeOK, PendingAdminProposal
<1>2. notice[p.proposed] \in Delay /\ notice[p.proposed] >= p.age
  BY <1>1 DEF RotationInv, TypeOK, NoticeKeepsUp
<1>3. notice' \in [Address -> Delay]
  BY NoticeTypes, <1>1, <1>2 DEF AcceptGovernanceAdmin
<1>4. pending_admin' = {} /\ initialized'
  BY DEF AcceptGovernanceAdmin, RemoveProposal
<1>5. admin' \in Address /\ admin' # NoAdmin
  BY <1>1, RotationAssumption
<1>6. TypeOK'
  BY <1>3, <1>4, <1>5 DEF RotationInv, TypeOK, AcceptGovernanceAdmin
<1>7. RotationInv'
  BY <1>4, <1>6 DEF RotationInv, SponsorInOffice, NoticeKeepsUp
<1>8. notice[admin'] >= ADMIN_ROTATION_MIN_DELAY_LEDGERS
  BY <1>1, <1>2, RotationAssumption DEF Delay
<1> QED
  BY <1>7, <1>8

LEMMA CancelKeeps ==
  ASSUME RotationInv, CancelGovernanceAdminProposal
  PROVE  RotationInv'
<1>1. pending_admin' = {}
  BY DEF CancelGovernanceAdminProposal
<1>2. notice' \in [Address -> Delay]
  BY RotationAssumption DEF CancelGovernanceAdminProposal, NoNotice, Delay
<1> QED
  BY <1>1, <1>2
  DEF RotationInv, TypeOK, SponsorInOffice, NoticeKeepsUp, CancelGovernanceAdminProposal

LEMMA TickKeeps ==
  ASSUME RotationInv, Tick
  PROVE  RotationInv'
<1> DEFINE Grown(p) == [p EXCEPT !.age = Older(@)]
<1>1. pending_admin' = {Grown(p) : p \in pending_admin}
  BY DEF Tick
<1>2. ASSUME NEW p \in pending_admin
      PROVE  /\ Grown(p) \in PendingAdminProposal
             /\ Grown(p).proposed = p.proposed /\ Grown(p).age = Older(p.age)
  <2>1. p \in PendingAdminProposal
    BY DEF RotationInv, TypeOK
  <2>2. p.age \in Delay /\ Older(p.age) \in Delay
    BY <2>1, RotationAssumption DEF PendingAdminProposal, Older, Delay
  <2> QED
    BY <2>1, <2>2 DEF PendingAdminProposal
<1>3. notice' \in [Address -> Delay]
  <2>1. \A a \in Address : notice[a] \in Delay /\ Older(notice[a]) \in Delay
    BY RotationAssumption DEF RotationInv, TypeOK, Older, Delay
  <2>2. 0 \in Delay
    BY RotationAssumption DEF Delay
  <2> QED
    BY <2>1, <2>2 DEF Tick
<1>4. TypeOK'
  <2>1. pending_admin' \subseteq PendingAdminProposal
    BY <1>1, <1>2
  <2>2. \A p, q \in pending_admin' : p = q
    BY <1>1 DEF RotationInv, TypeOK
  <2>3. pending_admin' # {} => pending_admin # {}
    BY <1>1
  <2> QED
    BY <1>3, <2>1, <2>2, <2>3 DEF RotationInv, TypeOK, Tick
<1>5. SponsorInOffice'
  BY <1>1 DEF RotationInv, SponsorInOffice, Tick
<1>6. NoticeKeepsUp'
  <2> SUFFICES ASSUME NEW q \in pending_admin'
               PROVE  notice'[q.proposed] >= q.age
    BY DEF NoticeKeepsUp
  <2> PICK p \in pending_admin : q = Grown(p)
    BY <1>1
  <2>1. p.proposed \in Address /\ p.age \in Delay
    BY DEF RotationInv, TypeOK, PendingAdminProposal
  <2>2. notice'[p.proposed] = Older(notice[p.proposed])
    BY <2>1 DEF Tick, Proposed
  <2>3. notice[p.proposed] \in Delay /\ notice[p.proposed] >= p.age
    BY <2>1 DEF RotationInv, TypeOK, NoticeKeepsUp
  <2>4. Older(notice[p.proposed]) >= Older(p.age)
    BY <2>1, <2>3, OlderCounts
  <2> QED
    BY <1>2, <2>2, <2>4
<1> QED
  BY <1>4, <1>5, <1>6 DEF RotationInv

LEMMA RotationNext == RotationInv /\ [Next]_vars => RotationInv'
<1> SUFFICES ASSUME RotationInv, [Next]_vars PROVE RotationInv'
  OBVIOUS
<1>1. ASSUME NEW a \in Address, Initialize(a) PROVE RotationInv'
  BY <1>1, InitializeKeeps
<1>2. ASSUME NEW a \in Address, ProposeGovernanceAdmin(a) PROVE RotationInv'
  BY <1>2, ProposeKeeps
<1>3. CASE AcceptGovernanceAdmin
  BY <1>3, AcceptKeeps
<1>4. CASE CancelGovernanceAdminProposal
  BY <1>4, CancelKeeps
<1>5. CASE Tick
  BY <1>5, TickKeeps
<1>6. CASE UNCHANGED vars
  BY <1>6 DEF vars, history, RotationInv, TypeOK, SponsorInOffice, NoticeKeepsUp
<1> QED
  BY <1>1, <1>2, <1>3, <1>4, <1>5, <1>6 DEF Next

LEMMA RotationAlways == Spec => []RotationInv
  BY RotationInit, RotationNext, PTL DEF Spec

----------------------------------------------------------------------------
(* initialize, the proposals, the acceptances and the closing ledgers keep *)
(* the types: there is an admin exactly after initialize, and never more   *)
(* than one proposal.                                                      *)
THEOREM RotationTypes == Spec => []TypeOK
<1>1. RotationInv => TypeOK
  BY DEF RotationInv
<1> QED
  BY <1>1, RotationAlways, PTL

(* A proposal is always one of the admin in office: accepting one removes  *)
(* it, so that none survives the change it made.                           *)
THEOREM SponsorHolds == Spec => []SponsorInOffice
<1>1. RotationInv => SponsorInOffice
  BY DEF RotationInv
<1> QED
  BY <1>1, RotationAlways, PTL

(* Nobody becomes admin on less than the full notice, however proposals    *)
(* were replaced, cancelled and renewed before.                            *)
THEOREM NoticeHolds == Spec => FullNotice
<1>1. ASSUME RotationInv, Next, initialized, admin' # admin
      PROVE  notice[admin'] >= ADMIN_ROTATION_MIN_DELAY_LEDGERS
  <2>1. AcceptGovernanceAdmin
    BY <1>1 DEF Next, Initialize, ProposeGovernanceAdmin, CancelGovernanceAdminProposal, Tick
  <2> QED
    BY <1>1, <2>1, AcceptKeeps
<1>2. RotationInv /\ [Next]_vars =>
        [initialized /\ admin' # admin =>
           notice[admin'] >= ADMIN_ROTATION_MIN_DELAY_LEDGERS]_vars
  BY <1>1
<1> QED
  BY <1>2, RotationAlways, PTL DEF Spec, FullNotice
=============================================================================
