---------------------------- MODULE AdminRotation ----------------------------
(***************************************************************************)
(* Who is the admin: set once by initialize, then handed over by a         *)
(* proposal of the admin in office, a delay, and an acceptance by the      *)
(* address proposed.                                                       *)
(*                                                                         *)
(* A proposal is stored with the ledger it was made in; here it has an     *)
(* age, counted up to the delay and no further.                            *)
(***************************************************************************)
EXTENDS Naturals

CONSTANTS
  Address,
  NoAdmin,                           \* no DataKey::Admin yet
  ADMIN_ROTATION_MIN_DELAY_LEDGERS

ASSUME RotationAssumption ==
  NoAdmin \notin Address /\ ADMIN_ROTATION_MIN_DELAY_LEDGERS \in Nat \ {0}

VARIABLES
  initialized,    \* DataKey::Initialized
  admin,          \* DataKey::Admin
  pending_admin,  \* DataKey::PendingAdmin: no proposal or one
  sponsor,        \* history: the admin who made the last proposal
  notice          \* history: ledgers each address has been on proposal without a break

history == <<sponsor, notice>>
vars    == <<initialized, admin, pending_admin, history>>

Delay == 0 .. ADMIN_ROTATION_MIN_DELAY_LEDGERS

PendingAdminProposal == [proposed : Address, age : Delay]

Proposed(a) == \E p \in pending_admin : p.proposed = a

OlderSlip(age) == IF age + 1 < ADMIN_ROTATION_MIN_DELAY_LEDGERS THEN age + 1 ELSE age

Older(age) == IF age < ADMIN_ROTATION_MIN_DELAY_LEDGERS THEN age + 1 ELSE age

(* An address not on proposal has no notice.                               *)
NoticeOf(a, ledgers) == [x \in Address |-> IF x = a THEN ledgers ELSE 0]

NoNotice == [x \in Address |-> 0]

----------------------------------------------------------------------------
Init ==
  /\ initialized = FALSE /\ admin = NoAdmin /\ pending_admin = {}
  /\ sponsor = NoAdmin /\ notice = NoNotice

Initialize(a) ==
  /\ ~initialized
  /\ initialized' = TRUE /\ admin' = a
  /\ UNCHANGED <<pending_admin, history>>

FreshAgeSlip == IF pending_admin = {} THEN 0 ELSE (CHOOSE p \in pending_admin : TRUE).age

FreshAge == 0

(* The proposal replaces the one before it, whomever that named, and its   *)
(* delay starts over.                                                      *)
ProposeGovernanceAdmin(a) ==
  /\ initialized
  /\ pending_admin' = {[proposed |-> a, age |-> FreshAge]}
  /\ sponsor' = admin
  /\ notice' = NoticeOf(a, notice[a])
  /\ UNCHANGED <<initialized, admin>>

RemoveProposalSlip == pending_admin' = pending_admin

RemoveProposal == pending_admin' = {}

(* The proposed address signs, once the delay is over.                     *)
AcceptGovernanceAdmin ==
  /\ initialized
  /\ \E p \in pending_admin :
       /\ p.age >= ADMIN_ROTATION_MIN_DELAY_LEDGERS
       /\ admin' = p.proposed
  /\ RemoveProposal
  /\ notice' = NoNotice
  /\ UNCHANGED <<initialized, sponsor>>

CancelGovernanceAdminProposal ==
  /\ initialized
  /\ pending_admin # {}
  /\ pending_admin' = {}
  /\ notice' = NoNotice
  /\ UNCHANGED <<initialized, admin, sponsor>>

(* A ledger closes.                                                        *)
Tick ==
  /\ pending_admin' = {[p EXCEPT !.age = Older(@)] : p \in pending_admin}
  /\ notice' = [a \in Address |-> IF Proposed(a) THEN Older(notice[a]) ELSE 0]
  /\ UNCHANGED <<initialized, admin, sponsor>>

Next ==
  \/ \E a \in Address : Initialize(a) \/ ProposeGovernanceAdmin(a)
  \/ AcceptGovernanceAdmin
  \/ CancelGovernanceAdminProposal
  \/ Tick

(* Ledgers go on closing, and the address on proposal signs once it can.   *)
(* Nobody else is bound to act.                                            *)
Spec == Init /\ [][Next]_vars /\ WF_vars(Tick) /\ WF_vars(AcceptGovernanceAdmin)

----------------------------------------------------------------------------
(* There is an admin exactly after initialize, at most one proposal, and   *)
(* none before there is an admin.                                          *)
TypeOK ==
  /\ initialized \in BOOLEAN
  /\ admin \in Address \cup {NoAdmin}
  /\ initialized <=> admin # NoAdmin
  /\ pending_admin \subseteq PendingAdminProposal
  /\ \A p, q \in pending_admin : p = q
  /\ pending_admin # {} => initialized
  /\ sponsor \in Address \cup {NoAdmin}
  /\ notice \in [Address -> Delay]

(* A proposal that can be accepted was made by the admin still in office:  *)
(* it does not outlive its sponsor, through a rotation to somebody else.   *)
SponsorInOffice == pending_admin # {} => sponsor = admin

(* Nobody takes office without having been on proposal, for everybody to   *)
(* see, for the whole delay and without a break, whatever was proposed,    *)
(* replaced and cancelled in between.                                      *)
FullNotice ==
  [][initialized /\ admin' # admin =>
       notice[admin'] >= ADMIN_ROTATION_MIN_DELAY_LEDGERS]_vars

(* Once the admin stops making proposals, the last one is settled: the     *)
(* delay does run out and the address proposed takes office, unless the    *)
(* admin cancels.  An admin who goes on proposing can put it off for ever. *)
ProposalsSettle ==
  <>[][\A a \in Address : ~ProposeGovernanceAdmin(a)]_vars
    => []<>(pending_admin = {})
=============================================================================
