----------------------------- MODULE EscrowClock -----------------------------
(***************************************************************************)
(* Escrow with the ledger clock that evicts approvals.                     *)
(*                                                                         *)
(* The flags of a milestone share one record in temporary storage.  The    *)
(* host keeps for a record the number of ledgers it has left, counts it    *)
(* down, and drops the record after ledger 0.  Escrow lets a record go at  *)
(* any time; here it goes when its time is up and not before.  A count of  *)
(* ledgers left needs no bound on the ledger number.                       *)
(***************************************************************************)
EXTENDS Escrow

CONSTANTS
  PENDING_APPROVAL_TTL_LEDGERS,     \* what a bump extends a record to
  PENDING_APPROVAL_BUMP_THRESHOLD,  \* a bump does nothing unless less is left
  MIN_TEMP_ENTRY_TTL                \* what the host gives a new temporary entry

ASSUME ClockAssumption ==
  /\ PENDING_APPROVAL_TTL_LEDGERS \in Nat /\ PENDING_APPROVAL_BUMP_THRESHOLD \in Nat
  /\ MIN_TEMP_ENTRY_TTL \in Nat
  /\ MIN_TEMP_ENTRY_TTL < PENDING_APPROVAL_BUMP_THRESHOLD
  /\ PENDING_APPROVAL_BUMP_THRESHOLD <= PENDING_APPROVAL_TTL_LEDGERS

VARIABLES
  ttl,  \* ledgers left of DataKey::MilestoneApprovals(id, i), by <<id, i>>
  idle  \* history: ledgers since a call last touched the record

clock     == <<ttl, idle>>
clockVars == <<vars, clock>>

Records == {<<a[1], a[2]>> : a \in approvals}

(* No record is past its time: what the host sees to before a transaction. *)
Settled == \A r \in DOMAIN ttl : ttl[r] >= 0

ExtendedSlip(left) == IF left > PENDING_APPROVAL_BUMP_THRESHOLD
                      THEN PENDING_APPROVAL_TTL_LEDGERS ELSE left

(* extend_ttl: a record with enough time left is left alone.               *)
Extended(left) == IF left < PENDING_APPROVAL_BUMP_THRESHOLD
                  THEN PENDING_APPROVAL_TTL_LEDGERS ELSE left

TimeLeft(r) == IF r \in DOMAIN ttl THEN ttl[r] ELSE MIN_TEMP_ENTRY_TTL

Touched(S) ==
  /\ ttl'  = [r \in Records' |-> IF r \in S THEN Extended(TimeLeft(r)) ELSE ttl[r]]
  /\ idle' = [r \in Records' |-> IF r \in S THEN 0 ELSE idle[r]]

ClockInit == Init /\ ttl = << >> /\ idle = << >>

ApproveAndBump(id, indices, caller) ==
  /\ ApproveMilestones(id, indices, caller)
  /\ Touched({id} \X indices)

(* Reading a live record extends it as a write does.                       *)
GetMilestoneApprovals(id, i) ==
  /\ <<id, i>> \in Records
  /\ UNCHANGED vars
  /\ Touched({<<id, i>>})

(* Every other transaction at most removes records.                        *)
Transact ==
  /\ \/ \E t \in Terms : CreateContract(t)
     \/ \E id \in DOMAIN contracts : Participate(id)
     \/ \E ids \in SUBSET DOMAIN contracts : \E finalizer \in [ids -> Address] :
          FinalizeContractsBatch(ids, finalizer)
     \/ Administer
  /\ approvals' \subseteq approvals
  /\ Touched({})

Tick ==
  /\ ttl'  = [r \in DOMAIN ttl |-> ttl[r] - 1]
  /\ idle' = [r \in DOMAIN idle |-> idle[r] + 1]
  /\ UNCHANGED vars

EvictNeverSlip(id, i) ==
  <<id, i>> \in DOMAIN ttl /\ ttl[<<id, i>>] < 0 /\ UNCHANGED clockVars

EvictFlagSlip(id, i) ==
  /\ <<id, i>> \in DOMAIN ttl /\ ttl[<<id, i>>] < 0
  /\ \E role \in ApprovedBy(id, i) : approvals' = approvals \ {<<id, i, role>>}
  /\ UNCHANGED <<books, disputes, finalization, pending_credits, funds, control>>
  /\ Touched({})

Evict(id, i) ==
  /\ <<id, i>> \in DOMAIN ttl /\ ttl[<<id, i>>] < 0
  /\ ExpireApprovals(id, i)
  /\ Touched({})

ClockNext ==
  \/ /\ Settled
     /\ \/ \E id \in DOMAIN contracts :
             \/ \E caller \in Address, indices \in SUBSET Indices(id) :
                  indices # {} /\ ApproveAndBump(id, indices, caller)
             \/ \E i \in Indices(id) : GetMilestoneApprovals(id, i)
        \/ Transact
        \/ Tick
  \/ \E id \in DOMAIN contracts : \E i \in Indices(id) : Evict(id, i)

(* The network closes ledgers and the host evicts; nobody else must act.   *)
ClockFairness ==
  /\ WF_clockVars(Settled /\ Tick)
  /\ WF_clockVars(\E id \in DOMAIN contracts : \E i \in Indices(id) : Evict(id, i))

ClockSpec == ClockInit /\ [][ClockNext]_clockVars /\ ClockFairness

----------------------------------------------------------------------------
(* Each live record, and no other, has a time to live.                     *)
ClockTypeOK ==
  /\ ttl \in [Records -> -1 .. PENDING_APPROVAL_TTL_LEDGERS]
  /\ idle \in [Records -> Nat]

(* A record outlives the last call that touched it by at least the bump    *)
(* threshold and at most the full period, whatever it had left before: an  *)
(* approval just given cannot be about to vanish, nor live on unattended.  *)
InactivityBound ==
  \A r \in Records :
    ttl[r] + idle[r] \in PENDING_APPROVAL_BUMP_THRESHOLD .. PENDING_APPROVAL_TTL_LEDGERS

(* With the clock the escrow does nothing that Escrow does not do, so that *)
(* what holds of Escrow holds of it.                                       *)
ImplementsEscrow == Spec

(* An approval record that nobody touches any more is evicted.             *)
IdleApprovalsExpire ==
  \A id \in 1 .. MAX_CONTRACT_ID, i \in 1 .. MAX_MILESTONES :
    []<>(<<id, i>> \in Records => idle[<<id, i>>] = 0)
=============================================================================
