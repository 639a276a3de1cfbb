--------------------------- MODULE EscrowDisputes ---------------------------
(***************************************************************************)
(* Escrow with the storage of a dispute in detail, across an upgrade of    *)
(* the deployed code.  Three builds are known: one that marks a dispute in *)
(* the contract's status alone, one that writes a record without a version *)
(* (v0), and the current one, which writes a record (v1) and a version     *)
(* marker beside it and upgrades what the other two left when it reads it. *)
(* The deployment starts on one of the old builds and is upgraded at any   *)
(* moment, in the middle of a dispute too.                                 *)
(***************************************************************************)
EXTENDS Escrow

DISPUTE_STORAGE_VERSION == 1

VARIABLES
  build,             \* the code deployed: "status_only", "v0" or "current"
  dispute_record,    \* DataKey::Dispute(id), a partial function on `disputes'
  dispute_version,   \* DataKey::DisputeStorageVersion(id), a partial function on ids
  raised             \* history: by whom and under which build an id was disputed

storage     == <<dispute_record, dispute_version>>
disputeVars == <<vars, build, storage, raised>>

Without(f, id) == [x \in DOMAIN f \ {id} |-> f[x]]

Disputed(id) == contracts[id].status = "Disputed"

----------------------------------------------------------------------------
(* Versioned storage.                                                      *)

Metadata(version, raised_by) == [schema_version |-> version, raised_by |-> raised_by]

GetDisputeStorageVersion(id) ==
  IF id \in DOMAIN dispute_version THEN dispute_version[id] ELSE 0

StoreDisputeMetadata(id, raised_by) ==
  /\ dispute_record' = With(dispute_record, id, Metadata(DISPUTE_STORAGE_VERSION, raised_by))
  /\ dispute_version' = With(dispute_version, id, DISPUTE_STORAGE_VERSION)

RemoveDisputeMetadataSlip(id) ==
  /\ dispute_record' = Without(dispute_record, id)
  /\ UNCHANGED dispute_version

RemoveDisputeMetadata(id) ==
  /\ dispute_record' = Without(dispute_record, id)
  /\ dispute_version' = Without(dispute_version, id)

LoadableSlip(id) ==
  CASE GetDisputeStorageVersion(id) = DISPUTE_STORAGE_VERSION -> id \in disputes
    [] GetDisputeStorageVersion(id) = 0 -> id \in disputes
    [] OTHER -> FALSE

(* load_dispute_metadata finds a record, or a dispute to make one for.     *)
Loadable(id) ==
  CASE GetDisputeStorageVersion(id) = DISPUTE_STORAGE_VERSION -> id \in disputes
    [] GetDisputeStorageVersion(id) = 0 -> id \in disputes \/ Disputed(id)
    [] OTHER -> FALSE

LoadedRaiserSlip(id) == contracts[id].client

(* The raiser a v0 record names is kept; a dispute without a record is     *)
(* attributed to the client, whoever raised it.                            *)
LoadedRaiser(id) ==
  IF id \in disputes THEN dispute_record[id].raised_by ELSE contracts[id].client

(* A current record is returned as it is.                                  *)
LoadDisputeMetadata(id) ==
  /\ Loadable(id)
  /\ IF GetDisputeStorageVersion(id) = DISPUTE_STORAGE_VERSION
       THEN UNCHANGED <<disputes, dispute_record, dispute_version>>
       ELSE StoreDispute(id) /\ StoreDisputeMetadata(id, LoadedRaiser(id))

----------------------------------------------------------------------------
(* The old builds.                                                         *)

Raised(id, caller) ==
  raised' = With(raised, id, [build |-> build, by |-> caller])

(* A second pair of entrypoints in lib.rs: no record is written, none is   *)
(* needed to resolve, and the sum of the award is not checked again.       *)
RaiseStatusOnly(id, caller) ==
  LET c == contracts[id] IN
  /\ build = "status_only"
  /\ NotPaused /\ ~Finalized(id)
  /\ caller \in {c.client, c.freelancer}
  /\ c.arbiter # NoArbiter
  /\ c.status \in {"Funded", "PartiallyFunded"}
  /\ contracts' = [contracts EXCEPT ![id] = [c EXCEPT !.status = "Disputed"]]
  /\ Raised(id, caller)
  /\ UNCHANGED <<next_contract_id, milestones, records, funds, control, build, storage>>

AwardedSlip(id, r) ==
  [contracts[id] EXCEPT !.refunded_amount = @ + ClientPayout(Available(id), r)]

Awarded(id, r) ==
  [contracts[id] EXCEPT !.refunded_amount = @ + ClientPayout(Available(id), r),
                        !.released_amount = @ + FreelancerPayout(Available(id), r)]

ResolveStatusOnly(id, caller, r) ==
  LET c  == contracts[id]
      c1 == Awarded(id, r)
      c2 == [c1 EXCEPT !.status = FinalStatusAfterResolution(c1)]
  IN
  /\ build = "status_only"
  /\ NotPaused /\ ~Finalized(id)
  /\ c.status = "Disputed" /\ caller = c.arbiter
  /\ ResolutionAccepted(Available(id), r)
  /\ c1.refunded_amount \in Stroops /\ c1.released_amount \in Stroops
  /\ contracts' = [contracts EXCEPT ![id] = c2]
  /\ CreditOnCompletion(c2)
  /\ undistributed' = undistributed + Available(id)
  /\ UNCHANGED <<next_contract_id, milestones, approvals, disputes, finalization, custody,
                 accumulated_fees, unrecovered, control, build, storage, raised>>

(* Known from the records it left: a raiser, no version.                   *)
RaiseV0(id, caller) ==
  /\ build = "v0"
  /\ RaiseDispute(id, caller)
  /\ dispute_record' = With(dispute_record, id, Metadata(0, caller))
  /\ Raised(id, caller)
  /\ UNCHANGED <<dispute_version, build>>

Upgrade ==
  /\ build # "current"
  /\ build' = "current"
  /\ UNCHANGED <<vars, storage, raised>>

----------------------------------------------------------------------------
(* The current build.                                                      *)

RaiseCurrent(id, caller) ==
  /\ build = "current"
  /\ RaiseDispute(id, caller)
  /\ StoreDisputeMetadata(id, caller)
  /\ Raised(id, caller)
  /\ UNCHANGED build

CanResolveCurrent(id, caller, r) ==
  build = "current" /\ Loadable(id) /\ CanResolve(id, caller, r)

(* What the load upgrades, the removal at the end takes away again.        *)
ResolveCurrent(id, caller, r) ==
  /\ CanResolveCurrent(id, caller, r)
  /\ ResolveDispute(id, caller, r)
  /\ RemoveDisputeMetadata(id)
  /\ UNCHANGED <<build, raised>>

(* Reading a dispute, which anybody may do at any time, upgrades it.       *)
GetDispute(id) ==
  /\ build = "current"
  /\ LoadDisputeMetadata(id)
  /\ UNCHANGED <<books, approvals, finalization, pending_credits, funds, control, build, raised>>

----------------------------------------------------------------------------
DisputeInit ==
  /\ Init
  /\ build \in {"status_only", "v0"}
  /\ dispute_record = << >> /\ dispute_version = << >>
  /\ raised = << >>

(* The first disjunct is everything of Escrow that is not about raising or *)
(* resolving a dispute.                                                    *)
DisputeNext ==
  \/ /\ \/ \E t \in Terms : CreateContract(t)
        \/ \E id \in DOMAIN contracts :
             \/ \E amount \in DepositAmounts : DepositFunds(id, amount)
             \/ \E caller \in Address, i \in Indices(id) : ApproveMilestones(id, {i}, caller)
             \/ \E caller \in Address, i \in Indices(id) : ReleaseMilestone(id, i, caller)
             \/ \E indices \in SUBSET Indices(id) : RefundUnreleasedMilestones(id, indices)
             \/ CancelContract(id)
             \/ \E finalizer \in Address : FinalizeContract(id, finalizer)
             \/ \E i \in Indices(id) : ExpireApprovals(id, i)
        \/ Administer
     /\ UNCHANGED <<build, storage, raised>>
  \/ \E id \in DOMAIN contracts :
       \/ \E caller \in Address :
            RaiseStatusOnly(id, caller) \/ RaiseV0(id, caller) \/ RaiseCurrent(id, caller)
       \/ \E caller \in Address, r \in Resolutions :
            ResolveStatusOnly(id, caller, r) \/ ResolveCurrent(id, caller, r)
       \/ GetDispute(id)
  \/ Upgrade

DisputeSpec == DisputeInit /\ [][DisputeNext]_disputeVars

----------------------------------------------------------------------------
(* The records stored are those Escrow counts as `disputes', and a marker  *)
(* stands exactly beside a record of the current layout: no call leaves    *)
(* one without the other, which a later read would reject for ever.        *)
DisputeTypeOK ==
  /\ build \in {"status_only", "v0", "current"}
  /\ disputes = DOMAIN dispute_record
  /\ \A id \in disputes :
       /\ dispute_record[id].raised_by \in Address
       /\ dispute_record[id].schema_version = GetDisputeStorageVersion(id)
  /\ DOMAIN dispute_version \subseteq disputes

(* A record of whatever layout names who raised the dispute; where the     *)
(* status-only build kept no record, it names the client.                  *)
RaiserKept ==
  \A id \in disputes :
    dispute_record[id].raised_by =
      IF raised[id].build = "status_only" THEN contracts[id].client ELSE raised[id].by

(* An upgrade strands no dispute: the arbiter of an open one, raised under *)
(* whichever build and read or not since, can refund the client in full.   *)
UpgradeStrandsNoDispute ==
  \A id \in DOMAIN contracts :
    Disputed(id) /\ NotPaused /\ ~Finalized(id) /\ build = "current" =>
      CanResolveCurrent(id, contracts[id].arbiter, FixedResolution("FullRefund"))

(* Whichever build runs, a dispute does to the books what Escrow says: the *)
(* status-only build, without record and without the last check, too.  A   *)
(* dispute that is open, or was until refunds left nothing to award,       *)
(* counts as recorded.                                                     *)
Recorded == disputes \cup {id \in DOMAIN raised : Disputed(id) \/ Unresolved(id) = {}}

Core == INSTANCE Escrow WITH disputes <- Recorded

ImplementsEscrow == Core!Spec
=============================================================================
