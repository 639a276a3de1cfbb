---------------------------- MODULE EscrowParties ----------------------------
(***************************************************************************)
(* Escrow whose contracts change hands: the client migrates to another     *)
(* address in two steps, the admin replaces or removes the arbiter, and a  *)
(* party takes an approval back.                                           *)
(*                                                                         *)
(* Approvals, disputes and close records name roles, not addresses.  What  *)
(* was said by one address therefore goes on counting when the role is     *)
(* handed to another; `given_by' remembers who said it.                    *)
(***************************************************************************)
EXTENDS Escrow

VARIABLES
  pending_migration,  \* live DataKey::PendingClientMigration(id), a partial function
  given_by            \* history: the address that gave each live approval

handover   == <<pending_migration, given_by>>
partyVars  == <<vars, handover>>
moneyAside == <<next_contract_id, milestones, disputes, finalization, pending_credits, funds,
                control>>

----------------------------------------------------------------------------
(* The holder of a role in a contract.                                     *)
Holder(c, role) ==
  CASE role = "Client" -> c.client [] role = "Freelancer" -> c.freelancer [] OTHER -> c.arbiter

MigrationAllowedSlip(id) == TRUE

(* A contract that is closed or in dispute keeps its client.               *)
MigrationAllowed(id) ==
  contracts[id].status \notin {"Completed", "Cancelled", "Refunded", "Disputed"}

HasPendingClientMigration(id) == id \in DOMAIN pending_migration

WithoutMigrationSlip(id) == pending_migration

WithoutMigration(id) ==
  [x \in DOMAIN pending_migration \ {id} |-> pending_migration[x]]

NewClientAllowedSlip(c, new_client) == new_client # c.client

NewClientAllowed(c, new_client) == new_client \notin {c.client, c.freelancer}

ProposeClientMigration(id, new_client) ==
  /\ NotPaused /\ ~Finalized(id)
  /\ NewClientAllowed(contracts[id], new_client)
  /\ MigrationAllowed(id)
  /\ ~HasPendingClientMigration(id)
  /\ pending_migration' = With(pending_migration, id,
       [current_client |-> contracts[id].client, proposed_client |-> new_client])
  /\ UNCHANGED <<vars, given_by>>

(* Neither the arbiter nor the approvals of the contract are looked at.    *)
AcceptClientMigration(id, new_client) ==
  /\ NotPaused /\ ~Finalized(id)
  /\ MigrationAllowed(id)
  /\ HasPendingClientMigration(id)
  /\ pending_migration[id].proposed_client = new_client
  /\ contracts' = [contracts EXCEPT ![id] = [@ EXCEPT !.client = new_client]]
  /\ pending_migration' = WithoutMigration(id)
  /\ UNCHANGED <<moneyAside, approvals, given_by>>

(* The client withdraws the request, also while the contract is paused.    *)
CancelClientMigration(id) ==
  /\ ~Finalized(id)
  /\ HasPendingClientMigration(id)
  /\ pending_migration' = WithoutMigration(id)
  /\ UNCHANGED <<vars, given_by>>

(* The request is kept for 21 days; then it is gone for every reader.      *)
ExpireClientMigration(id) ==
  /\ HasPendingClientMigration(id)
  /\ pending_migration' = WithoutMigration(id)
  /\ UNCHANGED <<vars, given_by>>

ArbiterAllowed(c, new_arbiter) ==
  /\ new_arbiter \notin {c.client, c.freelancer}
  /\ c.release_authorization \in {"ArbiterOnly", "ClientAndArbiter"} => new_arbiter # NoArbiter

(* The admin, at any status.                                               *)
SetArbiter(id, new_arbiter) ==
  /\ NotPaused /\ ~Finalized(id)
  /\ ArbiterAllowed(contracts[id], new_arbiter)
  /\ contracts' = [contracts EXCEPT ![id] = [@ EXCEPT !.arbiter = new_arbiter]]
  /\ UNCHANGED <<moneyAside, approvals, handover>>

RevokedFlag(id, i, caller) == {<<id, i, CallerRole(contracts[id], caller)>>}

(* The flag of the caller's role goes; the record with its last flag.      *)
(* Neither the pause nor a close record stands in the way.                 *)
RevokeApproval(id, i, caller) ==
  /\ i \notin milestones[id].released
  /\ IsParticipant(contracts[id], caller)
  /\ <<id, i, CallerRole(contracts[id], caller)>> \in approvals
  /\ approvals' = approvals \ RevokedFlag(id, i, caller)
  /\ given_by' = [a \in approvals' |-> given_by[a]]
  /\ UNCHANGED <<moneyAside, contracts, pending_migration>>

----------------------------------------------------------------------------
PartyInit == Init /\ pending_migration = << >> /\ given_by = << >>

(* Any step of Escrow; whoever holds the role now gave a new approval.     *)
EscrowStep ==
  /\ Next
  /\ given_by' = [a \in approvals' |->
       IF a \in approvals THEN given_by[a] ELSE Holder(contracts[a[1]], a[3])]
  /\ UNCHANGED pending_migration

HandOver(id) ==
  \/ \E new_client \in Address :
       ProposeClientMigration(id, new_client) \/ AcceptClientMigration(id, new_client)
  \/ CancelClientMigration(id)
  \/ ExpireClientMigration(id)
  \/ \E new_arbiter \in Address \cup {NoArbiter} : SetArbiter(id, new_arbiter)
  \/ \E caller \in Address, i \in Indices(id) : RevokeApproval(id, i, caller)

PartyNext == EscrowStep \/ \E id \in DOMAIN contracts : HandOver(id)

PartySpec == PartyInit /\ [][PartyNext]_partyVars

----------------------------------------------------------------------------
(* A request that can be accepted was made by the one who is the client    *)
(* now: a hand-over uses its request up, so no client that has left can    *)
(* give the contract away again.                                           *)
PendingIsCurrent ==
  \A id \in DOMAIN pending_migration :
    /\ pending_migration[id].current_client = contracts[id].client
    /\ pending_migration[id].proposed_client # contracts[id].client

(* However the roles are handed on, the freelancer never becomes his own   *)
(* client or arbiter, and an approval mode that needs an arbiter has one.  *)
(* Approvals name roles and outlive their holders; still, what counts for  *)
(* the freelancer was said by him, and nothing he said counts for another: *)
(* the two approvals of MultiSig always come from two addresses.           *)
FreelancerApart ==
  /\ \A id \in DOMAIN contracts :
       LET c == contracts[id] IN
       /\ c.freelancer \notin {c.client, c.arbiter}
       /\ c.release_authorization \in {"ArbiterOnly", "ClientAndArbiter"} => c.arbiter # NoArbiter
  /\ \A a \in approvals : given_by[a] = contracts[a[1]].freelancer <=> a[3] = "Freelancer"

(* The client is not replaced once the contract is closed, finalized or in *)
(* dispute, though the request may be older than that.                     *)
ClientStaysWhenClosed ==
  [][\A id \in DOMAIN contracts :
       contracts'[id].client # contracts[id].client =>
         contracts[id].status \in {"Created", "PartiallyFunded", "Funded"} /\ ~Finalized(id)]_partyVars
=============================================================================
