-------------------------- MODULE MCEscrowSchedules --------------------------
(***************************************************************************)
(* One contract of two milestones, each the neighbour of the other.        *)
(***************************************************************************)
EXTENDS EscrowSchedules

CONSTANTS client, freelancer, none, undated

Agreement(amounts) ==
  [client |-> client, freelancer |-> freelancer, arbiter |-> none,
   release_authorization |-> "ClientOnly", amounts |-> amounts]

MCAddress == {client, freelancer}

TwoMilestones == {Agreement(<<1, 2>>)}
=============================================================================
