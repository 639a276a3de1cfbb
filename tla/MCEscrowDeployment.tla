-------------------------- MODULE MCEscrowDeployment --------------------------
(***************************************************************************)
(* Up to two contracts, created before or after initialize.                *)
(***************************************************************************)
EXTENDS EscrowDeployment

CONSTANTS client, freelancer, none, usdc, unbound

Agreement(amounts) ==
  [client |-> client, freelancer |-> freelancer, arbiter |-> none,
   release_authorization |-> "ClientOnly", amounts |-> amounts]

MCAddress == {client, freelancer}
MCTokens  == {usdc}

MCDefaultLimits == [max_milestones |-> 2, max_escrow_stroops |-> 3, events_limit |-> 1]
MCLimitRanges   == [max_milestones |-> 1 .. 2, max_escrow_stroops |-> 2 .. 3, events_limit |-> {1}]

Jobs == {Agreement(<<1>>), Agreement(<<2>>)}
=============================================================================
