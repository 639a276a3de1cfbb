--------------------------- MODULE MCEscrowParties ---------------------------
(***************************************************************************)
(* One contract, and one address more than it has parties, to migrate to.  *)
(***************************************************************************)
EXTENDS EscrowParties

CONSTANTS client, freelancer, arbiter, newcomer, none

MCAddress == {client, freelancer, arbiter, newcomer}

Agreement(arb, mode, amounts) ==
  [client |-> client, freelancer |-> freelancer, arbiter |-> arb,
   release_authorization |-> mode, amounts |-> amounts]

Jobs == {Agreement(arbiter, "MultiSig", <<2>>), Agreement(arbiter, "ArbiterOnly", <<1>>)}
=============================================================================
