--------------------------- MODULE MCEscrowRatings ---------------------------
(***************************************************************************)
(* Two contracts with the same freelancer, who can complete either by a    *)
(* release or by an award of the arbiter.                                  *)
(***************************************************************************)
EXTENDS EscrowRatings

CONSTANTS client, freelancer, arbiter, none

Agreement(arb) ==
  [client |-> client, freelancer |-> freelancer, arbiter |-> arb,
   release_authorization |-> "ClientOnly", amounts |-> <<1>>]

MCAddress == {client, freelancer, arbiter}

Jobs == {Agreement(none), Agreement(arbiter)}
=============================================================================
