-------------------------- MODULE MCEscrowLiveness --------------------------
(***************************************************************************)
(* Two contracts of the same parties in one custody, whose releases stand  *)
(* in each other's way through the fee counter, and each of which can go   *)
(* into dispute.                                                           *)
(***************************************************************************)
EXTENDS EscrowLiveness

CONSTANTS client, freelancer, arbiter

MCAddress == {client, freelancer, arbiter}

Agreement(mode, amounts) ==
  [client |-> client, freelancer |-> freelancer, arbiter |-> arbiter,
   release_authorization |-> mode, amounts |-> amounts]

OneStep == {Agreement("ClientOnly", <<2>>)}
=============================================================================
