-------------------------- MODULE MCEscrowDisputes --------------------------
(***************************************************************************)
(* One contract: a dispute lives in the storage of its own contract, so    *)
(* what an upgrade does to it does not depend on other disputes.           *)
(***************************************************************************)
EXTENDS EscrowDisputes

CONSTANTS client, freelancer, arbiter

MCAddress == {client, freelancer, arbiter}

MCTerms ==
  {[client |-> client, freelancer |-> freelancer, arbiter |-> arbiter,
    release_authorization |-> "ClientOnly", amounts |-> <<2, 1>>]}
=============================================================================
