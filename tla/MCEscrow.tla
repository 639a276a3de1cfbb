------------------------------ MODULE MCEscrow ------------------------------
(***************************************************************************)
(* Small instances of Escrow for TLC.  Amounts are a few stroops and the   *)
(* fee rates are chosen so that a fee is sometimes rounded down to zero    *)
(* (rate 50% of 1) and sometimes not (50% of 2 or 3).                      *)
(***************************************************************************)
EXTENDS EscrowClaims, EscrowViews, EscrowCopies

CONSTANTS client, freelancer, arbiter, none

MCAddress == {client, freelancer, arbiter}

Agreement(arb, mode, amounts) ==
  [client |-> client, freelancer |-> freelancer, arbiter |-> arb,
   release_authorization |-> mode, amounts |-> amounts]

(* One contract: three milestones of different size, or two and an         *)
(* approval mode that takes two roles; with an arbiter for disputes.       *)
OneContract ==
  {Agreement(arbiter, "ClientOnly", <<3, 1, 2>>), Agreement(arbiter, "MultiSig", <<1, 2>>),
   Agreement(arbiter, "ClientAndArbiter", <<2, 1>>)}

(* Two contracts of the same parties over one custody balance.             *)
TwoContracts ==
  {Agreement(arbiter, "ArbiterOnly", <<2>>), Agreement(none, "ClientOnly", <<2, 1>>)}

(* Without an arbiter nothing is disputed: fees are all that matters.      *)
WithoutArbiter == {Agreement(none, "ClientOnly", <<2, 2>>)}

WithArbiter == {Agreement(arbiter, "ClientOnly", <<2, 2>>)}
=============================================================================
