---------------------------- MODULE MCEscrowClock ----------------------------
(***************************************************************************)
(* One small contract under the clock.  Under MultiSig both parties share  *)
(* the record of a milestone, so that one's call meets the other's time.   *)
(***************************************************************************)
EXTENDS EscrowClock

CONSTANTS client, freelancer, none

Agreement(mode, amounts) ==
  [client |-> client, freelancer |-> freelancer, arbiter |-> none,
   release_authorization |-> mode, amounts |-> amounts]

MCAddress == {client, freelancer}

Jobs == {Agreement("MultiSig", <<1>>), Agreement("MultiSig", <<1, 1>>)}
=============================================================================
