----------------------------- MODULE EscrowMath -----------------------------
(***************************************************************************)
(* The arithmetic of the escrow contract, free of any state: amounts are   *)
(* stroops held in an i128, rates are basis points.  Division is Rust's    *)
(* on non-negative operands, that is \div.  `x.checked_add(y)' and its     *)
(* relatives are a membership in Stroops: outside of it the call panics,   *)
(* the host rolls the whole transaction back and no step is taken.         *)
(***************************************************************************)
EXTENDS Integers, Sequences, Functions

CONSTANTS
  I128_MAX,                  \* the largest amount that does not overflow
  MAX_SINGLE_AMOUNT_STROOPS  \* the largest leg of a dispute split

ASSUME AmountsAssumption == I128_MAX \in Nat /\ MAX_SINGLE_AMOUNT_STROOPS \in Nat

Stroops == 0 .. I128_MAX

BPS_DENOMINATOR == 10000
PARTIAL_REFUND_FREELANCER_SHARE == 30
PARTIAL_REFUND_DENOMINATOR == 100

----------------------------------------------------------------------------
(* Sums over a milestone vector.                                           *)

TotalAmount(amounts) == SumFunction(amounts)

AmountOf(amounts, indices) == SumFunctionOnSet(amounts, indices)

----------------------------------------------------------------------------
AvailableBalanceSlip(c) == c.funded_amount - c.released_amount

(* funded - released - refunded, the part of a contract's deposits that    *)
(* its own books have not disposed of.                                     *)
AvailableBalance(c) == c.funded_amount - c.released_amount - c.refunded_amount

(* The protocol's share of a milestone: floor(amount * bps / 10000).       *)
ProtocolFee(amount, fee_bps) == (amount * fee_bps) \div BPS_DENOMINATOR

----------------------------------------------------------------------------
(* What an arbiter may decide, and the two legs each decision pays.        *)

Split(client_amount, freelancer_amount) ==
  [kind |-> "Split", client |-> client_amount, freelancer |-> freelancer_amount]

FixedResolution(kind) == [kind |-> kind, client |-> 0, freelancer |-> 0]

(* The freelancer's leg is rounded down, the client takes the remainder.   *)
PartialRefundFreelancerLeg(available) ==
  (available * PARTIAL_REFUND_FREELANCER_SHARE) \div PARTIAL_REFUND_DENOMINATOR

(* Both legs non-negative, within the single-amount limit, and together    *)
(* exactly what is left: nothing is created, nothing stays behind.         *)
ValidSplit(available, r) ==
  /\ r.client \in 0 .. MAX_SINGLE_AMOUNT_STROOPS
  /\ r.freelancer \in 0 .. MAX_SINGLE_AMOUNT_STROOPS
  /\ r.client + r.freelancer = available

ResolutionAccepted(available, r) ==
  CASE r.kind = "PartialRefund" ->
         available * PARTIAL_REFUND_FREELANCER_SHARE \in Stroops
    [] r.kind = "Split" -> ValidSplit(available, r)
    [] OTHER -> TRUE

FreelancerPayout(available, r) ==
  CASE r.kind = "FullRefund"    -> 0
    [] r.kind = "PartialRefund" -> PartialRefundFreelancerLeg(available)
    [] r.kind = "FullPayout"    -> available
    [] r.kind = "Split"         -> r.freelancer

ClientPayout(available, r) ==
  IF r.kind = "Split" THEN r.client ELSE available - FreelancerPayout(available, r)

FinalStatusAfterResolution(c) ==
  IF c.refunded_amount = c.funded_amount THEN "Refunded" ELSE "Completed"
=============================================================================
