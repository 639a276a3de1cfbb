--------------------------- MODULE EscrowDeployment ---------------------------
(***************************************************************************)
(* Escrow from the installation of the contract on: initialize, the        *)
(* binding of the settlement token, and the parameters and limits that the *)
(* admin governs.                                                          *)
(*                                                                         *)
(* Nobody but the admin can do anything about a contract's money before    *)
(* initialize, but anybody can create contracts.                           *)
(***************************************************************************)
EXTENDS Escrow

CONSTANTS
  NoToken,                   \* DataKey::SettlementToken absent
  Tokens,                    \* addresses of token contracts
  DEFAULT_SETTLEMENT_LIMIT,
  TotalCaps,                 \* the caps set_governed_params is called with
  SettlementLimits,          \* the limits set_settlement_limit is called with
  DefaultLimits,             \* what each configurable limit is until it is set
  LimitRanges,               \* what each of them may be set to
  LimitValues                \* what their setters are called with

ASSUME DeploymentAssumption ==
  /\ NoToken \notin Tokens
  /\ DEFAULT_SETTLEMENT_LIMIT \in Nat \ {0}
  /\ TotalCaps \subseteq Int /\ SettlementLimits \subseteq Int
  /\ DefaultLimits \in [{"max_milestones", "max_escrow_stroops", "events_limit"} -> Nat \ {0}]
  /\ LimitRanges \in [DOMAIN DefaultLimits -> SUBSET (Nat \ {0})]

VARIABLES
  initialized,          \* DataKey::Initialized
  settlement_token,     \* DataKey::SettlementToken
  governed_parameters,  \* DataKey::GovernedParameters: nothing or one record
  settlement_limit,     \* DataKey::SettlementLimit
  limits,               \* DataKey::MaxMilestones, MaxEscrowStroops and EventsLimit
  checklist             \* DataKey::ReadinessChecklist, the flags that are set

deployment == <<initialized, settlement_token, governed_parameters, settlement_limit, limits,
                checklist>>
deployVars == <<vars, deployment>>

GovernedParameters == [protocol_fee_bps : Nat, max_escrow_total_stroops : Int]

----------------------------------------------------------------------------
(* The calls of the admin, all of which need one.                          *)

INITIAL_CONTRACT_ID == 1

(* initialize starts the ids over, whatever has been created before it.    *)
FirstId == INITIAL_CONTRACT_ID

Initialize ==
  /\ ~initialized
  /\ initialized' = TRUE
  /\ next_contract_id' = FirstId
  /\ checklist' = checklist \cup {"initialized"}
  /\ UNCHANGED <<contracts, milestones, records, funds, control, settlement_token,
                 governed_parameters, settlement_limit, limits>>

(* The token answers a balance query, is not the escrow itself nor the     *)
(* admin: what Tokens holds.                                               *)
BindSettlementToken(token) ==
  /\ initialized /\ NotPaused
  /\ settlement_token = NoToken
  /\ settlement_token' = token
  /\ UNCHANGED <<vars, initialized, governed_parameters, settlement_limit, limits, checklist>>

SetGovernedParams(bps, cap) ==
  /\ initialized
  /\ bps <= BPS_DENOMINATOR
  /\ governed_parameters' = {[protocol_fee_bps |-> bps, max_escrow_total_stroops |-> cap]}
  /\ protocol_fee_bps' = bps
  /\ checklist' = checklist \cup {"governed_params_set"}
  /\ UNCHANGED <<books, records, funds, paused, emergency, initialized, settlement_token,
                 settlement_limit, limits>>

SetSettlementLimit(limit) ==
  /\ initialized
  /\ limit \in 1 .. DEFAULT_SETTLEMENT_LIMIT
  /\ settlement_limit' = limit
  /\ UNCHANGED <<vars, initialized, settlement_token, governed_parameters, limits, checklist>>

(* set_max_milestones, set_max_escrow_stroops, set_events_limit: each has  *)
(* a range of its own, and nothing but its getter reads it.                *)
SetLimit(limit, value) ==
  /\ initialized
  /\ value \in LimitRanges[limit]
  /\ limits' = [limits EXCEPT ![limit] = value]
  /\ UNCHANGED <<vars, initialized, settlement_token, governed_parameters, settlement_limit,
                 checklist>>

----------------------------------------------------------------------------
(* Creation looks at the governed cap and at nothing else of the above.    *)

WithinTheCap(t) ==
  \A p \in governed_parameters : TotalAmount(t.amounts) <= p.max_escrow_total_stroops

SlotIsFreeSlip == TRUE

SlotIsFree == ~Exists(next_contract_id)

(* create_contract; where there is no collision it is Escrow's.            *)
Create(t) ==
  /\ NotPaused
  /\ AcceptableTerms(t)
  /\ WithinTheCap(t)
  /\ SlotIsFree
  /\ next_contract_id < MAX_CONTRACT_ID
  /\ contracts' = With(contracts, next_contract_id, NewContract(t))
  /\ milestones' = With(milestones, next_contract_id, NewMilestones(t))
  /\ next_contract_id' = next_contract_id + 1
  /\ UNCHANGED <<records, funds, control, deployment>>

TokenIsBoundSlip == TRUE

TokenIsBound == settlement_token # NoToken

(* Every other transaction of Escrow.  Tokens move only where the token is *)
(* known; the admin's calls need an admin; the first emergency ticks the   *)
(* checklist.                                                              *)
Transact ==
  /\ \/ \E id \in DOMAIN contracts :
           \/ Participate(id)
           \/ \E i \in Indices(id) : ExpireApprovals(id, i)
     \/ \E ids \in SUBSET DOMAIN contracts : \E finalizer \in [ids -> Address] :
           FinalizeContractsBatch(ids, finalizer)
     \/ initialized /\ Administer
  /\ custody' # custody => initialized /\ TokenIsBound
  /\ checklist' = checklist \cup (IF emergency' THEN {"emergency_controls_enabled"} ELSE {})
  /\ UNCHANGED <<initialized, settlement_token, governed_parameters, settlement_limit, limits>>

DeployInit ==
  /\ Init
  /\ initialized = FALSE /\ settlement_token = NoToken /\ governed_parameters = {}
  /\ settlement_limit = DEFAULT_SETTLEMENT_LIMIT /\ limits = DefaultLimits /\ checklist = {}

DeployNext ==
  \/ Initialize
  \/ \E token \in Tokens : BindSettlementToken(token)
  \/ \E bps \in FeeRates, cap \in TotalCaps : SetGovernedParams(bps, cap)
  \/ \E limit \in SettlementLimits : SetSettlementLimit(limit)
  \/ \E limit \in DOMAIN limits, value \in LimitValues : SetLimit(limit, value)
  \/ \E t \in Terms : Create(t)
  \/ Transact

DeploySpec == DeployInit /\ [][DeployNext]_deployVars

----------------------------------------------------------------------------
(* No later call puts a contract in the place of an earlier one, although  *)
(* initialize makes the ids start over.                                    *)
ContractsAreNeverReplaced ==
  [][\A id \in DOMAIN contracts :
       /\ id \in DOMAIN contracts'
       /\ milestones'[id].amounts = milestones[id].amounts
       /\ contracts[id].status # "Created" => contracts'[id].status # "Created"
       /\ contracts[id].funded_amount <= contracts'[id].funded_amount]_deployVars

(* Everything in custody is in the one token bound: there is no deposit    *)
(* before the binding, and so nothing that a payment without a token could *)
(* strand.                                                                 *)
MoneyHasItsToken ==
  settlement_token = NoToken =>
    /\ custody = 0 /\ accumulated_fees = 0
    /\ \A id \in DOMAIN contracts : contracts[id].status \in {"Created", "Cancelled"}
=============================================================================
