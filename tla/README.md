# A TLA+ model of the TalentTrust escrow contract

This directory holds a specification of the Soroban contract in
`src/contracts/escrow`, TLC configurations that check it on small instances,
and TLAPS proofs about it for all values of its constants.

    cd tla
    tlasany Escrow.tla
    tlc -workers 2 -config EscrowOne.cfg MCEscrow
    tlapm EscrowProofs.tla

Section 1 describes the system, 2 how its source is read, 3 the modules, 4 the
runs, 5 the proofs, 6 what is left out.

## 1. The system

One contract instance holds the money of *all* escrow contracts between clients
and freelancers in a single token balance. It keeps a ledger of what belongs to
whom. Its parts:

| part | code | state it keeps | operations | must be true |
|---|---|---|---|---|
| registry and creation | `create_contract.rs`, `storage.rs` | `NextContractId`, `Contract(id)`, the milestone vector | `create_contract` | ids are used once; terms are validated before anything is stored |
| deposits | `deposit.rs` | `funded_amount`, status; token in | `deposit_funds` | never beyond the milestones' total; Funded exactly at the total |
| approvals | `approvals.rs`, `authorization.rs` | `MilestoneApprovals(id, i)` in temporary storage | `approve_milestone_release`, the batch | only roles the contract's mode trusts; none survives the release |
| release, refund, cancel, roll-back | `lib.rs`, `refund.rs` | milestone flags and recorded fee, `released_amount`, `refunded_amount`, token out | `release_milestone`, `refund_unreleased_milestones`, `cancel_contract`, `rollback_milestone` | books agree with flags; one contract never spends another's tokens |
| disputes | `dispute.rs` | `Dispute(id)` | `raise_dispute`, `resolve_dispute` | an award divides exactly what is left |
| finalization | `finalize.rs` | `Finalization(id)` | `finalize_contract`, the batch, `rollback_contract` | the record stays a true summary |
| reputation credits | `lib.rs` | `PendingReputationCredits(freelancer)`, `reputation_issued` | `issue_reputation`, `simulate_issue_reputation` | a credit per completion, each spent once |
| protocol fees | `lib.rs`, `governance.rs` | `ProtocolFeeBps`, `AccumulatedProtocolFees` | the rate, the fee in a release, `withdraw_protocol_fees` | fees are never owed twice |
| pause and emergency | `lib.rs`, `finalize.rs` | `Paused`, `Emergency` | `pause`, `unpause`, `activate_emergency_pause`, `resolve_emergency` | no money moves while paused |
| installation, governed parameters | `lib.rs`, `governance.rs`, `contracts.rs` | `Initialized`, `SettlementToken`, `GovernedParameters`, `SettlementLimit`, `MaxMilestones` ... | `initialize`, `bind_settlement_token`, setters | no contract is replaced; no money before the token is known |
| admin rotation | `governance.rs` | `Admin`, `PendingAdmin` | propose, accept, cancel | full notice; a proposal dies with its sponsor's term |
| parties of a contract | `migration.rs`, `ttl.rs`, `contracts.rs`, `approvals.rs` | `PendingClientMigration(id)`, the arbiter | propose, accept, cancel a migration; `set_arbiter`; revoke an approval | one hand-over per request; the freelancer stays apart |
| approval time to live | `approvals.rs`, `milestones.rs` | ledgers left of a temporary entry | bump on write and on read, eviction | bounded inactivity |
| dispute records | `dispute.rs`, `rollback.rs` | record, version marker, snapshot | upgrade on read, `rollback_dispute` | an upgrade strands no dispute |
| schedules, work evidence | `create_contract.rs`, `lib.rs` | due dates, evidence | `create_contract_with_schedules`, `set_milestone_schedule`, `submit_work_evidence` | neighbours in order; what is disposed of is frozen |
| rating totals | `lib.rs`, `reputation_migration.rs` | `Reputation(freelancer)`, comment, version marker | with `issue_reputation`, migration | totals match the ratings |
| views and events | `lib.rs`, `deposit.rs`, `events.rs` | none | previews, summaries, payloads | what a view says is what the contract does |

How they interact: by shared storage. The host executes one transaction at a
time and rolls a failed one back, so nothing interleaves *inside* an
entrypoint. What is hard is the order of calls by parties who do not
cooperate - client, freelancer, arbiter, admin - over three things every
contract shares: the token balance, the fee counter and a freelancer's credit
counter. Add expiring storage (an approval can vanish between two calls), an
admin who changes the fee rate, takes disposals back in the books and removes
close records at any time, and a status machine that is written by hand in
seven places. `PROJECT.json` lists these hazards with their lines.

## 2. How the source is read

The tree at this commit is the result of merges that left it uncompilable:
functions and enum variants are defined twice, a few helpers are called but not
defined. The model follows these rules, each forced by the code around it:

* Where a function is defined twice, the definition that the entrypoint in
  `lib.rs` calls, or that `lib.rs` itself contains, is the one `Escrow` models.
  The body of `cancel_contract` in `lib.rs:2899-2901` is cut off, so
  `refund.rs:205-263` is modelled.
* Files that no `mod` line includes (`contracts.rs`, `milestones.rs`,
  `settlement.rs`, `refund_impl.rs`, `release.rs` among them) are read in two ways. What has no other
  whole copy is modelled as it stands (`get_caller_role`, `set_arbiter`, the configurable limits,
  `require_settlement_token`, the read of approvals). The second copies of
  release and refund are what `EscrowCopies` compares with those of `lib.rs`.
* `lib.rs` lost the wrapper of `revoke_approval`; the tests call it
  (`test/release_authorization.rs:1343` ff. as `revoke_milestone_approval`), so
  `approvals.rs:216-303` is modelled as an entrypoint.
* The second `raise_dispute`/`resolve_dispute` pair at `lib.rs:3926-4078` writes
  no record. It is read as the build before dispute records existed, which
  the upgrade code of `dispute.rs` provides for (`EscrowDisputes`).
* `create_contract` builds the `Contract` and the milestone vector
  (`create_contract.rs:112-152`) and the lines that store them are lost; what is left of one of
  them reads `NextContractId` and drops the result. `CreateContract` stores both, since every
  later entrypoint loads them.
* `load_and_check_contract` is read as its comment at the call says: load,
  extend the time to live, require not finalized. `require_contract_mutable` likewise.
* The milestone vector is written under two storage keys and the pending
  credits under two; each is taken as one cell. So is the mark that a contract was rated, which
  `issue_reputation` sets in the contract and under `DataKey::ReputationIssued`
  (`lib.rs:3098-3104`); `finalize.rs:106` reads the key.
* The mirrors `total_deposited`, `milestone.funded_amount` and
  `milestone.refunded_amount` are written and never decide anything; they are
  dropped. `Contract.token` stands for the one bound settlement token.
* `deadline` is always `None` and `ContractStatus::Accepted` is never assigned, so
  the overdue check and that status have no effect. The roll-back snapshot of a
  dispute is never stored, so `rollback_dispute` always fails.
* Soroban's `extend_ttl` does nothing unless less than the threshold is left
  (`docs/milestones-storage.md:172-177,222`); persistent entries are extended on each
  access and taken as permanent.
* `MAX_BATCH_APPROVALS` has no definition: it is a constant of the model.
* The constants that give the share of a `PartialRefund` are imported (`lib.rs:82`)
  but have no definition: the freelancer gets 30 of 100, as the comment at
  `dispute.rs:81-86` says.

## 3. The modules

The core, and what is proved of it:

* **`EscrowMath`** - arithmetic without state: the fee, the available balance,
  what each dispute decision pays, `Stroops` as the range outside of which a
  `checked_add` panics.
* **`Escrow`** - the state machine. One variable per storage key (the map in
  `PROJECT.json` gives the lines). One action per entrypoint, with its `panic`s as
  guards and all its writes as one step. Milestone indices start at 1 here and at
  0 there. A partial function on ids stands for keyed storage. Two history
  variables make the gap between tokens and books explicit: `unrecovered` (what
  `rollback_milestone` took back in the books while the tokens stayed out) and
  `undistributed` (what `resolve_dispute` booked without a transfer). No guard
  reads them. `ExpireApprovals` is the ledger evicting a temporary entry. Here it may do
  so at any time, which covers every clock.
  Caller identities are kept where they decide something (approvals, release,
  disputes, finalization); where only one party may sign, the action has no caller.
* **`EscrowLifecycle`** - the abstract specification: only the status of each
  contract and whether it has a close record. `ImplementsLifecycle` states that
  `Escrow` implements it, with `status` and `closed` read off `contracts` and
  `finalization`.
* **`EscrowClaims`** - two statements the repository makes of the core that the code does not keep.

Each of the following extends `Escrow` with the variables of one more part and
composes that part with everything a contract goes through:

| module | adds | how it is composed |
|---|---|---|
| `EscrowClock` | the ledgers each approval record has left (`ttl`), the bump on approval and on read, eviction when the time is up | implements `Escrow`: a step with the clock is a step of `Escrow` or none |
| `EscrowParties` | client migration with its expiry, `set_arbiter`, revoking an approval | interleaved; `given_by` (history) remembers which address gave an approval, since the code remembers the role alone |
| `EscrowDeployment` | `initialize`, the token binding, the governed record, limits and caps, the readiness checklist | guards the calls of `Escrow` with initialization and token; replaces its creation by one that knows the id collision |
| `EscrowRatings` | rating totals, comments, the version marker and its migration | conjoined to `IssueReputation` |
| `EscrowSchedules` | due dates under a clock, work evidence | `create_contract_with_schedules` conjoined to `CreateContract`, setters interleaved |
| `EscrowDisputes` | the dispute records of three builds, the upgrade on read; the deployed code is upgraded at any moment | implements `Escrow` with `disputes` mapped to the disputes that ought to be recorded |
| `EscrowViews` | nothing: the views as operators on the state | each view is held against the action it previews |
| `EscrowCopies` | nothing: the release of `milestones.rs` and the refunds of `milestones.rs` and `refund.rs` as actions that no run takes | in every state a copy must be possible exactly when the original is, with the same result |
| `EscrowLiveness` | fairness | the same steps |

* **`AdminRotation`** stands alone: the admin key takes no part in what contracts
  do. The ledger a proposal was made in is kept as an age, counted up to the delay.
* **`MC...`** - the small instances; `MCEscrow` is that of the core, the views and the copies.
* **`...Proofs`**, `SumTheorems` - section 5.

Operators named `...Slip` are plausible mistakes. No action uses them; they are
there to confirm that a property notices the mistake.

## 4. The runs

### Runs that hold

| configuration | question | instance |
|---|---|---|
| `EscrowOne` | does one contract stay consistent through any order of calls? do views and copies agree with it? | in turn: 3 milestones `<<3,1,2>>` client-approved, 2 under MultiSig, 2 under ClientAndArbiter; rates 0%, 50%, and one over 100% that must be refused; 177 thousand states |
| `EscrowTwo` | do two contracts over one balance, one fee counter and one credit counter stay apart? | any two of: 1 milestone ArbiterOnly with arbiter, 2 milestones without arbiter; 532 thousand states |
| `EscrowClock` | how long does an approval live? | one MultiSig contract of 1 or 2 milestones; full period 4 ledgers, threshold 2, host minimum 1 |
| `EscrowParties` | what can a contract go through while its parties change? | one MultiSig or ArbiterOnly contract, one address more than parties |
| `EscrowDeployment` | what may happen before, at and after installation? | up to 2 contracts, one token, 2 values of each limit; 205 thousand states |
| `AdminRotation` | who can become admin, and how soon? | 3 addresses, a delay of 5 ledgers |
| `EscrowRatings` | do totals and credits agree? | 2 contracts of one freelancer; ratings 0 (refused), 2, 5 |
| `EscrowSchedules` | do dates stay in order? is the record of a disposed milestone final? | 2 milestones, dates 1 to 3, time up to 2 |
| `EscrowDisputes` | does an upgrade of the code survive open disputes? | one contract of 2 milestones |
| `EscrowLiveness` | do milestones settle, do disputes end? | two ClientOnly contracts of 1 milestone with arbiter; 0%, then 50% |

What they check:

* `EscrowOne`: the counters are the sum of the flags net of the
  recorded fees (`BooksMatchMilestones`); a fully funded contract has kept exactly
  the price of what is left (`FundedCoversMilestones`); status, books and flags
  agree (`StatusMatchesBooks`); no stale approval (`ApprovalsFresh`), a close
  record says what is so, but for a rating given since, which the code allows
  (`SummaryIsCurrent`); no stale dispute record (`DisputeRecords`); a
  closed contract never changes but to be rated, once and for all (`TerminalIsFinal`);
  either of the two switches stops all money, although the withdrawal of fees looks at one of
  them only (`PauseStopsMoney`); the whole implements `EscrowLifecycle`. Of the views: a
  deposit is accepted exactly when its preview is and leads where it said
  (`PreviewIsHonest`), and the summary alone tells what is still covered
  (`SummaryExplainsBalance`). Of the copies: without a fee they are
  `Interchangeable`, in the condition, the money, the status and the credit.
* `EscrowTwo`: nothing is overdrawn (`AccountingBound`); tokens
  and books agree up to the two history variables (`CustodyEquation`); what is
  owed to open contracts and to the protocol is covered (`Solvency`); the client of
  a Funded contract can always take back what is left, whatever the other contract
  did (`ClientCanExit`); credits are backed by unrated
  completions and appear exactly with one (`CreditsBacked`, `CreditPerCompletion`).
* `EscrowClock`: a record outlives the last call that touched it by the threshold
  at least and the full period at most (`InactivityBound`); an untouched record
  goes (`IdleApprovalsExpire`); refinement of `Escrow` (`ImplementsEscrow`).
* `EscrowParties`: a request is used up by its hand-over (`PendingIsCurrent`); the
  freelancer never becomes client or arbiter, and the approvals that outlive a hand-over count
  for him exactly if they are his (`FreelancerApart`, by the history variable `given_by`); no hand-over of a
  closed, finalized or disputed contract (`ClientStaysWhenClosed`).
* `EscrowDeployment`: although ids start over, no contract is replaced
  (`ContractsAreNeverReplaced`); no money without a token (`MoneyHasItsToken`).
* `AdminRotation`: `SponsorInOffice`, `FullNotice`, and that a proposal left alone
  is settled (`ProposalsSettle`).
* `EscrowRatings`: `TotalsMatchRatings`, `RatingsEarned` (ratings given and to come
  never exceed completions).
* `EscrowSchedules`: `NeighboursInOrder`, `DisposedIsFrozen`.
* `EscrowDisputes`: record and marker come and go together (`DisputeTypeOK`), the
  raiser is kept (`RaiserKept`), the arbiter can still decide
  (`UpgradeStrandsNoDispute`), refinement of `Escrow` (`ImplementsEscrow`).
* `EscrowLiveness`: `MilestonesSettle`, `DisputesEnd`.

### Runs that find a disagreement

Each checks one sentence of a doc or comment, which the code does not keep.
`PROJECT.json` quotes it; the behaviour TLC prints is the explanation.

| configuration | the sentence | what happens instead |
|---|---|---|
| `ClaimBalanceDispute` | the balance equation of `balance-conservation-invariant.md` | an award is booked and moves no token |
| `ClaimPreview` | the preview writes nothing (`lib.rs:3148`) | it uses up a credit |

### Disagreements noted without a run

Met while modelling; the model follows the code in each of them.

| the sentence | what the code does |
|---|---|
| the balance equation, again | a fee is counted twice, since `released_amount` is net of it |
| released + refunded + fees within the funding (`lib.rs:1622`) | an award gives away fees already earned |
| cancelled before any milestone was released (`refund.rs:189`) | at 100% a release books 0, so `cancel_contract` still passes and the client takes back the fee as well |
| a finalized contract is immutable (`finalize.rs:135`) | it can be rated, and its schedule edited |
| each call resets the time to live (`lib.rs:1269`); approvals expire after the period (`approvals.rs:27`) | only below the threshold; reading keeps them alive |
| parties are distinct (`milestones-auth.md:24`) | a client can migrate to the arbiter's address |
| only who approved can revoke (`approvals.rs:190`) | after a migration the next client can |
| both addresses have approved (`lib.rs:1399`) | the approval of the client, or of the arbiter, that left counts |
| the arbiter cannot be changed (`disputes-threat-model.md:23`) | the admin changes him at any status |
| self-proposal is rejected (`escrow/README.md:414`) | it is stored |
| creation requires initialization (`lib.rs:534`) | it does not |
| a monotonic id allocator (`contracts-storage.md:76`) | `initialize` sets it back, and creation collides from then on |
| limits bind the next creation (`governance.rs:398`, `contracts.rs:24`) | creation reads none of them |
| the governed record is canonical (`contracts-storage.md:95`) | `set_protocol_fee_bps` leaves it behind |
| averages scaled by 100 (`REPUTATION.md:38`); fresh records are marked (`reputation_migration.rs:8`) | by 10000; they are not |
| dates strictly increase past undated milestones (`milestone_schedule.md:81`) | `set_milestone_schedule` compares with the neighbours alone |
| an undisturbed dispute can be rolled back (`lib.rs:1012`) | the snapshot it needs is never stored |
| the refundable balance reaches 0 (`settlement.md:34`) | the fees of released milestones remain in it |
| a roll-back reverses the precise amounts (`lib.rs:1706`) | after the release of `milestones.rs`, which records no fee, it takes back the gross |
| released amounts are net (`release.rs:245`) | `release.rs` books gross and net |
| refunds need Created, Funded or Disputed and no close record (`contracts-threat-model.md:108`) | `refund_impl.rs` asks for neither |
| Cancelled follows PartiallyFunded (`status-transition-guardrails.md:14`) | `cancel_contract` rejects it |
| all mutating operations respect the pause (`emergency-controls.md:13`) | `rollback_contract`, `set_protocol_fee_bps` and `cancel_client_migration` do not |
| `rollback_milestone` reverses the fee (`lib.rs:1706`) | not if it was withdrawn in the meantime, silently |

### Bounds

Amounts of 1 to 3 stroops are enough to make deposits partial, to have
milestones of different price, and to have a fee that is rounded to zero (50% of
1), rounded down (50% of 3) and exact (50% of 2). One contract has up to three
milestones, so that released, refunded and open ones coexist. Two contracts is the least number
that shares a balance. `MAX_CONTRACT_ID`, `MAX_MILESTONES`, `MAX_BATCH_APPROVALS`,
`MAX_BATCH_SETTLEMENT`, `MAX_ESCROW_TOTAL` and `I128_MAX` are constants of the
code that the instances make small; the last is large enough for the products of
the fee. `I128_MAX` and the other guards against overflow are therefore in the model
but no run meets them. The modules around the core use one contract where the
part keeps its state per contract (parties, disputes, schedules), and two
where contracts share it (deployment, ratings, the fee counter in the liveness
run). The clock needs the order host minimum < threshold < period, and one ledger
between each two: 1, 2, 4. The delay of the admin rotation only has to exceed
the number of ledgers in which proposals can be replaced: 5. Three dates leave
room for one between two. The runs that check `StatusMatchesBooks` and `Solvency` keep the rate
below 100%, where neither holds (see `cancel_contract` above).
The liveness run has ClientOnly contracts. With two MultiSig contracts
(`Agreement("MultiSig", <<2>>)`, 31 thousand states) TLC finds no error either; the
run takes four times as long and is left at the smaller instance.

### Fairness

* `EscrowClock` assumes that ledgers go on closing and that the host evicts what
  is past its time. Both are weak fairness and neither needs a caller.
* `AdminRotation` assumes that ledgers close and that the address on proposal
  signs once it can. Nobody is bound to propose; an admin who keeps
  proposing can put every hand-over off, which `ProposalsSettle` excludes.
* `EscrowLiveness`. The contract schedules nothing by itself, so all of its
  fairness is about people: the approvers, the co-signer, the releaser, the
  arbiter and the admin who collects fees retry until their call goes through.
  The fairness is *strong*, because approvals expire and pauses come and go: the
  call is possible again and again and not for good. Whoever paused lifts the pause, and the
  admin removes the close record of an open dispute; these stay possible until
  done, and weak fairness is enough. The tests follow a contract through to a terminal state in
  the same spirit (`proptest.rs:11`). Without the collection of fees
  `MilestonesSettle` fails, which is the point of the run: a release subtracts the
  fees of *all* contracts from the balance of its own (`lib.rs:1584`).
  The property is stated for histories in which no disposal was rolled back, because
  a roll-back books tokens that are gone.

No run switches the deadlock check off (the pause switches, or the clock, are always available).

## 5. The proofs

Eight modules hold theorems. They hold for every value of the constants under the
named assumptions (`ParticipantsAssumption`, `LimitsAssumption`, `InputsAssumption`,
`AmountsAssumption`, `ClockAssumption`, `RotationAssumption` and those of the other
parts), which TLC evaluates in the runs. TLC checked every property, and the
strengthened invariants that are hard to see, on a run before they were proved.

### The core

* **`EscrowProofs`**
  * `TypeCorrect` - `TypeOK` is inductive as it stands, with one lemma per entrypoint.
  * `AccountingHolds` - the bound is not inductive:
    `rollback_milestone` subtracts "price less recorded fee", which would *raise*
    the counters if a recorded fee could exceed the price. `AccountingInv` adds
    `FeesRecorded` (0 <= fee <= price for every milestone), which holds because the
    fee is a floor at a rate of at most 100% (`FeeWithinAmount`) and because a
    roll-back uses the recorded fee rather than today's rate.
  * `EmergencyPauses`, and from it `PausedMeansStill`: `withdraw_protocol_fees` looks at `paused`
    alone, and is stopped in an emergency because no order of the four calls leaves `emergency`
    on by itself. `ClosedForEver`.
  * `DisputesRecorded`, `ApprovalsStayFresh`, `SummariesStayCurrent`. A dispute record left
    behind is harmless only because its contract is closed and no roll-back reopens it:
    `DisputeInv` says so. A close record stays current because what is finalized is frozen but for
    the rating (`FrozenSummary`).
* **`SumTheorems`** - sums over finite sets: what adding, removing or changing a
  term does, unions, bounds. The sum is a recursion that picks indices in an order
  nobody knows. The induction theorems of the library take an operator and cannot
  be used here; these lemmas instead use that the strict-subset order on the finite
  subsets of a set is well founded and so has minimal elements (`WFMin`): a set of
  subsets stands for the induction hypothesis.
* **`EscrowBooksProofs`** - the books of one contract.
  * `BooksAddUp`, `FundedIsCovered`. `BooksInv` adds to the two counters
    what the status says of the funding (`StageOK`): a roll-back or a refund is right only
    because a Funded contract is funded to its total and an unfunded one has nothing disposed of.
  * `SummariesExplain` - what the summary of `EscrowViews` leaves to be learnt.
  * `StatusTellsTheTruth` and `LivesTheLifecycle`, the refinement: `Init` maps to the
    abstract initial states and each of the actions to a step or a stutter, for any number
    of contracts.
  * `PreviewHonest`: the preview looks neither at the close record nor at the total.
    `PreviewInv` says that no contract that can still be funded is refused for either.
    `CopiesInterchangeable`: a copy forgets the fee of a release; by `BooksInv`
    a milestone still open has none on record, so that where no fee is due nothing is lost.
    `PreviewForetells` and `CopiesAreEscrow` say the same of steps: a specification that may
    *also* take the deposit its preview foretells, or the copied release and refunds, implies `Spec`.
  * `DisputesAreDecidable`: an open dispute has an arbiter, and `resolve_dispute` rejects no
    award for a reason that lies in the books: its checks of overflow and of the sum never
    fail. No run states this one; it is what `NoDisputeIsStranded` rests on.
* **`EscrowCustodyProofs`** - what the contracts share.
  `CustodyAccounted` states the equation as a sum over contracts of what each
  holds (`CustodyInv`); every entrypoint changes one term by what it moves.
  `CreditsAreBacked` needs that only completed contracts are rated (`CreditsInv`), and
  `CreditsAreEarned` that a step moves one contract.
  `DeploymentIsSolvent` needs that closing a contract takes nothing from the others: `LeftoverInv`
  states that the leftovers of closed contracts, together with what awards
  did not transfer, never go below zero, because a contract holds its own fees until it closes.
  `SolventInv` collects what solvency rests on. Two things nobody looks after in the code follow:
  `FeesArePayable`, since the fees have no balance of their own and the withdrawal trusts the
  counter, and `ClientExits`, that the refund of everything still open passes every check. The
  books of the one contract cover its open milestones (`FundedIsCovered`); that the *tokens* do
  too is the argument over all contracts, since each holds at least zero and so
  none can be short while the sum is there.

### The parts around it

A part that takes only steps of `Escrow` inherits all of the above. One that does not
needs an argument of its own, and there are three kinds of it.

* **`EscrowClockProofs`** - `ClockImplementsEscrow`, a plain inheritance, and `InactivityBounded`.
* **`EscrowDealingsProofs`**
  * `SchedulesAreEscrow`, `RatingsAreEscrow` - plain inheritance too. `DatesStayInOrder` needs every
    stored vector to have an entry for each milestone (`ScheduleInv`); `DisposedStaysFrozen`.
    `TotalsAddUp` and `RatingsAreEarned` rest on `RatingInv`: totals are a sum over the contracts
    rated, which are those whose flag is set, and one rating adds one contract to that set.
  * `HandOversKeepTheMoney` - a hand-over is *not* a step of `Escrow`. It is shown instead that it
    preserves `MoneyInv`, the invariants of the core together, which speak of roles only where a
    hand-over keeps them apart. `RequestsStayCurrent`, `FreelancerStaysApart` and
    `ClosedKeepsItsClient` rest on `PartyInv`: the address that is to become client is not the
    freelancer's, which the code checks once, long before it accepts. `GiversApart` is the part
    about approvals: a new one is given by the holder of its role at the time, and the freelancer
    of a contract is the one party nobody replaces.
    `HandOversStaySolvent`, `PausedPartiesAreStill`, `HandOversReopenNothing` and
    `PartiesLiveTheLifecycle` carry solvency, the client's exit, the pause, the finality of
    closed books and the refinement over, each with one more case, the hand-over.
  * `BuildsAreEscrow` - each step under one of the three builds is a step of `Escrow` with
    `disputes` read as `Recorded`: the records there are, and the disputes of the status-only build
    that ought to have one. That build resolves without a record and without the last check of the
    sum; the check cannot fail, as the two legs of every award add up (`LegsAddUp`).
    `StorageInv` is the invariant of the record keeping: next to `DisputeTypeOK` and `RaiserKept`
    it knows, through the history variable `raised`, that an open dispute without a record is the
    status-only build's and that a record left behind belongs to a closed contract. It yields
    `StorageTypeCorrect`, `RaisersAreKept`, and, with `DisputesAreDecidable` drawn through the
    mapping, `NoDisputeIsStranded`: every open dispute can be loaded, and the arbiter's full
    refund then passes. `UpgradesKeepTheMoney`, `UpgradesStaySolvent`, `BuildsLiveTheLifecycle`
    and `BuildsKeepWhatIsFinal` draw the theorems of the core through it too.
* **`EscrowDeploymentProofs`** - `initialize` starts the ids over, which `Escrow` never does.
  `DeploymentIsEscrow` shows that each step is one of `Escrow` with `next_contract_id` read as
  one more than the number of contracts (`Allocated`). `NextIdOK` is why: the stored id is either
  taken, and then creation is refused, or it is `Allocated`. `DeployedMoneyAddsUp`, `DeployedStaysSolvent`,
  `DeployedLivesTheLifecycle`, `DeployedStaysClosed` and `NothingIsReplaced` follow through
  the mapping, `TokenComesFirst` by its own induction.
* **`AdminRotationProofs`** - `SponsorHolds`, `NoticeHolds`; the invariant adds that an
  address on proposal has been there at least as long as its proposal is old.

The theorems of the core are used through named instances of `EscrowCustodyProofs`, one with
`disputes <- Recorded`, one with `next_contract_id <- Allocated`. An operator of an instance is a
symbol of its own. The lemmas named `Same...` say which of them mean the same on both sides, and
one `...Maps` lemma per entrypoint takes a step across.

### That a call is accepted

`PreviewIsHonest`, `Interchangeable`, `ClientCanExit` and `UpgradeStrandsNoDispute` speak of what
a call would do, not of what it did. `Escrow` keeps the guard of these entrypoints in a predicate
of its own (`CanDeposit`, `CanRelease`, `CanRefund`, `CanResolve`) and what becomes of the contract
in an operator (`Deposited`, `Paid`, `TakenBack`). The rest of such an action gives every variable
exactly one value, so that the guard says when the call succeeds, and the properties are plain
formulas over states, which the prover can reason about and `ENABLED` it cannot.

### Assumptions

The theorems about solvency, the fees, the client's exit (`DeploymentIsSolvent`,
`FeesArePayable`, `ClientExits`, `HandOversStaySolvent`, `UpgradesStaySolvent`,
`DeployedStaysSolvent`) and `StatusTellsTheTruth` assume `PartialFees`: the admin never sets a rate
of exactly 100%. The code allows it, and then a release leaves `released_amount` at 0 and
`cancel_contract` gives the fee back to the client, which is why the assumption is
needed; all other theorems hold at 100% too. `FeesArePayable` and `ClientExits` speak
of histories in which no roll-back cost the deployment tokens (`unrecovered = 0`); `Solvency`
counts what roll-backs did not recover (`unrecovered`) as if it were still there.

### What does not carry over

Two properties of the core are false as they stand in a part around it, and no theorem claims them there.
`StatusMatchesBooks` fails under `PartySpec`: `set_arbiter` asks for no status and can take
the arbiter of an open dispute away. (Such a dispute waits until the admin names one; the client
may still ask for a refund.) `PauseStopsMoney` fails under `DeploySpec`
and `DisputeSpec` in its letter only: `initialize` sets the ids back, and reading a dispute converts its
record, both during a pause and neither moving money.

### Only model-checked

Liveness: `IdleApprovalsExpire`, `ProposalsSettle`, `MilestonesSettle`, `DisputesEnd`. The prover has
no rules for fairness over actions with parameters. Every invariant and every safety property
of a run that passes is stated by a theorem.

## 6. Not modelled

* `get_state` and `migrate_state` (`lib.rs:1182-1263`): the types and version
  constants they use are not defined in the tree, and
  `docs/escrow/migration.md:3` says the migration is not implemented.
* The time to live of persistent entries, which every access extends: that a
  contract nobody touches for the whole period is archived is a matter of the host.
* `set_dispute_config` (`dispute.rs:30`), which no entrypoint calls.
* Getters that return one stored value, event payloads and error codes: they
  decide nothing. The order in which a handler's guards fail is therefore
  not modelled, only that it fails.
* Authentication. An action with a caller takes place only for the callers the
  code accepts; that the host verified the signature is assumed.
* The token contract beyond the balance of the escrow address. A transfer that
  fails takes the whole transaction back, as the host does.
* The text of titles, descriptions, comments and evidence, of which only the length counts.
* `rollback_dispute` (`rollback.rs`): the snapshot it needs is never stored, so it
  changes nothing.
* `release.rs` and `refund_impl.rs`, which no `mod` line includes and which book
  otherwise than `lib.rs` (section 4), and the release of `milestones.rs` where a
  fee is charged.
* The duplicated helper functions that the reading of section 2 resolves, and the
  property tests of `proptest.rs`, which are no part of the program.
