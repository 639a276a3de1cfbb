--------------------------- MODULE EscrowSchedules ---------------------------
(***************************************************************************)
(* Escrow with what the parties note about a milestone: the due date the   *)
(* client sets, and the evidence of work the freelancer submits.  Neither  *)
(* moves money, and no call enforces a due date.                           *)
(*                                                                         *)
(* An Option is a set of at most one element.  Titles and descriptions,    *)
(* which have a length limit and nothing else, are left out; evidence is   *)
(* known by its length.                                                    *)
(***************************************************************************)
EXTENDS Escrow

CONSTANTS
  NoDate,              \* Option::None of MilestoneSchedule.due_date
  DueDates,            \* the dates the schedule entrypoints are called with
  MAX_TIME,            \* bound on the ledger's timestamp
  MAX_EVIDENCE_BYTES,
  EvidenceLengths      \* what submit_work_evidence is called with

ASSUME ScheduleAssumption ==
  /\ NoDate \notin Nat /\ DueDates \subseteq Nat
  /\ MAX_TIME \in Nat
  /\ MAX_EVIDENCE_BYTES \in Nat /\ EvidenceLengths \subseteq Nat

VARIABLES
  now,            \* the timestamp of the ledger
  schedules,      \* (Contract(id), "schedule"), a partial function on ids
  work_evidence   \* Milestone.work_evidence, a partial function on <<id, index>>

notes        == <<schedules, work_evidence>>
scheduleVars == <<vars, now, notes>>

MilestoneSchedule == [due_date : DueDates \cup {NoDate}, updated_at : 0 .. MAX_TIME]

GetMilestoneSchedule(id, i) == IF id \in DOMAIN schedules THEN schedules[id][i] ELSE {}

DueDate(id, i) == {s.due_date : s \in GetMilestoneSchedule(id, i)} \ {NoDate}

----------------------------------------------------------------------------
(* The client's dates.  A vector `due' holds, per milestone, no entry or   *)
(* one entry, which may be NoDate.                                         *)

InFuture(dates) == \A d \in dates \ {NoDate} : d > now

Increasing(due) ==
  \A i, j \in DOMAIN due : i < j =>
    \A d \in due[i] \ {NoDate}, e \in due[j] \ {NoDate} : d < e

Stamped(dates) == {[due_date |-> d, updated_at |-> now] : d \in dates}

CreateContractWithSchedules(t, due) ==
  /\ CreateContract(t)
  /\ DOMAIN due = DOMAIN t.amounts
  /\ \A i \in DOMAIN due : InFuture(due[i])
  /\ Increasing(due)
  /\ schedules' = With(schedules, next_contract_id, [i \in DOMAIN due |-> Stamped(due[i])])
  /\ UNCHANGED <<now, work_evidence>>

BetweenNeighboursSlip(id, i, d) ==
  i - 1 \in Indices(id) => \A e \in DueDate(id, i - 1) : e < d

(* Only the two neighbours are looked at, dated or not.                    *)
BetweenNeighbours(id, i, d) ==
  /\ i - 1 \in Indices(id) => \A e \in DueDate(id, i - 1) : e < d
  /\ i + 1 \in Indices(id) => \A e \in DueDate(id, i + 1) : d < e

EditableSlip(id, i) == i \in Indices(id) \ milestones[id].refunded

Editable(id, i) == i \in Unresolved(id)

StoredVector(id) == [i \in Indices(id) |-> GetMilestoneSchedule(id, i)]

(* Neither the status nor a close record stands in the client's way.       *)
SetMilestoneSchedule(id, i, d) ==
  /\ NotPaused
  /\ Editable(id, i)
  /\ d # NoDate => d > now /\ BetweenNeighbours(id, i, d)
  /\ schedules' = With(schedules, id, [StoredVector(id) EXCEPT ![i] = Stamped({d})])
  /\ UNCHANGED <<vars, now, work_evidence>>

----------------------------------------------------------------------------
(* The freelancer's evidence, overwritten at will until the milestone is   *)
(* disposed of.                                                            *)

AcceptsEvidence(id) == contracts[id].status = "Funded"

SubmitWorkEvidence(id, i, evidence) ==
  /\ NotPaused /\ ~Finalized(id)
  /\ AcceptsEvidence(id)
  /\ evidence <= MAX_EVIDENCE_BYTES
  /\ Editable(id, i)
  /\ work_evidence' = With(work_evidence, <<id, i>>, evidence)
  /\ UNCHANGED <<vars, now, schedules>>

----------------------------------------------------------------------------
Tick ==
  /\ now < MAX_TIME
  /\ now' = now + 1
  /\ UNCHANGED <<vars, notes>>

ScheduleInit ==
  /\ Init
  /\ now = 0 /\ schedules = << >> /\ work_evidence = << >>

(* Options(S): nothing, or one element of S.                               *)
Options(S) == {{}} \cup {{x} : x \in S}

ScheduleNext ==
  \/ Next /\ UNCHANGED <<now, notes>>
  \/ \E t \in Terms : \E due \in [DOMAIN t.amounts -> Options(DueDates \cup {NoDate})] :
       CreateContractWithSchedules(t, due)
  \/ \E id \in DOMAIN contracts : \E i \in Indices(id) :
       \/ \E d \in DueDates \cup {NoDate} : SetMilestoneSchedule(id, i, d)
       \/ \E evidence \in EvidenceLengths : SubmitWorkEvidence(id, i, evidence)
  \/ Tick

ScheduleSpec == ScheduleInit /\ [][ScheduleNext]_scheduleVars

----------------------------------------------------------------------------
(* The dates of two milestones next to each other are in order, whatever   *)
(* was moved, removed or put back on either side.                          *)
NeighboursInOrder ==
  \A id \in DOMAIN schedules : \A i \in Indices(id) :
    i + 1 \in Indices(id) =>
      \A d \in DueDate(id, i), e \in DueDate(id, i + 1) : d < e

(* What was agreed and delivered for a milestone is history once it is     *)
(* released or refunded: no call changes its date or its evidence, until   *)
(* the admin rolls the disposal back.                                      *)
DisposedIsFrozen ==
  [][\A id \in DOMAIN contracts :
       \A i \in milestones[id].released \cup milestones[id].refunded :
         /\ GetMilestoneSchedule(id, i)' = GetMilestoneSchedule(id, i)
         /\ <<id, i>> \in DOMAIN work_evidence' =>
              /\ <<id, i>> \in DOMAIN work_evidence
              /\ work_evidence'[<<id, i>>] = work_evidence[<<id, i>>]]_scheduleVars
=============================================================================
