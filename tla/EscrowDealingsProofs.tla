------------------------ MODULE EscrowDealingsProofs ------------------------
(***************************************************************************)
(* Theorems about what the parties do with a contract besides moving its   *)
(* money: schedules and evidence, the hand-over of a role, ratings, and    *)
(* disputes whose records three builds of the code keep in three ways.     *)
(* Schedules, ratings and dispute records take only steps Escrow allows,   *)
(* so that its theorems hold of them; a hand-over is a step Escrow does    *)
(* not have, and its invariants are shown to survive it.                   *)
(***************************************************************************)
EXTENDS EscrowParties, EscrowSchedules, EscrowRatings, EscrowDisputes, EscrowCustodyProofs

(***************************************************************************)
(* Schedules and evidence.                                                 *)
(***************************************************************************)

(* Whatever is noted about milestones, the contracts themselves are those  *)
(* of Escrow: every invariant proved of it holds with schedules too.       *)
THEOREM SchedulesAreEscrow == ScheduleSpec => Spec
<1>1. ScheduleInit => Init
  BY DEF ScheduleInit
<1>2. [ScheduleNext]_scheduleVars => [Next]_vars
  <2>1. ASSUME NEW t \in Terms, NEW due, CreateContractWithSchedules(t, due) PROVE Next
    BY <2>1 DEF CreateContractWithSchedules, Next
  <2>2. ASSUME NEW id, NEW i, NEW d, SetMilestoneSchedule(id, i, d) PROVE UNCHANGED vars
    BY <2>2 DEF SetMilestoneSchedule
  <2>3. ASSUME NEW id, NEW i, NEW evidence, SubmitWorkEvidence(id, i, evidence)
        PROVE  UNCHANGED vars
    BY <2>3 DEF SubmitWorkEvidence
  <2>4. Tick \/ UNCHANGED scheduleVars => UNCHANGED vars
    BY DEF Tick, scheduleVars
  <2> QED
    BY <2>1, <2>2, <2>3, <2>4 DEF ScheduleNext
<1> QED
  BY <1>1, <1>2, PTL DEF Spec, ScheduleSpec

(* A stored vector has an entry for every milestone of its contract.       *)
ScheduleInv ==
  /\ AccountingInv
  /\ DOMAIN schedules \subseteq DOMAIN contracts
  /\ \A id \in DOMAIN schedules : DOMAIN schedules[id] = Indices(id)

(* The dates read off an entry that was just written.                      *)
LEMMA StampedDates ==
  ASSUME NEW dates
  PROVE  {s.due_date : s \in Stamped(dates)} = dates
<1>1. \A d \in dates : [due_date |-> d, updated_at |-> now].due_date = d
  OBVIOUS
<1> QED
  BY <1>1 DEF Stamped

(* What each step does to the vectors.                                     *)
Ordered(id) ==
  \A i \in Indices(id) : i + 1 \in Indices(id) =>
    \A d \in DueDate(id, i), e \in DueDate(id, i + 1) : d < e

LEMMA NextStepVectors ==
  ASSUME ScheduleInv, NeighboursInOrder, [Next]_vars, UNCHANGED schedules
  PROVE  ScheduleInv' /\ NeighboursInOrder'
<1>1. AccountingInv'
  BY NextAccounting DEF ScheduleInv
<1>2. \A id \in DOMAIN schedules : id \in DOMAIN contracts' /\ Indices(id)' = Indices(id)
  BY NextKeepsDeal DEF ScheduleInv, DealKept, Indices
<1>3. ScheduleInv'
  BY <1>1, <1>2 DEF ScheduleInv
<1>4. \A id, i : DueDate(id, i)' = DueDate(id, i)
  BY DEF DueDate, GetMilestoneSchedule
<1> QED
  BY <1>2, <1>3, <1>4 DEF NeighboursInOrder

(* A vector written for one contract.                                      *)
LEMMA VectorWritten ==
  ASSUME ScheduleInv, NeighboursInOrder, [Next]_vars, NEW id \in DOMAIN contracts', NEW v,
         schedules' = With(schedules, id, v), DOMAIN v = Indices(id)',
         \A i \in Indices(id)' : i + 1 \in Indices(id)' =>
           \A d \in {s.due_date : s \in v[i]} \ {NoDate},
              e \in {s.due_date : s \in v[i + 1]} \ {NoDate} : d < e
  PROVE  ScheduleInv' /\ NeighboursInOrder'
<1>1. AccountingInv'
  BY NextAccounting DEF ScheduleInv
<1>2. \A x \in DOMAIN schedules : x \in DOMAIN contracts' /\ Indices(x)' = Indices(x)
  BY NextKeepsDeal DEF ScheduleInv, DealKept, Indices
<1>3. /\ DOMAIN schedules' = DOMAIN schedules \cup {id} /\ schedules'[id] = v
      /\ \A x \in DOMAIN schedules \ {id} : schedules'[x] = schedules[x]
  BY DEF With
<1>4. ScheduleInv'
  BY <1>1, <1>2, <1>3 DEF ScheduleInv
<1>5. ASSUME NEW x \in DOMAIN schedules', NEW i \in Indices(x)', i + 1 \in Indices(x)',
             NEW d \in DueDate(x, i)', NEW e \in DueDate(x, i + 1)'
      PROVE  d < e
  <2>1. CASE x = id
    <3>1. /\ DueDate(x, i)' = {s.due_date : s \in v[i]} \ {NoDate}
          /\ DueDate(x, i + 1)' = {s.due_date : s \in v[i + 1]} \ {NoDate}
      BY <1>3, <2>1 DEF DueDate, GetMilestoneSchedule
    <3> QED
      BY <1>5, <2>1, <3>1
  <2>2. CASE x # id
    <3>1. DueDate(x, i)' = DueDate(x, i) /\ DueDate(x, i + 1)' = DueDate(x, i + 1)
      BY <1>3, <2>2 DEF DueDate, GetMilestoneSchedule
    <3> QED
      BY <1>2, <1>3, <1>5, <2>2, <3>1 DEF NeighboursInOrder
  <2> QED
    BY <2>1, <2>2
<1>6. NeighboursInOrder'
  BY <1>5 DEF NeighboursInOrder
<1> QED
  BY <1>4, <1>6

LEMMA CreationOrdersDates ==
  ASSUME ScheduleInv, NeighboursInOrder, NEW t \in Terms, NEW due,
         CreateContractWithSchedules(t, due)
  PROVE  ScheduleInv' /\ NeighboursInOrder'
<1> PICK n : n = next_contract_id
  OBVIOUS
<1> DEFINE v == [i \in DOMAIN due |-> Stamped(due[i])]
<1>1. TypeOK /\ Next /\ CreateContract(t)
  BY DEF CreateContractWithSchedules, Next, ScheduleInv, AccountingInv
<1>2. n \in DOMAIN contracts' /\ milestones'[n] = NewMilestones(t)
  BY <1>1, NewContractApart DEF CreateContract, With
<1>3. Indices(n)' = DOMAIN t.amounts /\ DOMAIN t.amounts = DOMAIN due
  <2>1. NewMilestones(t).amounts = t.amounts
    BY DEF NewMilestones
  <2>2. Indices(n)' = DOMAIN t.amounts
    BY <1>2, <2>1 DEF Indices
  <2> QED
    BY <2>2 DEF CreateContractWithSchedules
<1>4. DOMAIN due \subseteq Int
  <2>1. t.amounts \in Seq(Int)
    BY InputsAssumption DEF TermsType
  <2> QED
    BY <1>3, <2>1
<1>5. schedules' = With(schedules, n, v) /\ Increasing(due)
  BY DEF CreateContractWithSchedules
<1>6. ASSUME NEW i \in DOMAIN due, i + 1 \in DOMAIN due,
             NEW d \in {s.due_date : s \in v[i]} \ {NoDate},
             NEW e \in {s.due_date : s \in v[i + 1]} \ {NoDate}
      PROVE  d < e
  <2>1. v[i] = Stamped(due[i]) /\ v[i + 1] = Stamped(due[i + 1])
    BY <1>6
  <2>2. d \in due[i] \ {NoDate} /\ e \in due[i + 1] \ {NoDate}
    BY <2>1, StampedDates
  <2>3. i < i + 1
    BY <1>4
  <2> QED
    BY <1>5, <1>6, <2>2, <2>3 DEF Increasing
<1>7. DOMAIN v = DOMAIN due
  OBVIOUS
<1> HIDE DEF v
<1>8. \A i \in Indices(n)' : i + 1 \in Indices(n)' =>
        \A d \in {s.due_date : s \in v[i]} \ {NoDate},
           e \in {s.due_date : s \in v[i + 1]} \ {NoDate} : d < e
  BY <1>3, <1>6
<1>9. [Next]_vars /\ schedules' = With(schedules, n, v) /\ DOMAIN v = Indices(n)'
  BY <1>1, <1>3, <1>5, <1>7
<1> QED
  BY <1>2, <1>8, <1>9, VectorWritten

LEMMA SettingOrdersDates ==
  ASSUME ScheduleInv, NeighboursInOrder, NEW id \in DOMAIN contracts, NEW i \in Indices(id),
         NEW d, SetMilestoneSchedule(id, i, d)
  PROVE  ScheduleInv' /\ NeighboursInOrder'
<1> DEFINE old == StoredVector(id)
           v   == [old EXCEPT ![i] = Stamped({d})]
           Dates(entry) == {s.due_date : s \in entry} \ {NoDate}
<1>1. /\ UNCHANGED vars /\ schedules' = With(schedules, id, v)
      /\ d # NoDate => BetweenNeighbours(id, i, d)
  BY DEF SetMilestoneSchedule
<1>2. Indices(id)' = Indices(id) /\ id \in DOMAIN contracts'
  BY <1>1 DEF vars, books, Indices
<1>3. Indices(id) \subseteq Int
  BY DEF ScheduleInv, AccountingInv, TypeOK, BooksTypeOK, MilestonesType, Indices
<1>4. DOMAIN v = Indices(id) /\ v[i] = Stamped({d})
      /\ \A j \in Indices(id) \ {i} : v[j] = GetMilestoneSchedule(id, j)
  BY DEF StoredVector
<1>5. Dates(v[i]) = {d} \ {NoDate}
  BY <1>4, StampedDates
<1>6. \A j \in Indices(id) \ {i} : Dates(v[j]) = DueDate(id, j)
  BY <1>4 DEF DueDate
<1> HIDE DEF v
<1>7. ASSUME NEW j \in Indices(id), j + 1 \in Indices(id),
             NEW e \in Dates(v[j]), NEW f \in Dates(v[j + 1])
      PROVE  e < f
  <2>1. CASE j = i
    <3>1. e = d /\ d # NoDate /\ f \in DueDate(id, i + 1)
      BY <1>3, <1>5, <1>6, <1>7, <2>1
    <3> QED
      BY <1>1, <1>7, <2>1, <3>1 DEF BetweenNeighbours
  <2>2. CASE j + 1 = i
    <3>1. f = d /\ d # NoDate /\ e \in DueDate(id, i - 1) /\ i - 1 \in Indices(id)
      BY <1>3, <1>5, <1>6, <1>7, <2>2
    <3> QED
      BY <1>1, <3>1 DEF BetweenNeighbours
  <2>3. CASE j # i /\ j + 1 # i
    <3>1. e \in DueDate(id, j) /\ f \in DueDate(id, j + 1)
      BY <1>6, <1>7, <2>3
    <3>2. id \in DOMAIN schedules
      BY <3>1 DEF DueDate, GetMilestoneSchedule
    <3> QED
      BY <1>7, <3>1, <3>2 DEF NeighboursInOrder
  <2> QED
    BY <2>1, <2>2, <2>3
<1> QED
  BY <1>1, <1>2, <1>4, <1>7, VectorWritten

LEMMA NextVectors ==
  ScheduleInv /\ NeighboursInOrder /\ [ScheduleNext]_scheduleVars
    => ScheduleInv' /\ NeighboursInOrder'
<1> SUFFICES ASSUME ScheduleInv, NeighboursInOrder, [ScheduleNext]_scheduleVars
             PROVE  ScheduleInv' /\ NeighboursInOrder'
  OBVIOUS
<1>1. ASSUME [Next]_vars, UNCHANGED schedules PROVE ScheduleInv' /\ NeighboursInOrder'
  BY <1>1, NextStepVectors
<1>2. Next /\ UNCHANGED <<now, notes>> => [Next]_vars /\ UNCHANGED schedules
  BY DEF notes
<1>3. ASSUME NEW id, NEW i, NEW evidence, SubmitWorkEvidence(id, i, evidence)
      PROVE  [Next]_vars /\ UNCHANGED schedules
  BY <1>3 DEF SubmitWorkEvidence
<1>4. Tick \/ UNCHANGED scheduleVars => [Next]_vars /\ UNCHANGED schedules
  BY DEF Tick, scheduleVars, notes
<1> QED
  BY <1>1, <1>2, <1>3, <1>4, CreationOrdersDates, SettingOrdersDates DEF ScheduleNext

LEMMA VectorsHold == ScheduleSpec => [](ScheduleInv /\ NeighboursInOrder)
<1>1. ScheduleInit => ScheduleInv /\ NeighboursInOrder
  <2>1. Init => AccountingInv
    BY InitTypes DEF Init, AccountingInv, FeesRecorded, AccountingBound
  <2> QED
    BY <2>1 DEF ScheduleInit, ScheduleInv, NeighboursInOrder
<1> QED
  BY <1>1, NextVectors, PTL DEF ScheduleSpec

(* For any number of milestones, dated or not, and however their dates are *)
(* moved, removed and put back, two dates next to each other are in order. *)
THEOREM DatesStayInOrder == ScheduleSpec => []NeighboursInOrder
  BY VectorsHold, PTL

(* What is noted about a milestone.                                        *)
NotesKept(id, i) ==
  /\ GetMilestoneSchedule(id, i)' = GetMilestoneSchedule(id, i)
  /\ <<id, i>> \in DOMAIN work_evidence' =>
       <<id, i>> \in DOMAIN work_evidence /\ work_evidence'[<<id, i>>] = work_evidence[<<id, i>>]

LEMMA DisposedKeepsNotes ==
  ASSUME TypeOK, [ScheduleNext]_scheduleVars, NEW id \in DOMAIN contracts,
         NEW i \in milestones[id].released \cup milestones[id].refunded
  PROVE  NotesKept(id, i)
<1>1. i \in Indices(id) /\ i \notin Unresolved(id)
  BY DEF TypeOK, BooksTypeOK, MilestonesType, Indices, Unresolved
<1>2. ASSUME UNCHANGED notes PROVE NotesKept(id, i)
  BY <1>2 DEF notes, NotesKept, GetMilestoneSchedule
<1>3. ASSUME NEW t \in Terms, NEW due, CreateContractWithSchedules(t, due)
      PROVE  NotesKept(id, i)
  <2>1. id # next_contract_id
    BY <1>3, NewContractApart DEF CreateContractWithSchedules
  <2> QED
    BY <1>3, <2>1
    DEF CreateContractWithSchedules, With, NotesKept, GetMilestoneSchedule
<1>4. ASSUME NEW x \in DOMAIN contracts, NEW j \in Indices(x), NEW d,
             SetMilestoneSchedule(x, j, d)
      PROVE  NotesKept(id, i)
  <2>1. /\ schedules' = With(schedules, x, [StoredVector(x) EXCEPT ![j] = Stamped({d})])
        /\ j \in Unresolved(x) /\ UNCHANGED work_evidence
    BY <1>4 DEF SetMilestoneSchedule, Editable
  <2>2. CASE x = id
    <3>1. GetMilestoneSchedule(id, i)' = [StoredVector(id) EXCEPT ![j] = Stamped({d})][i]
      BY <2>1, <2>2 DEF GetMilestoneSchedule, With
    <3>2. i # j
      BY <1>1, <2>1, <2>2
    <3>3. GetMilestoneSchedule(id, i)' = GetMilestoneSchedule(id, i)
      BY <1>1, <3>1, <3>2 DEF StoredVector
    <3> QED
      BY <2>1, <3>3 DEF NotesKept
  <2>3. CASE x # id
    BY <2>1, <2>3 DEF GetMilestoneSchedule, With, NotesKept
  <2> QED
    BY <2>2, <2>3
<1>5. ASSUME NEW x, NEW j, NEW evidence, SubmitWorkEvidence(x, j, evidence)
      PROVE  NotesKept(id, i)
  <2>1. /\ work_evidence' = With(work_evidence, <<x, j>>, evidence)
        /\ j \in Unresolved(x) /\ UNCHANGED schedules
    BY <1>5 DEF SubmitWorkEvidence, Editable
  <2>2. <<id, i>> # <<x, j>>
    BY <1>1, <2>1
  <2> QED
    BY <2>1, <2>2 DEF GetMilestoneSchedule, With, NotesKept
<1>6. Tick \/ UNCHANGED scheduleVars \/ UNCHANGED <<now, notes>> => UNCHANGED notes
  BY DEF Tick, scheduleVars
<1> QED
  BY <1>2, <1>3, <1>4, <1>5, <1>6 DEF ScheduleNext

(* Once a milestone is released or refunded, neither the client's dates    *)
(* nor the freelancer's evidence for it change, whatever is edited in the  *)
(* other milestones and contracts.                                         *)
THEOREM DisposedStaysFrozen == ScheduleSpec => DisposedIsFrozen
<1>1. TypeOK /\ [ScheduleNext]_scheduleVars =>
        [\A id \in DOMAIN contracts :
           \A i \in milestones[id].released \cup milestones[id].refunded :
             /\ GetMilestoneSchedule(id, i)' = GetMilestoneSchedule(id, i)
             /\ <<id, i>> \in DOMAIN work_evidence' =>
                  /\ <<id, i>> \in DOMAIN work_evidence
                  /\ work_evidence'[<<id, i>>] = work_evidence[<<id, i>>]]_scheduleVars
  BY DisposedKeepsNotes DEF NotesKept
<1> QED
  BY <1>1, VectorsHold, PTL DEF ScheduleSpec, DisposedIsFrozen, ScheduleInv, AccountingInv

(***************************************************************************)
(* Hand-overs.                                                             *)
(***************************************************************************)

(* What a hand-over leaves alone in the record of its contract.            *)
SameBooks(c2, c) ==
  /\ c2.freelancer = c.freelancer /\ c2.status = c.status
  /\ c2.release_authorization = c.release_authorization
  /\ c2.reputation_issued = c.reputation_issued
  /\ c2.funded_amount = c.funded_amount
  /\ c2.released_amount = c.released_amount /\ c2.refunded_amount = c.refunded_amount

(* One contract changes hands, if any does, and approvals only go.         *)
HandedOver(id, c2) ==
  /\ contracts' = [contracts EXCEPT ![id] = c2] /\ SameBooks(c2, contracts[id])
  /\ approvals' \subseteq approvals
  /\ UNCHANGED moneyAside

LEMMA AcceptHandsOver ==
  ASSUME TypeOK, NEW id \in DOMAIN contracts, NEW new_client \in Address,
         AcceptClientMigration(id, new_client)
  PROVE  \E c2 \in ContractType :
           /\ HandedOver(id, c2) /\ c2.client = new_client /\ c2.arbiter = contracts[id].arbiter
<1> DEFINE c  == contracts[id]
           c2 == [c EXCEPT !.client = new_client]
<1>1. contracts' = [contracts EXCEPT ![id] = c2] /\ UNCHANGED <<moneyAside, approvals>>
  BY DEF AcceptClientMigration
<1>2. c \in ContractType
  BY DEF TypeOK, BooksTypeOK
<1>3. c2 \in ContractType /\ SameBooks(c2, c) /\ c2.client = new_client /\ c2.arbiter = c.arbiter
  BY <1>2 DEF ContractType, SameBooks
<1> HIDE DEF c2
<1> QED
  BY <1>1, <1>3 DEF HandedOver

LEMMA SetArbiterHandsOver ==
  ASSUME TypeOK, NEW id \in DOMAIN contracts, NEW new_arbiter \in Address \cup {NoArbiter},
         SetArbiter(id, new_arbiter)
  PROVE  \E c2 \in ContractType :
           /\ HandedOver(id, c2) /\ c2.client = contracts[id].client /\ c2.arbiter = new_arbiter
<1> DEFINE c  == contracts[id]
           c2 == [c EXCEPT !.arbiter = new_arbiter]
<1>1. contracts' = [contracts EXCEPT ![id] = c2] /\ UNCHANGED <<moneyAside, approvals>>
  BY DEF SetArbiter
<1>2. c \in ContractType
  BY DEF TypeOK, BooksTypeOK
<1>3. c2 \in ContractType /\ SameBooks(c2, c) /\ c2.client = c.client /\ c2.arbiter = new_arbiter
  BY <1>2 DEF ContractType, SameBooks
<1> HIDE DEF c2
<1> QED
  BY <1>1, <1>3 DEF HandedOver

LEMMA OthersHandOver ==
  ASSUME TypeOK, NEW id \in DOMAIN contracts,
         UNCHANGED <<moneyAside, contracts>>, approvals' \subseteq approvals
  PROVE  HandedOver(id, contracts[id])
<1>1. contracts = [x \in DOMAIN contracts |-> contracts[x]]
  BY DEF TypeOK, BooksTypeOK
<1> QED
  BY <1>1 DEF HandedOver, SameBooks

(* What each hand-over does, and to which contract.                        *)
LEMMA HandOverCases ==
  ASSUME TypeOK, NEW id \in DOMAIN contracts, HandOver(id)
  PROVE  \E c2 \in ContractType : HandedOver(id, c2)
<1>1. ASSUME UNCHANGED vars PROVE \E c2 \in ContractType : HandedOver(id, c2)
  <2>1. contracts[id] \in ContractType
    BY DEF TypeOK, BooksTypeOK
  <2> QED
    BY <1>1, <2>1, OthersHandOver DEF vars, books, records, moneyAside
<1>2. ASSUME NEW new_client \in Address, ProposeClientMigration(id, new_client)
      PROVE  UNCHANGED vars
  BY <1>2 DEF ProposeClientMigration
<1>3. CancelClientMigration(id) \/ ExpireClientMigration(id) => UNCHANGED vars
  BY DEF CancelClientMigration, ExpireClientMigration
<1>4. ASSUME NEW caller, NEW i, RevokeApproval(id, i, caller)
      PROVE  \E c2 \in ContractType : HandedOver(id, c2)
  <2>1. contracts[id] \in ContractType
    BY DEF TypeOK, BooksTypeOK
  <2> QED
    BY <1>4, <2>1, OthersHandOver DEF RevokeApproval
<1>5. ASSUME NEW new_client \in Address, AcceptClientMigration(id, new_client)
      PROVE  \E c2 \in ContractType : HandedOver(id, c2)
  BY <1>5, AcceptHandsOver
<1>6. ASSUME NEW new_arbiter \in Address \cup {NoArbiter}, SetArbiter(id, new_arbiter)
      PROVE  \E c2 \in ContractType : HandedOver(id, c2)
  BY <1>6, SetArbiterHandsOver
<1> QED
  BY <1>1, <1>2, <1>3, <1>4, <1>5, <1>6 DEF HandOver

(* The types and the books are those of the same contract in other hands.  *)
LEMMA HandedTypes ==
  ASSUME TypeOK, NEW id \in DOMAIN contracts, NEW c2 \in ContractType, HandedOver(id, c2)
  PROVE  TypeOK'
<1>1. BooksTypeOK'
  BY ContractUpdated DEF TypeOK, HandedOver, moneyAside
<1>2. DOMAIN contracts' = DOMAIN contracts
  BY DEF HandedOver, TypeOK, BooksTypeOK
<1>3. RecordsTypeOK'
  <2>1. /\ UNCHANGED <<next_contract_id, milestones, disputes, finalization, pending_credits>>
        /\ approvals' \subseteq approvals
    BY DEF HandedOver, moneyAside
  <2>2. next_contract_id <= next_contract_id'
    BY <2>1 DEF TypeOK, BooksTypeOK
  <2> QED
    BY <1>1, <2>1, <2>2, RecordsKept DEF TypeOK, RecordsTypeOK
<1>4. UNCHANGED <<funds, control>>
  BY DEF HandedOver, moneyAside
<1> QED
  BY <1>1, <1>3, <1>4 DEF TypeOK, funds, control, FundsTypeOK, ControlTypeOK

LEMMA HandedMap ==
  ASSUME TypeOK, NEW id \in DOMAIN contracts, NEW c2 \in ContractType, HandedOver(id, c2)
  PROVE  /\ DOMAIN contracts' = DOMAIN contracts /\ contracts'[id] = c2
         /\ \A x \in DOMAIN contracts :
              SameBooks(contracts'[x], contracts[x]) /\ milestones'[x] = milestones[x]
         /\ \A x \in DOMAIN contracts \ {id} : contracts'[x] = contracts[x]
  BY DEF HandedOver, SameBooks, moneyAside, TypeOK, BooksTypeOK

LEMMA SameBookOK ==
  ASSUME NEW c, NEW c2, NEW m, SameBooks(c2, c), BookOK(c, m)
  PROVE  BookOK(c2, m)
<1>1. VectorInv(m) /\ ContractOK(c2, m)
  BY DEF BookOK, ContractOK, SameBooks
<1>2. CountersOK(c2, m)
  BY DEF BookOK, CountersOK, SameBooks
<1>3. StageOK(c2, m)
  BY DEF BookOK, StageOK, SameBooks
<1> QED
  BY <1>1, <1>2, <1>3 DEF BookOK

LEMMA HandedBooks ==
  ASSUME BooksInv, NEW id \in DOMAIN contracts, NEW c2 \in ContractType, HandedOver(id, c2)
  PROVE  BooksInv'
<1>1. TypeOK /\ TypeOK'
  BY HandedTypes DEF BooksInv, AccountingInv
<1>2. \A x \in DOMAIN contracts' : BookOK(contracts'[x], milestones'[x])
  BY <1>1, HandedMap, SameBookOK DEF BooksInv
<1>3. FeesRecorded'
  BY <1>2 DEF FeesRecorded, BookOK, VectorInv
<1>4. AccountingBound'
  BY <1>2 DEF HandedOver, moneyAside, funds, BooksInv, AccountingInv, AccountingBound,
              BookOK, ContractOK
<1> QED
  BY <1>1, <1>2, <1>3, <1>4 DEF BooksInv, AccountingInv

(* What the contracts hold, and what their freelancers have earned, does   *)
(* not depend on who the client and the arbiter are.                       *)
LEMMA HandedCustody ==
  ASSUME CustodyInv, NEW id \in DOMAIN contracts, NEW c2 \in ContractType, HandedOver(id, c2)
  PROVE  CustodyInv'
<1>1. BooksInv /\ TypeOK /\ BooksInv'
  BY HandedBooks DEF CustodyInv, BooksInv, AccountingInv
<1>2. DOMAIN contracts' = DOMAIN contracts
  BY <1>1, HandedMap
<1>3. \A x \in DOMAIN contracts : Held(contracts'[x], milestones'[x]) = Held(contracts[x], milestones[x])
  BY <1>1, HandedMap DEF Held, SameBooks
<1>4. Holdings' = Holdings
  BY <1>2, <1>3 DEF Holdings
<1>5. Backing' = Backing
  BY DEF HandedOver, moneyAside, funds, Backing
<1> QED
  BY <1>1, <1>2, <1>4, <1>5 DEF CustodyInv

LEMMA HandedCredits ==
  ASSUME CreditsInv, NEW id \in DOMAIN contracts, NEW c2 \in ContractType, HandedOver(id, c2)
  PROVE  CreditsInv'
<1>1. BooksInv /\ TypeOK /\ BooksInv'
  BY HandedBooks DEF CreditsInv, BooksInv, AccountingInv
<1>2. DOMAIN contracts' = DOMAIN contracts /\ UNCHANGED pending_credits
      /\ \A x \in DOMAIN contracts : SameBooks(contracts'[x], contracts[x])
  BY <1>1, HandedMap DEF HandedOver, moneyAside
<1>3. \A a : Earned(a)' = Earned(a)
  BY <1>2 DEF Earned, Rateable, SameBooks
<1>4. Backed'
  BY <1>2, <1>3 DEF CreditsInv, Backed
<1> QED
  BY <1>1, <1>2, <1>4 DEF CreditsInv, SameBooks

LEMMA HandedFlags ==
  ASSUME TypeOK, ApprovalsFresh, NEW id \in DOMAIN contracts, NEW c2 \in ContractType,
         HandedOver(id, c2)
  PROVE  ApprovalsFresh'
<1>1. \A a \in approvals' : a \in approvals /\ a[1] \in DOMAIN contracts
  BY DEF HandedOver, TypeOK, RecordsTypeOK
<1> QED
  BY <1>1, HandedMap DEF ApprovalsFresh, SameBooks

(* All of it together.                                                     *)
MoneyInv == CustodyInv /\ CreditsInv /\ ApprovalsFresh

LEMMA NextMoney == MoneyInv /\ [PartyNext]_partyVars => MoneyInv'
<1> SUFFICES ASSUME MoneyInv, [PartyNext]_partyVars PROVE MoneyInv'
  OBVIOUS
<1>1. TypeOK
  BY DEF MoneyInv, CreditsInv, BooksInv, AccountingInv
<1>2. ASSUME [Next]_vars PROVE MoneyInv'
  BY <1>1, <1>2, NextCustody, NextCredits, NextFlags DEF MoneyInv
<1>3. EscrowStep \/ UNCHANGED partyVars => [Next]_vars
  BY DEF EscrowStep, partyVars
<1>4. ASSUME NEW id \in DOMAIN contracts, HandOver(id) PROVE MoneyInv'
  <2>1. PICK c2 \in ContractType : HandedOver(id, c2)
    BY <1>1, <1>4, HandOverCases
  <2> QED
    BY <1>1, <2>1, HandedCustody, HandedCredits, HandedFlags DEF MoneyInv
<1> QED
  BY <1>2, <1>3, <1>4 DEF PartyNext

(* However often clients and arbiters are replaced and approvals taken     *)
(* back, at whatever moment, the accounting is the one Escrow keeps: the   *)
(* bounds, the counters, the price of what is left, the tokens to the      *)
(* stroop, the credits, and the approvals that still count.                *)
THEOREM HandOversKeepTheMoney ==
  PartySpec => [](/\ TypeOK /\ AccountingBound /\ BooksMatchMilestones
                  /\ FundedCoversMilestones /\ CustodyEquation
                  /\ CreditsBacked /\ ApprovalsFresh)
<1>1. PartyInit => MoneyInv
  <2>1. Init => ApprovalsFresh
    BY DEF Init, ApprovalsFresh
  <2> QED
    BY <2>1, InitCustody, InitCredits DEF PartyInit, MoneyInv
<1>2. MoneyInv => /\ TypeOK /\ AccountingBound /\ BooksMatchMilestones
                  /\ FundedCoversMilestones /\ CustodyEquation
                  /\ CreditsBacked /\ ApprovalsFresh
  BY BooksMatch, FundedCovers, CustodyMeans, CreditsMean
  DEF MoneyInv, CustodyInv, BooksInv, AccountingInv
<1> QED
  BY <1>1, <1>2, NextMoney, PTL DEF PartySpec

(* What a completed contract paid, what a closed one still holds and what  *)
(* was priced does not depend on who the client and the arbiter are.       *)
LEMMA HandedSolvency ==
  ASSUME SolventInv, NEW id \in DOMAIN contracts, NEW c2 \in ContractType, HandedOver(id, c2)
  PROVE  SolventInv'
<1>1. /\ CustodyInv /\ BooksInv /\ TypeOK /\ CustodyInv'
      /\ PaidInv /\ LeftoverInv /\ PreviewInv
  BY HandedCustody DEF SolventInv, CustodyInv, BooksInv, AccountingInv
<1>2. /\ DOMAIN contracts' = DOMAIN contracts
      /\ \A x \in DOMAIN contracts :
           SameBooks(contracts'[x], contracts[x]) /\ milestones'[x] = milestones[x]
  BY <1>1, HandedMap
<1>3. UNCHANGED <<finalization, undistributed, protocol_fee_bps>>
  BY DEF HandedOver, moneyAside, funds, control
<1>4. PaidInv'
  BY <1>1, <1>2, <1>3 DEF PaidInv, PaidOK, SameBooks
<1>5. LeftoverInv'
  <2>1. \A x \in DOMAIN contracts :
          Leftover(contracts'[x], milestones'[x]) = Leftover(contracts[x], milestones[x])
    BY <1>2 DEF Leftover, Held, SameBooks
  <2>2. Leftovers' = Leftovers
    BY <1>2, <2>1 DEF Leftovers
  <2>3. \A x \in DOMAIN contracts' : DisputedFull(contracts'[x], milestones'[x])
    BY <1>1, <1>2 DEF LeftoverInv, DisputedFull, Full, SameBooks
  <2> QED
    BY <1>1, <1>2, <1>3, <2>2, <2>3 DEF LeftoverInv
<1>6. PreviewInv'
  BY <1>1, <1>2, <1>3 DEF PreviewInv, Finalized, SameBooks
<1> QED
  BY <1>1, <1>4, <1>5, <1>6 DEF SolventInv

(* While no fee rate takes everything, whoever is the client by then can   *)
(* leave a Funded contract with all that is left of it, and the fees and   *)
(* the open contracts are covered together, however often they changed     *)
(* hands.                                                                  *)
THEOREM HandOversStaySolvent ==
  ASSUME PartialFees
  PROVE  PartySpec => [](Solvency /\ ClientCanExit)
<1>1. PartyInit => SolventInv
  BY InitSolvent DEF PartyInit
<1>2. SolventInv /\ [PartyNext]_partyVars => SolventInv'
  <2> SUFFICES ASSUME SolventInv, [PartyNext]_partyVars PROVE SolventInv'
    OBVIOUS
  <2>1. ASSUME [Next]_vars PROVE SolventInv'
    BY <2>1, NextSolvent
  <2>2. EscrowStep \/ UNCHANGED partyVars => [Next]_vars
    BY DEF EscrowStep, partyVars
  <2>3. ASSUME NEW id \in DOMAIN contracts, HandOver(id) PROVE SolventInv'
    <3>1. TypeOK
      BY DEF SolventInv, CustodyInv, BooksInv, AccountingInv
    <3> QED
      BY <2>3, <3>1, HandOverCases, HandedSolvency
  <2> QED
    BY <2>1, <2>2, <2>3 DEF PartyNext
<1>3. SolventInv => Solvency /\ ClientCanExit
  BY SolventMeans, ExitMeans
<1> QED
  BY <1>1, <1>2, <1>3, PTL DEF PartySpec

(* The switches with the hand-overs: an emergency still means a pause.     *)
LEMMA PartiesEmergencyPauses == PartySpec => []EmergencyImpliesPaused
<1>1. PartyInit => EmergencyImpliesPaused
  BY DEF PartyInit, Init, EmergencyImpliesPaused
<1>2. EmergencyImpliesPaused /\ [PartyNext]_partyVars => EmergencyImpliesPaused'
  <2>1. EscrowStep \/ UNCHANGED partyVars => [Next]_vars
    BY DEF EscrowStep, partyVars
  <2>2. ASSUME NEW id \in DOMAIN contracts, HandOver(id) PROVE UNCHANGED <<paused, emergency>>
    BY <2>2
    DEF HandOver, ProposeClientMigration, AcceptClientMigration, CancelClientMigration,
        ExpireClientMigration, SetArbiter, RevokeApproval, vars, moneyAside, control
  <2> QED
    BY <2>1, <2>2, NextSwitches DEF PartyNext, EmergencyImpliesPaused
<1> QED
  BY <1>1, <1>2, PTL DEF PartySpec

(* While the contract is paused or in an emergency no role is handed on,   *)
(* and nothing that is worth money moves: approvals can be taken back, no  *)
(* more.                                                                   *)
THEOREM PausedPartiesAreStill == PartySpec => PauseStopsMoney
<1> DEFINE Still == /\ UNCHANGED <<books, funds, disputes, pending_credits>>
                    /\ approvals' \subseteq approvals
<1>1. ASSUME paused \/ emergency, EmergencyImpliesPaused, [PartyNext]_partyVars
      PROVE  Still
  <2>0. paused
    BY <1>1 DEF EmergencyImpliesPaused
  <2>1. EscrowStep \/ UNCHANGED partyVars => [Next]_vars
    BY DEF EscrowStep, partyVars
  <2>2. ASSUME NEW id \in DOMAIN contracts, HandOver(id)
        PROVE  UNCHANGED <<contracts, moneyAside>> /\ approvals' \subseteq approvals
    <3>1. ASSUME NEW new_client PROVE ~AcceptClientMigration(id, new_client)
      BY <2>0 DEF AcceptClientMigration, NotPaused
    <3>2. ASSUME NEW new_arbiter PROVE ~SetArbiter(id, new_arbiter)
      BY <2>0 DEF SetArbiter, NotPaused
    <3>3. ASSUME NEW new_client PROVE ~ProposeClientMigration(id, new_client)
      BY <2>0 DEF ProposeClientMigration, NotPaused
    <3>4. CancelClientMigration(id) \/ ExpireClientMigration(id) => UNCHANGED vars
      BY DEF CancelClientMigration, ExpireClientMigration
    <3>5. ASSUME NEW i, NEW caller, RevokeApproval(id, i, caller)
          PROVE  UNCHANGED <<contracts, moneyAside>> /\ approvals' \subseteq approvals
      BY <3>5 DEF RevokeApproval
    <3> QED
      BY <2>2, <3>1, <3>2, <3>3, <3>4, <3>5 DEF HandOver, vars, books, records, moneyAside
  <2>3. ASSUME [Next]_vars PROVE Still
    BY <1>1, <2>3, PausedStep
  <2>4. ASSUME NEW id \in DOMAIN contracts, HandOver(id) PROVE Still
    BY <2>2, <2>4 DEF moneyAside, books
  <2> HIDE DEF Still
  <2> QED
    BY <1>1, <2>1, <2>3, <2>4 DEF PartyNext
<1>2. EmergencyImpliesPaused /\ [PartyNext]_partyVars => [paused \/ emergency => Still]_vars
  BY <1>1
<1> QED
  BY <1>2, PartiesEmergencyPauses, PTL DEF PartySpec, PauseStopsMoney

(* A hand-over does not reopen a closed contract either: but for the roles *)
(* and the rating, what is closed is final.                                *)
ClosedBooksStay ==
  [][\A id \in DOMAIN contracts : contracts[id].status \in TerminalStatus =>
       /\ contracts'[id].status = contracts[id].status
       /\ contracts'[id].freelancer = contracts[id].freelancer
       /\ contracts'[id].funded_amount = contracts[id].funded_amount
       /\ contracts'[id].released_amount = contracts[id].released_amount
       /\ contracts'[id].refunded_amount = contracts[id].refunded_amount
       /\ milestones'[id] = milestones[id]]_partyVars

THEOREM HandOversReopenNothing == PartySpec => ClosedBooksStay
<1> DEFINE Stays(id) ==
             /\ contracts'[id].status = contracts[id].status
             /\ contracts'[id].freelancer = contracts[id].freelancer
             /\ contracts'[id].funded_amount = contracts[id].funded_amount
             /\ contracts'[id].released_amount = contracts[id].released_amount
             /\ contracts'[id].refunded_amount = contracts[id].refunded_amount
             /\ milestones'[id] = milestones[id]
<1>1. ASSUME TypeOK, [PartyNext]_partyVars, NEW id \in DOMAIN contracts,
             contracts[id].status \in TerminalStatus
      PROVE  Stays(id)
  <2>1. EscrowStep \/ UNCHANGED partyVars => [Next]_vars
    BY DEF EscrowStep, partyVars
  <2>2. contracts[id] \in ContractType
    BY <1>1 DEF TypeOK, BooksTypeOK
  <2>3. ASSUME [Next]_vars PROVE Stays(id)
    <3>1. Frozen(id)
      BY <1>1, <2>3, NextFreezes
    <3> QED
      BY <2>2, <3>1 DEF Frozen, ContractType
  <2>4. ASSUME NEW x \in DOMAIN contracts, HandOver(x) PROVE Stays(id)
    <3>1. PICK c2 \in ContractType : HandedOver(x, c2)
      BY <1>1, <2>4, HandOverCases
    <3> QED
      BY <1>1, <3>1, HandedMap DEF SameBooks
  <2> HIDE DEF Stays
  <2> QED
    BY <1>1, <2>1, <2>3, <2>4 DEF PartyNext
<1>2. PartySpec => []TypeOK
  BY HandOversKeepTheMoney, PTL
<1>3. TypeOK /\ [PartyNext]_partyVars =>
        \A id \in DOMAIN contracts : contracts[id].status \in TerminalStatus => Stays(id)
  BY <1>1
<1> QED
  BY <1>2, <1>3, PTL DEF PartySpec, ClosedBooksStay

(* A contract that changes hands stays where it is in its life, and a      *)
(* request that outlived the contract's state cannot take it back.         *)
THEOREM PartiesLiveTheLifecycle == PartySpec => ImplementsLifecycle
<1>1. PartyInit => BooksInv /\ Lifecycle!Init
  BY InitBooks, InitMaps DEF PartyInit
<1>2. ASSUME BooksInv, [PartyNext]_partyVars
      PROVE  BooksInv' /\ [Lifecycle!Next]_(Lifecycle!vars)
  <2>1. EscrowStep \/ UNCHANGED partyVars => [Next]_vars
    BY DEF EscrowStep, partyVars
  <2>2. ASSUME [Next]_vars PROVE BooksInv' /\ [Lifecycle!Next]_(Lifecycle!vars)
    BY <1>2, <2>2, NextBooks, NextMaps
  <2>3. ASSUME NEW id \in DOMAIN contracts, HandOver(id)
        PROVE  BooksInv' /\ UNCHANGED Lifecycle!vars
    <3>1. PICK c2 \in ContractType : HandedOver(id, c2)
      BY <1>2, <2>3, HandOverCases DEF BooksInv, AccountingInv
    <3>2. BooksInv'
      BY <1>2, <3>1, HandedBooks
    <3>3. /\ DOMAIN contracts' = DOMAIN contracts /\ UNCHANGED finalization
          /\ \A x \in DOMAIN contracts : contracts'[x].status = contracts[x].status
      BY <1>2, <3>1, HandedMap DEF BooksInv, AccountingInv, HandedOver, moneyAside, SameBooks
    <3> QED
      BY <3>2, <3>3 DEF Lifecycle!vars
  <2> QED
    BY <1>2, <2>1, <2>2, <2>3 DEF PartyNext
<1> QED
  BY <1>1, <1>2, PTL DEF PartySpec, ImplementsLifecycle, Lifecycle!Spec

(* Neither property of the parties is inductive by itself: the new client  *)
(* of a request must still be apart from the freelancer when it is         *)
(* accepted, and a request is about a contract there is.                   *)
RequestsOK ==
  \A id \in DOMAIN pending_migration :
    /\ id \in DOMAIN contracts
    /\ pending_migration[id].proposed_client # contracts[id].freelancer

(* The two halves of FreelancerApart: the holders of the roles, and those  *)
(* who gave the approvals.                                                 *)
RolesApart ==
  \A id \in DOMAIN contracts :
    LET c == contracts[id] IN
    /\ c.freelancer \notin {c.client, c.arbiter}
    /\ c.release_authorization \in {"ArbiterOnly", "ClientAndArbiter"} => c.arbiter # NoArbiter

GiversApart ==
  \A a \in approvals : given_by[a] = contracts[a[1]].freelancer <=> a[3] = "Freelancer"

PartyInv == AccountingInv /\ RequestsOK /\ PendingIsCurrent /\ RolesApart /\ GiversApart

(* The steps that leave the parties of every contract as they are.         *)
PartiesKept ==
  \A x \in DOMAIN contracts :
    /\ x \in DOMAIN contracts' /\ SameDeal(contracts'[x], contracts[x])

(* A new approval is about a contract that was there, and is given by the  *)
(* one who holds the role then.                                            *)
LEMMA NewApprovalsApart ==
  ASSUME TypeOK, AccountingInv, RolesApart, GiversApart, TypeOK', PartiesKept, EscrowStep
  PROVE  GiversApart'
<1> SUFFICES ASSUME NEW a \in approvals'
             PROVE  given_by'[a] = contracts'[a[1]].freelancer <=> a[3] = "Freelancer"
  BY DEF GiversApart
<1>1. a[1] \in DOMAIN contracts' /\ a[3] \in Role
  BY DEF TypeOK, RecordsTypeOK
<1>2. a[1] \in DOMAIN contracts
  <2>1. ASSUME NEW t \in Terms, CreateContract(t) PROVE a[1] \in DOMAIN contracts
    BY <2>1 DEF CreateContract, records, TypeOK, RecordsTypeOK
  <2> QED
    BY <1>1, <2>1, NewIdsAreCreated DEF EscrowStep
<1>3. contracts'[a[1]].freelancer = contracts[a[1]].freelancer
  BY <1>2 DEF PartiesKept, SameDeal
<1>4. CASE a \in approvals
  <2>1. given_by'[a] = given_by[a]
    BY <1>4 DEF EscrowStep
  <2> QED
    BY <1>3, <1>4, <2>1 DEF GiversApart
<1>5. CASE a \notin approvals
  <2>1. given_by'[a] = Holder(contracts[a[1]], a[3])
    BY <1>5 DEF EscrowStep
  <2>2. LET c == contracts[a[1]] IN c.freelancer # c.client /\ c.freelancer # c.arbiter
    BY <1>2 DEF RolesApart
  <2> QED
    BY <1>1, <1>3, <2>1, <2>2 DEF Holder, Role
<1> QED
  BY <1>4, <1>5

LEMMA SameApprovalsApart ==
  ASSUME TypeOK, GiversApart, approvals' \subseteq approvals,
         \A a \in approvals' : given_by'[a] = given_by[a],
         \A x \in DOMAIN contracts : contracts'[x].freelancer = contracts[x].freelancer
  PROVE  GiversApart'
<1>1. \A a \in approvals : a[1] \in DOMAIN contracts
  BY DEF TypeOK, RecordsTypeOK
<1> QED
  BY <1>1 DEF GiversApart

LEMMA EscrowStepParties ==
  ASSUME PartyInv, EscrowStep \/ UNCHANGED partyVars
  PROVE  PartyInv'
<1>0. [Next]_vars /\ UNCHANGED pending_migration
  BY DEF EscrowStep, partyVars, handover
<1>1. AccountingInv' /\ TypeOK /\ TypeOK'
  BY <1>0, NextAccounting DEF PartyInv, AccountingInv
<1>2. PartiesKept
  BY <1>0, NextKeepsDeal DEF PartyInv, DealKept, PartiesKept
<1>3. RequestsOK' /\ PendingIsCurrent'
  BY <1>0, <1>2 DEF PartyInv, RequestsOK, PendingIsCurrent, PartiesKept, SameDeal
<1>4. ASSUME NEW x \in DOMAIN contracts'
      PROVE  LET c == contracts'[x] IN
             /\ c.freelancer \notin {c.client, c.arbiter}
             /\ c.release_authorization \in {"ArbiterOnly", "ClientAndArbiter"} =>
                  c.arbiter # NoArbiter
  <2>1. CASE x \in DOMAIN contracts
    BY <1>2, <2>1 DEF PartyInv, RolesApart, PartiesKept, SameDeal
  <2>2. CASE x \notin DOMAIN contracts
    BY <1>0, <1>1, <2>2, NewIdsAreCreated, NewDeal DEF PartyInv
  <2> QED
    BY <2>1, <2>2
<1>5. GiversApart'
  <2>1. CASE EscrowStep
    BY <1>1, <1>2, <2>1, NewApprovalsApart DEF PartyInv
  <2>2. CASE UNCHANGED partyVars
    BY <2>2 DEF PartyInv, GiversApart, partyVars, handover, vars, books, records
  <2> QED
    BY <2>1, <2>2
<1> QED
  BY <1>1, <1>3, <1>4, <1>5 DEF PartyInv, RolesApart

(* The requests that stay when one is used up, withdrawn or expires.       *)
LEMMA RequestGone ==
  ASSUME PartyInv, NEW id, pending_migration' = WithoutMigration(id),
         AccountingInv', DOMAIN contracts' = DOMAIN contracts, RolesApart', GiversApart',
         \A x \in DOMAIN contracts : contracts'[x].freelancer = contracts[x].freelancer,
         \A x \in DOMAIN contracts \ {id} : contracts'[x] = contracts[x]
  PROVE  PartyInv'
<1>1. /\ DOMAIN pending_migration' = DOMAIN pending_migration \ {id}
      /\ \A x \in DOMAIN pending_migration' : pending_migration'[x] = pending_migration[x]
  BY DEF WithoutMigration
<1> QED
  BY <1>1 DEF PartyInv, RequestsOK, PendingIsCurrent

(* A contract gets new parties that are apart from its freelancer.         *)
LEMMA PartiesStayApart ==
  ASSUME TypeOK, RolesApart, NEW id \in DOMAIN contracts, NEW c2 \in ContractType,
         HandedOver(id, c2), c2.freelancer \notin {c2.client, c2.arbiter},
         c2.release_authorization \in {"ArbiterOnly", "ClientAndArbiter"} => c2.arbiter # NoArbiter
  PROVE  RolesApart'
  BY HandedMap DEF RolesApart

LEMMA HandedAccounting ==
  ASSUME AccountingInv, NEW id \in DOMAIN contracts, NEW c2 \in ContractType, HandedOver(id, c2)
  PROVE  AccountingInv'
<1>1. TypeOK /\ TypeOK'
  BY HandedTypes DEF AccountingInv
<1>2. FeesRecorded'
  BY <1>1, HandedMap DEF FeesRecorded, AccountingInv
<1>3. AccountingBound'
  BY <1>1, HandedMap
  DEF HandedOver, moneyAside, funds, AccountingInv, AccountingBound, SameBooks
<1> QED
  BY <1>1, <1>2, <1>3 DEF AccountingInv

LEMMA HandOverParties ==
  ASSUME PartyInv, NEW id \in DOMAIN contracts, HandOver(id)
  PROVE  PartyInv'
<1>0. TypeOK /\ AccountingInv /\ RolesApart /\ GiversApart
  BY DEF PartyInv, AccountingInv
<1>1. ASSUME UNCHANGED <<vars, given_by>>
      PROVE  AccountingInv' /\ RolesApart' /\ GiversApart' /\ UNCHANGED contracts
  BY <1>0, <1>1, UntouchedAccounting, NextAccounting
  DEF vars, books, records, RolesApart, GiversApart
<1>2. ASSUME NEW new_client \in Address, ProposeClientMigration(id, new_client) PROVE PartyInv'
  <2>1. /\ UNCHANGED <<vars, given_by>>
        /\ new_client \notin {contracts[id].client, contracts[id].freelancer}
        /\ pending_migration' = With(pending_migration, id,
             [current_client |-> contracts[id].client, proposed_client |-> new_client])
    BY <1>2 DEF ProposeClientMigration, NewClientAllowed
  <2>2. /\ DOMAIN pending_migration' = DOMAIN pending_migration \cup {id}
        /\ pending_migration'[id].current_client = contracts[id].client
        /\ pending_migration'[id].proposed_client = new_client
        /\ \A x \in DOMAIN pending_migration \ {id} : pending_migration'[x] = pending_migration[x]
    BY <2>1 DEF With
  <2> QED
    BY <1>1, <2>1, <2>2 DEF PartyInv, RequestsOK, PendingIsCurrent
<1>3. ASSUME NEW new_client \in Address, AcceptClientMigration(id, new_client) PROVE PartyInv'
  <2>1. PICK c2 \in ContractType :
          /\ HandedOver(id, c2) /\ c2.client = new_client /\ c2.arbiter = contracts[id].arbiter
    BY <1>0, <1>3, AcceptHandsOver
  <2>2. /\ id \in DOMAIN pending_migration /\ pending_migration[id].proposed_client = new_client
        /\ pending_migration' = WithoutMigration(id)
    BY <1>3 DEF AcceptClientMigration, HasPendingClientMigration
  <2>3. SameBooks(c2, contracts[id])
    BY <2>1 DEF HandedOver
  <2>4. c2.freelancer \notin {c2.client, c2.arbiter}
    BY <2>1, <2>2, <2>3 DEF PartyInv, RequestsOK, RolesApart, SameBooks
  <2>5. RolesApart'
    BY <1>0, <2>1, <2>3, <2>4, PartiesStayApart DEF RolesApart, SameBooks
  <2>6. AccountingInv'
    BY <1>0, <2>1, HandedAccounting
  <2>7. \A x \in DOMAIN contracts : contracts'[x].freelancer = contracts[x].freelancer
    BY <1>0, <2>1, <2>3, HandedMap DEF SameBooks
  <2>8. GiversApart'
    BY <1>0, <1>3, <2>7, SameApprovalsApart DEF AcceptClientMigration
  <2> QED
    BY <1>0, <2>1, <2>2, <2>5, <2>6, <2>7, <2>8, HandedMap, RequestGone
<1>4. ASSUME CancelClientMigration(id) \/ ExpireClientMigration(id) PROVE PartyInv'
  BY <1>1, <1>4, RequestGone DEF CancelClientMigration, ExpireClientMigration
<1>5. ASSUME NEW new_arbiter \in Address \cup {NoArbiter}, SetArbiter(id, new_arbiter)
      PROVE  PartyInv'
  <2>1. PICK c2 \in ContractType :
          /\ HandedOver(id, c2) /\ c2.client = contracts[id].client /\ c2.arbiter = new_arbiter
    BY <1>0, <1>5, SetArbiterHandsOver
  <2>2. ArbiterAllowed(contracts[id], new_arbiter) /\ UNCHANGED pending_migration
    BY <1>5 DEF SetArbiter, handover
  <2>3. SameBooks(c2, contracts[id])
    BY <2>1 DEF HandedOver
  <2>4. RolesApart'
    BY <1>0, <2>1, <2>2, <2>3, PartiesStayApart DEF RolesApart, ArbiterAllowed, SameBooks
  <2>5. AccountingInv'
    BY <1>0, <2>1, HandedAccounting
  <2>6. RequestsOK' /\ PendingIsCurrent'
    BY <1>0, <2>1, <2>2, <2>3, HandedMap DEF PartyInv, RequestsOK, PendingIsCurrent, SameBooks
  <2>7. GiversApart'
    <3>1. \A x \in DOMAIN contracts : contracts'[x].freelancer = contracts[x].freelancer
      BY <1>0, <2>1, <2>3, HandedMap DEF SameBooks
    <3> QED
      BY <1>0, <1>5, <3>1, SameApprovalsApart DEF SetArbiter, handover
  <2> QED
    BY <2>4, <2>5, <2>6, <2>7 DEF PartyInv
<1>6. ASSUME NEW caller, NEW i, RevokeApproval(id, i, caller) PROVE PartyInv'
  <2>1. /\ UNCHANGED <<moneyAside, contracts, pending_migration>> /\ approvals' \subseteq approvals
        /\ \A a \in approvals' : given_by'[a] = given_by[a]
    BY <1>6 DEF RevokeApproval
  <2>2. HandedOver(id, contracts[id]) /\ contracts[id] \in ContractType
    BY <1>0, <2>1, OthersHandOver DEF TypeOK, BooksTypeOK
  <2>3. AccountingInv'
    BY <1>0, <2>2, HandedAccounting
  <2>4. GiversApart'
    BY <1>0, <2>1, SameApprovalsApart
  <2> QED
    BY <2>1, <2>3, <2>4 DEF PartyInv, RequestsOK, PendingIsCurrent, RolesApart
<1> QED
  BY <1>2, <1>3, <1>4, <1>5, <1>6 DEF HandOver

LEMMA NextParties == PartyInv /\ [PartyNext]_partyVars => PartyInv'
  BY EscrowStepParties, HandOverParties DEF PartyNext

LEMMA PartiesHold == PartySpec => []PartyInv
<1>1. PartyInit => PartyInv
  <2>1. Init => AccountingInv
    BY InitBooks DEF BooksInv
  <2>2. PartyInit => DOMAIN contracts = {} /\ DOMAIN pending_migration = {} /\ approvals = {}
    BY DEF PartyInit, Init
  <2> QED
    BY <2>1, <2>2 DEF PartyInit, PartyInv, RequestsOK, PendingIsCurrent, RolesApart, GiversApart
<1> QED
  BY <1>1, NextParties, PTL DEF PartySpec

(* For any number of hand-overs of any number of contracts, a request that *)
(* can still be accepted was made by the client of now, for another.       *)
THEOREM RequestsStayCurrent == PartySpec => []PendingIsCurrent
  BY PartiesHold, PTL DEF PartyInv

(* However often and in whatever order the roles are handed on, nobody     *)
(* comes to be freelancer and client or arbiter of the same contract, and  *)
(* a mode that needs an arbiter has one; and an approval that outlives a   *)
(* holder of its role is the freelancer's own or never was his.            *)
THEOREM FreelancerStaysApart == PartySpec => []FreelancerApart
<1>1. PartyInv => FreelancerApart
  BY DEF PartyInv, RolesApart, GiversApart, FreelancerApart
<1> QED
  BY <1>1, PartiesHold, PTL

(* A request made in time does not let the client change once the contract *)
(* is closed, finalized or in dispute: only an acceptance changes him, and *)
(* that looks again.                                                       *)
THEOREM ClosedKeepsItsClient == PartySpec => ClientStaysWhenClosed
<1> DEFINE Kept(id) == contracts'[id].client # contracts[id].client =>
             contracts[id].status \in {"Created", "PartiallyFunded", "Funded"} /\ ~Finalized(id)
<1>1. ASSUME PartyInv, [PartyNext]_partyVars, NEW x \in DOMAIN contracts PROVE Kept(x)
  <2>0. TypeOK /\ contracts[x] \in ContractType
    BY <1>1 DEF PartyInv, AccountingInv, TypeOK, BooksTypeOK
  <2>1. ASSUME [Next]_vars PROVE Kept(x)
    BY <1>1, <2>1, NextKeepsDeal DEF PartyInv, DealKept, SameDeal
  <2>2. EscrowStep \/ UNCHANGED partyVars => [Next]_vars
    BY DEF EscrowStep, partyVars
  <2>3. ASSUME NEW id \in DOMAIN contracts, NEW new_client, AcceptClientMigration(id, new_client)
        PROVE  Kept(x)
    <3>1. CASE x = id
      BY <2>0, <2>3, <3>1
      DEF AcceptClientMigration, MigrationAllowed, ContractType, ContractStatus
    <3>2. CASE x # id
      BY <2>0, <2>3, <3>2 DEF AcceptClientMigration, TypeOK, BooksTypeOK
    <3> QED
      BY <3>1, <3>2
  <2>4. ASSUME NEW id \in DOMAIN contracts, NEW new_arbiter \in Address \cup {NoArbiter},
               SetArbiter(id, new_arbiter)
        PROVE  Kept(x)
    <3>1. PICK c2 \in ContractType : HandedOver(id, c2) /\ c2.client = contracts[id].client
      BY <2>0, <2>4, SetArbiterHandsOver
    <3> QED
      BY <2>0, <3>1, HandedMap
  <2>5. ASSUME NEW id, NEW new_client, ProposeClientMigration(id, new_client) PROVE Kept(x)
    BY <2>5 DEF ProposeClientMigration, vars, books
  <2>6. ASSUME NEW id, CancelClientMigration(id) \/ ExpireClientMigration(id) PROVE Kept(x)
    BY <2>6 DEF CancelClientMigration, ExpireClientMigration, vars, books
  <2>7. ASSUME NEW id, NEW caller, NEW i, RevokeApproval(id, i, caller) PROVE Kept(x)
    BY <2>7 DEF RevokeApproval
  <2> HIDE DEF Kept
  <2> QED
    BY <1>1, <2>1, <2>2, <2>3, <2>4, <2>5, <2>6, <2>7 DEF PartyNext, HandOver
<1>2. PartyInv /\ [PartyNext]_partyVars =>
        [\A id \in DOMAIN contracts :
           contracts'[id].client # contracts[id].client =>
             contracts[id].status \in {"Created", "PartiallyFunded", "Funded"}
               /\ ~Finalized(id)]_partyVars
  BY <1>1
<1> QED
  BY <1>2, PartiesHold, PTL DEF PartySpec, ClientStaysWhenClosed

(***************************************************************************)
(* Ratings.                                                                *)
(***************************************************************************)

(* Ratings and migrated records leave the contracts those of Escrow: every *)
(* invariant proved of it holds with them too.                             *)
THEOREM RatingsAreEscrow == RatingSpec => Spec
<1>1. RatingInit => Init
  BY DEF RatingInit
<1>2. [RatingNext]_ratingVars => [Next]_vars
  <2>1. ASSUME NEW id \in DOMAIN contracts, NEW rating, NEW comment, Rate(id, rating, comment)
        PROVE  Next
    BY <2>1 DEF Rate, Next, Participate
  <2>2. ASSUME NEW a, MigrateReputationStorage(a) PROVE UNCHANGED vars
    BY <2>2 DEF MigrateReputationStorage
  <2>3. UNCHANGED ratingVars => UNCHANGED vars
    BY DEF ratingVars
  <2> QED
    BY <2>1, <2>2, <2>3 DEF RatingNext
<1> QED
  BY <1>1, <1>2, PTL DEF Spec, RatingSpec

(* The record of a freelancer is that of n ratings that add up to total.   *)
RecordOK(rep, n, total) ==
  /\ rep.completed_contracts = n /\ rep.total_rating = total
  /\ n * MIN_RATING <= total /\ total <= n * MAX_RATING

(* The bounds of the total are what makes the average a rating; that only  *)
(* completed contracts are rated is what bounds the number of ratings.     *)
RatingInv ==
  /\ CreditsInv
  /\ DOMAIN rating_of = Issued
  /\ \A id \in Issued : rating_of[id] \in MIN_RATING .. MAX_RATING
  /\ \A a \in Address :
       /\ a \in DOMAIN reputation <=> RatedFor(a) # {}
       /\ RecordOK(ReputationOf(a), Cardinality(RatedFor(a)),
                   SumFunctionOnSet(rating_of, RatedFor(a)))

(* One rating more.                                                        *)
LEMMA BoundsGrow ==
  ASSUME NEW n \in Nat, NEW total \in Int, NEW rating \in MIN_RATING .. MAX_RATING,
         n * MIN_RATING <= total, total <= n * MAX_RATING
  PROVE  (n + 1) * MIN_RATING <= total + rating /\ total + rating <= (n + 1) * MAX_RATING
<1>1. MIN_RATING \in Nat /\ MAX_RATING \in Nat
  BY RatingAssumption
<1> DEFINE p == n * MIN_RATING
           q == n * MAX_RATING
<1>2. (n + 1) * MIN_RATING = p + MIN_RATING /\ (n + 1) * MAX_RATING = q + MAX_RATING
  BY <1>1
<1>3. p \in Int /\ q \in Int
  BY <1>1
<1> HIDE DEF p, q
<1>4. p + MIN_RATING <= total + rating /\ total + rating <= q + MAX_RATING
  <2>1. p <= total /\ total <= q
    BY DEF p, q
  <2> QED
    BY <1>1, <1>3, <2>1
<1> QED
  BY <1>2, <1>4

LEMMA RatedIsFinite ==
  ASSUME TypeOK, NEW a
  PROVE  IsFiniteSet(RatedFor(a)) /\ Cardinality(RatedFor(a)) \in Nat
<1>1. IsFiniteSet(DOMAIN contracts)
  BY ContractIds
<1>2. RatedFor(a) \subseteq DOMAIN contracts
  BY DEF RatedFor, Issued
<1> QED
  BY <1>1, <1>2, FS_Subset, FS_CardinalityType

(* A step that rates nobody leaves every freelancer's contracts alone.     *)
LEMMA RatedForKept ==
  ASSUME AccountingInv, [Next]_vars, Issued' = Issued, NEW a
  PROVE  RatedFor(a)' = RatedFor(a)
<1>1. \A id \in Issued : contracts'[id].freelancer = contracts[id].freelancer
  BY NextKeepsDeal DEF Issued, DealKept, SameDeal
<1> QED
  BY <1>1 DEF RatedFor

LEMMA QuietKeepsRatings ==
  ASSUME RatingInv, [Next]_vars, Issued' = Issued, UNCHANGED <<reputation, rating_of>>
  PROVE  RatingInv'
<1>1. CreditsInv' /\ AccountingInv
  BY NextCredits DEF RatingInv, CreditsInv, BooksInv
<1>2. \A a \in Address : RatedFor(a)' = RatedFor(a) /\ ReputationOf(a)' = ReputationOf(a)
  BY <1>1, RatedForKept DEF ReputationOf
<1>3. ASSUME NEW a \in Address
      PROVE  /\ a \in DOMAIN reputation' <=> RatedFor(a)' # {}
             /\ RecordOK(ReputationOf(a)', Cardinality(RatedFor(a)'),
                         SumFunctionOnSet(rating_of', RatedFor(a)'))
  BY <1>2 DEF RatingInv
<1> QED
  BY <1>1, <1>3 DEF RatingInv, RecordOK

LEMMA RateKeepsRatings ==
  ASSUME RatingInv, NEW id \in DOMAIN contracts, NEW rating, NEW comment,
         Rate(id, rating, comment)
  PROVE  RatingInv'
<1> DEFINE c2 == [contracts[id] EXCEPT !.reputation_issued = TRUE]
<1> PICK f : f = contracts[id].freelancer
  OBVIOUS
<1>1. CreditsInv /\ AccountingInv /\ TypeOK
  BY DEF RatingInv, CreditsInv, BooksInv, AccountingInv
<1>2. /\ rating \in MIN_RATING .. MAX_RATING /\ ~contracts[id].reputation_issued
      /\ contracts' = [contracts EXCEPT ![id] = c2]
      /\ reputation' = With(reputation, f, Rated(ReputationOf(f), rating))
      /\ rating_of' = With(rating_of, id, rating)
      /\ Next
  BY DEF Rate, ValidRating, IssueReputation, CanRate, Next, Participate
<1>3. CreditsInv'
  BY <1>1, <1>2, NextCredits
<1>4. contracts[id] \in ContractType
  BY <1>1 DEF TypeOK, BooksTypeOK
<1>5. c2.reputation_issued /\ c2.freelancer = f /\ f \in Address
  BY <1>4 DEF ContractType
<1> HIDE DEF c2
<1>6. DOMAIN contracts' = DOMAIN contracts /\ contracts'[id] = c2
      /\ \A x \in DOMAIN contracts \ {id} : contracts'[x] = contracts[x]
  BY <1>1, <1>2 DEF TypeOK, BooksTypeOK
<1>7. id \notin Issued /\ Issued' = Issued \cup {id}
  BY <1>2, <1>5, <1>6 DEF Issued
<1>8. /\ RatedFor(f)' = RatedFor(f) \cup {id}
      /\ \A a \in Address \ {f} : RatedFor(a)' = RatedFor(a)
  BY <1>5, <1>6, <1>7 DEF RatedFor, Issued
<1>9. /\ DOMAIN rating_of' = Issued' /\ rating_of'[id] = rating
      /\ \A x \in Issued : rating_of'[x] = rating_of[x]
  BY <1>2, <1>7 DEF With, RatingInv
<1>10. \A x \in Issued' : rating_of'[x] \in MIN_RATING .. MAX_RATING
  BY <1>2, <1>7, <1>9 DEF RatingInv
<1>11. MIN_RATING \in Nat /\ MAX_RATING \in Nat
  BY RatingAssumption
<1>12. \A a \in Address : IsFiniteSet(RatedFor(a)) /\ RatedFor(a) \subseteq Issued
  BY <1>1, RatedIsFinite DEF RatedFor
<1>13. /\ DOMAIN reputation' = DOMAIN reputation \cup {f}
       /\ ReputationOf(f)' = Rated(ReputationOf(f), rating)
       /\ \A a \in Address \ {f} : ReputationOf(a)' = ReputationOf(a)
  BY <1>2, <1>5, <1>6 DEF With, ReputationOf
<1>14. ASSUME NEW a \in Address \ {f}
       PROVE  /\ a \in DOMAIN reputation' <=> RatedFor(a)' # {}
              /\ RecordOK(ReputationOf(a)', Cardinality(RatedFor(a)'),
                          SumFunctionOnSet(rating_of', RatedFor(a)'))
  <2>1. SumFunctionOnSet(rating_of', RatedFor(a)) = SumFunctionOnSet(rating_of, RatedFor(a))
    BY <1>9, <1>12, SumsEqual
  <2>2. RatedFor(a)' = RatedFor(a) /\ ReputationOf(a)' = ReputationOf(a)
    BY <1>8, <1>13
  <2>3. RecordOK(ReputationOf(a), Cardinality(RatedFor(a)),
                 SumFunctionOnSet(rating_of, RatedFor(a)))
    BY DEF RatingInv
  <2>4. a \in DOMAIN reputation' <=> RatedFor(a)' # {}
    BY <1>13, <2>2 DEF RatingInv
  <2> QED
    BY <2>1, <2>2, <2>3, <2>4
<1>15. /\ f \in DOMAIN reputation' <=> RatedFor(f)' # {}
       /\ RecordOK(ReputationOf(f)', Cardinality(RatedFor(f)'),
                   SumFunctionOnSet(rating_of', RatedFor(f)'))
  <2> DEFINE R == RatedFor(f)
             n == Cardinality(R)
             total == SumFunctionOnSet(rating_of, R)
  <2>1. IsFiniteSet(R) /\ R \subseteq Issued /\ id \notin R /\ n \in Nat
    BY <1>1, <1>5, <1>7, <1>12, RatedIsFinite
  <2>2. \A x \in R \cup {id} : rating_of'[x] \in Int
    BY <1>7, <1>10, <1>11, <2>1
  <2>3. \A x \in R : rating_of[x] \in Int /\ rating_of'[x] = rating_of[x]
    BY <1>9, <1>11, <2>1 DEF RatingInv
  <2>4. Cardinality(R \cup {id}) = n + 1
    BY <2>1, FS_AddElement
  <2>5. SumFunctionOnSet(rating_of', R \cup {id}) = rating + total
    <3>1. SumFunctionOnSet(rating_of', R \cup {id}) = rating_of'[id] + SumFunctionOnSet(rating_of', R)
      BY <2>1, <2>2, SumWith
    <3>2. SumFunctionOnSet(rating_of', R) = total
      BY <2>1, <2>3, SumsEqual
    <3> QED
      BY <1>9, <3>1, <3>2
  <2>6. total \in Int
    BY <2>1, <2>3, SumIsInt
  <2>7. RecordOK(ReputationOf(f), n, total)
    BY <1>5 DEF RatingInv
  <2> HIDE DEF n, total
  <2>8. /\ Rated(ReputationOf(f), rating).completed_contracts = n + 1
        /\ Rated(ReputationOf(f), rating).total_rating = rating + total
    BY <1>2, <1>11, <2>6, <2>7 DEF Rated, RecordOK
  <2>9. /\ (n + 1) * MIN_RATING <= total + rating /\ total + rating <= (n + 1) * MAX_RATING
    BY <1>2, <2>1, <2>6, <2>7, BoundsGrow DEF RecordOK
  <2>10. rating + total = total + rating
    BY <1>2, <1>11, <2>6
  <2>11. RecordOK(Rated(ReputationOf(f), rating), n + 1, rating + total)
    BY <2>8, <2>9, <2>10 DEF RecordOK
  <2> QED
    BY <1>8, <1>13, <2>4, <2>5, <2>11
<1>16. \A a \in Address :
         /\ a \in DOMAIN reputation' <=> RatedFor(a)' # {}
         /\ RecordOK(ReputationOf(a)', Cardinality(RatedFor(a)'),
                     SumFunctionOnSet(rating_of', RatedFor(a)'))
  BY <1>14, <1>15
<1> QED
  BY <1>3, <1>9, <1>10, <1>16 DEF RatingInv, RecordOK

LEMMA NextRatings == RatingInv /\ [RatingNext]_ratingVars => RatingInv'
<1> SUFFICES ASSUME RatingInv, [RatingNext]_ratingVars PROVE RatingInv'
  OBVIOUS
<1>1. Next /\ Issued' = Issued /\ UNCHANGED ratings => RatingInv'
  BY QuietKeepsRatings DEF ratings
<1>2. ASSUME NEW a, MigrateReputationStorage(a) PROVE RatingInv'
  BY <1>2, QuietKeepsRatings DEF MigrateReputationStorage, Issued, vars, books
<1>3. UNCHANGED ratingVars => RatingInv'
  BY QuietKeepsRatings DEF ratingVars, ratings, Issued, vars, books
<1> QED
  BY <1>1, <1>2, <1>3, RateKeepsRatings DEF RatingNext

LEMMA RatingsHold == RatingSpec => []RatingInv
<1>1. ASSUME RatingInit PROVE RatingInv
  <2>1. CreditsInv /\ DOMAIN contracts = {}
    BY <1>1, InitCredits DEF RatingInit, Init
  <2>2. Issued = {} /\ \A a : RatedFor(a) = {}
    BY <2>1 DEF Issued, RatedFor
  <2>3. Cardinality({}) = 0 /\ SumFunctionOnSet(rating_of, {}) = 0
    BY FS_EmptySet, SumOverNothing
  <2>4. DOMAIN rating_of = {} /\ DOMAIN reputation = {}
    BY <1>1 DEF RatingInit
  <2>5. RecordOK(NoReputation, 0, 0)
    BY RatingAssumption DEF RecordOK, NoReputation
  <2> QED
    BY <2>1, <2>2, <2>3, <2>4, <2>5 DEF RatingInv, ReputationOf
<1> QED
  BY <1>1, NextRatings, PTL DEF RatingSpec

(* The average of a record is a rating: dividing by the number of ratings  *)
(* undoes multiplying by it.                                               *)
LEMMA AverageIsRating ==
  ASSUME NEW n \in Nat \ {0}, NEW total \in Nat,
         n * MIN_RATING <= total, total <= n * MAX_RATING
  PROVE  (total * SCALE) \div n \in MIN_RATING * SCALE .. MAX_RATING * SCALE
<1>1. MIN_RATING \in Nat /\ MAX_RATING \in Nat /\ SCALE \in Nat
  BY RatingAssumption
<1> DEFINE lo == MIN_RATING * SCALE
           hi == MAX_RATING * SCALE
           t  == total * SCALE
           q  == t \div n
<1>2. lo \in Nat /\ hi \in Nat /\ t \in Nat
  BY <1>1
<1>3. n * lo <= t /\ t <= n * hi
  <2>1. (n * MIN_RATING) * SCALE <= total * SCALE /\ total * SCALE <= (n * MAX_RATING) * SCALE
    BY <1>1
  <2>2. (n * MIN_RATING) * SCALE = n * lo /\ (n * MAX_RATING) * SCALE = n * hi
    BY <1>1
  <2> QED
    BY <2>1, <2>2
<1> HIDE DEF lo, hi, t
<1>4. q \in Int /\ n * q <= t /\ t < n * q + n
  BY <1>2
<1> HIDE DEF q
<1>5. lo <= q
  <2> SUFFICES ASSUME q + 1 <= lo PROVE FALSE
    BY <1>2, <1>4
  <2>1. n * (q + 1) <= n * lo
    BY <1>2, <1>4
  <2>2. n * (q + 1) = n * q + n
    BY <1>4
  <2> QED
    BY <1>2, <1>3, <1>4, <2>1, <2>2
<1>6. q <= hi
  <2> SUFFICES ASSUME hi + 1 <= q PROVE FALSE
    BY <1>2, <1>4
  <2>1. n * (hi + 1) <= n * q
    BY <1>2, <1>4
  <2>2. n * (hi + 1) = n * hi + n
    BY <1>2
  <2> QED
    BY <1>2, <1>3, <1>4, <2>1, <2>2
<1> QED
  BY <1>2, <1>4, <1>5, <1>6 DEF lo, hi, t, q

(* The totals of every freelancer are those of the ratings of all the      *)
(* contracts that share his record, each counted once, for any number of   *)
(* contracts, and the average read off them is a rating.                   *)
THEOREM TotalsAddUp == RatingSpec => []TotalsMatchRatings
<1>1. ASSUME RatingInv, NEW a \in Address
      PROVE  /\ ReputationOf(a).completed_contracts = Cardinality(RatedFor(a))
             /\ ReputationOf(a).total_rating = TotalAmount([id \in RatedFor(a) |-> rating_of[id]])
             /\ a \in DOMAIN reputation =>
                  AverageRating(a) \in MIN_RATING * SCALE .. MAX_RATING * SCALE
  <2> DEFINE R == RatedFor(a)
             g == [id \in R |-> rating_of[id]]
  <2>1. TypeOK
    BY <1>1 DEF RatingInv, CreditsInv, BooksInv, AccountingInv
  <2>2. IsFiniteSet(R) /\ Cardinality(R) \in Nat /\ R \subseteq Issued
    BY <2>1, RatedIsFinite DEF RatedFor
  <2>3. RecordOK(ReputationOf(a), Cardinality(R), SumFunctionOnSet(rating_of, R))
    BY <1>1 DEF RatingInv
  <2>4. TotalAmount(g) = SumFunctionOnSet(g, R)
    BY DEF TotalAmount, SumFunction
  <2>5. SumFunctionOnSet(g, R) = SumFunctionOnSet(rating_of, R)
    <3>1. \A x \in R : g[x] = rating_of[x]
      OBVIOUS
    <3> HIDE DEF g, R
    <3> QED
      BY <2>2, <3>1, SumsEqual
  <2>6. SumFunctionOnSet(rating_of, R) \in Nat
    <3>1. \A x \in R : rating_of[x] \in Nat
      BY <1>1, <2>2, RatingAssumption DEF RatingInv
    <3> QED
      BY <2>2, <3>1, SumIsNat
  <2> HIDE DEF g
  <2>7. ASSUME a \in DOMAIN reputation
        PROVE  AverageRating(a) \in MIN_RATING * SCALE .. MAX_RATING * SCALE
    <3>1. R # {} /\ ReputationOf(a) = reputation[a]
      BY <1>1, <2>7 DEF RatingInv, ReputationOf
    <3>2. Cardinality(R) \in Nat \ {0}
      BY <2>2, <3>1, FS_EmptySet
    <3> HIDE DEF R
    <3> QED
      BY <2>3, <2>6, <3>1, <3>2, AverageIsRating DEF RecordOK, AverageRating
  <2> QED
    BY <2>3, <2>4, <2>5, <2>7 DEF RecordOK, g
<1>2. RatingInv => TotalsMatchRatings
  BY <1>1 DEF TotalsMatchRatings
<1> QED
  BY <1>2, RatingsHold, PTL

(* No freelancer ever has more ratings, given and to come, than contracts  *)
(* that completed, for any number of contracts sharing his record: the     *)
(* contracts rated and the contracts his credits are for are different.    *)
THEOREM RatingsAreEarned == RatingSpec => []RatingsEarned
<1>1. ASSUME RatingInv, NEW a \in Address
      PROVE  ReputationOf(a).completed_contracts + pending_credits[a]
               <= Cardinality(CompletedFor(a))
  <2> DEFINE R == RatedFor(a)
             E == Earned(a)
  <2>1. TypeOK /\ CreditsInv
    BY <1>1 DEF RatingInv, CreditsInv, BooksInv, AccountingInv
  <2>2. CompletedFor(a) = R \cup E /\ R \cap E = {}
    BY <2>1 DEF CompletedFor, RatedFor, Issued, Earned, Rateable, CreditsInv
  <2>3. /\ IsFiniteSet(R) /\ Cardinality(R) \in Nat
        /\ IsFiniteSet(E) /\ Cardinality(E) \in Nat
    BY <2>1, RatedIsFinite, EarnedIsFinite
  <2> HIDE DEF R, E
  <2>4. Cardinality(R \cup E) = Cardinality(R) + Cardinality(E)
    <3>1. Cardinality(R \cup E) = Cardinality(R) + Cardinality(E) - Cardinality(R \cap E)
      BY <2>3, FS_Union
    <3>2. Cardinality(R \cap E) = 0
      BY <2>2, FS_EmptySet
    <3> QED
      BY <2>3, <3>1, <3>2
  <2>5. pending_credits[a] \in 0 .. Cardinality(E)
    BY <2>1 DEF CreditsInv, Backed, E
  <2>6. ReputationOf(a).completed_contracts = Cardinality(R)
    BY <1>1 DEF RatingInv, RecordOK, R
  <2> QED
    BY <2>2, <2>3, <2>4, <2>5, <2>6
<1>2. RatingInv => RatingsEarned
  BY <1>1 DEF RatingsEarned
<1> QED
  BY <1>2, RatingsHold, PTL

(***************************************************************************)
(* Disputes under three builds of the code.                                *)
(*                                                                         *)
(* The theorems about Escrow are used through the instance D, in which the *)
(* record of a dispute is where EscrowDisputes says it counts as recorded: *)
(* a step under any build is a step of D.  An operator of an instance is a *)
(* symbol of its own, so the first lemmas say that those which do not      *)
(* depend on the records are the same in D.                                *)
(***************************************************************************)
D == INSTANCE EscrowCustodyProofs WITH disputes <- Recorded

LEMMA SameOperators ==
  /\ D!Stroops = Stroops /\ D!TermsType = TermsType /\ D!Resolutions = Resolutions
  /\ D!NotPaused = NotPaused /\ D!RollbackStatus = RollbackStatus
  /\ \A id : D!Exists(id) = Exists(id) /\ D!Finalized(id) = Finalized(id)
  /\ \A id : D!Indices(id) = Indices(id) /\ D!Unresolved(id) = Unresolved(id)
  /\ \A id : D!Available(id) = Available(id) /\ D!Summary(id) = Summary(id)
  /\ \A c, m : D!StatusAfter(c, m) = StatusAfter(c, m)
  /\ \A amount, bps : D!ProtocolFee(amount, bps) = ProtocolFee(amount, bps)
  /\ \A gross, fee : D!NetAmount(gross, fee) = NetAmount(gross, fee)
  /\ \A fee : D!ReversedFee(fee) = ReversedFee(fee)
  /\ \A m, i, fee : D!Released(m, i, fee) = Released(m, i, fee)
  /\ \A m, i : D!RolledBack(m, i) = RolledBack(m, i)
  /\ \A m, indices : D!Refunded(m, indices) = Refunded(m, indices)
  /\ \A c, a : D!CallerRole(c, a) = CallerRole(c, a)
  /\ \A c, a : D!MayApprove(c, a) = MayApprove(c, a) /\ D!MayRelease(c, a) = MayRelease(c, a)
  /\ \A id, i : D!ApprovedBy(id, i) = ApprovedBy(id, i)
  /\ \A id, i : D!SufficientApprovals(id, i) = SufficientApprovals(id, i)
  /\ \A f, x, v : D!With(f, x, v) = With(f, x, v)
  /\ \A f, S : D!AmountOf(f, S) = AmountOf(f, S)
  /\ \A S : D!Cardinality(S) = Cardinality(S)
  BY DEF Stroops, TermsType, ReleaseAuthorization, Resolutions, Split, FixedResolution, NotPaused,
         RollbackStatus, Exists, Finalized, Indices, Unresolved, Available, AvailableBalance,
         Summary, StatusAfter, ProtocolFee, BPS_DENOMINATOR, NetAmount, ReversedFee, Released,
         RolledBack, Refunded, CallerRole, MayApprove, MayRelease, IsParticipant, HoldsRole, Role,
         AuthorizedRoles, ApprovedBy, SufficientApprovals, With, AmountOf, SumFunctionOnSet,
         FoldFunctionOnSet, MapThenFoldSet, Cardinality,
         D!Stroops, D!TermsType, D!ReleaseAuthorization, D!Resolutions, D!Split,
         D!FixedResolution, D!NotPaused, D!RollbackStatus, D!Exists, D!Finalized, D!Indices,
         D!Unresolved, D!Available, D!AvailableBalance, D!Summary, D!StatusAfter, D!ProtocolFee,
         D!BPS_DENOMINATOR, D!NetAmount, D!ReversedFee, D!Released, D!RolledBack, D!Refunded,
         D!CallerRole, D!MayApprove, D!MayRelease, D!IsParticipant, D!HoldsRole, D!Role,
         D!AuthorizedRoles, D!ApprovedBy, D!SufficientApprovals, D!With, D!AmountOf,
         D!SumFunctionOnSet, D!FoldFunctionOnSet, D!MapThenFoldSet, D!Cardinality

LEMMA SameChanges ==
  /\ \A amount : D!TransferOut(amount) <=> TransferOut(amount)
  /\ \A id, i : D!ClearApprovals(id, i) <=> ClearApprovals(id, i)
  /\ \A c : D!CreditOnCompletion(c) <=> CreditOnCompletion(c)
  /\ \A id, finalizer : D!Finalizable(id, finalizer) <=> Finalizable(id, finalizer)
  /\ \A t : D!AcceptableTerms(t) <=> AcceptableTerms(t)
  BY DEF TransferOut, ClearApprovals, CreditOnCompletion, GrantPendingReputationCredit,
      Finalizable, Exists, Finalized, IsParticipant, HoldsRole, Role, AcceptableTerms,
      TotalAmount, SumFunction, SumFunctionOnSet,
      FoldFunctionOnSet, MapThenFoldSet, Stroops,
      D!TransferOut, D!ClearApprovals, D!CreditOnCompletion, D!GrantPendingReputationCredit,
      D!Finalizable, D!Exists, D!Finalized, D!IsParticipant, D!HoldsRole, D!Role,
      D!AcceptableTerms, D!TotalAmount, D!SumFunction, D!SumFunctionOnSet,
      D!FoldFunctionOnSet, D!MapThenFoldSet, D!Stroops

LEMMA SameAwards ==
  /\ \A available, r : D!ResolutionAccepted(available, r) = ResolutionAccepted(available, r)
  /\ \A available, r : D!ClientPayout(available, r) = ClientPayout(available, r)
  /\ \A available, r : D!FreelancerPayout(available, r) = FreelancerPayout(available, r)
  /\ \A c : D!FinalStatusAfterResolution(c) = FinalStatusAfterResolution(c)
  BY DEF ResolutionAccepted, ValidSplit, Stroops, ClientPayout, FreelancerPayout,
      PartialRefundFreelancerLeg, FinalStatusAfterResolution,
      PARTIAL_REFUND_FREELANCER_SHARE, PARTIAL_REFUND_DENOMINATOR,
      D!ResolutionAccepted, D!ValidSplit, D!Stroops, D!ClientPayout, D!FreelancerPayout,
      D!PartialRefundFreelancerLeg, D!FinalStatusAfterResolution,
      D!PARTIAL_REFUND_FREELANCER_SHARE, D!PARTIAL_REFUND_DENOMINATOR

(* The guards of the calls that move money, and what they make of the      *)
(* contract.                                                               *)
LEMMA SameCalls ==
  /\ \A f : D!TotalAmount(f) = TotalAmount(f)
  /\ \A id, amount : D!CanDeposit(id, amount) <=> CanDeposit(id, amount)
  /\ \A id, i, caller : D!CanRelease(id, i, caller) <=> CanRelease(id, i, caller)
  /\ \A id, indices : D!CanRefund(id, indices) <=> CanRefund(id, indices)
  /\ \A id, caller, r : D!CanResolve(id, caller, r) <=> CanResolve(id, caller, r)
  /\ \A c, total, amount : D!Deposited(c, total, amount) = Deposited(c, total, amount)
  /\ \A c, m, net : D!Paid(c, m, net) = Paid(c, m, net)
  /\ \A c, m, total : D!TakenBack(c, m, total) = TakenBack(c, m, total)
<1>1. \A f : D!TotalAmount(f) = TotalAmount(f)
  BY DEF TotalAmount, SumFunction, SumFunctionOnSet, FoldFunctionOnSet, MapThenFoldSet,
         D!TotalAmount, D!SumFunction, D!SumFunctionOnSet, D!FoldFunctionOnSet, D!MapThenFoldSet
<1>2. ASSUME NEW id, NEW amount PROVE D!CanDeposit(id, amount) <=> CanDeposit(id, amount)
  BY <1>1, SameOperators DEF CanDeposit, D!CanDeposit
<1>3. ASSUME NEW id, NEW i, NEW caller
      PROVE  D!CanRelease(id, i, caller) <=> CanRelease(id, i, caller)
  BY SameOperators DEF CanRelease, D!CanRelease
<1>4. ASSUME NEW id, NEW indices PROVE D!CanRefund(id, indices) <=> CanRefund(id, indices)
  BY SameOperators DEF CanRefund, D!CanRefund
<1>5. /\ \A c, total, amount : D!Deposited(c, total, amount) = Deposited(c, total, amount)
      /\ \A c, m, net : D!Paid(c, m, net) = Paid(c, m, net)
      /\ \A c, m, total : D!TakenBack(c, m, total) = TakenBack(c, m, total)
  BY SameOperators DEF Deposited, Paid, TakenBack, D!Deposited, D!Paid, D!TakenBack
<1>6. ASSUME NEW id, NEW caller, NEW r
      PROVE  D!CanResolve(id, caller, r) <=> CanResolve(id, caller, r)
  BY SameOperators, SameAwards DEF CanResolve, D!CanResolve
<1> QED
  BY <1>1, <1>2, <1>3, <1>4, <1>5, <1>6

LEMMA SameTuples ==
  /\ D!books = books /\ D!books' = books'
  /\ D!funds = funds /\ D!funds' = funds'
  /\ D!control = control /\ D!control' = control'
  /\ UNCHANGED D!records <=> UNCHANGED <<approvals, Recorded, finalization, pending_credits>>
  BY DEF books, funds, control, D!records, D!funds, D!control, D!books


LEMMA CreateMaps ==
  ASSUME NEW t, CreateContract(t), UNCHANGED Recorded
  PROVE  D!CreateContract(t)
<1>1. D!NewContract(t) = NewContract(t) /\ D!NewMilestones(t) = NewMilestones(t)
  BY DEF NewContract, NewMilestones, D!NewContract, D!NewMilestones
<1> QED
  BY <1>1, SameOperators, SameChanges, SameTuples DEF CreateContract, records, D!CreateContract

LEMMA DepositMaps ==
  ASSUME NEW id, NEW amount, DepositFunds(id, amount), UNCHANGED Recorded
  PROVE  D!DepositFunds(id, amount)
  BY SameCalls, SameTuples DEF DepositFunds, records, D!DepositFunds

LEMMA ApproveMaps ==
  ASSUME NEW id, NEW indices, NEW caller, ApproveMilestones(id, indices, caller),
         UNCHANGED Recorded
  PROVE  D!ApproveMilestones(id, indices, caller)
<1> DEFINE flags == {<<id, i, CallerRole(contracts[id], caller)>> : i \in indices}
<1>1. flags = {<<id, i, D!CallerRole(contracts[id], caller)>> : i \in indices}
  BY SameOperators
<1> HIDE DEF flags
<1>2. /\ D!NotPaused /\ ~D!Finalized(id) /\ Cardinality(indices) <= MAX_BATCH_APPROVALS
      /\ contracts[id].status \in {"Funded", "PartiallyFunded"}
      /\ indices \subseteq D!Indices(id) \ milestones[id].released
      /\ D!MayApprove(contracts[id], caller)
      /\ flags \cap approvals = {} /\ approvals' = approvals \cup flags
      /\ UNCHANGED <<books, Recorded, finalization, pending_credits, funds, control>>
  BY SameOperators DEF ApproveMilestones, flags
<1> QED
  BY <1>1, <1>2, SameOperators, SameTuples DEF D!ApproveMilestones

LEMMA ExpireMaps ==
  ASSUME NEW id, NEW i, ExpireApprovals(id, i), UNCHANGED Recorded
  PROVE  D!ExpireApprovals(id, i)
  BY SameOperators, SameChanges, SameTuples DEF ExpireApprovals, D!ExpireApprovals

LEMMA ReleaseMaps ==
  ASSUME NEW id, NEW i, NEW caller, ReleaseMilestone(id, i, caller), UNCHANGED Recorded
  PROVE  D!ReleaseMilestone(id, i, caller)
  BY SameOperators, SameChanges, SameCalls, SameTuples DEF ReleaseMilestone, D!ReleaseMilestone

LEMMA RollbackMaps ==
  ASSUME NEW id, NEW i, RollbackMilestone(id, i), UNCHANGED Recorded
  PROVE  D!RollbackMilestone(id, i)
<1> DEFINE c        == contracts[id]
           m        == milestones[id]
           fee      == IF i \in m.released THEN m.protocol_fee[i] ELSE 0
           released == IF i \in m.released THEN NetAmount(m.amounts[i], fee) ELSE 0
           refunded == IF i \in m.refunded THEN m.amounts[i] ELSE 0
           reversed == ReversedFee(fee)
<1>1. /\ released = (IF i \in m.released THEN D!NetAmount(m.amounts[i], fee) ELSE 0)
      /\ reversed = D!ReversedFee(fee)
  BY SameOperators
<1> HIDE DEF released, reversed
<1>2. /\ D!NotPaused /\ ~D!Finalized(id) /\ c.status \in D!RollbackStatus
      /\ i \in m.released \cup m.refunded
      /\ contracts' = [contracts EXCEPT ![id] =
           [c EXCEPT !.released_amount = @ - released, !.refunded_amount = @ - refunded]]
      /\ milestones' = [milestones EXCEPT ![id] = D!RolledBack(m, i)]
      /\ accumulated_fees' = accumulated_fees - reversed
      /\ unrecovered' = unrecovered + released + refunded + (fee - reversed)
      /\ IF i \in m.released THEN D!ClearApprovals(id, i) ELSE UNCHANGED approvals
      /\ UNCHANGED <<next_contract_id, finalization, pending_credits, custody, undistributed, control>>
  BY SameOperators, SameChanges DEF RollbackMilestone, released, reversed
<1> QED
  BY <1>1, <1>2, SameTuples DEF D!RollbackMilestone

LEMMA RefundMaps ==
  ASSUME NEW id, NEW indices, RefundUnreleasedMilestones(id, indices), UNCHANGED Recorded
  PROVE  D!RefundUnreleasedMilestones(id, indices)
  BY SameOperators, SameChanges, SameCalls, SameTuples
  DEF RefundUnreleasedMilestones, D!RefundUnreleasedMilestones

LEMMA CancelMaps ==
  ASSUME NEW id, CancelContract(id), UNCHANGED Recorded
  PROVE  D!CancelContract(id)
  BY SameOperators, SameChanges, SameTuples DEF CancelContract, records, D!CancelContract

LEMMA FinalizeMaps ==
  ASSUME NEW id, NEW finalizer, FinalizeContract(id, finalizer), UNCHANGED Recorded
  PROVE  D!FinalizeContract(id, finalizer)
  BY SameOperators, SameChanges, SameTuples
  DEF FinalizeContract, WriteFinalizations, D!FinalizeContract, D!WriteFinalizations

LEMMA RollbackContractMaps ==
  ASSUME NEW id, RollbackContract(id), UNCHANGED Recorded
  PROVE  D!RollbackContract(id)
  BY SameOperators, SameTuples DEF RollbackContract, D!RollbackContract

LEMMA AdministerMaps == Administer /\ UNCHANGED Recorded => D!Administer
<1> SUFFICES ASSUME Administer, UNCHANGED Recorded PROVE D!Administer
  OBVIOUS
<1>1. ASSUME NEW id \in DOMAIN contracts, NEW i \in Indices(id), RollbackMilestone(id, i)
      PROVE  D!Administer
  BY <1>1, RollbackMaps, SameOperators DEF D!Administer
<1>2. ASSUME NEW id \in DOMAIN contracts, RollbackContract(id) PROVE D!Administer
  BY <1>2, RollbackContractMaps DEF D!Administer
<1>3. ASSUME NEW amount \in 1 .. accumulated_fees, WithdrawProtocolFees(amount) PROVE D!Administer
  <2>1. D!WithdrawProtocolFees(amount)
    BY <1>3, SameChanges, SameTuples DEF WithdrawProtocolFees, records, D!WithdrawProtocolFees
  <2> QED
    BY <2>1 DEF D!Administer
<1>4. ASSUME NEW bps \in FeeRates, SetProtocolFeeBps(bps) PROVE D!Administer
  <2>1. D!SetProtocolFeeBps(bps)
    BY <1>4, SameTuples
    DEF SetProtocolFeeBps, records, BPS_DENOMINATOR, D!SetProtocolFeeBps, D!BPS_DENOMINATOR
  <2> QED
    BY <2>1 DEF D!Administer
<1>5. ASSUME Pause \/ Unpause \/ ActivateEmergencyPause \/ ResolveEmergency PROVE D!Administer
  <2>1. D!Pause \/ D!Unpause \/ D!ActivateEmergencyPause \/ D!ResolveEmergency
    BY <1>5, SameTuples
    DEF Pause, Unpause, ActivateEmergencyPause, ResolveEmergency, records,
        D!Pause, D!Unpause, D!ActivateEmergencyPause, D!ResolveEmergency
  <2> QED
    BY <2>1 DEF D!Administer
<1> QED
  BY <1>1, <1>2, <1>3, <1>4, <1>5 DEF Administer

(* What Escrow's invariant says of the mapped books it says of the books.  *)
LEMMA SameInvariants == D!BooksInv /\ disputes \subseteq Recorded => BooksInv
<1>1. D!BooksTypeOK = BooksTypeOK /\ D!FundsTypeOK = FundsTypeOK /\ D!ControlTypeOK = ControlTypeOK
  BY DEF BooksTypeOK, ContractType, ContractStatus, ReleaseAuthorization, MilestonesType,
         FundsTypeOK, ControlTypeOK, BPS_DENOMINATOR,
         D!BooksTypeOK, D!ContractType, D!ContractStatus, D!ReleaseAuthorization,
         D!MilestonesType, D!FundsTypeOK, D!ControlTypeOK, D!BPS_DENOMINATOR
<1>2. D!RecordsTypeOK /\ disputes \subseteq Recorded => RecordsTypeOK
  BY DEF RecordsTypeOK, Role, Indices, D!RecordsTypeOK, D!Role, D!Indices
<1>3. D!FeesRecorded = FeesRecorded /\ D!AccountingBound = AccountingBound
  BY DEF FeesRecorded, VectorOK, AccountingBound, TotalAmount, SumFunction, SumFunctionOnSet,
         FoldFunctionOnSet, MapThenFoldSet,
         D!FeesRecorded, D!VectorOK, D!AccountingBound, D!TotalAmount, D!SumFunction,
         D!SumFunctionOnSet, D!FoldFunctionOnSet, D!MapThenFoldSet
<1>4. \A c, m : D!BookOK(c, m) = BookOK(c, m)
  BY DEF BookOK, VectorInv, MilestonesType, VectorOK, FlagsOK, ContractOK, CountersOK, OpenStatus,
         NetPaid, Returned, StageOK, Left, AmountOf, TotalAmount, SumFunction, SumFunctionOnSet,
         FoldFunctionOnSet, MapThenFoldSet,
         D!BookOK, D!VectorInv, D!MilestonesType, D!VectorOK, D!FlagsOK, D!ContractOK,
         D!CountersOK, D!OpenStatus, D!NetPaid, D!Returned, D!StageOK, D!Left, D!AmountOf,
         D!TotalAmount, D!SumFunction, D!SumFunctionOnSet, D!FoldFunctionOnSet, D!MapThenFoldSet
<1> QED
  BY <1>1, <1>2, <1>3, <1>4 DEF TypeOK, AccountingInv, BooksInv, D!TypeOK, D!AccountingInv, D!BooksInv

(***************************************************************************)
(* The steps that are not about raising or resolving a dispute.            *)
(***************************************************************************)
OtherStep ==
  \/ \E t \in Terms : CreateContract(t)
  \/ \E id \in DOMAIN contracts :
       \/ \E amount \in DepositAmounts : DepositFunds(id, amount)
       \/ \E caller \in Address, i \in Indices(id) : ApproveMilestones(id, {i}, caller)
       \/ \E caller \in Address, i \in Indices(id) : ReleaseMilestone(id, i, caller)
       \/ \E indices \in SUBSET Indices(id) : RefundUnreleasedMilestones(id, indices)
       \/ CancelContract(id)
       \/ \E finalizer \in Address : FinalizeContract(id, finalizer)
       \/ \E i \in Indices(id) : ExpireApprovals(id, i)
  \/ Administer

LEMMA OtherMaps == OtherStep /\ UNCHANGED Recorded => D!Next
<1> SUFFICES ASSUME OtherStep, UNCHANGED Recorded PROVE D!Next
  OBVIOUS
<1>1. \A id : D!Indices(id) = Indices(id)
  BY SameOperators
<1>2. ASSUME NEW t \in Terms, CreateContract(t) PROVE D!Next
  BY <1>2, CreateMaps DEF D!Next
<1>3. ASSUME NEW id \in DOMAIN contracts, NEW amount \in DepositAmounts, DepositFunds(id, amount)
      PROVE  D!Next
  BY <1>3, DepositMaps DEF D!Next, D!Participate
<1>4. ASSUME NEW id \in DOMAIN contracts, NEW caller \in Address, NEW i \in Indices(id),
             ApproveMilestones(id, {i}, caller)
      PROVE  D!Next
  <2>1. D!Participate(id)
    BY <1>1, <1>4, ApproveMaps DEF D!Participate
  <2> QED
    BY <2>1 DEF D!Next
<1>5. ASSUME NEW id \in DOMAIN contracts, NEW caller \in Address, NEW i \in Indices(id),
             ReleaseMilestone(id, i, caller)
      PROVE  D!Next
  <2>1. D!Participate(id)
    BY <1>1, <1>5, ReleaseMaps DEF D!Participate
  <2> QED
    BY <2>1 DEF D!Next
<1>6. ASSUME NEW id \in DOMAIN contracts, NEW indices \in SUBSET Indices(id),
             RefundUnreleasedMilestones(id, indices)
      PROVE  D!Next
  <2>1. D!Participate(id)
    BY <1>1, <1>6, RefundMaps DEF D!Participate
  <2> QED
    BY <2>1 DEF D!Next
<1>7. ASSUME NEW id \in DOMAIN contracts, CancelContract(id) PROVE D!Next
  BY <1>7, CancelMaps DEF D!Next, D!Participate
<1>8. ASSUME NEW id \in DOMAIN contracts, NEW finalizer \in Address, FinalizeContract(id, finalizer)
      PROVE  D!Next
  BY <1>8, FinalizeMaps DEF D!Next, D!Participate
<1>9. ASSUME NEW id \in DOMAIN contracts, NEW i \in Indices(id), ExpireApprovals(id, i)
      PROVE  D!Next
  BY <1>1, <1>9, ExpireMaps DEF D!Next
<1>10. ASSUME Administer PROVE D!Next
  BY <1>10, AdministerMaps DEF D!Next
<1> QED
  BY <1>2, <1>3, <1>4, <1>5, <1>6, <1>7, <1>8, <1>9, <1>10 DEF OtherStep

LEMMA OtherIsNext == OtherStep => Next
<1> SUFFICES ASSUME OtherStep PROVE Next
  OBVIOUS
<1>1. ASSUME NEW id \in DOMAIN contracts, NEW caller \in Address, NEW i \in Indices(id),
             ApproveMilestones(id, {i}, caller)
      PROVE  Participate(id)
  BY <1>1 DEF Participate
<1> QED
  BY <1>1 DEF OtherStep, Next, Participate

(* No such step opens a dispute, ends one but by disposing of the last     *)
(* milestone, or does anything to a contract that was completed or         *)
(* refunded.                                                               *)
QuietMove(c, m, c2, m2) ==
  /\ c.status # "Disputed" => c2.status # "Disputed"
  /\ c.status = "Disputed" =>
       \/ c2.status = "Disputed"
       \/ c2.status \in {"Completed", "Refunded"} /\ Left(m2) = {}
  /\ c.status \in {"Completed", "Refunded"} => c2.status = c.status /\ Left(m2) = Left(m)

LEMMA OtherIsQuiet ==
  ASSUME BooksInv, OtherStep, NEW x \in DOMAIN contracts
  PROVE  /\ x \in DOMAIN contracts'
         /\ QuietMove(contracts[x], milestones[x], contracts'[x], milestones'[x])
<1> DEFINE Goal == x \in DOMAIN contracts'
                   /\ QuietMove(contracts[x], milestones[x], contracts'[x], milestones'[x])
<1>1. TypeOK /\ AccountingInv
  BY DEF BooksInv, AccountingInv
<1>2. ASSUME x \in DOMAIN contracts', contracts'[x] = contracts[x], milestones'[x] = milestones[x]
      PROVE  Goal
  BY <1>2 DEF QuietMove
<1>3. ASSUME NEW id \in DOMAIN contracts, NEW c2, NEW m2, Becomes(id, c2, m2),
             QuietMove(contracts[id], milestones[id], c2, m2)
      PROVE  Goal
  <2>1. /\ DOMAIN contracts' = DOMAIN contracts /\ contracts'[id] = c2 /\ milestones'[id] = m2
        /\ x # id => contracts'[x] = contracts[x] /\ milestones'[x] = milestones[x]
    BY <1>1, <1>3, OneContractChanges DEF Becomes
  <2> QED
    BY <1>2, <1>3, <2>1
<1>4. UNCHANGED books => Goal
  BY <1>2 DEF books
<1> HIDE DEF Goal
<1>5. ASSUME NEW t \in Terms, CreateContract(t) PROVE Goal
  BY <1>1, <1>2, <1>5, NewContractApart
<1>6. ASSUME NEW id \in DOMAIN contracts, NEW amount \in DepositAmounts, DepositFunds(id, amount)
      PROVE  Goal
  <2>1. PICK c2 : DepositWith(id, contracts[id], milestones[id], c2, amount)
    BY <1>1, <1>6, DepositEffect
  <2> QED
    BY <1>3, <2>1 DEF DepositWith, QuietMove
<1>7. ASSUME NEW id \in DOMAIN contracts, NEW caller \in Address, NEW i \in Indices(id),
             ReleaseMilestone(id, i, caller)
      PROVE  Goal
  <2>1. PICK c2, fee, m2 : ReleaseWith(id, i, contracts[id], milestones[id], c2, m2, fee)
    BY <1>1, <1>7, ReleaseEffect
  <2>2. c2.status # "Disputed"
    BY <2>1 DEF ReleaseWith, StatusAfter
  <2> QED
    BY <1>3, <2>1, <2>2 DEF ReleaseWith, QuietMove
<1>8. ASSUME NEW id \in DOMAIN contracts, NEW indices \in SUBSET Indices(id),
             RefundUnreleasedMilestones(id, indices)
      PROVE  Goal
  <2>1. PICK c2, m2, total : RefundWith(id, indices, contracts[id], milestones[id], c2, m2, total)
    BY <1>1, <1>8, RefundEffect
  <2>2. \/ c2.status = contracts[id].status
        \/ c2.status \in {"Completed", "Refunded"} /\ Left(m2) = {}
    BY <2>1, StatusAfterCases DEF RefundWith, Left
  <2> QED
    BY <1>3, <2>1, <2>2 DEF RefundWith, QuietMove
<1>9. ASSUME NEW id \in DOMAIN contracts, CancelContract(id) PROVE Goal
  <2>1. PICK c2, left : CancelWith(id, contracts[id], milestones[id], c2, left)
    BY <1>1, <1>9, CancelEffect
  <2> QED
    BY <1>3, <2>1 DEF CancelWith, QuietMove
<1>10. ASSUME NEW id \in DOMAIN contracts, NEW i \in Indices(id), RollbackMilestone(id, i) PROVE Goal
  <2>1. PICK c2, m2, fee, released, refunded, reversed :
          RollbackWith(id, i, contracts[id], milestones[id], c2, m2, fee, released, refunded, reversed)
    BY <1>1, <1>10, RollbackEffect
  <2> QED
    BY <1>3, <2>1 DEF RollbackWith, RollbackStatus, QuietMove
<1>11. ASSUME Bookkeeping PROVE Goal
  BY <1>4, <1>11, BooksUntouched
<1>12. ASSUME NEW id \in DOMAIN contracts, NEW caller \in Address, NEW i \in Indices(id),
              ApproveMilestones(id, {i}, caller)
       PROVE  Bookkeeping
  BY <1>12 DEF Bookkeeping
<1>13. Administer => Bookkeeping
                     \/ \E id \in DOMAIN contracts : \E i \in Indices(id) : RollbackMilestone(id, i)
  BY DEF Administer, Bookkeeping
<1>14. ASSUME NEW id \in DOMAIN contracts, NEW finalizer \in Address, FinalizeContract(id, finalizer)
       PROVE  Bookkeeping
  BY <1>14 DEF Bookkeeping
<1>15. ASSUME NEW id \in DOMAIN contracts, NEW i \in Indices(id), ExpireApprovals(id, i)
       PROVE  Bookkeeping
  BY <1>15 DEF Bookkeeping
<1>16. Goal
  BY <1>5, <1>6, <1>7, <1>8, <1>9, <1>10, <1>11, <1>12, <1>13, <1>14, <1>15 DEF OtherStep
<1> QED
  BY <1>16 DEF Goal

(***************************************************************************)
(* What is stored, what was raised, and the status.                        *)
(***************************************************************************)

(* Whoever raised a dispute is known for every one that is open, and an    *)
(* open one without a record is the status-only build's.                   *)
TrackedInv ==
  /\ build = "status_only" => disputes = {}
  /\ disputes \subseteq DOMAIN raised /\ DOMAIN raised \subseteq DOMAIN contracts
  /\ \A id \in DOMAIN contracts : Disputed(id) => id \in DOMAIN raised
  /\ \A id \in DOMAIN raised :
       /\ contracts[id].status \in {"Disputed", "Completed", "Refunded"}
       /\ Disputed(id) /\ id \notin disputes => raised[id].build = "status_only"

StorageInv == DisputeTypeOK /\ RaiserKept /\ TrackedInv

(* A build that is running, and what was stored before and is left alone.  *)
LEMMA StorageKept ==
  ASSUME StorageInv, UNCHANGED <<disputes, storage, raised>>, build' \in {build, "current"},
         DOMAIN contracts \subseteq DOMAIN contracts',
         \A id \in DOMAIN contracts : contracts'[id].client = contracts[id].client,
         TrackedInv'
  PROVE  StorageInv'
<1>1. disputes \subseteq DOMAIN contracts
  BY DEF StorageInv, TrackedInv
<1>2. DisputeTypeOK'
  BY DEF StorageInv, DisputeTypeOK, storage, GetDisputeStorageVersion
<1>3. RaiserKept'
  BY <1>1 DEF StorageInv, RaiserKept, storage
<1> QED
  BY <1>2, <1>3 DEF StorageInv

LEMMA OtherKeepsDisputes == OtherStep => UNCHANGED disputes
<1> SUFFICES ASSUME OtherStep PROVE UNCHANGED disputes
  OBVIOUS
<1>1. ASSUME NEW t, CreateContract(t) PROVE UNCHANGED disputes
  BY <1>1 DEF CreateContract, records
<1>2. ASSUME NEW id, NEW amount, DepositFunds(id, amount) PROVE UNCHANGED disputes
  BY <1>2 DEF DepositFunds, records
<1>3. ASSUME NEW id, NEW indices, NEW caller, ApproveMilestones(id, indices, caller)
      PROVE  UNCHANGED disputes
  BY <1>3 DEF ApproveMilestones
<1>4. ASSUME NEW id, NEW i, NEW caller, ReleaseMilestone(id, i, caller) PROVE UNCHANGED disputes
  BY <1>4 DEF ReleaseMilestone
<1>5. ASSUME NEW id, NEW indices, RefundUnreleasedMilestones(id, indices) PROVE UNCHANGED disputes
  BY <1>5 DEF RefundUnreleasedMilestones
<1>6. ASSUME NEW id, CancelContract(id) PROVE UNCHANGED disputes
  BY <1>6 DEF CancelContract, records
<1>7. ASSUME NEW id, NEW finalizer, FinalizeContract(id, finalizer) PROVE UNCHANGED disputes
  BY <1>7 DEF FinalizeContract, WriteFinalizations
<1>8. ASSUME NEW id, NEW i, ExpireApprovals(id, i) PROVE UNCHANGED disputes
  BY <1>8 DEF ExpireApprovals
<1>9. ASSUME Administer PROVE UNCHANGED disputes
  BY <1>9 DEF Administer, RollbackMilestone, RollbackContract, WithdrawProtocolFees,
     SetProtocolFeeBps, Pause, Unpause, ActivateEmergencyPause, ResolveEmergency, records
<1> QED
  BY <1>1, <1>2, <1>3, <1>4, <1>5, <1>6, <1>7, <1>8, <1>9 DEF OtherStep

LEMMA OtherStepMaps ==
  ASSUME BooksInv, StorageInv, OtherStep, UNCHANGED <<build, storage, raised>>
  PROVE  D!Next /\ StorageInv'
<1>1. UNCHANGED disputes
  BY OtherKeepsDisputes
<1>2. \A id \in DOMAIN contracts :
        /\ id \in DOMAIN contracts'
        /\ QuietMove(contracts[id], milestones[id], contracts'[id], milestones'[id])
  BY OtherIsQuiet
<1>3. ASSUME NEW id \in DOMAIN raised
      PROVE  Disputed(id)' \/ Unresolved(id)' = {} <=> Disputed(id) \/ Unresolved(id) = {}
  <2>1. id \in DOMAIN contracts /\ contracts[id].status \in {"Disputed", "Completed", "Refunded"}
    BY DEF StorageInv, TrackedInv
  <2> QED
    BY <1>2, <2>1 DEF QuietMove, Disputed, Left, Unresolved, Indices
<1>4. UNCHANGED Recorded
  BY <1>1, <1>3 DEF Recorded
<1>5. D!Next
  BY <1>4, OtherMaps
<1>6. TrackedInv'
  <2>1. ASSUME NEW id \in DOMAIN contracts', Disputed(id)' PROVE id \in DOMAIN raised
    <3>1. id \in DOMAIN contracts
      <4>1. AccountingInv /\ TypeOK
        BY DEF BooksInv, AccountingInv
      <4> QED
        BY <2>1, <4>1, OtherIsNext, NewIdsAreCreated, NewContractApart DEF Disputed
    <3> QED
      BY <1>2, <2>1, <3>1 DEF QuietMove, Disputed, StorageInv, TrackedInv
  <2> QED
    BY <1>1, <1>2, <2>1 DEF QuietMove, Disputed, StorageInv, TrackedInv
<1>7. \A id \in DOMAIN contracts : contracts'[id].client = contracts[id].client
  <2>1. AccountingInv /\ Next
    BY OtherIsNext DEF BooksInv
  <2> QED
    BY <2>1, NextKeepsDeal DEF DealKept, Onward, SameDeal
<1> QED
  BY <1>1, <1>2, <1>5, <1>6, <1>7, StorageKept

(***************************************************************************)
(* A dispute is raised, under one build or another.                        *)
(***************************************************************************)
Raise(id, caller) ==
  RaiseStatusOnly(id, caller) \/ RaiseV0(id, caller) \/ RaiseCurrent(id, caller)

(* What the three have in common.                                          *)
LEMMA RaiseFacts ==
  ASSUME BooksInv, StorageInv, NEW id \in DOMAIN contracts, NEW caller, Raise(id, caller)
  PROVE  LET c == contracts[id] IN
         /\ NotPaused /\ ~Finalized(id) /\ caller \in {c.client, c.freelancer}
         /\ c.arbiter # NoArbiter /\ c.status \in DisputableStatus
         /\ contracts' = [contracts EXCEPT ![id] = [c EXCEPT !.status = "Disputed"]]
         /\ DOMAIN raised' = DOMAIN raised \cup {id}
         /\ raised'[id] = [build |-> build, by |-> caller]
         /\ \A x \in DOMAIN raised \ {id} : raised'[x] = raised[x]
         /\ disputes' = IF build = "status_only" THEN disputes ELSE disputes \cup {id}
         /\ UNCHANGED <<next_contract_id, milestones, approvals, finalization, pending_credits,
                        funds, control, build>>
  BY DEF Raise, RaiseStatusOnly, RaiseV0, RaiseCurrent, RaiseDispute, StoreDispute, Raised, With,
         DisputableStatus, records

LEMMA RaisedContract ==
  ASSUME BooksInv, StorageInv, NEW id \in DOMAIN contracts, NEW caller, Raise(id, caller)
  PROVE  /\ contracts'[id].status = "Disputed" /\ DOMAIN contracts' = DOMAIN contracts
         /\ \A x \in DOMAIN contracts \ {id} : contracts'[x] = contracts[x]
<1> DEFINE c2 == [contracts[id] EXCEPT !.status = "Disputed"]
<1>1. contracts[id] \in ContractType
  BY ContractFacts DEF BooksInv
<1>2. c2.status = "Disputed"
  BY <1>1 DEF ContractType
<1>3. contracts' = [contracts EXCEPT ![id] = c2]
  BY RaiseFacts
<1> HIDE DEF c2
<1> QED
  BY <1>2, <1>3

LEMMA RaiseMaps ==
  ASSUME BooksInv, StorageInv, NEW id \in DOMAIN contracts, NEW caller, Raise(id, caller)
  PROVE  D!RaiseDispute(id, caller) /\ id \notin DOMAIN raised
<1>1. TypeOK
  BY DEF BooksInv, AccountingInv
<1>2. id \notin DOMAIN raised /\ id \notin disputes /\ id \notin Recorded
  BY RaiseFacts DEF DisputableStatus, StorageInv, TrackedInv, Recorded
<1>3. /\ contracts'[id].status = "Disputed"
      /\ \A x \in DOMAIN contracts \ {id} : contracts'[x] = contracts[x]
  BY RaisedContract
<1>4. Recorded' = Recorded \cup {id}
  <2>1. \A x : x # id =>
          (x \in DOMAIN raised' /\ (Disputed(x)' \/ Unresolved(x)' = {}) <=>
             x \in DOMAIN raised /\ (Disputed(x) \/ Unresolved(x) = {}))
    <3>1. DOMAIN raised \subseteq DOMAIN contracts /\ DOMAIN raised' = DOMAIN raised \cup {id}
      BY RaiseFacts DEF StorageInv, TrackedInv
    <3>2. UNCHANGED milestones
      BY RaiseFacts
    <3> QED
      BY <1>3, <3>1, <3>2 DEF Disputed, Unresolved, Indices
  <2>2. id \in DOMAIN raised' /\ Disputed(id)'
    BY <1>3, RaiseFacts DEF Disputed
  <2>3. disputes' = disputes \/ disputes' = disputes \cup {id}
    BY RaiseFacts
  <2> QED
    BY <2>1, <2>2, <2>3 DEF Recorded
<1>5. D!RaiseDispute(id, caller)
  BY <1>4, RaiseFacts, SameOperators, SameTuples
  DEF DisputableStatus, D!RaiseDispute, D!StoreDispute, D!DisputableStatus
<1> QED
  BY <1>2, <1>5

LEMMA RaiseKeepsStorage ==
  ASSUME BooksInv, StorageInv, NEW id \in DOMAIN contracts, NEW caller \in Address,
         Raise(id, caller)
  PROVE  StorageInv'
<1>1. TypeOK
  BY DEF BooksInv, AccountingInv
<1>2. id \notin DOMAIN raised /\ id \notin disputes
  BY RaiseMaps DEF StorageInv, TrackedInv
<1>3. /\ contracts'[id].status = "Disputed" /\ DOMAIN contracts' = DOMAIN contracts
      /\ \A x \in DOMAIN contracts \ {id} : contracts'[x] = contracts[x]
  BY RaisedContract
<1>4. TrackedInv'
  <2>1. /\ DOMAIN raised' = DOMAIN raised \cup {id}
        /\ raised'[id] = [build |-> build, by |-> caller]
        /\ \A x \in DOMAIN raised \ {id} : raised'[x] = raised[x]
        /\ disputes' = IF build = "status_only" THEN disputes ELSE disputes \cup {id}
        /\ build' = build
    BY RaiseFacts
  <2> QED
    BY <1>2, <1>3, <2>1 DEF StorageInv, TrackedInv, Disputed
<1>5. CASE RaiseStatusOnly(id, caller)
  <2>1. build = "status_only" /\ UNCHANGED storage
    BY <1>5 DEF RaiseStatusOnly
  <2>2. disputes = {} /\ disputes' = {}
    BY <2>1, RaiseFacts DEF StorageInv, TrackedInv
  <2>3. DisputeTypeOK'
    BY <2>1, <2>2, RaiseFacts DEF StorageInv, DisputeTypeOK, storage
  <2>4. RaiserKept'
    BY <2>2 DEF RaiserKept
  <2> QED
    BY <1>4, <2>3, <2>4 DEF StorageInv
<1>6. CASE RaiseV0(id, caller) \/ RaiseCurrent(id, caller)
  <2>1. /\ build \in {"v0", "current"} /\ build' = build
        /\ disputes' = disputes \cup {id}
        /\ raised'[id] = [build |-> build, by |-> caller]
        /\ \A x \in disputes : raised'[x] = raised[x]
    BY <1>2, <1>6, RaiseFacts DEF RaiseV0, RaiseCurrent, StorageInv, TrackedInv
  <2>2. /\ DOMAIN dispute_record' = disputes'
        /\ dispute_record'[id].raised_by = caller
        /\ dispute_record'[id].schema_version = GetDisputeStorageVersion(id)'
        /\ DOMAIN dispute_version' \subseteq disputes'
        /\ \A x \in disputes : /\ dispute_record'[x] = dispute_record[x]
                               /\ GetDisputeStorageVersion(x)' = GetDisputeStorageVersion(x)
    <3>1. disputes = DOMAIN dispute_record /\ DOMAIN dispute_version \subseteq disputes
      BY DEF StorageInv, DisputeTypeOK
    <3>2. CASE RaiseV0(id, caller)
      BY <1>2, <2>1, <3>1, <3>2 DEF RaiseV0, With, Metadata, GetDisputeStorageVersion
    <3>3. CASE RaiseCurrent(id, caller)
      BY <1>2, <2>1, <3>1, <3>3
      DEF RaiseCurrent, StoreDisputeMetadata, With, Metadata, GetDisputeStorageVersion
    <3> QED
      BY <1>6, <3>2, <3>3
  <2>3. DisputeTypeOK'
    BY <2>1, <2>2 DEF StorageInv, DisputeTypeOK
  <2>4. RaiserKept'
    <3>1. disputes \subseteq DOMAIN contracts \ {id}
      BY <1>2 DEF StorageInv, TrackedInv
    <3> QED
      BY <1>3, <2>1, <2>2, <3>1 DEF StorageInv, RaiserKept
  <2> QED
    BY <1>4, <2>3, <2>4 DEF StorageInv
<1> QED
  BY <1>5, <1>6 DEF Raise

(***************************************************************************)
(* A dispute is resolved.                                                  *)
(***************************************************************************)

Resolve(id, caller, r) == ResolveStatusOnly(id, caller, r) \/ ResolveCurrent(id, caller, r)

(* The status-only build does not check that the award is complete, and    *)
(* does not have to.                                                       *)
LEMMA ResolveFacts ==
  ASSUME BooksInv, StorageInv, NEW id \in DOMAIN contracts, NEW caller, NEW r \in Resolutions,
         Resolve(id, caller, r)
  PROVE  LET c  == contracts[id]
             c1 == Awarded(id, r)
             c2 == [c1 EXCEPT !.status = FinalStatusAfterResolution(c1)]
         IN
         /\ NotPaused /\ ~Finalized(id) /\ c.status = "Disputed" /\ caller = c.arbiter
         /\ ResolutionAccepted(Available(id), r)
         /\ c1.refunded_amount \in Stroops /\ c1.released_amount \in Stroops
         /\ c1.released_amount + c1.refunded_amount = c.funded_amount
         /\ contracts' = [contracts EXCEPT ![id] = c2]
         /\ CreditOnCompletion(c2)
         /\ disputes' = disputes \ {id}
         /\ undistributed' = undistributed + Available(id)
         /\ UNCHANGED <<next_contract_id, milestones, approvals, finalization, custody,
                        accumulated_fees, unrecovered, control, build, raised>>
<1> DEFINE c  == contracts[id]
           c1 == Awarded(id, r)
           c2 == [c1 EXCEPT !.status = FinalStatusAfterResolution(c1)]
<1>1. CASE ResolveCurrent(id, caller, r)
  BY <1>1 DEF ResolveCurrent, CanResolveCurrent, ResolveDispute, CanResolve, RemoveDispute, Awarded
<1>2. CASE ResolveStatusOnly(id, caller, r)
  <2>1. disputes' = disputes \ {id}
    BY <1>2 DEF ResolveStatusOnly, StorageInv, TrackedInv
  <2>2. c \in ContractType /\ Available(id) = c.funded_amount - c.released_amount - c.refunded_amount
    BY ContractFacts DEF BooksInv
  <2>3. Available(id) \in Int
    BY <2>2 DEF ContractType
  <2>4. ResolutionAccepted(Available(id), r)
    BY <1>2 DEF ResolveStatusOnly
  <2>5. /\ ClientPayout(Available(id), r) + FreelancerPayout(Available(id), r) = Available(id)
        /\ ClientPayout(Available(id), r) \in Int /\ FreelancerPayout(Available(id), r) \in Int
    BY <2>3, <2>4, LegsAddUp, PayoutsAreInt
  <2>6. /\ c1.refunded_amount = c.refunded_amount + ClientPayout(Available(id), r)
        /\ c1.released_amount = c.released_amount + FreelancerPayout(Available(id), r)
    BY <2>2 DEF Awarded, ContractType
  <2>7. c1.released_amount + c1.refunded_amount = c.funded_amount
    <3> HIDE DEF c1, c
    <3> QED
      BY <2>2, <2>5, <2>6 DEF ContractType
  <2> HIDE DEF c1
  <2> QED
    BY <1>2, <2>1, <2>7 DEF ResolveStatusOnly, c1
<1> QED
  BY <1>1, <1>2 DEF Resolve

(* The contract closes, with its milestones as they were: some are left,   *)
(* so that no record is counted for it any longer.                         *)
LEMMA ResolvedContract ==
  ASSUME BooksInv, StorageInv, NEW id \in DOMAIN contracts, NEW caller, NEW r \in Resolutions,
         Resolve(id, caller, r)
  PROVE  /\ contracts'[id].status \in {"Completed", "Refunded"}
         /\ contracts'[id].client = contracts[id].client
         /\ DOMAIN contracts' = DOMAIN contracts
         /\ \A x \in DOMAIN contracts \ {id} : contracts'[x] = contracts[x]
         /\ Recorded' = Recorded \ {id}
<1> DEFINE c1 == Awarded(id, r)
           c2 == [c1 EXCEPT !.status = FinalStatusAfterResolution(c1)]
<1>1. /\ contracts[id] \in ContractType /\ contracts[id].status = "Disputed"
      /\ Unresolved(id) # {}
  BY ContractFacts, ResolveFacts DEF BooksInv, BookOK, StageOK, Left, Unresolved, Indices
<1>2. c2.status \in {"Completed", "Refunded"} /\ c2.client = contracts[id].client
  BY <1>1 DEF ContractType, Awarded, FinalStatusAfterResolution
<1>3. /\ contracts' = [contracts EXCEPT ![id] = c2] /\ disputes' = disputes \ {id}
      /\ UNCHANGED <<milestones, raised>>
  BY ResolveFacts
<1> HIDE DEF c2
<1>4. /\ contracts'[id] = c2 /\ DOMAIN contracts' = DOMAIN contracts
      /\ \A x \in DOMAIN contracts \ {id} : contracts'[x] = contracts[x]
  BY <1>3
<1>5. DOMAIN raised \subseteq DOMAIN contracts
  BY DEF StorageInv, TrackedInv
<1>6. \A x \in DOMAIN raised \ {id} :
        Disputed(x)' \/ Unresolved(x)' = {} <=> Disputed(x) \/ Unresolved(x) = {}
  BY <1>3, <1>4, <1>5 DEF Disputed, Unresolved, Indices
<1>7. ~(Disputed(id)' \/ Unresolved(id)' = {})
  BY <1>1, <1>2, <1>3, <1>4 DEF Disputed, Unresolved, Indices
<1>8. Recorded' = Recorded \ {id}
  BY <1>3, <1>6, <1>7 DEF Recorded
<1> QED
  BY <1>2, <1>4, <1>8

LEMMA ResolveMaps ==
  ASSUME BooksInv, StorageInv, NEW id \in DOMAIN contracts, NEW caller, NEW r \in Resolutions,
         Resolve(id, caller, r)
  PROVE  D!ResolveDispute(id, caller, r)
<1> DEFINE c  == contracts[id]
           c1 == Awarded(id, r)
           c2 == [c1 EXCEPT !.status = FinalStatusAfterResolution(c1)]
<1>2. c1 = [c EXCEPT !.refunded_amount = @ + D!ClientPayout(D!Available(id), r),
                     !.released_amount = @ + D!FreelancerPayout(D!Available(id), r)]
  BY SameOperators, SameAwards DEF Awarded
<1>3. FinalStatusAfterResolution(c1) = D!FinalStatusAfterResolution(c1)
  BY SameAwards
<1>4. /\ NotPaused /\ ~Finalized(id) /\ c.status = "Disputed" /\ caller = c.arbiter
      /\ ResolutionAccepted(Available(id), r)
      /\ c1.refunded_amount \in Stroops /\ c1.released_amount \in Stroops
      /\ c1.released_amount + c1.refunded_amount = c.funded_amount
      /\ contracts' = [contracts EXCEPT ![id] = c2] /\ CreditOnCompletion(c2)
      /\ undistributed' = undistributed + Available(id)
      /\ UNCHANGED <<next_contract_id, milestones, approvals, finalization, custody,
                     accumulated_fees, unrecovered, control>>
  BY ResolveFacts
<1>5. D!CanResolve(id, caller, r)
  <2>1. c \in ContractType
    BY ContractFacts DEF BooksInv
  <2>2. /\ c1.refunded_amount = c.refunded_amount + D!ClientPayout(D!Available(id), r)
        /\ c1.released_amount = c.released_amount + D!FreelancerPayout(D!Available(id), r)
    BY <1>2, <2>1 DEF ContractType
  <2> HIDE DEF c1
  <2> QED
    BY <1>4, <2>2, SameOperators, SameAwards DEF D!CanResolve
<1> HIDE DEF c1
<1>6. D!CreditOnCompletion(c2) /\ undistributed' = undistributed + D!Available(id)
  BY <1>4, SameOperators, SameChanges
<1>7. D!RemoveDispute(id)
  BY ResolvedContract DEF D!RemoveDispute
<1> QED
  BY <1>2, <1>3, <1>4, <1>5, <1>6, <1>7, SameTuples DEF D!ResolveDispute

LEMMA ResolveKeepsStorage ==
  ASSUME BooksInv, StorageInv, NEW id \in DOMAIN contracts, NEW caller, NEW r \in Resolutions,
         Resolve(id, caller, r)
  PROVE  StorageInv'
<1>1. /\ contracts'[id].status \in {"Completed", "Refunded"}
      /\ DOMAIN contracts' = DOMAIN contracts
      /\ \A x \in DOMAIN contracts : contracts'[x].client = contracts[x].client
      /\ \A x \in DOMAIN contracts \ {id} : contracts'[x] = contracts[x]
      /\ disputes' = disputes \ {id} /\ UNCHANGED <<build, raised>>
  BY ResolvedContract, ResolveFacts
<1>2. TrackedInv'
  BY <1>1 DEF StorageInv, TrackedInv, Disputed
<1>3. CASE ResolveStatusOnly(id, caller, r)
  <2>1. disputes' = disputes /\ UNCHANGED storage
    BY <1>3 DEF ResolveStatusOnly
  <2> QED
    BY <1>1, <1>2, <2>1, StorageKept
<1>4. CASE ResolveCurrent(id, caller, r)
  <2>1. /\ dispute_record' = Without(dispute_record, id)
        /\ dispute_version' = Without(dispute_version, id)
    BY <1>4 DEF ResolveCurrent, CanResolveCurrent, RemoveDisputeMetadata
  <2>2. DisputeTypeOK'
    BY <1>1, <2>1 DEF StorageInv, DisputeTypeOK, Without, GetDisputeStorageVersion
  <2>3. RaiserKept'
    <3>1. disputes \subseteq DOMAIN contracts /\ disputes = DOMAIN dispute_record
      BY DEF StorageInv, TrackedInv, DisputeTypeOK
    <3> QED
      BY <1>1, <2>1, <3>1 DEF StorageInv, RaiserKept, Without
  <2> QED
    BY <1>2, <2>2, <2>3 DEF StorageInv
<1> QED
  BY <1>3, <1>4 DEF Resolve

(***************************************************************************)
(* A dispute is read, and the code is upgraded.                            *)
(***************************************************************************)

(* Reading makes at most one record, for a dispute counted already, and    *)
(* names the client only where the status-only build had named nobody.     *)
LEMMA GetKeeps ==
  ASSUME BooksInv, StorageInv, NEW id \in DOMAIN contracts, GetDispute(id)
  PROVE  UNCHANGED D!vars /\ StorageInv'
<1>1. /\ Loadable(id) /\ build = "current"
      /\ UNCHANGED <<books, approvals, finalization, pending_credits, funds, control, build, raised>>
  BY DEF GetDispute, LoadDisputeMetadata
<1>2. UNCHANGED <<contracts, milestones>>
  BY <1>1 DEF books
<1>3. CASE UNCHANGED <<disputes, dispute_record, dispute_version>>
  <2>1. UNCHANGED D!vars
    BY <1>1, <1>2, <1>3, SameTuples DEF D!vars, Recorded, Disputed, Unresolved, Indices
  <2>2. TrackedInv'
    BY <1>1, <1>2, <1>3 DEF StorageInv, TrackedInv, Disputed
  <2> QED
    BY <1>1, <1>2, <1>3, <2>1, <2>2, StorageKept DEF storage
<1>4. CASE /\ GetDisputeStorageVersion(id) # DISPUTE_STORAGE_VERSION
           /\ StoreDispute(id) /\ StoreDisputeMetadata(id, LoadedRaiser(id))
  <2>1. /\ disputes' = disputes \cup {id}
        /\ dispute_record' = With(dispute_record, id, Metadata(1, LoadedRaiser(id)))
        /\ dispute_version' = With(dispute_version, id, 1)
    BY <1>4 DEF StoreDispute, StoreDisputeMetadata, DISPUTE_STORAGE_VERSION
  <2>2. id \in disputes \/ Disputed(id)
    BY <1>1 DEF Loadable
  <2>3. id \in DOMAIN raised
    BY <2>2 DEF StorageInv, TrackedInv
  <2>4. Recorded' = Recorded
    <3>1. id \in Recorded
      BY <2>2, <2>3 DEF Recorded
    <3> QED
      BY <1>1, <1>2, <2>1, <3>1 DEF Recorded, Disputed, Unresolved, Indices
  <2>5. UNCHANGED D!vars
    BY <1>1, <2>4, SameTuples DEF D!vars
  <2>6. TrackedInv'
    BY <1>1, <1>2, <2>1, <2>3 DEF StorageInv, TrackedInv, Disputed
  <2>7. /\ LoadedRaiser(id) \in Address
        /\ LoadedRaiser(id) = IF raised[id].build = "status_only" THEN contracts[id].client
                                                                  ELSE raised[id].by
    <3>1. contracts[id].client \in Address
      BY ContractFacts DEF BooksInv, ContractType
    <3>2. CASE id \in disputes
      BY <3>2 DEF LoadedRaiser, StorageInv, DisputeTypeOK, RaiserKept
    <3>3. CASE id \notin disputes
      BY <2>2, <2>3, <3>1, <3>3 DEF LoadedRaiser, StorageInv, TrackedInv
    <3> QED
      BY <3>2, <3>3
  <2>8. DisputeTypeOK'
    BY <1>1, <2>1, <2>7 DEF StorageInv, DisputeTypeOK, With, Metadata, GetDisputeStorageVersion
  <2>9. RaiserKept'
    <3>1. dispute_record'[id].raised_by = LoadedRaiser(id)
      BY <2>1 DEF With, Metadata
    <3>2. \A x \in disputes \ {id} : dispute_record'[x] = dispute_record[x]
      BY <2>1 DEF With, StorageInv, DisputeTypeOK
    <3> QED
      BY <1>1, <1>2, <2>1, <2>7, <3>1, <3>2 DEF StorageInv, RaiserKept
  <2> QED
    BY <2>5, <2>6, <2>8, <2>9 DEF StorageInv
<1> QED
  BY <1>3, <1>4 DEF GetDispute, LoadDisputeMetadata

LEMMA UpgradeKeeps ==
  ASSUME BooksInv, StorageInv, Upgrade \/ UNCHANGED disputeVars
  PROVE  UNCHANGED D!vars /\ StorageInv'
<1>1. UNCHANGED <<vars, storage, raised>> /\ build' \in {build, "current"}
  BY DEF Upgrade, disputeVars
<1>2. UNCHANGED <<contracts, milestones, disputes>>
  BY <1>1 DEF vars, books, records
<1>3. UNCHANGED D!vars
  BY <1>1, <1>2, SameTuples
  DEF vars, books, records, D!vars, Recorded, Disputed, Unresolved, Indices
<1>4. TrackedInv'
  BY <1>1, <1>2 DEF StorageInv, TrackedInv, Disputed
<1> QED
  BY <1>1, <1>2, <1>3, <1>4, StorageKept

(***************************************************************************)
(* Every step, under every build.                                          *)
(***************************************************************************)
LEMMA DisputeSteps ==
  ASSUME D!BooksInv, StorageInv, [DisputeNext]_disputeVars
  PROVE  [D!Next]_(D!vars) /\ StorageInv'
<1>1. BooksInv
  BY SameInvariants DEF Recorded
<1> DEFINE Goal == [D!Next]_(D!vars) /\ StorageInv'
<1>2. ASSUME OtherStep, UNCHANGED <<build, storage, raised>> PROVE Goal
  BY <1>1, <1>2, OtherStepMaps
<1>3. ASSUME NEW id \in DOMAIN contracts, NEW caller \in Address, Raise(id, caller) PROVE Goal
  <2>1. D!RaiseDispute(id, caller) /\ StorageInv'
    BY <1>1, <1>3, RaiseMaps, RaiseKeepsStorage
  <2>2. D!Participate(id)
    BY <2>1 DEF D!Participate
  <2> QED
    BY <2>1, <2>2 DEF D!Next
<1>4. ASSUME NEW id \in DOMAIN contracts, NEW caller \in Address, NEW r \in Resolutions,
             Resolve(id, caller, r)
      PROVE  Goal
  <2>1. D!ResolveDispute(id, caller, r) /\ StorageInv' /\ r \in D!Resolutions
    BY <1>1, <1>4, ResolveMaps, ResolveKeepsStorage, SameOperators
  <2>2. D!Participate(id)
    BY <2>1 DEF D!Participate
  <2> QED
    BY <2>1, <2>2 DEF D!Next
<1>5. ASSUME NEW id \in DOMAIN contracts, GetDispute(id) PROVE Goal
  BY <1>1, <1>5, GetKeeps
<1>6. ASSUME Upgrade \/ UNCHANGED disputeVars PROVE Goal
  BY <1>1, <1>6, UpgradeKeeps
<1> HIDE DEF Goal
<1>7. Goal
  BY <1>2, <1>3, <1>4, <1>5, <1>6 DEF DisputeNext, OtherStep, Raise, Resolve
<1> QED
  BY <1>7 DEF Goal

LEMMA DisputeInits == DisputeInit => D!Init /\ StorageInv
<1> SUFFICES ASSUME DisputeInit PROVE D!Init /\ StorageInv
  OBVIOUS
<1>1. Init /\ raised = << >> /\ dispute_record = << >> /\ dispute_version = << >>
  BY DEF DisputeInit
<1>2. Recorded = {} /\ disputes = {} /\ DOMAIN contracts = {} /\ DOMAIN raised = {}
  BY <1>1 DEF Init, Recorded
<1>3. D!Init
  BY <1>1, <1>2 DEF Init, D!Init
<1>4. DisputeTypeOK /\ RaiserKept
  BY <1>1, <1>2 DEF DisputeInit, DisputeTypeOK, RaiserKept
<1>5. TrackedInv
  BY <1>2 DEF TrackedInv
<1> QED
  BY <1>3, <1>4, <1>5 DEF StorageInv

(* The invariants of Escrow, of the mapped books.                          *)
LEMMA MappedBooks == (D!Init => D!BooksInv) /\ (D!BooksInv /\ [D!Next]_(D!vars) => D!BooksInv')
  BY D!InitBooks, D!NextBooks, AmountsAssumption, ParticipantsAssumption, LimitsAssumption,
     InputsAssumption, SameOperators

LEMMA StorageHolds == DisputeSpec => D!Spec /\ []StorageInv
  BY DisputeInits, DisputeSteps, MappedBooks, PTL DEF DisputeSpec, D!Spec

(* The instance EscrowDisputes names and the one whose theorems are used   *)
(* are the same module with the same variables.                            *)
LEMMA CoreIsMapped ==
  /\ Core!Init <=> D!Init
  /\ Core!Next <=> D!Next
  /\ UNCHANGED Core!vars <=> UNCHANGED D!vars
  BY DEF Core!Init, Core!Next, Core!vars, Core!books, Core!records, Core!funds, Core!control,
         Core!Participate, Core!Administer, Core!CreateContract, Core!AcceptableTerms,
         Core!NewContract, Core!NewMilestones, Core!With, Core!Exists, Core!DepositFunds,
         Core!CanDeposit, Core!Deposited, Core!TotalAmount, Core!SumFunction,
         Core!SumFunctionOnSet, Core!FoldFunctionOnSet, Core!MapThenFoldSet, Core!Stroops,
         Core!NotPaused, Core!Finalized, Core!Indices, Core!Unresolved, Core!Available,
         Core!AvailableBalance, Core!ApproveMilestones, Core!CallerRole, Core!MayApprove,
         Core!IsParticipant, Core!HoldsRole, Core!Role, Core!AuthorizedRoles, Core!Cardinality,
         Core!ExpireApprovals, Core!ApprovedBy, Core!ClearApprovals, Core!ReleaseMilestone,
         Core!CanRelease, Core!Paid, Core!MayRelease, Core!SufficientApprovals, Core!ProtocolFee,
         Core!BPS_DENOMINATOR, Core!NetAmount, Core!Released, Core!StatusAfter, Core!TransferOut,
         Core!CreditOnCompletion, Core!GrantPendingReputationCredit, Core!RollbackMilestone,
         Core!RollbackStatus, Core!ReversedFee, Core!RolledBack, Core!RefundUnreleasedMilestones,
         Core!CanRefund, Core!TakenBack, Core!AmountOf, Core!Refunded, Core!CancelContract,
         Core!RaiseDispute, Core!DisputableStatus, Core!StoreDispute, Core!ResolveDispute,
         Core!CanResolve, Core!Resolutions, Core!Split, Core!FixedResolution,
         Core!ResolutionAccepted, Core!ValidSplit, Core!ClientPayout, Core!FreelancerPayout,
         Core!PartialRefundFreelancerLeg, Core!PARTIAL_REFUND_FREELANCER_SHARE,
         Core!PARTIAL_REFUND_DENOMINATOR, Core!FinalStatusAfterResolution, Core!RemoveDispute,
         Core!Summary, Core!Finalizable, Core!WriteFinalizations, Core!FinalizeContract,
         Core!FinalizeContractsBatch, Core!RollbackContract, Core!CanRate, Core!ConsumeCredit,
         Core!IssueReputation, Core!SimulateIssueReputation, Core!WithdrawProtocolFees,
         Core!SetProtocolFeeBps, Core!Pause, Core!Unpause, Core!ActivateEmergencyPause,
         Core!ResolveEmergency, D!Init, D!Next, D!vars, D!books, D!records, D!funds, D!control,
         D!Participate, D!Administer, D!CreateContract, D!AcceptableTerms, D!NewContract,
         D!NewMilestones, D!With, D!Exists, D!DepositFunds, D!CanDeposit, D!Deposited,
         D!TotalAmount, D!SumFunction, D!SumFunctionOnSet, D!FoldFunctionOnSet, D!MapThenFoldSet,
         D!Stroops, D!NotPaused, D!Finalized, D!Indices, D!Unresolved, D!Available,
         D!AvailableBalance, D!ApproveMilestones, D!CallerRole, D!MayApprove, D!IsParticipant,
         D!HoldsRole, D!Role, D!AuthorizedRoles, D!Cardinality, D!ExpireApprovals, D!ApprovedBy,
         D!ClearApprovals, D!ReleaseMilestone, D!CanRelease, D!Paid, D!MayRelease,
         D!SufficientApprovals, D!ProtocolFee, D!BPS_DENOMINATOR, D!NetAmount, D!Released,
         D!StatusAfter, D!TransferOut, D!CreditOnCompletion, D!GrantPendingReputationCredit,
         D!RollbackMilestone, D!RollbackStatus, D!ReversedFee, D!RolledBack,
         D!RefundUnreleasedMilestones, D!CanRefund, D!TakenBack, D!AmountOf, D!Refunded,
         D!CancelContract, D!RaiseDispute, D!DisputableStatus, D!StoreDispute, D!ResolveDispute,
         D!CanResolve, D!Resolutions, D!Split, D!FixedResolution, D!ResolutionAccepted,
         D!ValidSplit, D!ClientPayout, D!FreelancerPayout, D!PartialRefundFreelancerLeg,
         D!PARTIAL_REFUND_FREELANCER_SHARE, D!PARTIAL_REFUND_DENOMINATOR,
         D!FinalStatusAfterResolution, D!RemoveDispute, D!Summary, D!Finalizable,
         D!WriteFinalizations, D!FinalizeContract, D!FinalizeContractsBatch, D!RollbackContract,
         D!CanRate, D!ConsumeCredit, D!IssueReputation, D!SimulateIssueReputation,
         D!WithdrawProtocolFees, D!SetProtocolFeeBps, D!Pause, D!Unpause,
         D!ActivateEmergencyPause, D!ResolveEmergency

(* Under every build and across an upgrade in the middle of a dispute, a   *)
(* dispute does to the books what Escrow says: the build that keeps no     *)
(* record and does not check the sum of an award loses nothing by it.      *)
THEOREM BuildsAreEscrow == DisputeSpec => ImplementsEscrow
<1>1. D!Init => Core!Init
  BY CoreIsMapped
<1>2. [D!Next]_(D!vars) => [Core!Next]_(Core!vars)
  BY CoreIsMapped
<1>. QED
  BY <1>1, <1>2, StorageHolds, PTL DEF ImplementsEscrow, D!Spec, Core!Spec

(* The record of a dispute and its version marker never part, and a record *)
(* that is stored is one Escrow counts.                                    *)
THEOREM StorageTypeCorrect == DisputeSpec => []DisputeTypeOK
  BY StorageHolds, PTL DEF StorageInv

(* Whichever build raised a dispute and whichever read it first, a record  *)
(* names who raised it, or the client where that was never written down.   *)
THEOREM RaisersAreKept == DisputeSpec => []RaiserKept
  BY StorageHolds, PTL DEF StorageInv

(* Only one version has ever been written, so that no marker is of a       *)
(* version the current build does not know.                                *)
VersionsKnown ==
  \A id \in DOMAIN dispute_version : dispute_version[id] = DISPUTE_STORAGE_VERSION

LEMMA VersionsHold == DisputeSpec => []VersionsKnown
<1>1. DisputeInit => VersionsKnown
  BY DEF DisputeInit, VersionsKnown
<1>2. VersionsKnown /\ [DisputeNext]_disputeVars => VersionsKnown'
  <2> SUFFICES ASSUME VersionsKnown, [DisputeNext]_disputeVars PROVE VersionsKnown'
    OBVIOUS
  <2>1. ASSUME UNCHANGED dispute_version PROVE VersionsKnown'
    BY <2>1 DEF VersionsKnown
  <2>2. ASSUME NEW id, NEW a, StoreDisputeMetadata(id, a) PROVE VersionsKnown'
    BY <2>2 DEF StoreDisputeMetadata, With, VersionsKnown
  <2>3. ASSUME NEW id, NEW caller, RaiseCurrent(id, caller) PROVE VersionsKnown'
    BY <2>2, <2>3 DEF RaiseCurrent
  <2>4. ASSUME NEW id, NEW caller, NEW r, ResolveCurrent(id, caller, r) PROVE VersionsKnown'
    BY <2>4 DEF ResolveCurrent, RemoveDisputeMetadata, Without, VersionsKnown
  <2>5. ASSUME NEW id, GetDispute(id) PROVE VersionsKnown'
    BY <2>1, <2>2, <2>5 DEF GetDispute, LoadDisputeMetadata
  <2>6. ASSUME NEW id, NEW caller, RaiseStatusOnly(id, caller) \/ RaiseV0(id, caller)
        PROVE  UNCHANGED dispute_version
    BY <2>6 DEF RaiseStatusOnly, RaiseV0, storage
  <2>7. ASSUME NEW id, NEW caller, NEW r, ResolveStatusOnly(id, caller, r)
        PROVE  UNCHANGED dispute_version
    BY <2>7 DEF ResolveStatusOnly, storage
  <2>8. Upgrade \/ UNCHANGED storage \/ UNCHANGED disputeVars => UNCHANGED dispute_version
    BY DEF Upgrade, storage, disputeVars
  <2> HIDE DEF VersionsKnown
  <2> QED
    BY <2>1, <2>3, <2>4, <2>5, <2>6, <2>7, <2>8 DEF DisputeNext
<1> QED
  BY <1>1, <1>2, PTL DEF DisputeSpec

(* An open dispute, whichever build raised it and whether or not it has    *)
(* been read since the upgrade, has a record the current build can load or *)
(* make, and its award passes every check: the arbiter can always return   *)
(* all that is left to the client.                                         *)
THEOREM NoDisputeIsStranded == DisputeSpec => []UpgradeStrandsNoDispute
<1>1. D!Spec => []D!DisputeIsDecidable
  BY D!DisputesAreDecidable, AmountsAssumption, ParticipantsAssumption, LimitsAssumption,
     InputsAssumption, SameOperators
<1>2. ASSUME StorageInv, VersionsKnown, D!DisputeIsDecidable PROVE UpgradeStrandsNoDispute
  <2> SUFFICES ASSUME NEW id \in DOMAIN contracts, Disputed(id), NotPaused, ~Finalized(id),
                      build = "current"
               PROVE  CanResolveCurrent(id, contracts[id].arbiter, FixedResolution("FullRefund"))
    BY DEF UpgradeStrandsNoDispute
  <2>1. Loadable(id)
    <3>1. CASE id \in disputes
      <4>1. GetDisputeStorageVersion(id) \in {0, DISPUTE_STORAGE_VERSION}
        BY <1>2 DEF VersionsKnown, GetDisputeStorageVersion
      <4> QED
        BY <3>1, <4>1 DEF Loadable, DISPUTE_STORAGE_VERSION
    <3>2. CASE id \notin disputes
      <4>1. GetDisputeStorageVersion(id) = 0
        BY <1>2, <3>2 DEF StorageInv, DisputeTypeOK, GetDisputeStorageVersion
      <4> QED
        BY <4>1 DEF Loadable, DISPUTE_STORAGE_VERSION
    <3> QED
      BY <3>1, <3>2
  <2>2. D!CanResolve(id, contracts[id].arbiter, D!FixedResolution("FullRefund"))
    BY <1>2, SameOperators DEF D!DisputeIsDecidable, Disputed
  <2>3. D!FixedResolution("FullRefund") = FixedResolution("FullRefund")
    BY DEF FixedResolution, D!FixedResolution
  <2> QED
    BY <2>1, <2>2, <2>3, SameCalls DEF CanResolveCurrent
<1> QED
  BY <1>1, <1>2, StorageHolds, VersionsHold, PTL

(* What the money theorems speak of does not depend on the records.        *)
LEMMA SameMoney ==
  /\ D!AccountingBound <=> AccountingBound
  /\ D!BooksMatchMilestones <=> BooksMatchMilestones
  /\ D!FundedCoversMilestones <=> FundedCoversMilestones
  /\ D!CustodyEquation <=> CustodyEquation
  /\ D!CreditsBacked <=> CreditsBacked
  /\ D!Solvency <=> Solvency
  BY DEF Solvency, D!Solvency, AccountingBound, BooksMatchMilestones, FundedCoversMilestones, CustodyEquation,
         CreditsBacked, OpenStatus, RecordedFees, Unresolved, TotalAmount, AmountOf, SumFunction,
         SumFunctionOnSet, FoldFunctionOnSet, MapThenFoldSet, Cardinality, Available,
         AvailableBalance, Indices,
         D!AccountingBound, D!BooksMatchMilestones, D!FundedCoversMilestones, D!CustodyEquation,
         D!CreditsBacked, D!OpenStatus, D!RecordedFees, D!Unresolved, D!TotalAmount, D!AmountOf,
         D!SumFunction, D!SumFunctionOnSet, D!FoldFunctionOnSet, D!MapThenFoldSet,
         D!Cardinality, D!Available, D!AvailableBalance, D!Indices

(* A dispute that is raised under one build and resolved under another     *)
(* costs nobody anything: no contract is overdrawn, the counters are the   *)
(* sums of the milestones, every token is accounted for and every credit   *)
(* is backed, under each of the three record layouts.                      *)
THEOREM UpgradesKeepTheMoney ==
  DisputeSpec => [](/\ AccountingBound /\ BooksMatchMilestones /\ FundedCoversMilestones
                    /\ CustodyEquation /\ CreditsBacked)
<1>1. D!Spec => []D!AccountingBound
  BY D!AccountingHolds, AmountsAssumption, ParticipantsAssumption, LimitsAssumption,
     InputsAssumption, SameOperators
<1>2. D!Spec => []D!BooksMatchMilestones
  BY D!BooksAddUp, AmountsAssumption, ParticipantsAssumption, LimitsAssumption,
     InputsAssumption, SameOperators
<1>3. D!Spec => []D!FundedCoversMilestones
  BY D!FundedIsCovered, AmountsAssumption, ParticipantsAssumption, LimitsAssumption,
     InputsAssumption, SameOperators
<1>4. D!Spec => []D!CustodyEquation
  BY D!CustodyAccounted, AmountsAssumption, ParticipantsAssumption, LimitsAssumption,
     InputsAssumption, SameOperators
<1>5. D!Spec => []D!CreditsBacked
  BY D!CreditsAreBacked, AmountsAssumption, ParticipantsAssumption, LimitsAssumption,
     InputsAssumption, SameOperators
<1> QED
  BY <1>1, <1>2, <1>3, <1>4, <1>5, SameMoney, StorageHolds, PTL

LEMMA SameExits == D!ClientCanExit <=> ClientCanExit
  BY SameOperators, SameCalls DEF ClientCanExit, D!ClientCanExit

(* While no fee rate takes everything, disputes left over from an older    *)
(* build never use the share of another contract, nor keep the client of a *)
(* Funded one from leaving.                                                *)
THEOREM UpgradesStaySolvent ==
  ASSUME PartialFees
  PROVE  DisputeSpec => [](Solvency /\ ClientCanExit)
<1>1. D!PartialFees
  BY DEF PartialFees, BPS_DENOMINATOR, D!PartialFees, D!BPS_DENOMINATOR
<1>2. D!Spec => []D!Solvency
  BY <1>1, D!DeploymentIsSolvent, AmountsAssumption, ParticipantsAssumption, LimitsAssumption,
     InputsAssumption, SameOperators
<1>3. D!Spec => []D!ClientCanExit
  BY <1>1, D!ClientExits, AmountsAssumption, ParticipantsAssumption, LimitsAssumption,
     InputsAssumption, SameOperators
<1> QED
  BY <1>2, <1>3, SameMoney, SameExits, StorageHolds, PTL

LEMMA SameLifecycle ==
  /\ D!Lifecycle!Init <=> Lifecycle!Init
  /\ [D!Lifecycle!Next]_(D!Lifecycle!vars) <=> [Lifecycle!Next]_(Lifecycle!vars)
  BY DEF Lifecycle!Init, Lifecycle!Next, Lifecycle!vars, Lifecycle!Open, Lifecycle!Advance,
         Lifecycle!Successors, Lifecycle!Close, Lifecycle!Reopen,
         D!Lifecycle!Init, D!Lifecycle!Next, D!Lifecycle!vars, D!Lifecycle!Open,
         D!Lifecycle!Advance, D!Lifecycle!Successors, D!Lifecycle!Close, D!Lifecycle!Reopen

(* Whichever build raises and resolves a dispute, the contract goes the    *)
(* one way the table of states allows.                                     *)
THEOREM BuildsLiveTheLifecycle == DisputeSpec => ImplementsLifecycle
<1>1. D!Spec => D!ImplementsLifecycle
  BY D!LivesTheLifecycle, AmountsAssumption, ParticipantsAssumption, LimitsAssumption,
     InputsAssumption, SameOperators
<1>2. D!Lifecycle!Init => Lifecycle!Init
  BY SameLifecycle
<1>3. [D!Lifecycle!Next]_(D!Lifecycle!vars) => [Lifecycle!Next]_(Lifecycle!vars)
  BY SameLifecycle
<1> QED
  BY <1>1, <1>2, <1>3, StorageHolds, PTL
  DEF ImplementsLifecycle, Lifecycle!Spec, D!ImplementsLifecycle, D!Lifecycle!Spec

(* Reading an old record or upgrading in the middle of a dispute neither   *)
(* reopens a contract nor grants a credit, and a dispute decided by a      *)
(* build without records grants one exactly when it completes the contract.*)
THEOREM BuildsKeepWhatIsFinal == DisputeSpec => TerminalIsFinal /\ CreditPerCompletion
<1>1. D!Spec => []D!CreditsInv
  BY D!CreditsHold, AmountsAssumption, ParticipantsAssumption, LimitsAssumption,
     InputsAssumption, SameOperators
<1>2. D!CreditsInv /\ [D!Next]_(D!vars) =>
        \A id \in DOMAIN contracts : contracts[id].status \in TerminalStatus =>
          /\ [contracts'[id] EXCEPT !.reputation_issued = contracts[id].reputation_issued]
               = contracts[id]
          /\ contracts[id].reputation_issued => contracts'[id].reputation_issued
          /\ milestones'[id] = milestones[id]
  <2> SUFFICES ASSUME D!CreditsInv, [D!Next]_(D!vars), NEW id \in DOMAIN contracts,
                      contracts[id].status \in TerminalStatus
               PROVE  D!Frozen(id)
    BY DEF D!Frozen
  <2>1. D!TypeOK
    BY DEF D!CreditsInv, D!BooksInv, D!AccountingInv
  <2> QED
    BY <2>1, D!NextFreezes, AmountsAssumption, ParticipantsAssumption, LimitsAssumption,
       InputsAssumption, SameOperators DEF TerminalStatus, D!TerminalStatus
<1>3. D!CreditsInv /\ [D!Next]_(D!vars) =>
        \A a \in Address :
          IF Completions(a) # {} THEN pending_credits'[a] = pending_credits[a] + 1
                                 ELSE pending_credits'[a] <= pending_credits[a]
  <2> SUFFICES ASSUME D!CreditsInv, [D!Next]_(D!vars), NEW a \in Address
               PROVE  D!CreditStep(a)
    BY DEF D!CreditStep, Completions, D!Completions
  <2> QED
    BY D!NextCompletions, AmountsAssumption, ParticipantsAssumption, LimitsAssumption,
       InputsAssumption, SameOperators
<1> QED
  BY <1>1, <1>2, <1>3, StorageHolds, PTL DEF D!Spec, TerminalIsFinal, CreditPerCompletion
=============================================================================
