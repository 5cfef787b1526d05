---------------------------- MODULE ApprovalProofs ----------------------------
(***************************************************************************)
(* What opening, deciding and closing make of an approval request, for any *)
(* workflow: the lemmas that the components waiting for an approval need.  *)
(***************************************************************************)
EXTENDS Approvals, FiniteSetTheorems, TLAPS

\* The decisions of a request are by assignees of their steps.
Assigned(r) == \A d \in r.decisions : d.admin \in Workflow[d.step].assignees

\* A pending request is at one step; those before it are approved, those after it
\* untouched, nobody has rejected, and the step does not have its approvals yet.
InProgress(r) ==
  r.status = "PENDING" =>
    /\ Openable
    /\ r.current \in Order
    /\ r.steps[r.current] = "PENDING"
    /\ \A i \in Order : /\ i < r.current => r.steps[i] = "APPROVED"
                        /\ i > r.current => r.steps[i] = "WAITING"
    /\ \A d \in r.decisions : d.verdict = "APPROVE" /\ d.step <= r.current
    /\ Cardinality(ApprovedBy(r, r.current)) < Required(r.current)

RequestOK(r) ==
  /\ r \in Requests
  /\ Assigned(r)
  /\ InProgress(r)
  /\ QuorumOf(r)

NewDecision(r, admin, verdict) == [step |-> r.current, admin |-> admin, verdict |-> verdict]

-----------------------------------------------------------------------------

LEMMA WorkflowFacts ==
  /\ Order = 1 .. Len(Workflow)
  /\ Len(Workflow) \in Nat
  /\ \A i \in Order : /\ Workflow[i].assignees \in SUBSET Admins
                      /\ IsFiniteSet(Workflow[i].assignees)
                      /\ Required(i) \in Nat
                      /\ Openable => Required(i) >= 1
<1> DEFINE Steps == [assignees : SUBSET Admins, mode : Modes, count : Nat \ {0}]
<1>1. Workflow \in Seq(Steps)
  BY WorkflowAssumption
<1>2. Order = 1 .. Len(Workflow) /\ Len(Workflow) \in Nat
  BY <1>1 DEF Order
<1>3. ASSUME NEW i \in Order
      PROVE  /\ Workflow[i].assignees \in SUBSET Admins
             /\ IsFiniteSet(Workflow[i].assignees)
             /\ Required(i) \in Nat
             /\ Openable => Required(i) >= 1
  <2>1. Workflow[i] \in Steps
    <3> HIDE DEF Steps
    <3> QED BY <1>1, <1>2
  <2>2. IsFiniteSet(Workflow[i].assignees)
    BY <2>1, FS_Subset, WorkflowAssumption
  <2>3. Cardinality(Workflow[i].assignees) \in Nat
    BY <2>2, FS_CardinalityType
  <2>4. Workflow[i].assignees # {} => Cardinality(Workflow[i].assignees) # 0
    BY <2>2, FS_EmptySet
  <2>5. Openable => Workflow[i].assignees # {}
    BY DEF Openable
  <2>6. /\ Workflow[i].mode = "ANY" => Required(i) = 1
        /\ Workflow[i].mode = "ALL" => Required(i) = Cardinality(Workflow[i].assignees)
        /\ Workflow[i].mode = "COUNT" => Required(i) = Workflow[i].count
    BY DEF Required
  <2>7. Workflow[i].mode \in {"ANY", "ALL", "COUNT"} /\ Workflow[i].count \in Nat \ {0}
    BY <2>1 DEF Modes
  <2>8. Required(i) \in Nat
    BY <2>3, <2>6, <2>7
  <2>9. Openable => Required(i) >= 1
    BY <2>3, <2>4, <2>5, <2>6, <2>7
  <2> QED BY <2>1, <2>2, <2>8, <2>9
<1> QED BY <1>2, <1>3

LEMMA ApprovedByFinite ==
  ASSUME NEW r \in Requests, NEW i
  PROVE  /\ ApprovedBy(r, i) \subseteq Admins
         /\ IsFiniteSet(ApprovedBy(r, i))
         /\ Cardinality(ApprovedBy(r, i)) \in Nat
<1>1. ApprovedBy(r, i) \subseteq Admins
  BY DEF ApprovedBy, Requests, Decisions
<1>2. IsFiniteSet(ApprovedBy(r, i))
  BY <1>1, FS_Subset, WorkflowAssumption
<1> QED BY <1>1, <1>2, FS_CardinalityType

\* More decisions by assignees keep the quorum of the steps that have it.
LEMMA QuorumKept ==
  ASSUME NEW r \in Requests, NEW q \in Requests,
         QuorumOf(r), Assigned(q), r.decisions \subseteq q.decisions,
         q.steps = r.steps, q.status = "APPROVED" => r.status = "APPROVED"
  PROVE  QuorumOf(q)
<1>1. ASSUME NEW i \in Order, q.steps[i] = "APPROVED"
      PROVE  /\ ApprovedBy(q, i) \subseteq Workflow[i].assignees
             /\ Cardinality(ApprovedBy(q, i)) >= Required(i)
             /\ \A j \in 1 .. i : q.steps[j] = "APPROVED"
  <2>1. ApprovedBy(q, i) \subseteq Workflow[i].assignees
    BY DEF ApprovedBy, Assigned
  <2>2. ApprovedBy(r, i) \subseteq ApprovedBy(q, i)
    BY DEF ApprovedBy
  <2>3. Cardinality(ApprovedBy(r, i)) <= Cardinality(ApprovedBy(q, i))
    BY <2>2, ApprovedByFinite, FS_Subset
  <2>4. Cardinality(ApprovedBy(r, i)) >= Required(i) /\ \A j \in 1 .. i : r.steps[j] = "APPROVED"
    BY <1>1 DEF QuorumOf
  <2>5. Cardinality(ApprovedBy(r, i)) \in Nat /\ Cardinality(ApprovedBy(q, i)) \in Nat
    BY ApprovedByFinite
  <2>6. Required(i) \in Nat
    BY WorkflowFacts
  <2> QED BY <2>1, <2>3, <2>4, <2>5, <2>6
<1> QED BY <1>1 DEF QuorumOf

LEMMA NoRequestOK == RequestOK(NoRequest)
<1>1. NoRequest \in Requests
  BY DEF NoRequest, Requests, StepStatuses
<1> QED BY <1>1 DEF RequestOK, Assigned, InProgress, QuorumOf, NoRequest

LEMMA OpenedOK ==
  ASSUME Openable
  PROVE  RequestOK(Opened) /\ Opened.status = "PENDING"
<1>1. 1 \in Order
  BY WorkflowAssumption, WorkflowFacts DEF Openable
<1>2. Opened \in Requests
  BY <1>1 DEF Opened, Requests, StepStatuses
<1>3. ApprovedBy(Opened, 1) = {}
  BY DEF ApprovedBy, Opened
<1>4. Cardinality(ApprovedBy(Opened, 1)) < Required(1)
  <2>1. Cardinality(ApprovedBy(Opened, 1)) = 0
    BY <1>3, FS_EmptySet
  <2>2. Required(1) \in Nat /\ Required(1) >= 1
    BY <1>1, WorkflowFacts
  <2> QED BY <2>1, <2>2
<1>5. InProgress(Opened)
  <2>1. \A i \in Order : i \in Nat /\ i >= 1
    BY WorkflowFacts
  <2> QED BY <1>1, <1>4, <2>1 DEF InProgress, Opened
<1>6. QuorumOf(Opened)
  BY DEF QuorumOf, Opened
<1> QED BY <1>2, <1>5, <1>6 DEF RequestOK, Assigned, Opened

LEMMA ClosedOK ==
  ASSUME NEW r, RequestOK(r)
  PROVE  /\ RequestOK(Closed(r)) /\ RequestOK(ClosedWithSteps(r))
         /\ Closed(r).status = "CANCELLED" /\ ClosedWithSteps(r).status = "CANCELLED"
         /\ Closed(r).decisions = r.decisions /\ ClosedWithSteps(r).decisions = r.decisions
<1> USE DEF RequestOK
<1>1. /\ Closed(r) \in Requests /\ ClosedWithSteps(r) \in Requests
      /\ Closed(r).status = "CANCELLED" /\ ClosedWithSteps(r).status = "CANCELLED"
      /\ Closed(r).decisions = r.decisions /\ ClosedWithSteps(r).decisions = r.decisions
  BY DEF Closed, ClosedWithSteps, Requests, StepStatuses
<1>2. Assigned(Closed(r)) /\ Assigned(ClosedWithSteps(r))
  BY <1>1 DEF Assigned
<1>3. InProgress(Closed(r)) /\ InProgress(ClosedWithSteps(r))
  BY <1>1 DEF InProgress
<1>4. QuorumOf(Closed(r))
  BY <1>1, <1>2, QuorumKept DEF Closed, Requests
<1>5. QuorumOf(ClosedWithSteps(r))
  <2>1. \A i \in Order : ClosedWithSteps(r).steps[i] = "APPROVED" <=> r.steps[i] = "APPROVED"
    BY DEF ClosedWithSteps, Closed, Requests
  <2>2. \A i \in Order : ApprovedBy(ClosedWithSteps(r), i) = ApprovedBy(r, i)
    BY <1>1 DEF ApprovedBy
  <2>3. \A i \in Order : \A j \in 1 .. i : j \in Order
    BY WorkflowFacts
  <2> QED BY <1>1, <2>1, <2>2, <2>3 DEF QuorumOf
<1> QED BY <1>1, <1>2, <1>3, <1>4, <1>5

\* A decision that commits after its request was closed changes nothing else.
LEMMA LateDecisionOK ==
  ASSUME NEW r, RequestOK(r), r.status # "PENDING",
         NEW D \in SUBSET Decisions, \A d \in D : d.admin \in Workflow[d.step].assignees
  PROVE  RequestOK([r EXCEPT !.decisions = @ \cup D])
<1> DEFINE q == [r EXCEPT !.decisions = @ \cup D]
<1>1. /\ q \in Requests /\ q.decisions = r.decisions \cup D
      /\ q.steps = r.steps /\ q.status = r.status
  BY DEF RequestOK, Requests
<1>2. Assigned(q)
  BY <1>1 DEF Assigned, RequestOK
<1>3. InProgress(q)
  BY <1>1 DEF InProgress
<1>4. QuorumOf(q)
  <2> HIDE DEF q
  <2> QED BY <1>1, <1>2, QuorumKept DEF RequestOK
<1> QED BY <1>1, <1>2, <1>3, <1>4 DEF RequestOK

\* A decision that passed its checks is new, by an assignee, and counts once.
LEMMA RecordedFacts ==
  ASSUME NEW r, RequestOK(r), NEW admin \in Admins, NEW verdict \in Verdicts,
         MayDecide(r, admin)
  PROVE  LET q == Recorded(r, admin, verdict)
             d == NewDecision(r, admin, verdict)
         IN  /\ q \in Requests
             /\ d \in Decisions
             /\ d \notin r.decisions
             /\ q.decisions = r.decisions \cup {d}
             /\ q.status = r.status /\ q.steps = r.steps /\ q.current = r.current
             /\ Assigned(q)
             /\ QuorumOf(q)
             /\ verdict = "APPROVE" =>
                  Cardinality(ApprovedBy(q, r.current)) = Cardinality(ApprovedBy(r, r.current)) + 1
<1> DEFINE q == Recorded(r, admin, verdict)
           d == NewDecision(r, admin, verdict)
<1>1. r \in Requests /\ r.current \in Order
  BY DEF RequestOK, MayDecide
<1>2. d \in Decisions /\ d \notin r.decisions
  BY <1>1 DEF NewDecision, Decisions, MayDecide, DecidedBy
<1>3. /\ q \in Requests
      /\ q.decisions = r.decisions \cup {d}
      /\ q.status = r.status /\ q.steps = r.steps /\ q.current = r.current
  BY <1>1, <1>2 DEF Recorded, NewDecision, Requests
<1>4. Assigned(q)
  BY <1>3 DEF Assigned, RequestOK, NewDecision, MayDecide
<1>5. QuorumOf(q)
  <2> HIDE DEF q
  <2> QED BY <1>1, <1>3, <1>4, QuorumKept DEF RequestOK
<1>6. ASSUME verdict = "APPROVE"
      PROVE  Cardinality(ApprovedBy(q, r.current)) = Cardinality(ApprovedBy(r, r.current)) + 1
  <2>1. admin \notin ApprovedBy(r, r.current)
    BY DEF ApprovedBy, MayDecide, DecidedBy
  <2>2. d.step = r.current /\ d.admin = admin /\ d.verdict = "APPROVE"
    BY <1>6 DEF NewDecision
  <2>3. ApprovedBy(q, r.current) = ApprovedBy(r, r.current) \cup {admin}
    <3> HIDE DEF d, q
    <3> QED BY <1>3, <2>2 DEF ApprovedBy
  <2> QED BY <1>1, <2>1, <2>3, ApprovedByFinite, FS_AddElement
<1> QED BY <1>2, <1>3, <1>4, <1>5, <1>6

\* A step that has its approvals hands over to the next one, or ends the request.
LEMMA AdvancedOK ==
  ASSUME NEW q \in Requests, q.status = "PENDING", Openable, q.current \in Order,
         q.steps[q.current] = "PENDING",
         \A i \in Order : /\ i < q.current => q.steps[i] = "APPROVED"
                          /\ i > q.current => q.steps[i] = "WAITING",
         \A d \in q.decisions : d.verdict = "APPROVE" /\ d.step <= q.current,
         Assigned(q), QuorumOf(q),
         Cardinality(ApprovedBy(q, q.current)) >= Required(q.current)
  PROVE  /\ RequestOK(Advanced(q))
         /\ Advanced(q).decisions = q.decisions
         /\ Advanced(q).status \in {"PENDING", "APPROVED"}
<1> DEFINE a == Advanced(q)
<1>1. Order = 1 .. Len(Workflow) /\ Len(Workflow) \in Nat /\ q.current \in Nat
  BY WorkflowFacts
<1>2. CASE q.current = Len(Workflow)
  <2>1. a = [q EXCEPT !.status = "APPROVED", !.current = 0, !.steps[q.current] = "APPROVED"]
    BY <1>2 DEF Advanced
  <2>2. /\ a \in Requests /\ a.decisions = q.decisions /\ a.status = "APPROVED"
        /\ \A i \in Order : a.steps[i] = IF i = q.current THEN "APPROVED" ELSE q.steps[i]
    <3> DEFINE steps == [q.steps EXCEPT ![q.current] = "APPROVED"]
    <3>1. /\ steps \in [Order -> StepStatuses]
          /\ \A i \in Order : steps[i] = IF i = q.current THEN "APPROVED" ELSE q.steps[i]
      BY DEF Requests, StepStatuses
    <3>2. a = [q EXCEPT !.status = "APPROVED", !.current = 0, !.steps = steps]
      BY <2>1
    <3> HIDE DEF steps, a
    <3> QED BY <3>1, <3>2 DEF Requests
  <2> HIDE DEF a
  <2>3. \A i \in Order : a.steps[i] = "APPROVED"
    BY <1>1, <1>2, <2>2
  <2>4. \A i \in Order : ApprovedBy(a, i) = ApprovedBy(q, i)
    BY <2>2 DEF ApprovedBy
  <2>5. ASSUME NEW i \in Order
        PROVE  /\ ApprovedBy(a, i) \subseteq Workflow[i].assignees
               /\ Cardinality(ApprovedBy(a, i)) >= Required(i)
    <3>1. CASE i = q.current
      <4>1. ApprovedBy(q, i) \subseteq Workflow[i].assignees
        BY DEF Assigned, ApprovedBy
      <4> QED BY <3>1, <4>1, <2>4
    <3>2. CASE i # q.current
      <4>1. q.steps[i] = "APPROVED"
        BY <3>2, <1>1, <1>2
      <4> QED BY <4>1, <2>4 DEF QuorumOf
    <3> QED BY <3>1, <3>2
  <2>6. \A i \in Order : \A j \in 1 .. i : j \in Order
    BY <1>1
  <2>7. QuorumOf(a)
    BY <2>3, <2>5, <2>6 DEF QuorumOf
  <2>8. Assigned(a) /\ InProgress(a)
    BY <2>2 DEF Assigned, InProgress
  <2> QED BY <2>2, <2>7, <2>8 DEF RequestOK, a
<1>3. CASE q.current # Len(Workflow)
  <2>1. a = [q EXCEPT !.current = q.current + 1,
                      !.steps[q.current] = "APPROVED",
                      !.steps[q.current + 1] = "PENDING"]
    BY <1>3 DEF Advanced
  <2>2. q.current + 1 \in Order
    BY <1>1, <1>3
  <2>3. /\ a \in Requests /\ a.decisions = q.decisions /\ a.status = "PENDING"
        /\ a.current = q.current + 1
        /\ \A i \in Order : a.steps[i] = IF i = q.current THEN "APPROVED"
                                         ELSE IF i = q.current + 1 THEN "PENDING"
                                         ELSE q.steps[i]
    <3> DEFINE once == [q.steps EXCEPT ![q.current] = "APPROVED"]
               steps == [once EXCEPT ![q.current + 1] = "PENDING"]
    <3>1. /\ once \in [Order -> StepStatuses]
          /\ \A i \in Order : once[i] = IF i = q.current THEN "APPROVED" ELSE q.steps[i]
      BY DEF Requests, StepStatuses
    <3>2. q.current # q.current + 1
      BY <1>1
    <3>3. /\ steps \in [Order -> StepStatuses]
          /\ \A i \in Order : steps[i] = IF i = q.current THEN "APPROVED"
                                        ELSE IF i = q.current + 1 THEN "PENDING"
                                        ELSE q.steps[i]
      <4> HIDE DEF once
      <4> QED BY <3>1, <3>2 DEF StepStatuses
    <3>4. a = [q EXCEPT !.current = q.current + 1, !.steps = steps]
      BY <2>1
    <3> HIDE DEF steps, once, a
    <3> QED BY <2>2, <3>3, <3>4 DEF Requests
  <2> HIDE DEF a
  <2>4. \A i \in Order : /\ i < a.current => a.steps[i] = "APPROVED"
                         /\ i = a.current => a.steps[i] = "PENDING"
                         /\ i > a.current => a.steps[i] = "WAITING"
    BY <1>1, <2>3
  <2>5. \A i \in Order \cup {a.current} : ApprovedBy(a, i) = ApprovedBy(q, i)
    BY <2>3 DEF ApprovedBy
  <2>6. ApprovedBy(a, a.current) = {}
    <3>1. \A d \in a.decisions : d.step # a.current
      <4>1. \A d \in q.decisions : d.step \in Nat /\ d.step <= q.current
        BY <1>1 DEF Requests, Decisions
      <4> QED BY <4>1, <1>1, <2>3
    <3> QED BY <3>1 DEF ApprovedBy
  <2>7. Cardinality(ApprovedBy(a, a.current)) < Required(a.current)
    <3>1. Cardinality(ApprovedBy(a, a.current)) = 0
      BY <2>6, FS_EmptySet
    <3>2. Required(a.current) \in Nat /\ Required(a.current) >= 1
      BY <2>2, <2>3, WorkflowFacts
    <3> QED BY <3>1, <3>2
  <2>8. InProgress(a)
    <3>1. \A d \in a.decisions : d.verdict = "APPROVE" /\ d.step <= a.current
      <4>1. \A d \in q.decisions : d.step \in Nat
        BY <1>1 DEF Requests, Decisions
      <4> QED BY <4>1, <1>1, <2>3
    <3> QED BY <2>2, <2>3, <2>4, <2>7, <3>1 DEF InProgress
  <2>9. QuorumOf(a)
    <3>1. ASSUME NEW i \in Order, a.steps[i] = "APPROVED"
          PROVE  /\ ApprovedBy(a, i) \subseteq Workflow[i].assignees
                 /\ Cardinality(ApprovedBy(a, i)) >= Required(i)
                 /\ \A j \in 1 .. i : a.steps[j] = "APPROVED"
      <4>1. i < a.current
        BY <3>1, <2>3, <2>4, <1>1
      <4>2. \A j \in 1 .. i : a.steps[j] = "APPROVED"
        BY <4>1, <2>3, <2>4, <1>1
      <4>3. CASE i = q.current
        <5>1. ApprovedBy(q, i) \subseteq Workflow[i].assignees
          BY DEF Assigned, ApprovedBy
        <5> QED BY <4>3, <4>2, <2>5, <5>1
      <4>4. CASE i # q.current
        <5>1. q.steps[i] = "APPROVED"
          BY <4>1, <4>4, <1>1, <2>3
        <5> QED BY <5>1, <4>2, <2>5 DEF QuorumOf
      <4> QED BY <4>3, <4>4
    <3> QED BY <3>1, <2>3 DEF QuorumOf
  <2>10. Assigned(a)
    BY <2>3 DEF Assigned
  <2> QED BY <2>3, <2>8, <2>9, <2>10 DEF RequestOK, a
<1> QED BY <1>2, <1>3

LEMMA RejectedOK ==
  ASSUME NEW q \in Requests, Assigned(q), QuorumOf(q), q.current \in Order,
         q.steps[q.current] = "PENDING"
  PROVE  /\ RequestOK(Rejected(q))
         /\ Rejected(q).decisions = q.decisions
         /\ Rejected(q).status = "REJECTED"
<1>1. /\ Rejected(q) \in Requests
      /\ Rejected(q).decisions = q.decisions
      /\ Rejected(q).status = "REJECTED"
      /\ \A i \in Order : Rejected(q).steps[i] = "APPROVED" <=> q.steps[i] = "APPROVED"
  BY DEF Rejected, Requests, StepStatuses
<1>2. \A i \in Order : ApprovedBy(Rejected(q), i) = ApprovedBy(q, i)
  BY <1>1 DEF ApprovedBy
<1>3. \A i \in Order : \A j \in 1 .. i : j \in Order
  BY WorkflowFacts
<1>4. QuorumOf(Rejected(q))
  BY <1>1, <1>2, <1>3 DEF QuorumOf
<1> QED BY <1>1, <1>4 DEF RequestOK, Assigned, InProgress

\* What a decision makes of a request that it may decide.
LEMMA DecidedOK ==
  ASSUME NEW r, RequestOK(r), NEW admin \in Admins, NEW verdict \in Verdicts,
         MayDecide(r, admin)
  PROVE  LET q == Decided(r, admin, verdict)
             d == NewDecision(r, admin, verdict)
         IN  /\ RequestOK(q)
             /\ d \in Decisions /\ d \notin r.decisions
             /\ d.admin \in Workflow[d.step].assignees
             /\ q.decisions = r.decisions \cup {d}
             /\ q.status \in {"PENDING", "APPROVED", "REJECTED"}
<1> DEFINE e == Recorded(r, admin, verdict)
           d == NewDecision(r, admin, verdict)
           q == Decided(r, admin, verdict)
<1> SUFFICES /\ RequestOK(q)
             /\ d \in Decisions /\ d \notin r.decisions
             /\ d.admin \in Workflow[d.step].assignees
             /\ q.decisions = r.decisions \cup {d}
             /\ q.status \in {"PENDING", "APPROVED", "REJECTED"}
  OBVIOUS
<1>1. /\ e \in Requests /\ d \in Decisions /\ d \notin r.decisions
      /\ e.decisions = r.decisions \cup {d}
      /\ e.status = r.status /\ e.steps = r.steps /\ e.current = r.current
      /\ Assigned(e) /\ QuorumOf(e)
      /\ verdict = "APPROVE" =>
           Cardinality(ApprovedBy(e, r.current)) = Cardinality(ApprovedBy(r, r.current)) + 1
  BY RecordedFacts
<1>2. /\ r.status = "PENDING" /\ r.current \in Order /\ r.steps[r.current] = "PENDING"
      /\ d.admin \in Workflow[d.step].assignees
      /\ d.step = r.current /\ d.verdict = verdict
  BY DEF MayDecide, NewDecision
<1>3. /\ Openable
      /\ \A i \in Order : /\ i < r.current => r.steps[i] = "APPROVED"
                          /\ i > r.current => r.steps[i] = "WAITING"
      /\ \A x \in r.decisions : x.verdict = "APPROVE" /\ x.step <= r.current
  BY <1>2 DEF RequestOK, InProgress
<1>4. \/ verdict = "REJECT" /\ q = Rejected(e)
      \/ /\ verdict = "APPROVE"
         /\ Cardinality(ApprovedBy(r, r.current)) + 1 >= Required(r.current)
         /\ q = Advanced(e)
      \/ /\ verdict = "APPROVE"
         /\ ~(Cardinality(ApprovedBy(r, r.current)) + 1 >= Required(r.current))
         /\ q = e
  BY DEF Decided, Verdicts
<1> HIDE DEF d, e, q
<1>5. CASE verdict = "REJECT" /\ q = Rejected(e)
  BY <1>1, <1>2, <1>5, RejectedOK
<1>6. ASSUME verdict = "APPROVE"
      PROVE  \A x \in e.decisions : x.verdict = "APPROVE" /\ x.step <= e.current
  <2>1. r.current \in Nat
    BY <1>2, WorkflowFacts
  <2> QED BY <1>1, <1>2, <1>3, <1>6, <2>1
<1>7. CASE /\ verdict = "APPROVE"
           /\ Cardinality(ApprovedBy(r, r.current)) + 1 >= Required(r.current)
           /\ q = Advanced(e)
  <2>1. /\ RequestOK(Advanced(e)) /\ Advanced(e).decisions = e.decisions
        /\ Advanced(e).status \in {"PENDING", "APPROVED"}
    BY <1>1, <1>2, <1>3, <1>6, <1>7, AdvancedOK
  <2> QED BY <1>1, <1>2, <1>7, <2>1
<1>8. CASE /\ verdict = "APPROVE"
           /\ ~(Cardinality(ApprovedBy(r, r.current)) + 1 >= Required(r.current))
           /\ q = e
  <2>1. Cardinality(ApprovedBy(e, e.current)) < Required(e.current)
    <3>1. Cardinality(ApprovedBy(r, r.current)) \in Nat
      BY ApprovedByFinite DEF RequestOK
    <3>2. Required(r.current) \in Nat
      BY <1>2, WorkflowFacts
    <3> QED BY <1>1, <1>8, <3>1, <3>2
  <2>2. InProgress(e)
    BY <1>1, <1>2, <1>3, <1>6, <1>8, <2>1 DEF InProgress
  <2> QED BY <1>1, <1>2, <1>8, <2>2 DEF RequestOK
<1> QED BY <1>4, <1>5, <1>7, <1>8

\* A request that is in progress has an assignee who has not decided yet.
LEMMA InProgressDecidable ==
  ASSUME NEW r, RequestOK(r)
  PROVE  DecidableOf(r)
<1>1. SUFFICES ASSUME r.status = "PENDING"
               PROVE  \E admin \in Admins : MayDecide(r, admin)
  BY DEF DecidableOf
<1>2. /\ Openable /\ r.current \in Order /\ r.steps[r.current] = "PENDING"
      /\ \A d \in r.decisions : d.verdict = "APPROVE"
      /\ Cardinality(ApprovedBy(r, r.current)) < Required(r.current)
      /\ r \in Requests
  BY <1>1 DEF RequestOK, InProgress
<1> DEFINE A == Workflow[r.current].assignees
<1>3. IsFiniteSet(A) /\ A \subseteq Admins /\ Required(r.current) <= Cardinality(A)
      /\ Required(r.current) \in Nat
  BY <1>2, WorkflowFacts DEF Openable
<1>4. DecidedBy(r, r.current) = ApprovedBy(r, r.current)
  BY <1>2 DEF DecidedBy, ApprovedBy
<1>5. ~(A \subseteq ApprovedBy(r, r.current))
  <2>1. SUFFICES ASSUME A \subseteq ApprovedBy(r, r.current) PROVE FALSE
    OBVIOUS
  <2>2. /\ Cardinality(A) <= Cardinality(ApprovedBy(r, r.current))
        /\ Cardinality(ApprovedBy(r, r.current)) \in Nat
    BY <1>2, <2>1, ApprovedByFinite, FS_Subset
  <2>3. Cardinality(A) \in Nat
    BY <1>3, FS_CardinalityType
  <2> QED BY <1>2, <1>3, <2>2, <2>3
<1>6. PICK admin \in A : admin \notin ApprovedBy(r, r.current)
  BY <1>5
<1>7. MayDecide(r, admin)
  BY <1>1, <1>2, <1>4, <1>6 DEF MayDecide
<1> QED BY <1>3, <1>6, <1>7
=============================================================================
