------------------------------ MODULE Approvals ------------------------------
(***************************************************************************)
(* The approval engine (apps/api/src/lib/approval-workflows.ts) as         *)
(* operators on a request: what createApprovalRequestWithClient opens, who *)
(* may decide, and what decideApprovalRequestWithClient makes of it.  The  *)
(* components that wait for an approval keep the request in a variable of  *)
(* their own and say in which transaction it changes.                      *)
(***************************************************************************)
EXTENDS Naturals, FiniteSets, Sequences

CONSTANTS
  Admins,    \* administrators
  Workflow   \* the steps of the active workflow, in order

Modes == {"ANY", "ALL", "COUNT"}

ASSUME WorkflowAssumption ==
  /\ IsFiniteSet(Admins)
  /\ Workflow \in Seq([assignees : SUBSET Admins, mode : Modes, count : Nat \ {0}])

Order == DOMAIN Workflow

\* How many approvals step i asks for.
Required(i) ==
  CASE Workflow[i].mode = "ANY" -> 1
    [] Workflow[i].mode = "ALL" -> Cardinality(Workflow[i].assignees)
    [] Workflow[i].mode = "COUNT" -> Workflow[i].count

\* A request is refused when a step could never be approved.
Openable ==
  /\ Workflow # <<>>
  /\ \A i \in Order : /\ Workflow[i].assignees # {}
                      /\ Required(i) <= Cardinality(Workflow[i].assignees)

Verdicts == {"APPROVE", "REJECT"}

Decisions == [step : Order, admin : Admins, verdict : Verdicts]

StepStatuses == {"WAITING", "PENDING", "APPROVED", "REJECTED", "SKIPPED"}

\* current is 0 for currentStepOrder = NULL, status "NONE" where there is no row.
Requests ==
  [status    : {"NONE", "PENDING", "APPROVED", "REJECTED", "CANCELLED"},
   current   : Order \cup {0},
   steps     : [Order -> StepStatuses],
   decisions : SUBSET Decisions]

NoRequest ==
  [status |-> "NONE", current |-> 0, steps |-> [i \in Order |-> "WAITING"], decisions |-> {}]

Opened ==
  [status    |-> "PENDING",
   current   |-> 1,
   steps     |-> [i \in Order |-> IF i = 1 THEN "PENDING" ELSE "WAITING"],
   decisions |-> {}]

\* The request and its steps without the decisions, which are rows of their own.
Row(r) == [r EXCEPT !.decisions = {}]

DecidedBy(r, i) == {d.admin : d \in {e \in r.decisions : e.step = i}}

ApprovedBy(r, i) ==
  {d.admin : d \in {e \in r.decisions : e.step = i /\ e.verdict = "APPROVE"}}

\* The checks a decision passes before it is recorded.
MayDecide(r, admin) ==
  /\ r.status = "PENDING"
  /\ r.current \in Order
  /\ r.steps[r.current] = "PENDING"
  /\ admin \in Workflow[r.current].assignees
  /\ admin \notin DecidedBy(r, r.current)

Recorded(r, admin, verdict) ==
  [r EXCEPT !.decisions = @ \cup {[step |-> r.current, admin |-> admin, verdict |-> verdict]}]

Rejected(r) ==
  [r EXCEPT !.status = "REJECTED",
            !.current = 0,
            !.steps = [i \in Order |->
              IF i = r.current THEN "REJECTED"
              ELSE IF r.steps[i] = "WAITING" THEN "SKIPPED" ELSE r.steps[i]]]

\* The current step has its approvals: open the next one, or approve the request.
Advanced(r) ==
  IF r.current = Len(Workflow)
  THEN [r EXCEPT !.status = "APPROVED", !.current = 0, !.steps[r.current] = "APPROVED"]
  ELSE [r EXCEPT !.current = @ + 1,
                 !.steps[r.current] = "APPROVED",
                 !.steps[r.current + 1] = "PENDING"]

\* Mutant: the approval that is being given is counted twice.
DecidedTwice(r, admin, verdict) ==
  LET recorded == Recorded(r, admin, verdict)
      approvals == Cardinality(ApprovedBy(recorded, r.current)) + 1
  IN  IF verdict = "REJECT" THEN Rejected(recorded)
      ELSE IF approvals >= Required(r.current) THEN Advanced(recorded)
      ELSE recorded

\* r after a decision: the approvals counted are those read and this one.
Decided(r, admin, verdict) ==
  LET recorded == Recorded(r, admin, verdict)
      approvals == Cardinality(ApprovedBy(r, r.current)) + 1
  IN  IF verdict = "REJECT" THEN Rejected(recorded)
      ELSE IF approvals >= Required(r.current) THEN Advanced(recorded)
      ELSE recorded

\* The voucher's cancel route also closes the steps; the cancellation of a
\* redemption closes only the request.
Closed(r) == [r EXCEPT !.status = "CANCELLED", !.current = 0]

ClosedWithSteps(r) ==
  [Closed(r) EXCEPT !.steps =
    [i \in Order |-> IF r.steps[i] \in {"PENDING", "WAITING"} THEN "SKIPPED" ELSE r.steps[i]]]

(***************************************************************************)
(* What every request must satisfy.                                        *)
(***************************************************************************)

\* The steps are approved in order, each by the assignees and the number of
\* them that it asks for, and a request is APPROVED only when all are.
QuorumOf(r) ==
  /\ \A i \in Order : r.steps[i] = "APPROVED" =>
       /\ ApprovedBy(r, i) \subseteq Workflow[i].assignees
       /\ Cardinality(ApprovedBy(r, i)) >= Required(i)
       /\ \A j \in 1 .. i : r.steps[j] = "APPROVED"
  /\ r.status = "APPROVED" => \A i \in Order : r.steps[i] = "APPROVED"

\* Some assignee of the current step can still decide a pending request.
DecidableOf(r) == r.status = "PENDING" => \E admin \in Admins : MayDecide(r, admin)
=============================================================================
