------------------------------ MODULE Projects ------------------------------
(***************************************************************************)
(* A group project and its points (apps/api/src/routes/admin/projects.ts   *)
(* and lib/workflow-integrations.ts): the plan and its approval, which     *)
(* moves the points from the bank to the project's escrow, the batches     *)
(* that issue them, and the closing, which returns the rest to the bank.   *)
(*                                                                         *)
(* An approval decision is one SERIALIZABLE transaction.  A request of the *)
(* project manager reads the project, unlocked, and writes it afterwards.  *)
(***************************************************************************)
EXTENDS Banks

CONSTANTS
  Budgets,      \* the points a plan may ask for
  Created,      \* those a project may be created with
  Awards,       \* the points a batch may issue
  MaxVersions,  \* bound: the writes of the plan
  MaxBatches    \* bound: the batches, besides those of requests in progress

ProjectOperations == {"plan", "activate", "issue", "close"}

ASSUME ProjectsAssumption ==
  /\ Budgets \subseteq Nat \ {0} /\ Created \subseteq Budgets /\ Awards \subseteq Nat \ {0}
  /\ MaxVersions \in Nat /\ MaxBatches \in Nat

VARIABLES
  project,    \* the Project's row and its budget of one point type
  plans,      \* the approval requests of the plan, by the version they name
  batches,    \* the ProjectIssueBatches, each with its approval request
  windows     \* what each session has read

projectVars == <<project, plans, batches, windows>>

Statuses == {"DRAFT", "PLAN_PENDING", "PLAN_REJECTED", "APPROVED", "ACTIVE", "COMPLETED",
             "ISSUE_PENDING", "ISSUE_REJECTED", "ISSUED", "CLOSED"}

\* version: the writes of the row while it was a plan (updatedAt).
Project == [status : Statuses, version : Nat, requested : Budgets,
            approved : Nat, remaining : Nat, issued : Nat]

Decision == {"PENDING", "APPROVED", "REJECTED"}

NoWindow == [op |-> "idle"]

Window ==
  {NoWindow}
  \cup [op : {"sync"}, amount : Budgets]
  \cup [op : {"touch", "activate"}]
  \cup [op : {"submit"}, version : Nat, amount : Budgets]
  \cup [op : {"issue"}, amount : Awards]

ProjectTypeOK ==
  /\ project \in Project
  /\ \A v \in DOMAIN plans : plans[v] \in [amount : Budgets, status : Decision]
  /\ batches \in Seq([amount : Awards, status : Decision])
  /\ windows \in [Sessions -> Window]

ProjectInit ==
  /\ project \in {[status |-> "DRAFT", version |-> 0, requested |-> n,
                   approved |-> 0, remaining |-> 0, issued |-> 0] : n \in Created}
  /\ plans = << >>
  /\ batches = << >>
  /\ windows = [p \in Sessions |-> NoWindow]

Manages(p, op) == Offers(p, op) /\ windows[p] = NoWindow

Shows(p, w) == windows' = [windows EXCEPT ![p] = w]

Notes(p, w) == Shows(p, w) /\ UNCHANGED <<bankVars, project, plans, batches>>

FundKey == <<"fund">>
ReturnKey == <<"return">>

-----------------------------------------------------------------------------
(***************************************************************************)
(* The plan.                                                               *)
(***************************************************************************)

\* Mutant: a plan can be changed while it is being approved.
EditableAnyway == project.status \in {"DRAFT", "PLAN_REJECTED", "PLAN_PENDING"}

Editable == project.status \in {"DRAFT", "PLAN_REJECTED"}

ReadUpdate(p, n) ==
  /\ Manages(p, "plan")
  /\ Editable /\ project.version < MaxVersions
  /\ Notes(p, [op |-> "sync", amount |-> n])

\* The budgets are written in a transaction of their own, then the project.
SyncBudgets(p) ==
  /\ windows[p].op = "sync"
  /\ project' = [project EXCEPT !.requested = windows[p].amount]
  /\ Shows(p, [op |-> "touch"])
  /\ UNCHANGED <<bankVars, plans, batches>>

Touch(p) ==
  /\ windows[p].op = "touch"
  /\ project' = [project EXCEPT !.version = @ + 1]
  /\ Shows(p, NoWindow)
  /\ UNCHANGED <<bankVars, plans, batches>>

ReadSubmit(p) ==
  /\ Manages(p, "plan")
  /\ project.status \in {"DRAFT", "PLAN_REJECTED"} /\ project.version < MaxVersions
  /\ Notes(p, [op |-> "submit", version |-> project.version, amount |-> project.requested])

\* The request that the version already has is taken for this one.
Submit(p) ==
  LET v == windows[p].version IN
  /\ windows[p].op = "submit"
  /\ plans' = [u \in DOMAIN plans \cup {v} |->
       IF u \in DOMAIN plans THEN plans[u]
       ELSE [amount |-> windows[p].amount, status |-> "PENDING"]]
  /\ project' = [project EXCEPT !.status = "PLAN_PENDING", !.version = @ + 1]
  /\ Shows(p, NoWindow)
  /\ UNCHANGED <<bankVars, batches>>

RejectPlan(v) ==
  /\ plans[v].status = "PENDING"
  /\ plans' = [plans EXCEPT ![v].status = "REJECTED"]
  /\ project' = [project EXCEPT !.status = "PLAN_REJECTED", !.version = @ + 1]
  /\ UNCHANGED <<bankVars, batches, windows>>

\* What the project asks for now is reserved; the row FUNDED has a key of its
\* own, so that a second approval would fail.
ApprovePlan(v) ==
  LET n == project.requested IN
  /\ plans[v].status = "PENDING"
  /\ project.status = "PLAN_PENDING"
  /\ ~Posted(bank, FundKey) /\ CanDebit(bank, n)
  /\ bank' = Debited(bank, FundKey, "PROJECT_FUNDING", n)
  /\ plans' = [plans EXCEPT ![v].status = "APPROVED"]
  /\ project' = [project EXCEPT !.status = "APPROVED", !.approved = n, !.remaining = n]
  /\ UNCHANGED <<routes, clock, timer, faults, batches, windows>>

-----------------------------------------------------------------------------
(***************************************************************************)
(* The points.                                                             *)
(***************************************************************************)

ReadActivate(p) ==
  /\ Manages(p, "activate")
  /\ project.status = "APPROVED"
  /\ Notes(p, [op |-> "activate"])

Activate(p) ==
  /\ windows[p].op = "activate"
  /\ project' = [project EXCEPT !.status = "ACTIVE"]
  /\ Shows(p, NoWindow)
  /\ UNCHANGED <<bankVars, plans, batches>>

\* The completion is guarded by the status it updates.
Complete(p) ==
  /\ Manages(p, "activate")
  /\ project.status = "ACTIVE"
  /\ project' = [project EXCEPT !.status = "COMPLETED"]
  /\ UNCHANGED <<bankVars, plans, batches, windows>>

PendingBatches == {i \in DOMAIN batches : batches[i].status = "PENDING"}

ReadIssue(p, n) ==
  /\ Manages(p, "issue")
  /\ project.status \in {"COMPLETED", "ISSUE_REJECTED"}
  /\ PendingBatches = {}
  /\ n <= project.remaining
  /\ Len(batches) < MaxBatches
  /\ Notes(p, [op |-> "issue", amount |-> n])

Issue(p) ==
  /\ windows[p].op = "issue"
  /\ batches' = Append(batches, [amount |-> windows[p].amount, status |-> "PENDING"])
  /\ project' = [project EXCEPT !.status = "ISSUE_PENDING"]
  /\ Shows(p, NoWindow)
  /\ UNCHANGED <<bankVars, plans>>

RejectBatch(i) ==
  /\ batches[i].status = "PENDING"
  /\ batches' = [batches EXCEPT ![i].status = "REJECTED"]
  /\ project' = [project EXCEPT !.status = "ISSUE_REJECTED"]
  /\ UNCHANGED <<bankVars, plans, windows>>

\* Mutant: the decrement relies on the check of the submission.
EnoughAsSubmitted(n) == n <= project.approved

Enough(n) == n <= project.remaining

\* The members' rows are posted without a debit of the bank.
ApproveBatch(i) ==
  LET n == batches[i].amount IN
  /\ batches[i].status = "PENDING"
  /\ Enough(n)
  /\ batches' = [batches EXCEPT ![i].status = "APPROVED"]
  /\ project' = [project EXCEPT !.status = "ISSUED", !.remaining = @ - n, !.issued = @ + n]
  /\ UNCHANGED <<bankVars, plans, windows>>

\* Mutant: what is returned is not taken from the escrow.
CloseWithEscrow(p) ==
  LET n == project.remaining IN
  /\ Manages(p, "close")
  /\ project.status \in {"COMPLETED", "ISSUED", "ISSUE_REJECTED"}
  /\ bank' = IF n = 0 \/ Posted(bank, ReturnKey) THEN bank
             ELSE Credited(bank, ReturnKey, "PROJECT_RETURN", n)
  /\ project' = [project EXCEPT !.status = "CLOSED"]
  /\ UNCHANGED <<routes, clock, timer, faults, plans, batches, windows>>

\* The row of the project is locked until what remains has been returned.
Close(p) ==
  LET n == project.remaining IN
  /\ Manages(p, "close")
  /\ project.status \in {"COMPLETED", "ISSUED", "ISSUE_REJECTED"}
  /\ bank' = IF n = 0 THEN bank ELSE Credited(bank, ReturnKey, "PROJECT_RETURN", n)
  /\ project' = [project EXCEPT !.status = "CLOSED", !.remaining = 0]
  /\ UNCHANGED <<routes, clock, timer, faults, plans, batches, windows>>

-----------------------------------------------------------------------------

Approvers ==
  \/ \E v \in DOMAIN plans : RejectPlan(v) \/ ApprovePlan(v)
  \/ \E i \in DOMAIN batches : RejectBatch(i) \/ ApproveBatch(i)

Manager(p) ==
  \/ \E n \in Budgets : ReadUpdate(p, n)
  \/ SyncBudgets(p) \/ Touch(p) \/ ReadSubmit(p) \/ Submit(p)
  \/ ReadActivate(p) \/ Activate(p) \/ Complete(p)
  \/ \E n \in Awards : ReadIssue(p, n)
  \/ Issue(p) \/ Close(p)

ProjectStep == Approvers \/ \E p \in Sessions : Manager(p)

-----------------------------------------------------------------------------
(***************************************************************************)
(* Properties.                                                             *)
(***************************************************************************)

IssuedBy(i) == IF batches[i].status = "APPROVED" THEN batches[i].amount ELSE 0

Moved(k) == IF Posted(bank, k) THEN bank.entries[k].amount ELSE 0

(* What left the bank for the project, less what came back, is in the escrow *)
(* or was issued by an approved batch, whatever two windows of the manager   *)
(* and the approvers do at the same time, and in whichever cycles they do it.*)
EscrowConserved ==
  /\ project.issued = SumFunction([i \in DOMAIN batches |-> IssuedBy(i)])
  /\ -Moved(FundKey) - Moved(ReturnKey) = project.remaining + project.issued
  /\ project.issued <= project.approved

(* The points reserved are those of the request that was approved, whatever  *)
(* was changed before the plan was submitted and after it was rejected.      *)
(* It takes a manager who changes and submits a plan in one window: a change *)
(* beside a submission lands in the plan that is being approved.             *)
ApprovedAsShown ==
  Posted(bank, FundKey) =>
    \E v \in DOMAIN plans : plans[v].status = "APPROVED" /\ plans[v].amount = project.approved

(* A project that was closed holds no points, also when a batch submitted    *)
(* beside the closing has opened it again, and a batch that is still pending *)
(* can issue none.                                                           *)
ClosedHoldsNothing ==
  project.status = "CLOSED" \/ Posted(bank, ReturnKey) => project.remaining = 0
=============================================================================
