----------------------------- MODULE Settlements -----------------------------
(***************************************************************************)
(* Exchange vouchers and reward redemptions of a member, and the approval  *)
(* requests that decide them (apps/api/src/lib/wallets.ts, lib/approval-   *)
(* workflows.ts, lib/workflow-integrations.ts, routes/credits.ts and       *)
(* routes/admin/rewards.ts).                                               *)
(*                                                                         *)
(* Every operation is two actions: one reads and checks, one writes and    *)
(* commits.  Transactions at READ COMMITTED write onto whatever the rows   *)
(* are by then; SERIALIZABLE ones (decisions, the voucher's cancel route)  *)
(* fail when a row they read and write has changed since their snapshot.   *)
(* Each voucher and redemption costs one point.                            *)
(***************************************************************************)
EXTENDS Approvals

CONSTANTS
  Sessions,         \* HTTP requests being served at a time
  Vouchers,         \* PointExchangeRequest
  Legacy,           \* the vouchers from before the workflows, without a request
  Rewards,          \* RewardRedemption, all of one reward
  Plain,            \* the redemptions that no workflow matched
  Routes,           \* which operations on which subjects a session serves
  Points,           \* the member's points
  Stock,            \* Reward.stock
  Limit             \* PointExchangeRate.periodLimitPoints

Subjects == Vouchers \cup Rewards

Operations == {"exchange", "redeem", "approve", "complete", "cancel", "reject",
               "fulfil", "cancelRedemption"} \cup Verdicts

ASSUME SettlementAssumption ==
  /\ IsFiniteSet(Subjects)
  /\ Vouchers \cap Rewards = {}
  /\ Legacy \subseteq Vouchers
  /\ Plain \subseteq Rewards
  /\ Routes \in [Sessions -> SUBSET (Operations \X Subjects)]
  /\ Points \in Nat /\ Stock \in Nat /\ Limit \in Nat

VARIABLES
  subject,    \* the row of a voucher or redemption, and whether its refund is posted
  request,    \* its approval request
  points,     \* CustomPointWallet.balance
  stock,      \* Reward.stock
  work        \* what each session is doing: what it read, before it writes

vars == <<subject, request, points, stock, work>>

-----------------------------------------------------------------------------

ByWorkflow(s) == s \notin Legacy \cup Plain

\* PointExchangeStatus and RewardFulfillmentStatus; NONE where there is no row.
Final == {"COMPLETED", "FULFILLED", "CANCELLED", "REJECTED"}

SubjectRows ==
  [status : {"NONE", "PENDING", "APPROVED"} \cup Final, refunded : BOOLEAN]

Snapshots == [subject : SubjectRows, request : Requests]

Idle == [op |-> "idle"]

Work ==
  {Idle}
  \cup [op : Operations \ ({"cancel", "reject"} \cup Verdicts), s : Subjects]
  \cup [op : {"cancel", "reject"}, s : Subjects, seen : Snapshots]
  \cup [op : Verdicts, s : Subjects, seen : Snapshots, admin : Admins]

TypeOK ==
  /\ subject \in [Subjects -> SubjectRows]
  /\ request \in [Subjects -> Requests]
  /\ points \in Nat
  /\ stock \in Nat
  /\ work \in [Sessions -> Work]

\* Vouchers from before the workflows are waiting, or approved and to be paid.
Init ==
  /\ subject \in {f \in [Subjects -> SubjectRows] :
       \A s \in Subjects :
         /\ ~f[s].refunded
         /\ f[s].status \in IF s \in Legacy THEN {"PENDING", "APPROVED"} ELSE {"NONE"}}
  /\ request = [s \in Subjects |-> NoRequest]
  /\ points = Points
  /\ stock = Stock
  /\ work = [p \in Sessions |-> Idle]

Status(s) == subject[s].status

Snapshot(s) == [subject |-> subject[s], request |-> request[s]]

Serves(p, op, s) == work[p] = Idle /\ <<op, s>> \in Routes[p]

Begin(p, w) ==
  /\ work' = [work EXCEPT ![p] = w]
  /\ UNCHANGED <<subject, request, points, stock>>

Done(p) == work' = [work EXCEPT ![p] = Idle]

Mark(s, status) == subject' = [subject EXCEPT ![s].status = status]

\* Close s with its refund.  A refund that is posted already is replayed and
\* credits nothing; the item goes back to the stock each time.
Void(s, status) ==
  /\ subject' = [subject EXCEPT ![s] = [status |-> status, refunded |-> TRUE]]
  /\ points' = IF subject[s].refunded THEN points ELSE points + 1
  /\ stock' = IF s \in Rewards THEN stock + 1 ELSE stock

OpenRequest(s) == request' = [request EXCEPT ![s] = Opened]

-----------------------------------------------------------------------------
(***************************************************************************)
(* The member's operations, at READ COMMITTED.  A request that is sent     *)
(* again finds the row and answers with it.                                *)
(***************************************************************************)

\* Mutant: vouchers already paid no longer count.
UsedWaiting == Cardinality({s \in Vouchers : Status(s) \in {"PENDING", "APPROVED"}})

\* The sum that counts against the period's limit.
Used == Cardinality({s \in Vouchers : Status(s) \notin {"NONE", "CANCELLED", "REJECTED"}})

ReadExchange(p, s) ==
  /\ Serves(p, "exchange", s) /\ s \in Vouchers
  /\ Status(s) = "NONE"
  /\ Used + 1 <= Limit
  /\ Begin(p, [op |-> "exchange", s |-> s])

\* exchange: create the voucher, debit the wallet, open the request.  The unique
\* key refuses a second row, and a program without a workflow refuses it.
Exchange(p) ==
  LET s == work[p].s IN
  /\ work[p].op = "exchange"
  /\ Status(s) = "NONE"
  /\ points > 0
  /\ Openable
  /\ Mark(s, "PENDING")
  /\ points' = points - 1
  /\ OpenRequest(s)
  /\ UNCHANGED stock
  /\ Done(p)

ReadRedeem(p, s) ==
  /\ Serves(p, "redeem", s) /\ s \in Rewards
  /\ Status(s) = "NONE"
  /\ Begin(p, [op |-> "redeem", s |-> s])

\* Mutant: the stock is taken without asking whether there is any.
RedeemUnguarded(p) ==
  LET s == work[p].s IN
  /\ work[p].op = "redeem"
  /\ Status(s) = "NONE"
  /\ stock' = stock - 1
  /\ points > 0
  /\ points' = points - 1
  /\ Mark(s, "PENDING")
  /\ IF ByWorkflow(s) THEN Openable /\ OpenRequest(s) ELSE UNCHANGED request
  /\ Done(p)

\* redeemReward: the guarded decrement of the stock, the debit, the redemption,
\* and a request when a workflow matches.
Redeem(p) ==
  LET s == work[p].s IN
  /\ work[p].op = "redeem"
  /\ Status(s) = "NONE"
  /\ stock > 0
  /\ stock' = stock - 1
  /\ points > 0
  /\ points' = points - 1
  /\ Mark(s, "PENDING")
  /\ IF ByWorkflow(s) THEN Openable /\ OpenRequest(s) ELSE UNCHANGED request
  /\ Done(p)

-----------------------------------------------------------------------------
(***************************************************************************)
(* The administrator's routes on vouchers.                                 *)
(***************************************************************************)

\* Mutant: a completed voucher can still be cancelled.
TransitionsAfterPayment ==
  [NONE      |-> {},
   PENDING   |-> {"APPROVED", "CANCELLED", "REJECTED"},
   APPROVED  |-> {"COMPLETED", "CANCELLED"},
   COMPLETED |-> {"CANCELLED"},
   CANCELLED |-> {},
   REJECTED  |-> {}]

Transitions ==
  [NONE      |-> {},
   PENDING   |-> {"APPROVED", "CANCELLED", "REJECTED"},
   APPROVED  |-> {"COMPLETED", "CANCELLED"},
   COMPLETED |-> {},
   CANCELLED |-> {},
   REJECTED  |-> {}]

Target ==
  [approve |-> "APPROVED", complete |-> "COMPLETED",
   cancel |-> "CANCELLED", reject |-> "REJECTED"]

\* approve and complete: the status is read in one statement ...
ReadVoucher(p, s, op) ==
  /\ Serves(p, op, s) /\ s \in Vouchers
  /\ op = "approve" => ~ByWorkflow(s)
  /\ Target[op] \in Transitions[Status(s)]
  /\ Begin(p, [op |-> op, s |-> s])

\* ... and written by another, which does not ask for it again.
UpdateVoucher(p) ==
  /\ work[p].op \in {"approve", "complete"}
  /\ Mark(work[p].s, Target[work[p].op])
  /\ UNCHANGED <<request, points, stock>>
  /\ Done(p)

\* Mutant: the cancel route leaves the request as it is.
ClosesNothing(w) == FALSE

\* Whether the cancel route closes a request too.
ClosesRequest(w) == ByWorkflow(w.s) /\ w.seen.subject.status = "PENDING"

ReadVoucherToCancel(p, s, op) ==
  LET w == [op |-> op, s |-> s, seen |-> Snapshot(s)] IN
  /\ Serves(p, op, s) /\ s \in Vouchers
  /\ Target[op] \in Transitions[Status(s)]
  /\ ClosesRequest(w) => op = "cancel" /\ request[s].status = "PENDING"
  /\ Begin(p, w)

\* The rows of s that w read are as they were, but for decisions: the cancel
\* route does not read those.
CancelConflicts(w) ==
  \/ subject[w.s] # w.seen.subject
  \/ ClosesRequest(w) /\ Row(request[w.s]) # Row(w.seen.request)

CancelVoucher(p) ==
  LET w == work[p] IN
  /\ w.op \in {"cancel", "reject"}
  /\ ~CancelConflicts(w)
  /\ request' = IF ClosesRequest(w)
                THEN [request EXCEPT ![w.s] = ClosedWithSteps(@)] ELSE request
  /\ Void(w.s, Target[w.op])
  /\ Done(p)

-----------------------------------------------------------------------------
(***************************************************************************)
(* The administrator's route on redemptions.                               *)
(***************************************************************************)

ReadRedemption(p, s, op) ==
  /\ Serves(p, op, s) /\ s \in Rewards
  /\ Status(s) = "PENDING"
  /\ op = "fulfil" => request[s].status \in {"NONE", "APPROVED"}
  /\ Begin(p, [op |-> op, s |-> s])

Fulfil(p) ==
  /\ work[p].op = "fulfil"
  /\ Mark(work[p].s, "FULFILLED")
  /\ UNCHANGED <<request, points, stock>>
  /\ Done(p)

\* cancelRewardRedemption: only a request that is still pending is closed.
CancelRedemption(p) ==
  LET s == work[p].s IN
  /\ work[p].op = "cancelRedemption"
  /\ Void(s, "CANCELLED")
  /\ request' = IF request[s].status = "PENDING"
                THEN [request EXCEPT ![s] = Closed(@)] ELSE request
  /\ Done(p)

-----------------------------------------------------------------------------
(***************************************************************************)
(* decideApprovalRequest, SERIALIZABLE, with the hook that settles the     *)
(* subject in the same transaction.                                        *)
(***************************************************************************)

ReadApproval(p, s, admin, verdict) ==
  /\ Serves(p, verdict, s)
  /\ MayDecide(request[s], admin)
  /\ Begin(p, [op |-> verdict, s |-> s, seen |-> Snapshot(s), admin |-> admin])

Outcome(w) == Decided(w.seen.request, w.admin, w.op)

\* A decision that completes no step only adds a row.
OnlyRecords(w) == Row(Outcome(w)) = Row(w.seen.request)

\* Mutant: decisions at READ COMMITTED.
DecisionUnchecked(w) == FALSE

\* Mutant: decisions at REPEATABLE READ, where only rows written by both conflict.
DecisionRowsConflict(w) == ~OnlyRecords(w) /\ Snapshot(w.s) # w.seen

\* Two decisions that did not see each other do not both commit, and neither does
\* one that writes a row which has changed.
DecisionConflicts(w) ==
  \/ request[w.s].decisions # w.seen.request.decisions
  \/ ~OnlyRecords(w) /\ Snapshot(w.s) # w.seen

\* buildWorkflowDecisionHook: what the final decision makes of the subject.
Hook(w) ==
  LET status == Outcome(w).status IN
  \/ status = "PENDING" /\ UNCHANGED <<subject, points, stock>>
  \/ /\ status = "APPROVED" /\ w.s \in Vouchers
     /\ w.seen.subject.status = "PENDING"
     /\ Mark(w.s, "COMPLETED") /\ UNCHANGED <<points, stock>>
  \/ status = "APPROVED" /\ w.s \in Rewards /\ UNCHANGED <<subject, points, stock>>
  \/ /\ status = "REJECTED" /\ w.s \in Vouchers
     /\ w.seen.subject.status = "PENDING"
     /\ Void(w.s, "REJECTED")
  \/ /\ status = "REJECTED" /\ w.s \in Rewards
     /\ w.seen.subject.status = "PENDING"
     /\ Void(w.s, "CANCELLED")

AfterDecision(w) ==
  IF OnlyRecords(w)
  THEN [request[w.s] EXCEPT !.decisions = @ \cup Outcome(w).decisions]
  ELSE Outcome(w)

Decide(p) ==
  LET w == work[p] IN
  /\ w.op \in Verdicts
  /\ ~DecisionConflicts(w)
  /\ request' = [request EXCEPT ![w.s] = AfterDecision(w)]
  /\ Hook(w)
  /\ Done(p)

\* P2034: the decision is taken again from a new snapshot.
Retry(p) ==
  LET w == work[p] IN
  /\ w.op \in Verdicts
  /\ MayDecide(request[w.s], w.admin)
  /\ Begin(p, [w EXCEPT !.seen = Snapshot(w.s)])

\* Rolled back: a check in the transaction failed, it lost a conflict (for
\* good), or its connection.
Fail(p) ==
  /\ work[p] # Idle
  /\ Done(p)
  /\ UNCHANGED <<subject, request, points, stock>>

-----------------------------------------------------------------------------

Member(p) ==
  \/ \E s \in Subjects : ReadExchange(p, s) \/ ReadRedeem(p, s)
  \/ Exchange(p)
  \/ Redeem(p)

Clerk(p) ==
  \/ \E s \in Subjects :
       \/ \E op \in {"approve", "complete"} : ReadVoucher(p, s, op)
       \/ \E op \in {"cancel", "reject"} : ReadVoucherToCancel(p, s, op)
       \/ \E op \in {"fulfil", "cancelRedemption"} : ReadRedemption(p, s, op)
  \/ UpdateVoucher(p)
  \/ CancelVoucher(p)
  \/ Fulfil(p)
  \/ CancelRedemption(p)

Approver(p) ==
  \/ \E s \in Subjects, admin \in Admins, verdict \in Verdicts :
       ReadApproval(p, s, admin, verdict)
  \/ Decide(p)
  \/ Retry(p)

Next == \E p \in Sessions : Member(p) \/ Clerk(p) \/ Approver(p) \/ Fail(p)

Spec == Init /\ [][Next]_vars

-----------------------------------------------------------------------------

\* A voucher or redemption is refunded exactly when it ended without a payment:
\* nothing that was completed or fulfilled is refunded, and nothing that was
\* cancelled or rejected keeps the member's points.
RefundAgrees(s) == subject[s].refunded <=> Status(s) \in {"CANCELLED", "REJECTED"}

RefundedIffVoid == \A s \in Subjects : RefundAgrees(s)

\* The subject and its request tell the same story, whichever session wrote last:
\* a voucher is completed, rejected or cancelled with its request, a redemption
\* is fulfilled only when approved, and nothing waits for a request that ended.
VoucherAgrees(s) ==
  \/ Status(s) = "COMPLETED" /\ request[s].status = "APPROVED"
  \/ /\ Status(s) \in {"NONE", "PENDING", "CANCELLED", "REJECTED"}
     /\ Status(s) = request[s].status

RedemptionAgrees(s) ==
  /\ Status(s) = "FULFILLED" => request[s].status = "APPROVED"
  /\ Status(s) = "PENDING" => request[s].status \in {"PENDING", "APPROVED"}
  /\ request[s].status \in {"REJECTED", "CANCELLED"} => Status(s) = "CANCELLED"

ApprovalAgrees ==
  /\ \A s \in Vouchers \ Legacy : VoucherAgrees(s)
  /\ \A s \in Rewards \ Plain : RedemptionAgrees(s)

\* No step is passed without the approvals it asks for, from its own assignees
\* and after the steps before it; nothing is settled on less.
Quorum == \A s \in Subjects : QuorumOf(request[s])

\* A pending request never waits for nobody: two approvals that did not count each
\* other would leave a step PENDING that every assignee has decided.
NeverStuck == \A s \in Subjects : DecidableOf(request[s])

\* The points a member has spent on vouchers within the period, and was not given
\* back, never exceed the limit of the exchange rate.
PeriodLimit ==
  Cardinality({s \in Vouchers : Status(s) # "NONE" /\ ~subject[s].refunded}) <= Limit

\* Vouchers and redemptions, decided by administrators and settled or cancelled by
\* routes and hooks, end once, with points and stock conserved (Outcomes).
OutcomeOf(status) ==
  CASE status = "NONE" -> "none"
    [] status \in {"PENDING", "APPROVED"} -> "open"
    [] status \in {"COMPLETED", "FULFILLED"} -> "paid"
    [] status \in {"CANCELLED", "REJECTED"} -> "void"

Promise == INSTANCE Outcomes WITH
  outcome <- [s \in Subjects |-> OutcomeOf(Status(s))], Open0 <- Legacy

ImplementsOutcomes == Promise!Spec
=============================================================================
