# LoyaltyOS in TLA+

Models, model-checking runs and proofs for the point system of LoyaltyOS: a
multi-tenant loyalty server whose members hold points of several types, earn,
give, exchange and redeem them, and whose administrators fund banks, approve
requests and settle vouchers. Everything that moves points goes through
`apps/api/src/lib/wallets.ts`, on PostgreSQL through Prisma, with several API
processes and job workers at once. Paths below are relative to `src/`.

## 1. The system

| Component | State | Operations | Interacts with |
|---|---|---|---|
| Point ledger (`lib/wallets.ts`) | `CustomPointWallet.balance`, `PointBank.balance`, the rows of `CustomPointTransaction` and `PointBankTransaction`, each a hash chain per program | `earn`, `issue`, `issueBank`, `adjust`, `redeem`, `give`, `exchange`, refunds, `verifyIntegrity` | called by every other component, in its own transaction or in the caller's |
| Lots and expiry (`lib/wallets.ts`, `workers/credits.ts`) | `CustomPointLot.remainingAmount`, `expiresAt` | first-to-expire consumption, `expire`, `resetExpiry`, notices, `clearMember` on offboarding | every debit and credit of a wallet |
| Give limits (`lib/wallets.ts` 658-690, 1812-1857) | `PointAllowance.remaining`, the sum of earlier gives to a recipient | the checks of `give` | ledger |
| Bank cycles (`lib/wallets.ts` 692-735, `routes/credits.ts` 1245-1427, `lib/bank-cycle-scheduler.ts`) | `PointBankCycle` status, dates, `allocated` | open, change, clear, automatic close, a timer | bank postings |
| Exchange vouchers (`lib/wallets.ts` 2090-2449, `routes/credits.ts` 877-1035) | `PointExchangeRequest.status` | exchange, approve, complete, cancel, reject | ledger (debit, refund), approval engine |
| Reward redemption (`lib/wallets.ts` 2451-2667, `routes/admin/rewards.ts`) | `RewardRedemption.fulfillmentStatus`, `Reward.stock` | redeem, fulfil, cancel, reject | ledger, approval engine |
| Approval engine (`lib/approval-workflows.ts`, `lib/workflow-integrations.ts`) | `ApprovalRequest`, its steps and decisions | create a request from the matching workflow, decide; the hook settles the subject | vouchers, rewards, issuance proposals, projects, campaigns |
| Workflow scopes (`lib/approval-workflows.ts` 193-431) | active workflows and their scopes | save, activate, match | approval engine |
| Project escrow (`routes/admin/projects.ts`) | `Project.status`, its budgets, held from a bank, its batches | plan, submit, fund, issue, return | bank, approval engine |
| Coalition (`packages/coalition`) | `CoalitionTransaction` status, the provider's balance | accumulate, redeem, convert, reverse, with retries and compensation | ledger, an external provider |
| Gift cards (`packages/giftcards`) | card balance and status, batch status | redeem, refund, cancel, expire, generate | Redis locks, job queue |
| Campaigns, events, check-ins, badges, tiers, segments, coupons | rules and counters | evaluate, then `earn` or `issue` | ledger |
| Notifications, queues, audit, authentication, UIs, MCP server, documents, exports | records and I/O | | no effect on points |

What is hard: statements of different requests interleave inside the ledger's
transactions, which run at READ COMMITTED except for approval decisions and the
voucher cancel route, which are SERIALIZABLE and read from a snapshot; the hash
chains need one head at a time; requests are sent again by clients that lost an
answer; locks on wallets, banks and chains are taken in different orders;
several routes read a status in one statement and write it in another; jobs and
the provider of the coalition run beside all of it.

What makes each part correct: the ledger's rows and balances agree, chains are
linear, calls are atomic and idempotent; a voucher or redemption is refunded or
settled, never both, and its approval agrees; a step never waits with enough
approvals; lots add up to what can be spent; limits hold under concurrency;
a bank's cycle is cleared once; escrow is conserved; a coalition operation
calls the partner for one request and moves own points only after the partner's. `PROJECT.json` lists the hazards of
each part at the line where they bite.

## 2. Plan

1. `Ledger`, `AtomicLedger`, `LedgerProofs` - **done** (sections 3 to 5).
2. `Approvals`, `Settlements`, `Outcomes`, `ApprovalProofs`, `SettlementProofs` -
   **done** (sections 6 to 8): exchange vouchers and reward redemptions composed
   with the approval requests that decide them.
3. `Lots` - **done** (section 9): lots under debits, refunds, expirations, their
   reset, and the member's offboarding.
4. `Banks`, `Projects`, `Gives`, composed in `Funds` - **done** (section 10): what
   moves the points of a bank.
5. `Coalition` - **done** (section 11).
6. `GiftCards` - **done** (section 12) for a card; the generation of batches is left.
7. `SumLemmas`, `LotsProofs`, `FundsProofs`, `CoalitionProofs`, `GiftCardProofs` -
   **done** (sections 9 to 12): the safety properties of the modules of 3 to 6, and
   what all proofs need of sums over finite sets.
8. The refinements `ImplementsAtomic` and `ImplementsOutcomes` - **done** (sections
   5 and 8).
9. `WorkflowScopes` - the overlap of scopes against its reference definition.

Two instances per kind of actor and two to four operations are what the
hazards need; every module takes its sets as CONSTANTS with a named assumption,
has one action per statement group, and no RECURSIVE operator, so that its
invariants can be proved for every instance.

## 3. The ledger and its model

`Ledger.tla` models the operations that move points, at the grain at which they
interleave: one action per SQL statement that reads or writes shared state.

| Code | Model |
|---|---|
| `earn`, `issueBank`, `issue`, `adjust`, `redeem`, `give`, voucher refund | a *call*: the sequence of postings it makes (`Earn`, `IssueBank`, `Issue`, `AdjustUp`, `AdjustDown`, `Redeem`, `Give`, `GiveAllowance`, `Refund`) |
| `InApproval` calls: the hook of an approval decision, the cancel route | the same postings in a SERIALIZABLE transaction |
| BEGIN and the first query | `Receive` |
| the lookup of earlier rows in `give` | `GiveIsNew`, `GiveIsReplayed` |
| `findUnique` by key in `creditWallet`, `debitWallet`, `neutralAllowanceEntry`, `debitBank`, `creditBank` | `LookupNew`, `LookupReplayed`, `LookupConflict` |
| `ensureWallet` | `EnsureWallet` |
| the balance update with its guard | `Update`, `Refuse` |
| `lockLedger`, the read of the head and the insert | `AppendRow`, `AppendRefused` (unique index) |
| P2034 | `SerializationFailure` |
| COMMIT, ROLLBACK on an error | `Commit`, `Rollback` |
| PostgreSQL's deadlock detector | `DeadlockVictim` |
| a lost connection, a dead process, an interactive transaction that timed out | `Abandon` |

A transaction's uncommitted work is in `delta` and `draft`, guarded by
`rowLock` and `chainLock` and invisible to others until `Commit` adds it to
`balance` and `ledger`. A row's hash is abstracted to the key of the row:
`prev` is the key of the row whose `recordHash` it took, and recomputed hashes
always match. `serial` marks the rows of SERIALIZABLE transactions, because only
those take part in PostgreSQL's conflict detection.

What is abstracted: names, reasons and metadata; configuration (point types,
rules and members are fixed, and active); the lots (`Lots`), the allowance counter and
the pair limit (`Gives`), and bank cycles (`Banks`) are left to their
own modules; a give has one recipient and a ratio of one to one. `closeExpiredBankCycle` locks
the bank's row just before the update of the same row, so the model takes the
lock in the update. In a SERIALIZABLE call `ensureWallet` shows the committed
balance instead of the snapshot's: where they differ, the update fails anyway.
An approval decision is received again by its retry loop as by its sender;
the number of attempts is not counted here.

`AtomicLedger.tla` is what a caller relies on: a set of postings that grows by
whole calls in one step. `Ledger` implements it under the
mapping that takes its rows as the postings made.

## 4. What is checked

| Run | Instance | Question |
|---|---|---|
| `ledger_safety` | two requests, two wallets of two members, a bank, eight calls of which two reuse keys of others, four calls received, clocks {0, 2} | type invariant; chains linear (`ChainIntact`); balances are the sums of their rows (`SumReconciled`); no balance below zero (`Solvent`); `AllOrNothing`; `AnsweredTruthfully`; refinement `ImplementsAtomic` |
| `ledger_retry` | earn, bank issue, issue, both adjustments, and two calls of approval decisions; one wallet may go negative; fair | every call is answered (`Answered`), a conflict is answered only to a reused key (`ConflictMeansReuse`), and the last row agrees with the balance (`TailReconciled`), with serialization failures |
| `ledger_fork` | an earn and a refund of a decision | violated: the chain forks |
| `ledger_give_resent` | an earn and a give | violated: a resent give is answered with a conflict |
| `ledger_allowance_row` | a give from the allowance beside a redemption | violated: `TailReconciled` |

The bounds: a violation of an interleaving property here needs two
transactions, since a third one waits for or conflicts with one of the two in the same way;
two member wallets and one bank give every lock order the code
has, the inverted ones included; four received calls allow two pairs of
concurrent calls, or a funding call, a call, its retry and a competitor.
Amounts 1 and 2 make debits fail both before and after a competing credit. A
clock with two readings gives equal, lagging and later times. The two requests
are symmetric, and symmetry is used only in runs without liveness.

Fairness: `FairSpec` asks weak fairness of `Proceed(c)`, the statements of a
transaction that has started. The request's promise chain always continues, the
lock queues of PostgreSQL are fair enough that a free lock is granted, and the
deadlock detector runs after a second. Nothing is assumed about `Receive` or
`Abandon`: clients need not send, connections need not fail.

The three violations are findings, quoted in `PROJECT.json`:

* **Chain fork.** `lockLedger` serializes the writers of a chain, but a
  SERIALIZABLE transaction took its snapshot before it waited for the lock. It
  reads a head that is no longer the head and links to it, and PostgreSQL
  raises nothing because the row it missed came from a READ COMMITTED
  transaction. Approval decisions that post and the voucher cancel route are exposed.
* **Give sent again.** The lookup filters on the giver's `memberId`; the
  `GIVE_IN` row carries the recipient's, so a replay never finds it.
* **Allowance row.** `neutralAllowanceEntry` records a balance that it read
  without a lock.

`ledger_safety` therefore has no SERIALIZABLE call, and `ledger_retry` no give and
no redemption.

## 5. What is proved

`LedgerProofs.tla`, for any clients, accounts, calls, clocks and bounds that
satisfy `LedgerAssumption` and `GiveAssumption`:

* `TypeCorrect` - `TypeOK`.
* `ChainsStayIntact` - when no call is SERIALIZABLE (`ReadCommitted`), the
  chains stay linear. The run `ledger_fork` shows that the hypothesis is needed.
* `StaysSolvent` - `Solvent`, with SERIALIZABLE calls too.
* `CallsAreAtomic` - `AllOrNothing`.
* `AnswersAreTrue` - `AnsweredTruthfully`.
* `RowsAddUp` - `SumReconciled`.
* `LastRowTellsBalance` - `TailReconciled`, when no posting has amount zero
  (`NoZeroRows`). The run `ledger_allowance_row` shows that the hypothesis is needed.
* `ConflictsAreReal` - `ConflictMeansReuse`, when there are no gives (`NoGives`);
  the run `ledger_give_resent` shows why.
* `LedgerIsAtomic` - the refinement `ImplementsAtomic`: a commit is a step `Apply`
  of `AtomicLedger`, any other step leaves its variables alone.

None of the invariants is inductive alone. The strengthening `IInv` adds what
holds in the middle of a transaction: `InCall` (a client past `idle` runs a call
and is at one of its postings), `LockDiscipline` (a client with an uncommitted
change of an account holds its row lock, and one with uncommitted rows the
chain's lock, so at most one client has either), `HeadsGood` (a chain that has
rows has one head), `SnapshotsGood` (a snapshot holds committed rows),
`ChainsLinked` (the committed rows with the draft of the lock's holder are
linked - the reason why a commit keeps the chain linear), `BalancesGood` (a
balance with the uncommitted change of the lock's holder is solvent too),
`PostingsDone` (the postings before the one in progress are all in the ledger
or the draft) and `OwnRows` (rows of the draft are of the client's own call).
The proof has one lemma per part and one step per action; the lemmas about
appending to a linked set of rows (`Linked`) come first.

Three more invariants rest on `IInv`. `JInv` is about sums: rows are filed in
the chain of their account (`RowsFiled`), a chain with a draft has each key once
(`KeysUnique`), and what a transaction changed in a balance is the sum of its
draft and of the one row it has still to append (`DeltasAgree`); `SumReconciled` then
survives a commit, and the refinement needs the same sums. `TInv` is about last
rows: who changed a balance keeps its row lock and sees all rows of the account
(`RowsGuarded`), so that its rows come last and the last of them tells the balance it
will leave (`TailsAgree`). `ConflictSeen` says that a conflict was answered because a
committed row had the key, and such a row stays. That keys of a call's postings
are distinct is a part of `LedgerAssumption`, as the code derives them from one key
with suffixes of their own.

The sum of a function over a set, `SumFunctionOnSet` of the community modules, is
a recursive function. `SumLemmas.tla` shows its equation and what follows (adding,
removing and changing a term, disjoint sets, images) without an induction theorem:
of the subsets of a finite set that violate a claim there is a minimal one,
because strict inclusion is well-founded on them.

Only model-checked: `Answered` (liveness).

## 6. Vouchers, redemptions and approvals

`Approvals.tla` has the approval engine as operators on a request, a record of
the request's row, its steps and its decisions. `Settlements.tla` composes it
with the things that wait for an approval. A *subject* is a voucher or a
redemption; one with a workflow has a request, `Legacy` vouchers (from before the
workflows) and `Plain` redemptions (no workflow matched) have none. The routes
run concurrently in *sessions*: each operation reads and checks in one action,
which leaves what it read in `work`, and writes and commits in another.

| Code | Model |
|---|---|
| `createApprovalRequestWithClient` | `Openable`, `Opened` |
| `decideApprovalRequestWithClient`: the checks; the decision, the steps, the request | `MayDecide`; `Decided` with `Recorded`, `Advanced`, `Rejected` |
| `exchange`: replay lookup and period limit; create, debit, request | `ReadExchange`; `Exchange` |
| `redeemReward`: replay lookup; guarded stock, debit, redemption, request | `ReadRedeem`; `Redeem` |
| approve and complete routes: `findFirst` and transition table; `update` by id | `ReadVoucher`; `UpdateVoucher` |
| cancel route, SERIALIZABLE: the status; closing the request, refund, update | `ReadVoucherToCancel`; `CancelVoucher` |
| redemption status route | `ReadRedemption`; `Fulfil`, `CancelRedemption` |
| `decideApprovalRequest`, SERIALIZABLE, with `buildWorkflowDecisionHook` | `ReadApproval`; `Decide` with `Hook` |
| three attempts on P2034 | `Retry` |
| an error, a lost conflict, a lost connection | `Fail` |

READ COMMITTED writers write onto the rows as they are by then. SERIALIZABLE ones
fail when a row that they read and write has changed since their snapshot
(`CancelConflicts`, `DecisionConflicts`); of two decisions that did not see each
other's row one fails too, because each read the decisions the other added to. A
decision that only adds its row, beside a cancellation that never reads the
decisions, may commit after it, and `AfterDecision` adds it to a cancelled request.

Abstracted: amounts (every subject costs one point, and there is one member and
one reward), lots and the posting of debit and refund (`Ledger` has those; a
refund is one bit, since its key makes a second one a replay), notifications and
the audit log. The assignees are those of the request's snapshot; an approver
who was deactivated meanwhile is refused, which is a `Fail`. Conflicts on the
member's wallet are a `Fail` as well. Attempts are not counted.

`Outcomes.tla` is what a member is promised: a subject is opened for a point, and
an item for a redemption, and ends once, paid, or void with both given back.
`Settlements` implements it under a mapping from statuses to outcomes.

## 7. What is checked of them

| Run | Instance | Question |
|---|---|---|
| `settlements` | two approvers' sessions that also cancel the voucher, one of a clerk and the member; a voucher and a redemption with a workflow of two steps (ALL of two, then ANY of two, one administrator in both), a legacy voucher, a plain redemption; one point, one item, a limit of one | type invariant; a subject is refunded exactly when it ended void (`RefundedIffVoid`); it agrees with its request (`ApprovalAgrees`); no step passes without its approvals (`Quorum`); no request waits for nobody (`NeverStuck`); `PeriodLimit`; refinement `ImplementsOutcomes` |
| `settlements_paid_twice` | two clerks on a legacy voucher | violated: completed and refunded |
| `settlements_period_limit` | two exchanges at once | violated: twice the limit is spent |

Three sessions make three operations overlap, so that a decision, its
competitor and a cancellation can all hold snapshots of the same state. Two
steps are needed for a decision that opens a step, one that
only adds its row, and one that settles. One point makes vouchers and redemptions
compete for it and lets a void one free it for another; one item does the same for
the stock. Approvers' sessions are symmetric, and no run of this module checks
liveness. Deadlock is not checked, because everything may be settled.

`Routes` says which operations a session serves. The passing run gives those
pairs to one session that break a property when two sessions run them at once,
and the violation runs show why:

* **Complete beside cancel.** The complete route updates the voucher by id after
  it checked the status, so it overwrites a cancellation that commits in
  between: `COMPLETED`, with the points given back.
  Legacy vouchers only: those with a workflow are completed by the hook.
* **Period limit.** `exchange` adds up the period's vouchers before it
  creates its own, and nothing keeps another exchange from doing the same.
* The redemption route has the same gap between its check and its update, and
  a cancellation beside a rejection puts the item back twice; they are listed
  under "hazards" in `PROJECT.json` and have no run of their own.

## 8. What is proved of them

`SettlementProofs.tla`, from `WorkflowAssumption` and `SettlementAssumption` alone,
so for any sessions, any routes, any workflow and any subjects:

* `TypeCorrect` - `TypeOK`.
* `StepsHaveQuorum` - `Quorum`.
* `RequestsStayDecidable` - `NeverStuck`: with fewer approvals than a step requires,
  some assignee has not decided it.
* `WorkflowVouchersSettleOnce` - `VoucherAgrees` and `RefundAgrees` for the
  vouchers with a workflow. The routes are not restricted here, so the race of
  `settlements_paid_twice` cannot happen to them.
* `SubjectsFollowRequests` - `ApprovalAgrees`, for vouchers and redemptions and
  without restricting the routes.
* `RefundsAreExact` - `RefundedIffVoid` for every subject, and `SubjectsEndOnce` - the
  refinement `ImplementsOutcomes`: both when at most one session at a time serves
  what settles a legacy voucher or a redemption (`OneClerk`).
* `ExchangesStayWithinLimit` - `PeriodLimit`, with `OneClerk`, when one session serves
  exchanges (`OneExchange`) and the legacy vouchers are within the limit to begin with.

`MCRoutes` satisfies both hypotheses. The runs `settlements_paid_twice` and
`settlements_period_limit`, which break one each, show that the theorems need them.

The strengthening `IInv` has two parts. A pending request is *in progress*: the steps
before the current one are approved, those after it are waiting with no decisions, and the
current one has fewer approvals than it requires, all by assignees, and no rejection. And what a
session read relates to what there is: since its snapshot a request has only
grown (the same row with more decisions), moved on with more decisions, or ended. A decision whose
snapshot has the decisions of the present therefore acts on a request that is as
it saw it, or that was closed meanwhile, when a write of its row conflicts.
`ApprovalProofs.tla` has the lemmas about single requests: what opening, recording,
advancing, rejecting and closing preserve.

What needs one clerk has two invariants of its own. `CInv` adds that the status a
route read is still the status when it writes without asking again (`AsRead`),
`LInv` that an exchange in progress still has room under the limit (`HasRoom`). Every
step is first shown to be one of a few kinds (`Does`): it opens a subject, settles an
open one as paid or void, or reads. Both invariants and the refinement are then
shown for the kinds and not for each action.

## 9. Lots, expiry and offboarding

`Lots.tla` is one member's wallet of one type: the lots its points came in, what
consumes them, and the member's departure.

| Code | Model |
|---|---|
| `issue` of a grant with its expiry; `expiryFor` | `ReadEarn`, `Earn`; `EarnRefused` |
| `debitWallet`: the guarded decrement, which locks the wallet, and the read of the lots; the lots, the row, the commit | `Lock` with `Plan`, `Commit`, `Refuse` |
| `redeem` | `ReadSpend`, then a debit |
| a refund: `consumedLots` of the debit come back as new lots | `Refund`, with `Pieces`, `Restorable`, `RestoredLots` |
| `expire`: the due lots, or all lots when forced; one transaction per lot | `StartJob`, `StartExpire`, `StartForce`; `ReadLot`, `EmptyLot`, `StartLapse`, `LapseReplayed`, `LapseOvertaken`, `EndSweep` |
| `resetExpiry`: the rows of the run; the transaction that restores them | `ReadReset`; `Reset` (`TookNothing` for its fallback), `ResetRefused` |
| deletion of a member, and the worker's offboarding after `expire` | `ReadClear`; `Offboard`; both with `Clear` |
| scheduling and cancelling an offboarding, rehiring | `ReadSchedule`, `Schedule`; `CancelSchedule`; `Rehire` |

A session serves the operations its `routes` allow; `Rosters` is a set of such
assignments of which `Init` chooses one, so that one run is the union of several
scenarios. The same technique is used in `Funds`.

The run `lots` has an administrator, the member and the daily job: a forced run
and its reset beside earning, spending and refunding, beside a second reset; a
departure scheduled and taken back; an expiration, a deletion and a rehiring. A lot
of two points until day 1, a lot of one point until day 2, a debit of one point and
two days make a debit that splits a lot, one that takes two, and a lot whose
balance is short; four lots leave room for two that come back. The type may allow a
negative balance or not; when it may, an expiration whose lot is spent before its
debit takes nothing, and its reset comes as one lot. It checks that lots and balance
agree and every debit can be given back (`LotsBackBalance`), that no point lives
longer or shorter for having been spent (`ExpiryConserved`), `FirstToExpireFirst`,
and that due lots and leavers do not stay (`DueLotsLapse`, `LeaversLeave`). Fairness: the queue
repeats the job, which goes on to its end, and a transaction that holds the
wallet's row commits. Nothing makes a session start or go on otherwise.

What the liveness properties make room for, and what a reader should know:

* **Stuck lots.** The key of an expiration names the lot. When the debit of a
  lot's expiration takes from another lot, because one that expires earlier came
  while the job was at it, the lot keeps points and its key is used: the next
  day's expiration is replayed or is a conflict, which ends the job, before the
  offboarding too, on that day and every day after.
* **Leavers with points.** An earn that has read an active member may commit after
  the clearance. `LeaversLeave` says that he leaves, not that he leaves with nothing.
* Where the balance may be negative, a debit may record fewer lots than points, or
  none at all. The refund of such a debit is refused for good (without lots the
  credit would need an expiry, which `cancel` and `reject` do not give). An
  expiration that took of lots, but less than its amount, makes the reset of its
  whole run fail for good (`ResetRefused`); one that took nothing is reset in full,
  as a single lot with the expiry of the debit's own row. That is null: the lot
  never expires, although the one that lapsed had its day. `ExpiryConserved` is
  therefore about wallets that may not go negative, where each debit recorded all
  it took.

`LotsProofs.tla` proves all four safety properties, for any sessions, rosters, grants
and bounds (`LotsAssumption` gives them their types): `LotsTypeCorrect`,
`LotsAddUp`, `ExpiryIsKept` and `EarliestLotsFirst`.

* *The plan.* In the order of `Before` a plan takes of the first lots exactly the
  smaller of the amount and what they have (`PlanOfFirst`, along a least set of
  lots that would violate it); hence the whole plan is the smaller of the amount and
  `LeftSum` (`PlanAddsUp`), and where it takes of a lot it takes all of those
  before (`PlanInOrder`).
* *What comes back.* Rows that are given back together are either one debit of the
  member or expirations of different lots, so that `Position` numbers their pieces (what
  they took of each lot, or the one lot of a row that took nothing) without gaps
  (`PositionFacts`), and `RestoredLots` adds up, for any set of days, to the
  pieces of the lots of those days (`RestoredSum`). Because creditWallet refuses rows
  that are not `Restorable`, that is for all days together the amounts of the rows,
  hence what the balance grows by (`RestorableRestores`). The
  properties count lots by their days, or with nothing when below zero; both are
  `PointsIn` with a different value of a lot.
* *The invariant.* `LotsBackBalance` is not inductive: a debit plans under the lock and
  writes later. `IInv` adds `LockOK` (the plan of whoever holds the row is for the
  lots there are, adds up to its amount and is in order), `LeftOK` (no lot below
  zero unless the balance may be negative), `RowsOK` (rows are of something, and took of lots that exist)
  and `WorkOK` (the lots a run is to sweep exist, it has seen something left in the one
  it lapses, a debit is of something, a reset holds rows of expirations).
  `EmptyLot` writes a lot without the lock. It may do so beside a debit that has
  planned: it runs only when the balance is zero or less, and then, where the
  balance may not be negative, `SumZero` says that the lot is empty already; where
  it may, the order of the plan still holds.
* *The steps.* `StepKinds` shows that a step leaves the wallet alone or is one of five
  kinds (`Earn`, `Lock`, `Commit`, `EmptyLot`, `GivesBack`); `IInv`, the days and the
  order are then shown for the kinds.

`DueLotsLapse` and `LeaversLeave` (liveness) are only model-checked.

Left: notices, the other modes of expiry (the date is computed from the type, and
what follows is the same), and pages of candidates (one page is enough here).

## 10. Banks, projects and gives

`Banks.tla` has the bank of a type as one record, the requests of finance as
operators on it, and the timer. Every posting first locks the bank's row, closes
the cycle that is over, and then posts; as the row serialises them, each
is one action here, and `Ledger` has the statements. `Projects.tla` and `Gives.tla` extend it, and
`Funds.tla` composes the three: whatever touches the bank waits while a give holds its row.

| Code | Model |
|---|---|
| `closeExpiredBankCycle`, `clearCycleBank` | `CloseExpired`, `Emptied` |
| `debitBank`, `creditBank` with the counters of the cycle | `Debited`, `Credited`, `CanDebit`, `CanCredit` |
| open, patch and clear routes | `OpenCycle`, `PatchCycle`, `ClearCycle` |
| the scheduler: `arm`, `refresh`, `scheduleBankCycleExpiry`, an error | `Fire`, `CloseCycles`, `Rearm`, `Rescheduled`, `FinishOvertaken`, `CloseFails`; `Restart` |
| `PATCH` of a project: the check, `syncBudgets`, the update | `ReadUpdate`, `SyncBudgets`, `Touch` |
| submit-plan, its decision | `ReadSubmit`, `Submit`; `RejectPlan`, `ApprovePlan` |
| activate, complete | `ReadActivate`, `Activate`; `Complete` |
| submit-issuance, its decision | `ReadIssue`, `Issue`; `RejectBatch`, `ApproveBatch` |
| close | `Close` |
| `activeAllowance`; the guarded decrement, the bank's debit and the pair limit; the commit | `FindAllowance`, `NewAllowance`; `PostGive`; `CommitGive`, `RefuseGive` |
| `clearMember` on allowances | `Leave` |

The run `funds` has two windows in four rosters: finance beside the manager; two
windows of the manager, one of which also funds; finance alone with every
operation; a member who gives on two devices and leaves, beside funding. Three points of funding, three
moments, two cycles and one fault let a cycle end before, in the middle of and after every
other step; plans of one or two points, two batches and three writes of the
plan let a batch exceed what remains and a plan be changed after its rejection; two
gives to one colleague exceed the pair limit together. It checks
`AllocationCovered`, `NothingFromOver` and `OverCyclesClose` of the bank,
`EscrowConserved`, `ApprovedAsShown` and `ClosedHoldsNothing` of the project,
`PairLimitKept` and `SpentWithinAllowance` of the gives. Fairness: an armed timer
fires, a refresh goes on, and a give that holds its rows commits. Deadlock is not
checked, since everything may be over.

What it shows beyond them, and what it does not have:

* A **plan** is changed in statements of their own. With plan changes and
  submissions in two windows `ApprovedAsShown` fails, so the run gives them to
  one: a change beside a submission lands in the plan that is being approved.
* A **closed project** can be opened again by a batch submitted beside the closing or by
  the rejection of a second batch, although `apps/admin/src/content/document-guide-expanded.ts`
  says that closing is irreversible. `ClosedHoldsNothing` shows that this costs no points.
* The **pair limit** holds because the bank's row makes a second give wait before
  it reads what the first one gave. Gives from the balance, and types without a
  bank, have no such row and are not modelled.
* Two first gives of a cycle each create an **allowance**. `SpentWithinAllowance` holds
  for each of them; together they are twice what the cycle should give.

`FundsProofs.tla` proves, for any sessions, rosters and bounds that satisfy the
assumptions of the modules (one of them, `KeysAssumption`, says that finance does not
use the keys that the code derives for closings, projects and gives):

* `FundsTypeCorrect` - `TypeOK`.
* `CyclesCoverAllocation` - `AllocationCovered`.
* `DebitsCloseWhatIsOver` - the action property `NothingFromOver`.
* `EscrowAddsUp` and `ClosedProjectIsEmpty` - `EscrowConserved`, `ClosedHoldsNothing`.
* `PairsStayWithinLimit` and `GivesStayWithinAllowance` - `PairLimitKept`,
  `SpentWithinAllowance`.
* `ApprovedPlanIsFunded` - `ApprovedAsShown`, when at most one window plans
  (`OnePlanner`), for the reason given above.

Requests, projects and gives all move the bank with the same operators, so the
first part of the proof is about these operators, from a bank to the next one: with
`BankOK` (entries are of its cycles, one cycle is open, a cycle is emptied once
and has counted what its entries allocate) a closing, a debit and a credit lead to a
bank with `BankOK` that has only grown and from which nothing was debited
while a cycle was over (`Proceeds`). Every step of the composition is then one of
these or leaves the bank alone. `EscrowInv` ties the project to its entries in the
bank and to its batches; `GiveInv` says that a give that holds the bank's row is
the only one and that what it checked is still so (`Pays`), which is why the pair
limit holds. `PlanInv` says that no window is in the middle of a change while a
plan is pending. `OverCyclesClose` (liveness) is only model-checked.

## 11. Coalition

`Coalition.tla` models `accumulate`, `redeem`, `convert` and
`reverseCoalitionTransaction` of `packages/coalition`, with the partner as an external component
that executes a reference once. A call is answered, refused or lost (`Lose`,
tried again at most three times), or exceeds the breaker's own timeout (`TimeOut`,
which is not tried again because its message is not among the transient ones), and
one that has not arrived may still land (`LandLate`). Every access to the database may
end in an error, with the write done or not: before the `try` it ends the request
(`LinkAccount`, `CreateTx`), inside it is caught like an error of the call
(`Confirm`, `LocalFails`, `Compensate`), and in the `catch` itself nothing catches it
(`Fail`). The process may die anywhere. A history variable, `unrecorded`, collects the
transactions whose end nobody is left to write: those that are `PENDING` when the process
dies, those whose `updateTxFailed` fails, and those whose `createTx` wrote the row
and lost its answer (`LosesTx`). No action reads it.

| Code | Model |
|---|---|
| `findTxByLocalRef`, the account, `createTx` | `Check`, `LinkAccount`, `CreateTx`; `Unlink` |
| `callWithRetry` under the breaker | `Call`, `Blocked`, `Answer`, `Refuse`, `Lose`, `TimeOut`, `TriedAgain` |
| `updateTxSuccess` and the account, their errors | `Confirm` |
| local debit and credit of `convert`, their errors | `Debit`, `Credit`, `LocalFails` |
| the inner and the outer `catch`; an error of `updateTxFailed` | `Compensate`; `Fail`; `LosesTx` |
| `reverseCoalitionTransaction` | `ReadReversal`, `CallReversal`, `RecordReversal` |

The run `coalition` sends an accumulation and a conversion under one reference in two
sessions, with a death of the process and two reversals by hand. The lookup is by
reference while the unique key is by operation and reference, so two operations
are what lets both pass. It checks that one request calls the partner
(`SentByOneRequest`), that the member's points follow the partner's
(`LocalFollows`), and that nothing stays `PENDING` but what is `unrecorded`
(`Settles`): an error of the partner, of the breaker or of the confirmation
always reaches the `catch` that ends the row. Fairness: the process goes on with each request, and a call has a timeout.

What it does not promise, because the code does not: after a lost answer a
transaction is `FAILED` although the partner has executed it, and a retry is answered with
that row; when the local credit fails the
debit stands; `REVERSED` is overwritten by `FAILED`, after which a reversal can be
asked for again, and a reversal by hand leaves the member's own points as they are.
A row that is `unrecorded` stays `PENDING` for good, and a new request under its
reference is answered with it: nothing takes it up. `docs/coalition.md:475` knows the
symptom, lays it to a call that timed out, and advises a forced reversal or the
reconciliation; but `reverseCoalitionTransaction` refuses a row without `externalTxRef`, which a
`PENDING` one has not, and the reconciliation route only lists such rows. The
same goes for a `FAILED` row whose call was executed and whose answer was lost.
The "guaranteed consistency" that document opens with is stronger than the code.

`CoalitionProofs.tla` proves `CoalitionTypeCorrect` (`TypeOK`), `PartnerCalledByOneRequest`
(`SentByOneRequest`) and `WalletFollowsPartner` (`LocalFollows`), for any sessions, keys
and bounds, and `PendingIsAttended`, the safety side of `Settles`: a `PENDING` row always
has a request that is at work on it, or is `unrecorded`. The inductive invariant says that a key which was recorded has at
most one request that deals with it (`OneDeals`, because the unique key lets one
request create the row), that a key is sent at most as often as it was attempted
(`AttemptsCount`), and what the partner and the wallet have done at each stage
(`StageTells`). A conversion that is at the wallet is no longer `PENDING`, which is why
its end leaves no row behind (`Attended`). `Settles` itself (liveness) is only
model-checked.

## 12. Gift cards

`GiftCards.tla` models a card of `packages/giftcards`: redemptions, refunds and the
cancellation, which read it, lock it in Redis, read it again, write and
release; and the expiry job, which does not lock.

| Code | Model |
|---|---|
| replay by key; `acquire`; the card again, and the checks | `Check`; `Lock`; `Read` |
| `updateCardBalance`, the row, the status; `cancelCard` | `Write` with `Moved`; `WriteCancel` |
| `release` with its token; the TTL | `Release`; `Lapse` |
| `processExpiredCards` | `FindExpired`, `Expire` |

The run `giftcards` has two sessions for two redemptions, a refund and a
cancellation of a card of two, two locks that lapse under their holders (one for
each session) and one request that dies. It checks that a card pays out no more than it holds, locks
or not (`NothingBeyondCard`); that its status tells its balance as long as locks
hold (`StatusAgrees`); and that a due card does not stay spendable
(`DueCardsExpire`). Fairness: the job is repeated and does all of its list. In
`StatusAgrees` the condition is needed: with a lapsed lock the status is computed from
a balance that another request has changed.

A refund does not look at the status: it gives points back to an expired or a
cancelled card and makes it spendable until the job runs again. Nothing activates
a card that was created `pending` except a refund of all of it.

`GiftCardProofs.tla` proves, for any sessions, requests, amounts and bounds,
`CardTypeCorrect` (`TypeOK`), `CardPaysWhatItHolds` (`NothingBeyondCard`, a sum over the
requests that were posted) and `CardStatusTellsBalance` (`StatusAgrees`). The last needs
`LockHeld`, that a session at work holds the lock as long as none has lapsed,
and `ReadStands`, that what it has read is then what the card still is.
`DueCardsExpire` (liveness) is only model-checked.

## 13. Not modelled

* **Workflow scopes.** Whether two active workflows may match one request is
  decided by comparing scopes, on one administrator's input; the models fix a request's workflow.
* **Generation of gift-card batches.** Left with its known gaps: a retry of the
  job starts again from the first card, and a batch cancelled meanwhile is set to ready.
* **Issuance proposals, campaigns, events, check-ins, badges, tiers, segments,
  coupons**: rules over data whose effect on points is a call of the ledger.
* **Notices, notifications, audit**: records that no decision reads.
* **Authentication, user interfaces, MCP server, exports, documents**: no state
  that the point system depends on. They are most of the repository's lines: the
  pages, forms and texts of the applications alone outnumber the code that moves points
  many times, and so the modules stand for a small share of all
  lines and for nearly all statements of `lib/wallets.ts` that change points.

## Running

    tlc -config ledger_safety.cfg MCLedger.tla
    tlc -config settlements.cfg MCSettlements.tla
    tlc -config lots.cfg MCLots.tla
    tlc -config funds.cfg MCFunds.tla
    tlc -config coalition.cfg MCCoalition.tla
    tlc -config giftcards.cfg MCGiftCards.tla
    tlapm LedgerProofs.tla
    tlapm ApprovalProofs.tla
    tlapm SettlementProofs.tla
    tlapm SumLemmas.tla
    tlapm LotsProofs.tla
    tlapm FundsProofs.tla
    tlapm CoalitionProofs.tla
    tlapm GiftCardProofs.tla
