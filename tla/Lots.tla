-------------------------------- MODULE Lots --------------------------------
(***************************************************************************)
(* A member's wallet of one point type: the lots its points came in, their *)
(* expiry by the daily job or by an administrator, the reset of a run, the *)
(* refund of a debit, and the member's offboarding (apps/api/src/lib/      *)
(* wallets.ts, workers/credits.ts, routes/credits.ts and routes/admin/     *)
(* credit-users.ts).                                                       *)
(*                                                                         *)
(* A debit locks the wallet's row, reads the lots, writes them and commits *)
(* (Lock, Commit); what a request reads before that, it reads unlocked.    *)
(* The type takes an expiry with each grant (PER_GRANT) and has no bank.   *)
(***************************************************************************)
EXTENDS Integers, FiniteSets, Functions, Sequences

CONSTANTS
  Sessions,         \* HTTP requests being served at a time
  Job,              \* the worker of the daily queue credits.expire
  Rosters,          \* which operations each session serves, one of these for a behaviour
  Grants, Amount, Expiry,   \* what is granted: how many points, until which day
  Spends, Cost,     \* debits of the member that can be refunded, and their points
  Runs,             \* expirations an administrator starts (expirationRunId)
  Horizon,          \* bound: the last day
  MaxLots           \* bound: the lots of the wallet

Never == Horizon + 1

Operations == {"earn", "spend", "refund", "expire", "force", "reset",
               "clear", "schedule", "cancel", "rehire"}

ASSUME LotsAssumption ==
  /\ Job \notin Sessions /\ "none" \notin Sessions \cup {Job}
  /\ IsFiniteSet(Grants) /\ IsFiniteSet(Spends)
  /\ Rosters \subseteq [Sessions -> SUBSET Operations]
  /\ Amount \in [Grants -> Nat \ {0}] /\ Expiry \in [Grants -> Nat]
  /\ Cost \in [Spends -> Nat \ {0}]
  /\ Horizon \in Nat /\ MaxLots \in Nat
  /\ \A g \in Grants : Expiry[g] \in 1 .. Never

VARIABLES
  routes,     \* the operations each session serves
  clock,      \* the day
  negative,   \* PointTypeDefinition.allowNegativeBalance
  balance,    \* CustomPointWallet.balance
  lots,       \* CustomPointLot, in the order of creation
  granted,    \* the grants posted
  rows,       \* CustomPointTransaction: the debits posted, by idempotency key
  member,     \* Member.status and lastWorkingDay
  lock,       \* the debit that holds the wallet's row, and what it takes of each lot
  work        \* what each session and the job are doing: what they have read

vars == <<routes, clock, negative, balance, lots, granted, rows, member, lock, work>>

ledger == <<balance, lots, granted, rows>>

fixed == <<routes, negative>>

-----------------------------------------------------------------------------

Processes == Sessions \cup {Job}

SpendKey(s) == <<"spend", s>>
LapseKey(l) == <<"lapse", l>>
ClearKey(k) == <<"clear", k>>

Keys == {SpendKey(s) : s \in Spends} \cup {LapseKey(l) : l \in 1 .. MaxLots}
        \cup {ClearKey(k) : k \in Sessions \cup (0 .. Horizon)}

Lot == [amount : Nat, left : Int, expiry : 1 .. Never]

\* A debit: its points, what it took of each lot (metadata.consumedLots), the
\* administrator's run that posted it, and whether it has been given back.
Rows == [amount : Nat, taken : Seq(Nat), run : Runs \cup {Job}, undone : BOOLEAN]

Idle == [op |-> "idle"]
Free == [by |-> "none"]

Sweep == [todo : SUBSET (1 .. MaxLots), force : BOOLEAN, run : Runs \cup {Job}]
NoSweep == [todo |-> {}, force |-> FALSE, run |-> Job]

Work ==
  {Idle}
  \cup [op : {"earn"}, g : Grants]
  \cup [op : {"sweep", "offboard"}, sweep : Sweep]
  \cup [op : {"lapse"}, sweep : Sweep, lot : 1 .. MaxLots, seen : Nat]
  \cup [op : {"debit"}, key : Keys, amount : Nat, sweep : Sweep]
  \cup [op : {"reset"}, keys : SUBSET Keys]
  \cup [op : {"schedule"}, day : 0 .. Horizon]

TypeOK ==
  /\ routes \in Rosters
  /\ clock \in 0 .. Horizon
  /\ negative \in BOOLEAN
  /\ balance \in Int /\ (negative \/ balance >= 0)
  /\ lots \in Seq(Lot)
  /\ granted \subseteq Grants
  /\ DOMAIN rows \subseteq Keys /\ \A k \in DOMAIN rows : rows[k] \in Rows
  /\ member \in [status : {"ACTIVE", "INACTIVE"}, last : 0 .. Never]
  /\ lock = Free \/ lock \in [by : Processes, plan : Seq(Nat)]
  /\ work \in [Processes -> Work]

Init ==
  /\ routes \in Rosters
  /\ clock = 0
  /\ negative \in BOOLEAN
  /\ balance = 0
  /\ lots = << >>
  /\ granted = {}
  /\ rows = << >>
  /\ member = [status |-> "ACTIVE", last |-> Never]
  /\ lock = Free
  /\ work = [p \in Processes |-> Idle]

Serves(p, op) == p \in Sessions /\ work[p] = Idle /\ op \in routes[p]

Set(p, w) == work' = [work EXCEPT ![p] = w]

Begin(p, w) == Set(p, w) /\ UNCHANGED <<clock, fixed, ledger, member, lock>>

Posted(k) == k \in DOMAIN rows

Least(a, b) == IF a < b THEN a ELSE b
AtLeast0(n) == IF n < 0 THEN 0 ELSE n

\* ORDER BY expiresAt, createdAt: a lot that never expires comes last.
Before(m, l) ==
  \/ lots[m].expiry < lots[l].expiry
  \/ lots[m].expiry = lots[l].expiry /\ m < l

LeftOf == [l \in DOMAIN lots |-> AtLeast0(lots[l].left)]

LeftBefore(l) == SumFunctionOnSet(LeftOf, {m \in DOMAIN lots : Before(m, l)})

\* Mutant: the lots are taken in the order they came.
PlanByAge(amount) ==
  [l \in DOMAIN lots |->
    Least(LeftOf[l],
          AtLeast0(amount - SumFunctionOnSet(LeftOf, 1 .. (l - 1))))]

\* Mutant: lots whose day has come are left to the job.
PlanUnexpired(amount) ==
  [l \in DOMAIN lots |-> IF lots[l].expiry <= clock THEN 0 ELSE
    Least(LeftOf[l], AtLeast0(amount - LeftBefore(l)))]

\* What a debit of so many points takes of each lot, the first to expire first.
Plan(amount) ==
  [l \in DOMAIN lots |-> Least(LeftOf[l], AtLeast0(amount - LeftBefore(l)))]

-----------------------------------------------------------------------------
(***************************************************************************)
(* Credits.  An update of the wallet waits for a debit that holds its row. *)
(***************************************************************************)

ReadEarn(p, g) ==
  /\ Serves(p, "earn")
  /\ member.status = "ACTIVE"
  /\ g \notin granted
  /\ Begin(p, [op |-> "earn", g |-> g])

\* issueWithTransaction, and adjustWithTransaction of a positive amount.
Earn(p) ==
  LET g == work[p].g IN
  /\ work[p].op = "earn"
  /\ lock = Free
  /\ Expiry[g] > clock
  /\ g \notin granted /\ Len(lots) < MaxLots
  /\ granted' = granted \cup {g}
  /\ balance' = balance + Amount[g]
  /\ lots' = Append(lots, [amount |-> Amount[g], left |-> Amount[g], expiry |-> Expiry[g]])
  /\ Set(p, Idle)
  /\ UNCHANGED <<clock, fixed, rows, member, lock>>

\* expiryFor: a grant has to expire in the future.
EarnRefused(p) ==
  /\ work[p].op = "earn" /\ Expiry[work[p].g] <= clock
  /\ Begin(p, Idle)

\* The row took of no lot: the debit found none, and the balance went below zero.
TookNothing(k) == \A l \in DOMAIN rows[k].taken : rows[k].taken[l] = 0

NumberOf(k) == IF k[1] = "lapse" THEN k[2] ELSE 0

\* The lots a row is restored as, <<a number for the key, the lot it took of, the
\* points>>; a row that took of none is one lot (0) of all its points.
Pieces(k) ==
  IF TookNothing(k) THEN {<<NumberOf(k), 0, rows[k].amount>>}
  ELSE {<<NumberOf(k), l, rows[k].taken[l]>> :
          l \in {m \in DOMAIN rows[k].taken : rows[k].taken[m] > 0}}

AllPieces(ks) == UNION {Pieces(k) : k \in ks}

\* The lots that come back have to add up to the amount.
Restorable(k) == SumFunction([t \in Pieces(k) |-> t[3]]) = rows[k].amount

\* Position of t among ts, by key and lot.
Position(t, ts) ==
  Cardinality({u \in ts : u[1] < t[1] \/ (u[1] = t[1] /\ u[2] <= t[2])})

\* Mutant: a lot that comes back starts a new life.
RestoredLotsRenewed(ks) ==
  LET ts == AllPieces(ks) IN
  [i \in 1 .. Cardinality(ts) |->
    LET t == CHOOSE u \in ts : Position(u, ts) = i IN
    [amount |-> t[3], left |-> t[3], expiry |-> Never]]

\* A debit has no expiry of its own: the lot of one that took nothing never expires.
ExpiryOf(t) == IF t[2] = 0 THEN Never ELSE lots[t[2]].expiry

\* The lots that give those rows back: new ones, with the old expiry.
RestoredLots(ks) ==
  LET ts == AllPieces(ks) IN
  [i \in 1 .. Cardinality(ts) |->
    LET t == CHOOSE u \in ts : Position(u, ts) = i IN
    [amount |-> t[3], left |-> t[3], expiry |-> ExpiryOf(t)]]

\* Credit back what the rows of ks debited.
GiveBack(ks) ==
  /\ lock = Free
  /\ Len(lots) + Cardinality(AllPieces(ks)) <= MaxLots
  /\ balance' = balance + SumFunction([k \in ks |-> rows[k].amount])
  /\ lots' = lots \o RestoredLots(ks)
  /\ rows' = [k \in DOMAIN rows |->
               IF k \in ks THEN [rows[k] EXCEPT !.undone = TRUE] ELSE rows[k]]
  /\ UNCHANGED <<clock, fixed, granted, member, lock>>

\* The refund of a voucher or redemption.  The restored lots have to add up to
\* the amount; without any, the credit would need an expiry and is refused.
Refund(p, s) ==
  LET k == SpendKey(s) IN
  /\ Serves(p, "refund")
  /\ Posted(k) /\ ~rows[k].undone
  /\ ~TookNothing(k) /\ Restorable(k)
  /\ GiveBack({k})
  /\ UNCHANGED work

OfRun(r) == {k \in DOMAIN rows : k[1] = "lapse" /\ rows[k].run = r}

\* resetExpiry: the rows of the run that have no reset, read before the transaction ...
ReadReset(p, r) ==
  LET candidates == {k \in OfRun(r) : ~rows[k].undone} IN
  /\ Serves(p, "reset")
  /\ candidates # {}
  /\ Begin(p, [op |-> "reset", keys |-> candidates])

\* ... and given back in one transaction, without those reset by then.  A row that
\* took nothing comes back in full.
Reset(p) ==
  LET ks == {k \in work[p].keys : ~rows[k].undone} IN
  /\ work[p].op = "reset"
  /\ \A k \in ks : Restorable(k)
  /\ GiveBack(ks)
  /\ Set(p, Idle)

\* One row that took of lots, but less than its amount, refuses the whole run.
ResetRefused(p) ==
  /\ work[p].op = "reset"
  /\ \E k \in work[p].keys : ~rows[k].undone /\ ~Restorable(k)
  /\ Begin(p, Idle)

-----------------------------------------------------------------------------
(***************************************************************************)
(* Debits: the member's, an expired lot's and the clearance's.             *)
(***************************************************************************)

Debit(key, amount, sweep) ==
  [op |-> "debit", key |-> key, amount |-> amount, sweep |-> sweep]

ReadSpend(p, s) ==
  /\ Serves(p, "spend")
  /\ member.status = "ACTIVE"
  /\ ~Posted(SpendKey(s))
  /\ Begin(p, Debit(SpendKey(s), Cost[s], NoSweep))

\* Mutant: the decrement is not guarded.
LockUnguarded(p) ==
  /\ work[p].op = "debit"
  /\ lock = Free
  /\ ~Posted(work[p].key)
  /\ lock' = [by |-> p, plan |-> Plan(work[p].amount)]
  /\ UNCHANGED <<clock, fixed, ledger, member, work>>

\* The guarded decrement, which locks the wallet's row, and the lots read under it.
Lock(p) ==
  /\ work[p].op = "debit"
  /\ lock = Free
  /\ ~Posted(work[p].key)
  /\ negative \/ balance >= work[p].amount
  /\ lock' = [by |-> p, plan |-> Plan(work[p].amount)]
  /\ UNCHANGED <<clock, fixed, ledger, member, work>>

Inactive == [status |-> "INACTIVE", last |-> Never]

\* The lots are written, the debit is posted, and the transaction commits.  An
\* expiration goes on with the next lot; a clearance closes the member.
Commit(p) ==
  LET w == work[p]  k == w.key IN
  /\ lock.by = p
  /\ balance' = balance - w.amount
  /\ lots' = [l \in DOMAIN lots |-> [lots[l] EXCEPT !.left = @ - lock.plan[l]]]
  /\ rows' = [j \in DOMAIN rows \cup {k} |->
       IF j = k
       THEN [amount |-> w.amount, taken |-> lock.plan, run |-> w.sweep.run, undone |-> FALSE]
       ELSE rows[j]]
  /\ member' = IF k[1] = "clear" THEN Inactive ELSE member
  /\ lock' = Free
  /\ Set(p, IF k[1] = "lapse" THEN [op |-> "sweep", sweep |-> w.sweep] ELSE Idle)
  /\ UNCHANGED <<clock, fixed, granted>>

\* The balance is too low by now, or another request has posted the key: the
\* whole operation fails, a run of expirations too.
Refuse(p) ==
  /\ work[p].op = "debit"
  /\ lock = Free
  /\ Posted(work[p].key) \/ (~negative /\ balance < work[p].amount)
  /\ Begin(p, Idle)

-----------------------------------------------------------------------------
(***************************************************************************)
(* Expiration: the candidates are read at the start, and each lot has a    *)
(* transaction of its own that reads the lot, then the wallet, then debits *)
(* the wallet.  The daily job goes on with the offboarding.                *)
(***************************************************************************)

Due(l) == lots[l].left > 0 /\ lots[l].expiry <= clock

\* Mutant: a lot is not due yet on the day it expires.
StartSweepLate(p, op, force, r) ==
  /\ IF p = Job THEN work[p] = Idle ELSE Serves(p, op)
  /\ Begin(p, [op |-> "sweep",
               sweep |-> [todo |-> {l \in DOMAIN lots : lots[l].left > 0
                                     /\ (force \/ lots[l].expiry < clock)},
                          force |-> force, run |-> r]])

StartSweep(p, op, force, r) ==
  /\ IF p = Job THEN work[p] = Idle ELSE Serves(p, op)
  /\ Begin(p, [op |-> "sweep",
               sweep |-> [todo |-> {l \in DOMAIN lots : lots[l].left > 0 /\ (force \/ Due(l))},
                          force |-> force, run |-> r]])

\* A run has its own identifier.
Fresh(r) ==
  /\ OfRun(r) = {}
  /\ \A p \in Sessions : work[p].op \in {"sweep", "lapse", "debit"} => work[p].sweep.run # r

StartJob == StartSweep(Job, "job", FALSE, Job)
StartExpire(p, r) == Fresh(r) /\ StartSweep(p, "expire", FALSE, r)
StartForce(p, r) == Fresh(r) /\ StartSweep(p, "force", TRUE, r)

Next1(todo) == CHOOSE l \in todo : \A m \in todo \ {l} : Before(l, m)

Without(sweep, l) == [op |-> "sweep", sweep |-> [sweep EXCEPT !.todo = @ \ {l}]]

\* The lot is read again; one that has nothing left is done.
ReadLot(p) ==
  LET sweep == work[p].sweep  l == Next1(sweep.todo) IN
  /\ work[p].op = "sweep" /\ sweep.todo # {}
  /\ Begin(p, IF lots[l].left <= 0
              THEN Without(sweep, l)
              ELSE [op |-> "lapse", sweep |-> sweep, lot |-> l, seen |-> lots[l].left])

LapseAmount(p) == Least(work[p].seen, AtLeast0(balance))

\* Nothing is held against the lot: it is emptied, without the wallet's lock.
EmptyLot(p) ==
  /\ work[p].op = "lapse"
  /\ LapseAmount(p) = 0
  /\ lots' = [lots EXCEPT ![work[p].lot].left = 0]
  /\ Set(p, Without(work[p].sweep, work[p].lot))
  /\ UNCHANGED <<clock, fixed, balance, granted, rows, member, lock>>

\* The lot's expiration is posted already: the same one is replayed, and one of
\* another amount is a conflict that ends the run.
LapseReplayed(p) ==
  LET k == LapseKey(work[p].lot) IN
  /\ work[p].op = "lapse"
  /\ LapseAmount(p) > 0 /\ Posted(k)
  /\ Begin(p, IF rows[k].amount = LapseAmount(p)
              THEN Without(work[p].sweep, work[p].lot)
              ELSE Idle)

StartLapse(p) ==
  LET k == LapseKey(work[p].lot) IN
  /\ work[p].op = "lapse"
  /\ LapseAmount(p) > 0 /\ ~Posted(k)
  /\ Begin(p, Debit(k, LapseAmount(p), Without(work[p].sweep, work[p].lot).sweep))

\* Another run has posted the key meanwhile, and the debit finds it.
LapseOvertaken(p) ==
  LET w == work[p] IN
  /\ w.op = "debit" /\ w.key[1] = "lapse"
  /\ lock.by # p
  /\ Posted(w.key) /\ rows[w.key].amount = w.amount
  /\ Begin(p, [op |-> "sweep", sweep |-> w.sweep])

EndSweep(p) ==
  /\ work[p].op = "sweep" /\ work[p].sweep.todo = {}
  /\ Begin(p, IF p = Job THEN [op |-> "offboard", sweep |-> work[p].sweep] ELSE Idle)

-----------------------------------------------------------------------------
(***************************************************************************)
(* Offboarding: at once, or by the job after the last working day.         *)
(***************************************************************************)

\* clearMember: the balance is read, and that much is debited; with nothing to
\* debit the member is closed.
Clear(p, key) ==
  IF balance > 0
  THEN Begin(p, Debit(ClearKey(key), balance, NoSweep))
  ELSE /\ member' = Inactive
       /\ Set(p, Idle)
       /\ UNCHANGED <<clock, fixed, ledger, lock>>

ReadClear(p) == Serves(p, "clear") /\ ~Posted(ClearKey(p)) /\ Clear(p, p)

\* Mutant: the job looks for yesterday's leavers only.
OffboardYesterday ==
  /\ work[Job].op = "offboard"
  /\ IF member.status = "ACTIVE" /\ member.last + 1 = clock
     THEN Clear(Job, member.last)
     ELSE Begin(Job, Idle)

\* The job reads the member again in the transaction that clears it.
Offboard ==
  /\ work[Job].op = "offboard"
  /\ IF member.status = "ACTIVE" /\ member.last < clock
     THEN Clear(Job, member.last)
     ELSE Begin(Job, Idle)

\* Scheduling reads that the member is active, and writes the day afterwards.
ReadSchedule(p, day) ==
  /\ Serves(p, "schedule")
  /\ member.status = "ACTIVE" /\ day >= clock
  /\ Begin(p, [op |-> "schedule", day |-> day])

Schedule(p) ==
  /\ work[p].op = "schedule"
  /\ member' = [member EXCEPT !.last = work[p].day]
  /\ Set(p, Idle)
  /\ UNCHANGED <<clock, fixed, ledger, lock>>

\* The cancellation updates the member only while the day is the one it read.
CancelSchedule(p) ==
  /\ Serves(p, "cancel")
  /\ member.status = "ACTIVE" /\ member.last # Never
  /\ member' = [member EXCEPT !.last = Never]
  /\ UNCHANGED <<clock, fixed, ledger, lock, work>>

Rehire(p) ==
  /\ Serves(p, "rehire")
  /\ member.status = "INACTIVE"
  /\ member' = [status |-> "ACTIVE", last |-> Never]
  /\ UNCHANGED <<clock, fixed, ledger, lock, work>>

Tick ==
  /\ clock < Horizon
  /\ clock' = clock + 1
  /\ UNCHANGED <<fixed, ledger, member, lock, work>>

-----------------------------------------------------------------------------

\* The next statement of an expiration, from its start to its end.
SweepStep(p) ==
  \/ ReadLot(p) \/ EmptyLot(p) \/ LapseReplayed(p) \/ StartLapse(p)
  \/ LapseOvertaken(p) \/ EndSweep(p)

DebitStep(p) == Lock(p) \/ Commit(p) \/ Refuse(p)

SessionStep(p) ==
  \/ \E g \in Grants : ReadEarn(p, g)
  \/ Earn(p) \/ EarnRefused(p)
  \/ \E s \in Spends : ReadSpend(p, s) \/ Refund(p, s)
  \/ \E r \in Runs : StartExpire(p, r) \/ StartForce(p, r) \/ ReadReset(p, r)
  \/ Reset(p) \/ ResetRefused(p)
  \/ ReadClear(p)
  \/ \E day \in 0 .. Horizon : ReadSchedule(p, day)
  \/ Schedule(p) \/ CancelSchedule(p) \/ Rehire(p)

Next ==
  \/ StartJob \/ Offboard \/ Tick
  \/ \E p \in Processes : SweepStep(p) \/ DebitStep(p)
  \/ \E p \in Sessions : SessionStep(p)

\* The queue runs the job again and again and the job goes on to its end; a
\* transaction that holds the wallet's row commits.
Fairness ==
  /\ WF_vars(StartJob \/ Offboard \/ SweepStep(Job) \/ DebitStep(Job))
  /\ \A p \in Sessions : WF_vars(Commit(p))

Spec == Init /\ [][Next]_vars /\ Fairness

-----------------------------------------------------------------------------
(***************************************************************************)
(* Properties.                                                             *)
(***************************************************************************)

LeftSum == SumFunction(LeftOf)

Recorded(k) == SumFunction(rows[k].taken)

(* The lots say what the wallet holds: they add up to the balance, and every *)
(* debit recorded lots that add up to its points, so that it can be given    *)
(* back, however the debits, expirations and credits of several requests     *)
(* interleave.  Where the balance may be negative the lots only never fall   *)
(* short of it: a debit that recorded some lots, but too few, is never given *)
(* back, and an expiration that recorded none comes back as one lot.         *)
LotsBackBalance ==
  IF negative THEN LeftSum >= balance
  ELSE LeftSum = balance /\ \A k \in DOMAIN rows : rows[k].amount = Recorded(k)

GrantedUntil(e) == SumFunctionOnSet(Amount, {g \in granted : Expiry[g] = e})

LeftUntil(e) ==
  SumFunction([l \in {m \in DOMAIN lots : lots[m].expiry = e} |-> lots[l].left])

\* What a debit took of the lots of that day.
TakenFrom(k, e) ==
  SumFunctionOnSet(rows[k].taken, {l \in DOMAIN rows[k].taken : lots[l].expiry = e})

Standing == {k \in DOMAIN rows : ~rows[k].undone}

TakenUntil(e) == SumFunction([k \in Standing |-> TakenFrom(k, e)])

(* For every day, what was granted until that day is still in lots that      *)
(* expire then or was taken by debits that stand: a refund or a reset gives  *)
(* back once, and no point lives longer or shorter for having been spent.    *)
ExpiryConserved ==
  ~negative => \A e \in 1 .. Never : GrantedUntil(e) = LeftUntil(e) + TakenUntil(e)

(* A debit leaves no point that expires earlier than one it took, whatever   *)
(* was granted, refunded or expired while it was being served.               *)
FirstToExpireFirst ==
  [][\A l, m \in DOMAIN lots :
       rows' # rows /\ lots'[l].left < lots[l].left /\ Before(m, l)
         => lots'[m].left <= 0]_vars

\* A lot that has an expiration posted and is not empty: the job replays it,
\* or fails on it, every day.
Stuck == \E l \in DOMAIN lots : Due(l) /\ Posted(LapseKey(l))

(* The daily job empties every lot whose day has come, unless a lot is stuck *)
(* (and then its conflict may end the job before it gets to the others).     *)
DueLotsLapse ==
  \A l \in 1 .. MaxLots :
    LET Waits == l \in DOMAIN lots /\ Due(l) IN Waits ~> (~Waits \/ Stuck)

(* A member whose last day has passed is offboarded, unless the day is taken *)
(* back, or a stuck lot ends the job before it comes to the offboarding.     *)
LeaversLeave ==
  (member.status = "ACTIVE" /\ member.last < clock)
    ~> (member.status = "INACTIVE" \/ member.last >= clock \/ Stuck)
=============================================================================
