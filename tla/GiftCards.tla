------------------------------ MODULE GiftCards ------------------------------
(***************************************************************************)
(* A gift card (packages/giftcards/src/service.ts, repository.ts and       *)
(* locks.ts): redemptions, refunds and the cancellation, which lock the    *)
(* card in Redis, and the job that expires it, which does not.             *)
(*                                                                         *)
(* A request reads the card, takes the lock, reads the card again, writes  *)
(* it in one READ COMMITTED transaction and releases the lock.  The lock   *)
(* lapses after its TTL, whether or not its holder has finished.           *)
(***************************************************************************)
EXTENDS Integers, FiniteSets, Functions

CONSTANTS
  Sessions,             \* HTTP requests being served at a time
  Requests, Op, Amount, \* what is asked for: its idempotency key, the
                        \* operation and its amount
  Initial,              \* the card's initial amount
  NoOne,                \* the lock is free
  MaxLapses,            \* bound: locks that lapse under a holder at work
  MaxCrashes            \* bound: requests that die

Operations == {"redeem", "refund", "cancel"}

ASSUME GiftCardsAssumption ==
  /\ IsFiniteSet(Requests)
  /\ Op \in [Requests -> Operations]
  /\ Amount \in [Requests -> Nat \ {0}]
  /\ Initial \in Nat \ {0}
  /\ NoOne \notin Sessions
  /\ MaxLapses \in Nat /\ MaxCrashes \in Nat

VARIABLES
  card,     \* the GiftCard's status and balance
  posted,   \* the keys of the GiftCardTransactions; those without one are left out
  holder,   \* the key in Redis: who has locked the card
  work,     \* what each session is doing, and the balance it has read
  due,      \* whether the card's expiration date is past
  expiring, \* whether the job has the card on its list
  faults    \* the locks that lapsed under a holder, and the requests that died

vars == <<card, posted, holder, work, due, expiring, faults>>

Alive == {"active", "partially_redeemed"}

Statuses == Alive \cup {"pending", "depleted", "expired", "cancelled"}

Idle == [stage |-> "idle"]

Work == {Idle} \cup [stage : {"lock", "read", "write", "release"}, key : Requests, seen : Int]

TypeOK ==
  /\ card \in [status : Statuses, balance : Nat]
  /\ posted \subseteq Requests
  /\ holder \in Sessions \cup {NoOne}
  /\ work \in [Sessions -> Work]
  /\ due \in BOOLEAN /\ expiring \in BOOLEAN
  /\ faults \in [lapses : 0 .. MaxLapses, crashes : 0 .. MaxCrashes]

\* A card is created as pending, and nothing activates it but a refund of the
\* whole amount after it was cancelled.
Init ==
  /\ card \in {[status |-> s, balance |-> Initial] : s \in {"pending", "active"}}
  /\ posted = {}
  /\ holder = NoOne
  /\ work = [p \in Sessions |-> Idle]
  /\ due = FALSE /\ expiring = FALSE
  /\ faults = [lapses |-> 0, crashes |-> 0]

-----------------------------------------------------------------------------
(***************************************************************************)
(* A request.                                                              *)
(***************************************************************************)

At(p, stage) == work[p].stage = stage

Goes(p, stage) == work' = [work EXCEPT ![p].stage = stage]

\* The card as it is now; a key that is posted is answered from its row.
Check(p, k) ==
  /\ work[p] = Idle
  /\ IF Op[k] = "cancel" THEN card.status # "cancelled" ELSE k \notin posted
  /\ work' = [work EXCEPT ![p] = [stage |-> "lock", key |-> k, seen |-> card.balance]]
  /\ UNCHANGED <<card, posted, holder, due, expiring, faults>>

\* A lock that is taken refuses the request.
Lock(p) ==
  /\ At(p, "lock")
  /\ IF holder = NoOne
     THEN holder' = p /\ Goes(p, "read")
     ELSE work' = [work EXCEPT ![p] = Idle] /\ UNCHANGED holder
  /\ UNCHANGED <<card, posted, due, expiring, faults>>

Redeemable(n) == card.status \in Alive /\ ~due /\ card.balance >= n

Refundable(n) == card.balance + n <= Initial

\* Mutant: the balance is the one that was read before the lock.
SeenBeforeLock(p) == work[p].seen

Seen(p) == card.balance

Allowed(k) ==
  /\ Op[k] = "redeem" => Redeemable(Amount[k])
  /\ Op[k] = "refund" => Refundable(Amount[k])

\* The card is read again, and a request it does not allow refused; the
\* cancellation writes without a look at it.
Read(p) ==
  /\ At(p, "read")
  /\ work' = [work EXCEPT ![p].stage = IF Allowed(work[p].key) THEN "write" ELSE "release",
                          ![p].seen = Seen(p)]
  /\ UNCHANGED <<card, posted, holder, due, expiring, faults>>

\* Mutant: the key of a row is not unique.
KeyAlwaysFree(k) == TRUE

KeyFree(k) == k \notin posted

\* Mutant: the decrement relies on the balance that was read.
CoveredWhenRead(p, n) == work[p].seen >= n

Covered(p, n) == card.balance >= n

\* The balance moves by the amount, and the status follows from what was read.
Moved(p, k) ==
  LET after == IF Op[k] = "redeem" THEN work[p].seen - Amount[k] ELSE work[p].seen + Amount[k] IN
  [balance |-> IF Op[k] = "redeem" THEN card.balance - Amount[k] ELSE card.balance + Amount[k],
   status |-> IF after = 0 THEN "depleted"
              ELSE IF Op[k] = "refund" /\ after = Initial THEN "active" ELSE "partially_redeemed"]

\* A key that is posted meanwhile, or a balance that is too low, rolls it back.
Write(p) ==
  LET k == work[p].key
      commits == KeyFree(k) /\ (Op[k] = "redeem" => Covered(p, Amount[k]))
  IN
  /\ At(p, "write") /\ Op[k] # "cancel"
  /\ IF commits
     THEN card' = Moved(p, k) /\ posted' = posted \cup {k}
     ELSE UNCHANGED <<card, posted>>
  /\ Goes(p, "release")
  /\ UNCHANGED <<holder, due, expiring, faults>>

WriteCancel(p) ==
  /\ At(p, "write") /\ Op[work[p].key] = "cancel"
  /\ card' = [status |-> "cancelled", balance |-> 0]
  /\ Goes(p, "release")
  /\ UNCHANGED <<posted, holder, due, expiring, faults>>

\* The token tells whose lock it is.
Released(p) == IF holder = p THEN NoOne ELSE holder

Release(p) ==
  /\ At(p, "release")
  /\ holder' = Released(p)
  /\ work' = [work EXCEPT ![p] = Idle]
  /\ UNCHANGED <<card, posted, due, expiring, faults>>

\* The TTL runs out: of a lock a dead request has left, or under one at work.
Lapse ==
  /\ holder # NoOne
  /\ IF work[holder] = Idle
     THEN UNCHANGED faults
     ELSE faults.lapses < MaxLapses /\ faults' = [faults EXCEPT !.lapses = @ + 1]
  /\ holder' = NoOne
  /\ UNCHANGED <<card, posted, work, due, expiring>>

Crash(p) ==
  /\ work[p] # Idle
  /\ faults.crashes < MaxCrashes
  /\ faults' = [faults EXCEPT !.crashes = @ + 1]
  /\ work' = [work EXCEPT ![p] = Idle]
  /\ UNCHANGED <<card, posted, holder, due, expiring>>

-----------------------------------------------------------------------------
(***************************************************************************)
(* The job.                                                                *)
(***************************************************************************)

Pass ==
  /\ ~due /\ due' = TRUE
  /\ UNCHANGED <<card, posted, holder, work, expiring, faults>>

\* Mutant: only the cards that were never redeemed expire.
ExpirableUnused == due /\ card.status = "active"

Expirable == due /\ card.status \in Alive

FindExpired ==
  /\ Expirable /\ ~expiring
  /\ expiring' = TRUE
  /\ UNCHANGED <<card, posted, holder, work, due, faults>>

\* Whatever became of the card meanwhile; the balance stays.
Expire ==
  /\ expiring
  /\ expiring' = FALSE
  /\ card' = [card EXCEPT !.status = "expired"]
  /\ UNCHANGED <<posted, holder, work, due, faults>>

-----------------------------------------------------------------------------

Serve(p) == Lock(p) \/ Read(p) \/ Write(p) \/ WriteCancel(p) \/ Release(p)

Next ==
  \/ \E p \in Sessions :
       Serve(p) \/ Crash(p) \/ \E k \in Requests : Check(p, k)
  \/ Lapse \/ Pass \/ FindExpired \/ Expire

\* The job is repeated, and does all of its list.
Spec == Init /\ [][Next]_vars /\ WF_vars(FindExpired) /\ WF_vars(Expire)

-----------------------------------------------------------------------------
(***************************************************************************)
(* Properties.                                                             *)
(***************************************************************************)

PostedOf(op) == SumFunctionOnSet(Amount, {k \in posted : Op[k] = op})

(* Nothing is spent beyond the card and its refunds, and no key moves points *)
(* twice: also when a lock lapses under its holder and another request works *)
(* at the same time, or with what the card was before the lock.              *)
NothingBeyondCard == card.balance + PostedOf("redeem") <= Initial + PostedOf("refund")

(* As long as no lock lapses under its holder, the status tells the balance, *)
(* which never exceeds the initial amount, whatever requests do at once,     *)
(* die holding the lock or find the card expired.                            *)
StatusAgrees ==
  faults.lapses = 0 =>
    /\ card.balance <= Initial
    /\ card.status \in {"depleted", "cancelled"} => card.balance = 0
    /\ card.status \in {"pending", "active"} => card.balance = Initial
    /\ card.status = "partially_redeemed" => card.balance \in 1 .. Initial - 1

(* A card that is due ceases to be spendable, although a redemption or a     *)
(* refund that was under way gives it a status that is, after the job ran.   *)
DueCardsExpire == (due /\ card.status \in Alive) ~> card.status \notin Alive
=============================================================================
