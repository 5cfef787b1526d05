---------------------------- MODULE AtomicLedger ----------------------------
(***************************************************************************)
(* What the point ledger of apps/api/src/lib/wallets.ts promises its        *)
(* callers: whatever the interleaving, a call takes effect in one step,     *)
(* entirely and at most once per idempotency key, and never overdraws.      *)
(***************************************************************************)
EXTENDS Integers, Functions

CONSTANTS
    Accounts,   \* wallets and banks
    Books,      \* sets of accounts: a key is used once in each
    Overdraft,  \* the accounts that may go below zero
    Calls       \* the calls, as the postings they make

VARIABLES
    balance,    \* balance of each account
    posted      \* the postings ever made

vars == <<balance, posted>>

Postings(q) == {q.postings[i] : i \in DOMAIN q.postings}

Init ==
    /\ balance = [a \in Accounts |-> 0]
    /\ posted = {}

Apply(q) ==
    LET new == Postings(q) \ posted
        Total(a) == SumFunction([p \in {r \in new : r.acct = a} |-> p.amt])
    IN  /\ \A B \in Books : \A p \in new, r \in posted :
                {p.acct, r.acct} \subseteq B => p.key # r.key
        /\ posted' = posted \cup new
        /\ balance' = [a \in Accounts |-> balance[a] + Total(a)]
        /\ \A a \in Accounts \ Overdraft : balance'[a] >= 0

Next == \E q \in Calls : Apply(q)

Spec == Init /\ [][Next]_vars

=============================================================================
