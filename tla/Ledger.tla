------------------------------- MODULE Ledger -------------------------------
(***************************************************************************)
(* The point ledger of apps/api/src/lib/wallets.ts: wallets and banks whose *)
(* balances change only through postings, each recorded as a row of one of  *)
(* two hash-linked append-only chains, by API calls that run as PostgreSQL  *)
(* transactions of several statements: READ COMMITTED ones, whose every     *)
(* statement sees what is committed by then, and, when an approval decision *)
(* or a voucher cancellation posts, SERIALIZABLE ones, which read from the  *)
(* snapshot their first statement took.                                     *)
(*                                                                         *)
(* One action per statement that reads or writes shared state.  What a      *)
(* transaction wrote and did not commit is private to it (delta, draft) and *)
(* guarded by the row lock of the account and the advisory lock of the      *)
(* chain; a rollback drops both.  Clients may send any call at any time, so *)
(* the same call sent twice, at once or one after the other, is the double  *)
(* submission or the retry the idempotency keys are for.                    *)
(***************************************************************************)
EXTENDS Integers, Sequences, FiniteSets, Functions

CONSTANTS
    Clients,    \* API requests that can be in flight at once
    Wallets,    \* CustomPointWallet rows: one per member and point type
    Banks,      \* PointBank rows: one per point type
    Owner,      \* Owner[w]: the member a wallet belongs to
    Overdraft,  \* wallets of point types with allowNegativeBalance
    Keys,       \* idempotency keys callers choose
    Calls,      \* the calls callers may send
    Clock,      \* readings an API instance's clock may give
    MaxCalls,   \* bound: calls received in a behaviour
    NoClient, NoCall, NoKey

Accounts == Wallets \cup Banks
Chains == {"wallet", "bank"}
ChainOf(a) == IF a \in Banks THEN "bank" ELSE "wallet"

\* A row key is the caller's key and the suffix the service adds to it.
Suffixes == {"", "bank", "out", "in"}
RowKeys == Keys \X Suffixes

Posting == [acct: Accounts, amt: Int, action: STRING, key: RowKeys]
Row == [acct: Accounts, amt: Int, action: STRING, key: RowKeys,
        after: Int, at: Nat, prev: RowKeys \cup {NoKey}, serial: BOOLEAN]
                           \* serial: inserted by a SERIALIZABLE transaction

-----------------------------------------------------------------------------
(* The service's operations, as the postings they make in order.            *)

Post(a, n, act, k, s) == [acct |-> a, amt |-> n, action |-> act, key |-> <<k, s>>]
Call(kind, k, ps) == [kind |-> kind, key |-> k, postings |-> ps, serial |-> FALSE]

\* The same postings made by an approval decision, or by the cancel route.
InApproval(q) == [q EXCEPT !.serial = TRUE]

Earn(k, w, n) == Call("earn", k, <<Post(w, n, "EARN", k, "")>>)

IssueBank(k, b, n) == Call("issueBank", k, <<Post(b, n, "ISSUANCE", k, "")>>)

Issue(k, b, w, n) ==
    Call("issue", k, <<Post(b, -n, "AUTO_ISSUANCE", k, "bank"),
                       Post(w, n, "GRANT", k, "")>>)

AdjustUp(k, b, w, n) ==
    Call("adjust", k, <<Post(b, -n, "ALLOCATION", k, "bank"),
                        Post(w, n, "ADJUSTMENT", k, "")>>)

AdjustDown(k, b, w, n) ==
    Call("adjust", k, <<Post(w, -n, "ADJUSTMENT", k, ""),
                        Post(b, n, "RETURN", k, "bank")>>)

Redeem(k, w, n) == Call("redeem", k, <<Post(w, -n, "REDEEM", k, "")>>)

\* The refund of a rejected or cancelled exchange voucher.
Refund(k, w, n) == Call("refund", k, <<Post(w, n, "REVERSAL", k, "")>>)

\* A give from the giver's balance, at a transfer ratio of one to one.
Give(k, w, v, n) ==
    Call("give", k, <<Post(w, -n, "GIVE_OUT", k, "out"),
                      Post(v, n, "GIVE_IN", k, "in")>>)

\* A give from the giver's allowance: the bank pays, and the giver's wallet
\* gets a row of amount zero.
GiveAllowance(k, b, w, v, n) ==
    Call("give", k, <<Post(b, -n, "GIVE_ALLOCATION", k, "bank"),
                      Post(w, 0, "GIVE_ALLOWANCE_OUT", k, "out"),
                      Post(v, n, "GIVE_IN", k, "in")>>)

ASSUME LedgerAssumption ==
    /\ Wallets \cap Banks = {}
    /\ Overdraft \subseteq Wallets
    /\ NoClient \notin Clients
    /\ NoCall \notin Calls
    /\ NoKey \notin RowKeys
    /\ Clock \subseteq Nat
    /\ MaxCalls \in Nat
    /\ \A q \in Calls :
        /\ q.postings \in Seq(Posting) /\ q.postings # <<>>
        /\ \A i, j \in DOMAIN q.postings :
            /\ q.postings[i].key = q.postings[j].key
            /\ ChainOf(q.postings[i].acct) = ChainOf(q.postings[j].acct)
            => i = j
        /\ q.serial \in BOOLEAN

-----------------------------------------------------------------------------
VARIABLES
    balance,    \* committed balance of each account
    ledger,     \* committed rows of each chain
    rowLock,    \* rowLock[a]: who holds the row lock of account a
    chainLock,  \* chainLock[ch]: who holds the advisory lock of a chain
    pc,         \* next statement of each client's transaction
    call,       \* the call each client is running, or ran last
    next,       \* index of the posting in progress
    seen,       \* wallet balance ensureWallet returned for that posting
    delta,      \* uncommitted balance changes of each client
    draft,      \* uncommitted rows of each client
    snap,       \* committed rows each client's snapshot holds, if it is SERIALIZABLE
    reply,      \* outcome of each client's last call
    sent        \* number of calls received

db == <<balance, ledger>>
locks == <<rowLock, chainLock>>
work == <<seen, delta, draft, snap>>
vars == <<db, locks, pc, call, next, work, reply, sent>>

NoDelta == [a \in Accounts |-> 0]
NoDraft == [ch \in Chains |-> {}]

Steps == {"replay", "lookup", "ensure", "update", "append", "commit"}
Replies == {"none", "applied", "replayed", "conflict", "insufficient", "error", "lost"}

Init ==
    /\ balance = NoDelta
    /\ ledger = NoDraft
    /\ rowLock = [a \in Accounts |-> NoClient]
    /\ chainLock = [ch \in Chains |-> NoClient]
    /\ pc = [c \in Clients |-> "idle"]
    /\ call = [c \in Clients |-> NoCall]
    /\ next = [c \in Clients |-> 1]
    /\ seen = [c \in Clients |-> 0]
    /\ delta = [c \in Clients |-> NoDelta]
    /\ draft = [c \in Clients |-> NoDraft]
    /\ snap = [c \in Clients |-> NoDraft]
    /\ reply = [c \in Clients |-> "none"]
    /\ sent = 0

\* The posting client c is at, and what its statements see of the database.
At(c) == call[c].postings[next[c]]
Serial(c) == call[c].serial
VisibleRows(c, ch) == (IF Serial(c) THEN snap[c][ch] ELSE ledger[ch]) \cup draft[c][ch]
VisibleBalance(c, a) == balance[a] + delta[c][a]

\* Faulty: a second posting outside the first one's transaction.
FaultyAdvance(c) ==
    /\ next' = [next EXCEPT ![c] = @ + 1]
    /\ pc' = [pc EXCEPT ![c] = "commit"]

\* The statement after a posting: the next posting's lookup, or COMMIT.
Advance(c) ==
    /\ next' = [next EXCEPT ![c] = @ + 1]
    /\ pc' = [pc EXCEPT ![c] = IF next[c] < Len(call[c].postings) THEN "lookup" ELSE "commit"]

\* ROLLBACK: nothing of the transaction remains, its locks are released.
Rollback(c, answer) ==
    /\ rowLock' = [a \in Accounts |-> IF rowLock[a] = c THEN NoClient ELSE rowLock[a]]
    /\ chainLock' = [ch \in Chains |-> IF chainLock[ch] = c THEN NoClient ELSE chainLock[ch]]
    /\ delta' = [delta EXCEPT ![c] = NoDelta]
    /\ draft' = [draft EXCEPT ![c] = NoDraft]
    /\ snap' = [snap EXCEPT ![c] = NoDraft]
    /\ seen' = [seen EXCEPT ![c] = 0]
    /\ next' = [next EXCEPT ![c] = 1]
    /\ pc' = [pc EXCEPT ![c] = "idle"]
    /\ reply' = [reply EXCEPT ![c] = answer]
    /\ UNCHANGED <<db, call, sent>>

-----------------------------------------------------------------------------
(* Lookups by idempotency key.                                              *)

SameRequest(r, p) == r.acct = p.acct /\ r.action = p.action /\ r.amt = p.amt

\* What a query by key finds, and what the unique index on (programId,
\* idempotencyKey) refuses.
KeyTaken(c, p) == \E r \in VisibleRows(c, ChainOf(p.acct)) : r.key = p.key

\* Faulty: no unique index.
FaultyKeyUsed(c, p) == FALSE

KeyUsed(c, p) ==
    \E r \in ledger[ChainOf(p.acct)] \cup draft[c][ChainOf(p.acct)] : r.key = p.key

\* Faulty: assertSameLedgerRequest left out.
FaultyFound(c, p) == KeyTaken(c, p)

\* Faulty: a debit compared by its unsigned amount.
UnsignedFound(c, p) ==
    \E r \in VisibleRows(c, ChainOf(p.acct)) :
        r.key = p.key /\ SameRequest(r, p) /\ r.amt >= 0

Found(c, p) ==
    \E r \in VisibleRows(c, ChainOf(p.acct)) : r.key = p.key /\ SameRequest(r, p)

\* BEGIN, and the first query, with which a SERIALIZABLE transaction takes its
\* snapshot: in an approval it reads the approval request.
Receive(c) ==
    /\ pc[c] = "idle"
    /\ sent < MaxCalls
    /\ \E q \in Calls :
        /\ call' = [call EXCEPT ![c] = q]
        /\ snap' = [snap EXCEPT ![c] = IF q.serial THEN ledger ELSE NoDraft]
        /\ pc' = [pc EXCEPT ![c] = IF q.kind = "give" THEN "replay" ELSE "lookup"]
    /\ reply' = [reply EXCEPT ![c] = "none"]
    /\ sent' = sent + 1
    /\ UNCHANGED <<db, locks, next, seen, delta, draft>>

\* A give first looks for the rows an earlier submission left: the rows of the
\* GIVER whose key starts with the caller's key.
WalletPostings(q) == {q.postings[i] : i \in {j \in DOMAIN q.postings :
                                                q.postings[j].acct \in Wallets}}
Giver(q) == Owner[(CHOOSE p \in WalletPostings(q) : p.key[2] = "out").acct]

\* A give is never to oneself: POINT_SELF_GIVE_FORBIDDEN.
ASSUME GiveAssumption ==
    \A q \in Calls : q.kind = "give" =>
        \E p \in WalletPostings(q) : Owner[p.acct] # Giver(q)

EarlierGive(c) ==
    {r \in VisibleRows(c, "wallet") :
        /\ Owner[r.acct] = Giver(call[c])
        /\ r.key[1] = call[c].key
        /\ r.key[2] # ""}

SameGive(c) ==
    /\ \A p \in WalletPostings(call[c]) :
        \E r \in EarlierGive(c) : r.key = p.key /\ SameRequest(r, p)
    /\ Cardinality(EarlierGive(c)) = Cardinality(WalletPostings(call[c]))

GiveIsNew(c) ==
    /\ pc[c] = "replay"
    /\ EarlierGive(c) = {}
    /\ pc' = [pc EXCEPT ![c] = "lookup"]
    /\ UNCHANGED <<db, locks, call, next, work, reply, sent>>

GiveIsReplayed(c) ==
    /\ pc[c] = "replay"
    /\ EarlierGive(c) # {}
    /\ Rollback(c, IF SameGive(c) THEN "replayed" ELSE "conflict")

\* findUnique by key at the head of creditWallet, debitWallet, neutralAllowanceEntry,
\* debitBank and creditBank.
LookupNew(c) ==
    /\ pc[c] = "lookup"
    /\ ~KeyTaken(c, At(c))
    /\ pc' = [pc EXCEPT ![c] = IF At(c).acct \in Banks THEN "update" ELSE "ensure"]
    /\ UNCHANGED <<db, locks, call, next, work, reply, sent>>

LookupReplayed(c) ==
    /\ pc[c] = "lookup"
    /\ Found(c, At(c))
    /\ Advance(c)
    /\ UNCHANGED <<db, locks, call, work, reply, sent>>

LookupConflict(c) ==
    /\ pc[c] = "lookup"
    /\ KeyTaken(c, At(c))
    /\ ~Found(c, At(c))
    /\ Rollback(c, "conflict")

\* ensureWallet: an upsert whose update is empty reads the wallet and locks nothing.
EnsureWallet(c) ==
    /\ pc[c] = "ensure"
    /\ seen' = [seen EXCEPT ![c] = VisibleBalance(c, At(c).acct)]
    /\ pc' = [pc EXCEPT ![c] = IF At(c).amt = 0 THEN "append" ELSE "update"]
    /\ UNCHANGED <<db, locks, call, next, delta, draft, snap, reply, sent>>

-----------------------------------------------------------------------------
(* The balance update: it waits for the row lock, then evaluates its guard   *)
(* on the row as last committed.  A SERIALIZABLE transaction fails instead   *)
(* when the row was changed since its snapshot.                              *)

RowFree(c, a) == rowLock[a] \in {NoClient, c}

RowChanged(c, a) ==
    Serial(c) /\ \E r \in ledger[ChainOf(a)] \ snap[c][ChainOf(a)] : r.acct = a /\ r.amt # 0

\* Faulty: the guard evaluated on the balance ensureWallet read.
FaultyCovers(c, p) ==
    \/ p.amt > 0
    \/ p.acct \in Overdraft
    \/ (IF p.acct \in Banks THEN VisibleBalance(c, p.acct) ELSE seen[c]) >= -p.amt

Covers(c, p) ==
    \/ p.amt > 0
    \/ p.acct \in Overdraft
    \/ VisibleBalance(c, p.acct) >= -p.amt

\* Faulty: the new balance computed by the service instead of the database.
FaultyChange(c, p) ==
    IF p.acct \in Banks THEN delta[c][p.acct] + p.amt
    ELSE seen[c] + p.amt - balance[p.acct]

\* increment and decrement: the change adds up with the others in the row.
Change(c, p) == delta[c][p.acct] + p.amt

Update(c) ==
    /\ pc[c] = "update"
    /\ RowFree(c, At(c).acct)
    /\ ~RowChanged(c, At(c).acct)
    /\ Covers(c, At(c))
    /\ rowLock' = [rowLock EXCEPT ![At(c).acct] = c]
    /\ delta' = [delta EXCEPT ![c][At(c).acct] = Change(c, At(c))]
    /\ pc' = [pc EXCEPT ![c] = "append"]
    /\ UNCHANGED <<db, chainLock, call, next, seen, draft, snap, reply, sent>>

Refuse(c) ==
    /\ pc[c] = "update"
    /\ RowFree(c, At(c).acct)
    /\ ~RowChanged(c, At(c).acct)
    /\ ~Covers(c, At(c))
    /\ Rollback(c, "insufficient")

-----------------------------------------------------------------------------
(* appendLedgerTransaction and appendBankTransaction: take the advisory lock *)
(* of the chain, read its head, insert the row that links to it.  When the   *)
(* chain got a row from another SERIALIZABLE transaction since the snapshot, *)
(* the two read the same head and one of them fails; rows of READ COMMITTED  *)
(* transactions are not noticed.                                             *)

\* Faulty: no lockLedger.
FaultyChainFree(c, ch) == TRUE

ChainFree(c, ch) == chainLock[ch] \in {NoClient, c}

SerialConflict(c, ch) == Serial(c) /\ \E r \in ledger[ch] \ snap[c][ch] : r.serial

IsHead(h, rows) == h \in rows /\ \A r \in rows : r.at <= h.at

CreatedAt(h, now) == IF h.at >= now THEN h.at + 1 ELSE now

\* Faulty: balanceAfter from the balance ensureWallet read.
FaultyAfter(c, p) ==
    IF p.acct \in Banks THEN VisibleBalance(c, p.acct) ELSE seen[c] + p.amt

\* Faulty: balanceAfter left out.
UnsetAfter(c, p) == NoKey

\* balanceAfter: what the update returned; neutralAllowanceEntry updates nothing.
After(c, p) == IF p.amt = 0 THEN seen[c] ELSE VisibleBalance(c, p.acct)

NewRow(c, now) ==
    LET p == At(c)
        rows == VisibleRows(c, ChainOf(p.acct))
        head == CHOOSE h \in rows : IsHead(h, rows)
    IN  [acct |-> p.acct, amt |-> p.amt, action |-> p.action, key |-> p.key,
         after |-> After(c, p),
         at |-> IF rows = {} THEN now ELSE CreatedAt(head, now),
         prev |-> IF rows = {} THEN NoKey ELSE head.key,
         serial |-> Serial(c)]

AppendRow(c) ==
    LET ch == ChainOf(At(c).acct) IN
    /\ pc[c] = "append"
    /\ ChainFree(c, ch)
    /\ ~SerialConflict(c, ch)
    /\ ~KeyUsed(c, At(c))
    /\ chainLock' = [chainLock EXCEPT ![ch] = c]
    /\ \E now \in Clock : draft' = [draft EXCEPT ![c][ch] = @ \cup {NewRow(c, now)}]
    /\ seen' = [seen EXCEPT ![c] = 0]
    /\ Advance(c)
    /\ UNCHANGED <<db, rowLock, call, delta, snap, reply, sent>>

AppendRefused(c) ==
    /\ pc[c] = "append"
    /\ ChainFree(c, ChainOf(At(c).acct))
    /\ KeyUsed(c, At(c))
    /\ Rollback(c, "error")

\* P2034.  An approval decision runs again, twice at most, which is the call
\* received again here; the cancel route answers with the error.
SerializationFailure(c) ==
    /\ \/ pc[c] = "update" /\ RowFree(c, At(c).acct) /\ RowChanged(c, At(c).acct)
       \/ /\ pc[c] = "append"
          /\ ChainFree(c, ChainOf(At(c).acct))
          /\ SerialConflict(c, ChainOf(At(c).acct))
    /\ Rollback(c, "error")

Commit(c) ==
    /\ pc[c] = "commit"
    /\ balance' = [a \in Accounts |-> VisibleBalance(c, a)]
    /\ ledger' = [ch \in Chains |-> ledger[ch] \cup draft[c][ch]]
    /\ rowLock' = [a \in Accounts |-> IF rowLock[a] = c THEN NoClient ELSE rowLock[a]]
    /\ chainLock' = [ch \in Chains |-> IF chainLock[ch] = c THEN NoClient ELSE chainLock[ch]]
    /\ delta' = [delta EXCEPT ![c] = NoDelta]
    /\ draft' = [draft EXCEPT ![c] = NoDraft]
    /\ snap' = [snap EXCEPT ![c] = NoDraft]
    /\ next' = [next EXCEPT ![c] = 1]
    /\ pc' = [pc EXCEPT ![c] = "idle"]
    /\ reply' = [reply EXCEPT ![c] = IF draft[c] = NoDraft THEN "replayed" ELSE "applied"]
    /\ UNCHANGED <<call, seen, sent>>

-----------------------------------------------------------------------------
(* Waiting, deadlock and lost connections.                                  *)

Waiting(c) ==
    \/ pc[c] = "update" /\ ~RowFree(c, At(c).acct)
    \/ pc[c] = "append" /\ ~ChainFree(c, ChainOf(At(c).acct))

Blocker(c) ==
    IF pc[c] = "update" THEN rowLock[At(c).acct] ELSE chainLock[ChainOf(At(c).acct)]

\* Faulty: no deadlock detection.
FaultyDeadlocked(c) == FALSE

\* PostgreSQL's detector: c is on a cycle of transactions that wait for each other.
Deadlocked(c) ==
    \E S \in SUBSET Clients :
        /\ c \in S
        /\ \A d \in S : Waiting(d)
        /\ S = {Blocker(d) : d \in S}

DeadlockVictim(c) == Deadlocked(c) /\ Rollback(c, "error")

\* The connection is lost, the process dies or the interactive transaction times out.
Abandon(c) == pc[c] # "idle" /\ Rollback(c, "lost")

Finished ==
    /\ sent = MaxCalls
    /\ \A c \in Clients : pc[c] = "idle"
    /\ UNCHANGED vars

\* The statements of a call that the client and PostgreSQL carry on by themselves.
Proceed(c) ==
    \/ GiveIsNew(c) \/ GiveIsReplayed(c)
    \/ LookupNew(c) \/ LookupReplayed(c) \/ LookupConflict(c)
    \/ EnsureWallet(c)
    \/ Update(c) \/ Refuse(c)
    \/ AppendRow(c) \/ AppendRefused(c) \/ SerializationFailure(c)
    \/ Commit(c)
    \/ DeadlockVictim(c)

Next ==
    \/ \E c \in Clients : Receive(c) \/ Proceed(c) \/ Abandon(c)
    \/ Finished

Spec == Init /\ [][Next]_vars

\* A transaction runs its next statement once it can: the request's promise chain
\* is scheduled, and lock queues and the deadlock detector are PostgreSQL's.
Fairness == \A c \in Clients : WF_vars(Proceed(c))
FairSpec == Spec /\ Fairness

-----------------------------------------------------------------------------
(* Properties.                                                              *)

TypeOK ==
    /\ balance \in [Accounts -> Int]
    /\ ledger \in [Chains -> SUBSET Row]
    /\ rowLock \in [Accounts -> Clients \cup {NoClient}]
    /\ chainLock \in [Chains -> Clients \cup {NoClient}]
    /\ pc \in [Clients -> Steps \cup {"idle"}]
    /\ call \in [Clients -> Calls \cup {NoCall}]
    /\ next \in [Clients -> Nat]
    /\ seen \in [Clients -> Int]
    /\ delta \in [Clients -> [Accounts -> Int]]
    /\ draft \in [Clients -> [Chains -> SUBSET Row]]
    /\ snap \in [Clients -> [Chains -> SUBSET Row]]
    /\ reply \in [Clients -> Replies]
    /\ sent \in 0..MaxCalls

\* The hash chains neither fork nor break, whatever the interleaving and the
\* clocks of the API instances: ordered by createdAt, as verifyIntegrity walks
\* them, every row's previousHash is the hash of the row before it.
Linked(rows) ==
    /\ \A r, s \in rows : r.at = s.at \/ r.key = s.key => r = s
    /\ \A r \in rows :
        \/ r.prev = NoKey /\ \A s \in rows : r.at <= s.at
        \/ \E q \in rows : /\ q.key = r.prev
                           /\ q.at < r.at
                           /\ \A s \in rows : s.at <= q.at \/ r.at <= s.at

ChainIntact == \A ch \in Chains : Linked(ledger[ch])

\* The first of verifyIntegrity's two comparisons per account: the rows of an
\* account add up to its balance, although the balance and the rows are written
\* by different statements of transactions that overlap.
RowsOf(a) == {r \in ledger[ChainOf(a)] : r.acct = a}

SumReconciled ==
    \A a \in Accounts : balance[a] = SumFunction([r \in RowsOf(a) |-> r.amt])

\* The second one: the balanceAfter of the last row of an account, in chain
\* order, is its balance.
TailReconciled ==
    \A a \in Accounts : \A h \in RowsOf(a) :
        IsHead(h, RowsOf(a)) => h.after = balance[a]

\* No balance goes below zero unless its point type allows it, although other
\* transactions run between the statement that reads the balance and the one
\* that takes from it, and a transaction that paid may still roll back.
Solvent == \A a \in Accounts \ Overdraft : balance[a] >= 0

\* Every row belongs to a call whose postings are all in the ledger: no bank
\* debit without its grant, no give-out without its give-in, whatever fails, is
\* sent again or reuses a key in between.
Posted(p) == \E r \in ledger[ChainOf(p.acct)] : r.key = p.key /\ SameRequest(r, p)

AllOrNothing ==
    \A ch \in Chains : \A r \in ledger[ch] :
        \E q \in Calls :
            /\ \E i \in DOMAIN q.postings :
                    r.key = q.postings[i].key /\ SameRequest(r, q.postings[i])
            /\ \A i \in DOMAIN q.postings : Posted(q.postings[i])

\* A success answer means that the postings of the call that was answered are in
\* the ledger, and so does the answer to a call that was sent again while or
\* after its first copy ran.
AnsweredTruthfully ==
    \A c \in Clients :
        reply[c] \in {"applied", "replayed"} =>
            \A i \in DOMAIN call[c].postings : Posted(call[c].postings[i])

\* POINT_IDEMPOTENCY_CONFLICT is answered only to a call whose key something else
\* was posted under, never to the same call sent again.
ConflictMeansReuse ==
    \A c \in Clients :
        reply[c] = "conflict" =>
            \E i \in DOMAIN call[c].postings : ~Posted(call[c].postings[i])

\* Every received call is answered: no transaction waits for ever, although calls
\* take the row locks and the chain locks in different orders.
Answered == \A c \in Clients : pc[c] # "idle" ~> pc[c] = "idle"

\* Seen from outside, the statements of a call are one atomic step: the ledger
\* implements AtomicLedger, where its rows are the postings made.
PostingOf(r) == [acct |-> r.acct, amt |-> r.amt, action |-> r.action, key |-> r.key]

Atomic == INSTANCE AtomicLedger WITH
    Books <- {Wallets, Banks},
    posted <- {PostingOf(r) : r \in UNION {ledger[ch] : ch \in Chains}}

ImplementsAtomic == Atomic!Spec

=============================================================================
