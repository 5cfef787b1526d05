---------------------------- MODULE LedgerProofs ----------------------------
(***************************************************************************)
(* Theorems about Ledger, for any numbers of clients, accounts, keys and    *)
(* calls and any clocks.                                                    *)
(*                                                                         *)
(* The inductive invariant says who may have uncommitted work: a changed    *)
(* balance is row-locked and an appended row chain-locked by its client, so *)
(* no two transactions have uncommitted work on the same account or chain.  *)
(* What holds of the database then has to hold of what it becomes when a    *)
(* transaction commits, for each transaction.                               *)
(***************************************************************************)
EXTENDS Ledger, SumLemmas

Done(c) == IF pc[c] = "commit" THEN DOMAIN call[c].postings ELSE 1..(next[c] - 1)

\* A transaction in progress is at a posting of its call.
InCall ==
    \A c \in Clients :
        /\ pc[c] # "idle" => call[c] \in Calls
        /\ pc[c] \notin {"idle", "commit"} => next[c] \in DOMAIN call[c].postings
        /\ pc[c] \in {"idle", "replay"} => next[c] = 1
        /\ pc[c] = "replay" => call[c].kind = "give"

LockDiscipline ==
    \A c \in Clients :
        /\ \A a \in Accounts : delta[c][a] # 0 => rowLock[a] = c
        /\ \A ch \in Chains : draft[c][ch] # {} => chainLock[ch] = c

HasHead(rows) == rows = {} \/ \E h \in rows : IsHead(h, rows)

\* Some row is the last one wherever a transaction looks for the last one.
HeadsGood ==
    \A ch \in Chains :
        /\ HasHead(ledger[ch])
        /\ \A c \in Clients : HasHead(snap[c][ch]) /\ HasHead(draft[c][ch])

\* A snapshot holds committed rows.
SnapshotsGood == \A c \in Clients, ch \in Chains : snap[c][ch] \subseteq ledger[ch]

\* A chain as the commit of a transaction would leave it.
IfCommitted(c, ch) == ledger[ch] \cup draft[c][ch]

ReadCommitted == \A q \in Calls : ~q.serial

ChainsLinked ==
    \A ch \in Chains :
        /\ Linked(ledger[ch])
        /\ \A c \in Clients : Linked(IfCommitted(c, ch))

BalancesGood ==
    \A a \in Accounts \ Overdraft :
        /\ balance[a] >= 0
        /\ \A c \in Clients : VisibleBalance(c, a) >= 0

\* The postings done so far will be in the ledger when their transaction commits,
\* and nothing else is uncommitted.
PostedIn(rows, p) == \E r \in rows : r.key = p.key /\ SameRequest(r, p)

PostingsDone ==
    \A c \in Clients : pc[c] # "idle" =>
        \A i \in Done(c) :
            LET p == call[c].postings[i] IN PostedIn(IfCommitted(c, ChainOf(p.acct)), p)

OwnRows ==
    \A c \in Clients, ch \in Chains : \A r \in draft[c][ch] :
        /\ pc[c] # "idle"
        /\ \E i \in DOMAIN call[c].postings :
              r.key = call[c].postings[i].key /\ SameRequest(r, call[c].postings[i])

IInv ==
    /\ TypeOK
    /\ InCall
    /\ LockDiscipline
    /\ HeadsGood
    /\ SnapshotsGood
    /\ ReadCommitted => ChainsLinked
    /\ BalancesGood
    /\ PostingsDone
    /\ OwnRows
    /\ AllOrNothing
    /\ AnsweredTruthfully

-----------------------------------------------------------------------------
(* Lemmas about chains.                                                     *)

\* Appending a row after the head of a chain, under an unused key, keeps the
\* chain linked.
LEMMA AppendKeepsLinked ==
    ASSUME NEW rows, NEW row, Linked(rows),
           \A r \in rows : r.at \in Nat /\ r.key # row.key,
           row.at \in Nat,
           rows = {} => row.prev = NoKey,
           rows # {} => \E h \in rows : IsHead(h, rows) /\ row.prev = h.key /\ row.at > h.at
    PROVE  Linked(rows \cup {row})
<1>1. CASE rows = {}
  BY <1>1 DEF Linked
<1>2. CASE rows # {}
  <2>1. PICK h \in rows : IsHead(h, rows) /\ row.prev = h.key /\ row.at > h.at
    BY <1>2
  <2>2. \A r \in rows : r.at <= h.at
    BY <2>1 DEF IsHead
  <2>3. \A r, s \in rows \cup {row} : r.at = s.at \/ r.key = s.key => r = s
    BY <2>1, <2>2 DEF Linked
  <2>4. ASSUME NEW r \in rows \cup {row}
        PROVE  \/ r.prev = NoKey /\ \A s \in rows \cup {row} : r.at <= s.at
               \/ \E q \in rows \cup {row} :
                    /\ q.key = r.prev
                    /\ q.at < r.at
                    /\ \A s \in rows \cup {row} : s.at <= q.at \/ r.at <= s.at
    <3>1. CASE r = row
      BY <3>1, <2>1, <2>2
    <3>2. CASE r \in rows
      BY <3>2, <2>1, <2>2 DEF Linked
    <3> QED BY <3>1, <3>2
  <2> QED BY <2>3, <2>4 DEF Linked
<1> QED BY <1>1, <1>2

\* Two sets of rows with a head have one together.
LEMMA UnionHasHead ==
    ASSUME NEW A \in SUBSET Row, NEW B \in SUBSET Row, HasHead(A), HasHead(B)
    PROVE  HasHead(A \cup B)
<1>1. \A r \in A \cup B : r.at \in Nat
  BY DEF Row
<1>2. CASE A = {} \/ B = {}
  BY <1>2 DEF HasHead
<1>3. CASE A # {} /\ B # {}
  <2>1. PICK g \in A : \A r \in A : r.at <= g.at
    BY <1>3 DEF HasHead, IsHead
  <2>2. PICK h \in B : \A r \in B : r.at <= h.at
    BY <1>3 DEF HasHead, IsHead
  <2>3. CASE g.at <= h.at
    <3>1. \A r \in A \cup B : r.at <= h.at
      BY <1>1, <2>1, <2>2, <2>3
    <3> QED BY <3>1 DEF HasHead, IsHead
  <2>4. CASE h.at <= g.at
    <3>1. \A r \in A \cup B : r.at <= g.at
      BY <1>1, <2>1, <2>2, <2>4
    <3> QED BY <3>1 DEF HasHead, IsHead
  <2> QED BY <1>1, <2>1, <2>2, <2>3, <2>4
<1> QED BY <1>2, <1>3

-----------------------------------------------------------------------------
(* Type correctness.                                                        *)

LEMMA PostingType ==
    ASSUME NEW c \in Clients, call[c] \in Calls, next[c] \in DOMAIN call[c].postings
    PROVE  At(c) \in Posting
BY LedgerAssumption DEF At

LEMMA PostingFields ==
    ASSUME NEW p \in Posting
    PROVE  /\ p.acct \in Accounts
           /\ p.amt \in Int
           /\ p.action \in STRING
           /\ p.key \in RowKeys
           /\ ChainOf(p.acct) \in Chains
BY DEF Posting, ChainOf, Chains

LEMMA RowFields ==
    ASSUME NEW r \in Row
    PROVE  /\ r.acct \in Accounts
           /\ r.amt \in Int
           /\ r.key \in RowKeys
           /\ r.at \in Nat
BY DEF Row

LEMMA VisibleType ==
    ASSUME TypeOK, NEW c \in Clients
    PROVE  /\ \A a \in Accounts : VisibleBalance(c, a) \in Int
           /\ \A ch \in Chains : VisibleRows(c, ch) \in SUBSET Row
           /\ \A ch \in Chains : IfCommitted(c, ch) \in SUBSET Row
BY DEF TypeOK, VisibleBalance, VisibleRows, IfCommitted

\* What a transaction sees is committed or its own.
LEMMA VisibleInIfCommitted ==
    ASSUME SnapshotsGood, NEW c \in Clients, NEW ch \in Chains
    PROVE  VisibleRows(c, ch) \subseteq IfCommitted(c, ch)
BY DEF SnapshotsGood, VisibleRows, IfCommitted

LEMMA VisibleHasHead ==
    ASSUME TypeOK, HeadsGood, NEW c \in Clients, NEW ch \in Chains
    PROVE  HasHead(VisibleRows(c, ch))
<1>1. /\ ledger[ch] \in SUBSET Row /\ snap[c][ch] \in SUBSET Row /\ draft[c][ch] \in SUBSET Row
      /\ HasHead(ledger[ch]) /\ HasHead(snap[c][ch]) /\ HasHead(draft[c][ch])
  BY DEF TypeOK, HeadsGood
<1>2. HasHead(ledger[ch] \cup draft[c][ch]) /\ HasHead(snap[c][ch] \cup draft[c][ch])
  BY <1>1, UnionHasHead
<1> QED BY <1>2 DEF VisibleRows

\* The row AppendRow inserts, and how it relates to the chain it is put in.
LEMMA NewRowFits ==
    ASSUME TypeOK, HeadsGood, NEW c \in Clients, call[c] \in Calls, NEW now \in Clock,
           At(c) \in Posting
    PROVE  LET rows == VisibleRows(c, ChainOf(At(c).acct))
               row == NewRow(c, now)
           IN  /\ row \in Row
               /\ row.key = At(c).key
               /\ SameRequest(row, At(c))
               /\ rows = {} => row.prev = NoKey
               /\ rows # {} => \E h \in rows : /\ IsHead(h, rows)
                                               /\ row.prev = h.key
                                               /\ row.at > h.at
<1> DEFINE p == At(c)
           rows == VisibleRows(c, ChainOf(p.acct))
           row == NewRow(c, now)
<1>1. /\ p.acct \in Accounts
      /\ p.amt \in Int
      /\ p.action \in STRING
      /\ p.key \in RowKeys
      /\ ChainOf(p.acct) \in Chains
  BY PostingFields
<1>2. rows \in SUBSET Row
  BY <1>1, VisibleType
<1>3. now \in Nat
  BY LedgerAssumption
<1>4. After(c, p) \in Int /\ (IF p.acct \in Banks THEN 0 ELSE seen[c]) \in Int
  BY <1>1, VisibleType DEF TypeOK, After
<1>5. Serial(c) \in BOOLEAN
  BY LedgerAssumption DEF Serial
<1>6. /\ row.key = p.key
      /\ SameRequest(row, p)
  BY DEF NewRow, SameRequest
<1>7. CASE rows = {}
  <2>1. row.at = now /\ row.prev = NoKey
    BY <1>7 DEF NewRow
  <2>2. row \in Row
    BY <1>1, <1>3, <1>4, <1>7, <1>5 DEF NewRow, Row
  <2> QED BY <1>6, <1>7, <2>1, <2>2
<1>8. CASE rows # {}
  <2> DEFINE head == CHOOSE h \in rows : IsHead(h, rows)
  <2>1. head \in rows /\ IsHead(head, rows)
    BY <1>1, <1>8, VisibleHasHead DEF HasHead
  <2>2. head.at \in Nat /\ head.key \in RowKeys
    BY <1>2, <2>1, RowFields
  <2>3. CreatedAt(head, now) \in Nat /\ CreatedAt(head, now) > head.at
    BY <1>3, <2>2 DEF CreatedAt
  <2>4. row.at = CreatedAt(head, now) /\ row.prev = head.key
    BY <1>8 DEF NewRow
  <2>5. row \in Row
    BY <1>1, <1>4, <1>8, <1>5, <2>2, <2>3 DEF NewRow, Row
  <2> QED BY <1>6, <1>8, <2>1, <2>3, <2>4, <2>5
<1> QED BY <1>7, <1>8

\* A step is a stutter, a step that changes neither the database nor the locks,
\* a rollback, or one of the three that write.
LEMMA StepCases ==
    ASSUME IInv, [Next]_vars
    PROVE  \/ UNCHANGED vars
           \/ \E c \in Clients :
                \/ Receive(c)
                \/ GiveIsNew(c) \/ LookupNew(c) \/ LookupReplayed(c) \/ EnsureWallet(c)
                \/ \E answer \in Replies :
                     /\ pc[c] # "idle"
                     /\ answer # "applied"
                     /\ answer = "replayed" => pc[c] = "replay" /\ SameGive(c)
                     /\ Rollback(c, answer)
                \/ Update(c)
                \/ AppendRow(c)
                \/ Commit(c)
<1>1. CASE UNCHANGED vars
  BY <1>1
<1>2. CASE Finished
  BY <1>2 DEF Finished
<1>3. ASSUME NEW c \in Clients, Receive(c) \/ Proceed(c) \/ Abandon(c)
      PROVE  \/ Receive(c)
             \/ GiveIsNew(c) \/ LookupNew(c) \/ LookupReplayed(c) \/ EnsureWallet(c)
             \/ \E answer \in Replies :
                  /\ pc[c] # "idle"
                  /\ answer # "applied"
                  /\ answer = "replayed" => pc[c] = "replay" /\ SameGive(c)
                  /\ Rollback(c, answer)
             \/ Update(c)
             \/ AppendRow(c)
             \/ Commit(c)
  <2>1. CASE GiveIsReplayed(c)
    BY <2>1 DEF GiveIsReplayed, Replies
  <2>2. CASE LookupConflict(c)
    BY <2>2 DEF LookupConflict, Replies
  <2>3. CASE Refuse(c)
    BY <2>3 DEF Refuse, Replies
  <2>4. CASE AppendRefused(c)
    BY <2>4 DEF AppendRefused, Replies
  <2>5. CASE DeadlockVictim(c)
    BY <2>5 DEF DeadlockVictim, Deadlocked, Waiting, Replies
  <2>6. CASE Abandon(c)
    BY <2>6 DEF Abandon, Replies
  <2>7. CASE SerializationFailure(c)
    BY <2>7 DEF SerializationFailure, Replies
  <2> QED BY <1>3, <2>1, <2>2, <2>3, <2>4, <2>5, <2>6, <2>7 DEF Proceed
<1> QED BY <1>1, <1>2, <1>3 DEF Next

LEMMA RollbackType ==
    ASSUME TypeOK, NEW c \in Clients, NEW answer \in Replies, Rollback(c, answer)
    PROVE  TypeOK'
<1> USE DEF TypeOK, Rollback, db, NoDelta, NoDraft
<1>1. rowLock' \in [Accounts -> Clients \cup {NoClient}]
  OBVIOUS
<1>2. chainLock' \in [Chains -> Clients \cup {NoClient}]
  OBVIOUS
<1>3. delta' \in [Clients -> [Accounts -> Int]]
  OBVIOUS
<1>4. draft' \in [Clients -> [Chains -> SUBSET Row]]
  OBVIOUS
<1>5. pc' \in [Clients -> Steps \cup {"idle"}] /\ reply' \in [Clients -> Replies]
  OBVIOUS
<1>6. snap' \in [Clients -> [Chains -> SUBSET Row]]
  OBVIOUS
<1>7. seen' \in [Clients -> Int] /\ next' \in [Clients -> Nat]
  OBVIOUS
<1> QED BY <1>1, <1>2, <1>3, <1>4, <1>5, <1>7, <1>6

\* Reading steps: they move a transaction on and leave all else as it is.
Reading(c) ==
    GiveIsNew(c) \/ LookupNew(c) \/ LookupReplayed(c) \/ EnsureWallet(c)

LEMMA ReadingChanges ==
    ASSUME TypeOK, InCall, NEW c \in Clients, Reading(c)
    PROVE  /\ UNCHANGED <<balance, ledger, rowLock, chainLock, call, delta, draft, snap, reply, sent>>
           /\ pc[c] # "idle"
           /\ seen' \in [Clients -> Int]
           /\ pc' \in [Clients -> Steps \cup {"idle"}]
           /\ next' \in [Clients -> Nat]
<1> USE DEF TypeOK, db, locks, work, Steps
<1>1. CASE GiveIsNew(c)
  BY <1>1 DEF GiveIsNew
<1>2. CASE LookupNew(c)
  BY <1>2 DEF LookupNew
<1>3. CASE LookupReplayed(c)
  BY <1>3 DEF LookupReplayed, Advance
<1>4. CASE EnsureWallet(c)
  <2>1. At(c) \in Posting
    BY <1>4, PostingType DEF EnsureWallet, InCall
  <2>2. VisibleBalance(c, At(c).acct) \in Int
    BY <2>1, PostingFields, VisibleType
  <2> QED BY <1>4, <2>2 DEF EnsureWallet
<1> QED BY <1>1, <1>2, <1>3, <1>4 DEF Reading

LEMMA TypePreserved ==
    ASSUME IInv, [Next]_vars
    PROVE  TypeOK'
<1> USE DEF IInv
<1>1. CASE UNCHANGED vars
  BY <1>1 DEF TypeOK, vars, db, locks, work
<1>2. ASSUME NEW c \in Clients, Receive(c)
      PROVE  TypeOK'
  <2>1. sent \in Nat /\ sent + 1 \in 0..MaxCalls
    BY <1>2, LedgerAssumption DEF TypeOK, Receive
  <2>2. snap' \in [Clients -> [Chains -> SUBSET Row]]
    BY <1>2 DEF TypeOK, Receive, NoDraft
  <2> QED BY <1>2, <2>1, <2>2 DEF Receive, TypeOK, db, locks, Steps, Replies
<1>3. ASSUME NEW c \in Clients, Reading(c)
      PROVE  TypeOK'
  BY <1>3, ReadingChanges DEF TypeOK, Steps
<1>4. ASSUME NEW c \in Clients, NEW answer \in Replies, Rollback(c, answer)
      PROVE  TypeOK'
  BY <1>4, RollbackType
<1>5. ASSUME NEW c \in Clients, Update(c)
      PROVE  TypeOK'
  <2>1. At(c) \in Posting
    BY <1>5, PostingType DEF Update, InCall
  <2>2. At(c).acct \in Accounts /\ Change(c, At(c)) \in Int
    BY <2>1, PostingFields DEF TypeOK, Change
  <2> QED BY <1>5, <2>2 DEF Update, TypeOK, db, Steps
<1>6. ASSUME NEW c \in Clients, AppendRow(c)
      PROVE  TypeOK'
  <2>1. At(c) \in Posting /\ ChainOf(At(c).acct) \in Chains
    BY <1>6, PostingType, PostingFields DEF AppendRow, InCall
  <2>2. PICK now \in Clock :
          draft' = [draft EXCEPT ![c][ChainOf(At(c).acct)] = @ \cup {NewRow(c, now)}]
    BY <1>6 DEF AppendRow
  <2>3. NewRow(c, now) \in Row
    BY <1>6, <2>1, NewRowFits DEF AppendRow, InCall
  <2>4. draft' \in [Clients -> [Chains -> SUBSET Row]]
    BY <2>1, <2>2, <2>3 DEF TypeOK
  <2> QED BY <1>6, <2>1, <2>4 DEF AppendRow, Advance, TypeOK, db, Steps
<1>7. ASSUME NEW c \in Clients, Commit(c)
      PROVE  TypeOK'
  <2> USE DEF TypeOK, Commit
  <2>1. balance' \in [Accounts -> Int] /\ ledger' \in [Chains -> SUBSET Row]
    BY <1>7, VisibleType
  <2>2. /\ delta' \in [Clients -> [Accounts -> Int]]
        /\ draft' \in [Clients -> [Chains -> SUBSET Row]]
        /\ snap' \in [Clients -> [Chains -> SUBSET Row]]
    BY <1>7 DEF NoDelta, NoDraft
  <2>3. /\ rowLock' \in [Accounts -> Clients \cup {NoClient}]
        /\ chainLock' \in [Chains -> Clients \cup {NoClient}]
    BY <1>7
  <2> QED BY <1>7, <2>1, <2>2, <2>3 DEF Steps, Replies
<1> QED BY <1>1, <1>2, <1>3, <1>4, <1>5, <1>6, <1>7, StepCases DEF Reading

-----------------------------------------------------------------------------
(* The control state, and who may have uncommitted work.                    *)

LEMMA InCallPreserved ==
    ASSUME IInv, [Next]_vars
    PROVE  InCall'
<1> USE DEF IInv
<1>1. CASE UNCHANGED vars
  BY <1>1 DEF InCall, vars
<1>2. ASSUME NEW c \in Clients, Receive(c)
      PROVE  InCall'
  <2>1. PICK q \in Calls :
          /\ call' = [call EXCEPT ![c] = q]
          /\ pc' = [pc EXCEPT ![c] = IF q.kind = "give" THEN "replay" ELSE "lookup"]
    BY <1>2 DEF Receive
  <2>2. 1 \in DOMAIN q.postings
    BY LedgerAssumption
  <2>3. next' = next /\ next[c] = 1
    BY <1>2 DEF Receive, InCall
  <2> QED BY <2>1, <2>2, <2>3 DEF InCall, TypeOK
<1>3. ASSUME NEW c \in Clients, GiveIsNew(c) \/ LookupNew(c) \/ EnsureWallet(c)
      PROVE  InCall'
  BY <1>3 DEF GiveIsNew, LookupNew, EnsureWallet, InCall, TypeOK
<1>4. ASSUME NEW c \in Clients, Advance(c), UNCHANGED call,
             call[c] \in Calls, next[c] \in DOMAIN call[c].postings
      PROVE  InCall'
  <2>1. DOMAIN call[c].postings = 1..Len(call[c].postings) /\ Len(call[c].postings) \in Nat
    BY <1>4, LedgerAssumption
  <2>2. next[c] < Len(call[c].postings) => next[c] + 1 \in DOMAIN call[c].postings
    BY <1>4, <2>1
  <2> QED BY <1>4, <2>2 DEF Advance, InCall, TypeOK
<1>5. ASSUME NEW c \in Clients, LookupReplayed(c) \/ AppendRow(c)
      PROVE  InCall'
  BY <1>4, <1>5 DEF LookupReplayed, AppendRow, InCall
<1>6. ASSUME NEW c \in Clients, NEW answer \in Replies, Rollback(c, answer)
      PROVE  InCall'
  BY <1>6 DEF Rollback, InCall, TypeOK
<1>7. ASSUME NEW c \in Clients, Update(c) \/ Commit(c)
      PROVE  InCall'
  BY <1>7 DEF Update, Commit, InCall, TypeOK
<1> QED BY <1>1, <1>2, <1>3, <1>5, <1>6, <1>7, StepCases

LEMMA LockDisciplinePreserved ==
    ASSUME IInv, [Next]_vars
    PROVE  LockDiscipline'
<1> USE DEF IInv, LockDiscipline
<1>1. CASE UNCHANGED vars
  BY <1>1 DEF vars, db, locks, work
<1>2. ASSUME NEW c \in Clients, Receive(c)
      PROVE  LockDiscipline'
  BY <1>2 DEF Receive, locks, work
<1>3. ASSUME NEW c \in Clients, Reading(c)
      PROVE  LockDiscipline'
  BY <1>3, ReadingChanges
<1>4. ASSUME NEW c \in Clients, NEW answer \in Replies, Rollback(c, answer)
      PROVE  LockDiscipline'
  BY <1>4 DEF Rollback, NoDelta, NoDraft, TypeOK
<1>5. ASSUME NEW c \in Clients, Update(c)
      PROVE  LockDiscipline'
  <2>1. At(c) \in Posting
    BY <1>5, PostingType DEF Update, InCall
  <2>2. At(c).acct \in Accounts
    BY <2>1, PostingFields
  <2> QED BY <1>5, <2>2, LedgerAssumption DEF Update, RowFree, TypeOK
<1>6. ASSUME NEW c \in Clients, AppendRow(c)
      PROVE  LockDiscipline'
  <2>1. At(c) \in Posting /\ ChainOf(At(c).acct) \in Chains
    BY <1>6, PostingType, PostingFields DEF AppendRow, InCall
  <2> QED BY <1>6, <2>1, LedgerAssumption DEF AppendRow, ChainFree, TypeOK
<1>7. ASSUME NEW c \in Clients, Commit(c)
      PROVE  LockDiscipline'
  BY <1>7 DEF Commit, NoDelta, NoDraft, TypeOK
<1> QED BY <1>1, <1>2, <1>3, <1>4, <1>5, <1>6, <1>7, StepCases DEF Reading

-----------------------------------------------------------------------------
(* What a commit would leave, after another transaction's step.              *)

\* No two transactions hold uncommitted work on one chain or one account, so after
\* a commit the others would leave what they would have left or what it left.
LEMMA CommitShows ==
    ASSUME TypeOK, LockDiscipline, NEW c \in Clients, Commit(c), NEW d \in Clients
    PROVE  /\ \A ch \in Chains :
                /\ ledger'[ch] = IfCommitted(c, ch)
                /\ IfCommitted(d, ch)' \in {IfCommitted(d, ch), IfCommitted(c, ch)}
                /\ IfCommitted(d, ch) \subseteq IfCommitted(d, ch)'
                /\ IfCommitted(c, ch) \subseteq IfCommitted(d, ch)'
           /\ \A a \in Accounts :
                /\ balance'[a] = VisibleBalance(c, a)
                /\ VisibleBalance(d, a)' \in {VisibleBalance(d, a), VisibleBalance(c, a)}
<1>1. ASSUME NEW ch \in Chains
      PROVE  /\ ledger'[ch] = IfCommitted(c, ch)
             /\ IfCommitted(d, ch)' \in {IfCommitted(d, ch), IfCommitted(c, ch)}
             /\ IfCommitted(d, ch) \subseteq IfCommitted(d, ch)'
             /\ IfCommitted(c, ch) \subseteq IfCommitted(d, ch)'
  <2>1. ledger'[ch] = IfCommitted(c, ch)
    BY DEF Commit, IfCommitted
  <2>2. draft'[d][ch] = IF d = c THEN {} ELSE draft[d][ch]
    BY DEF Commit, NoDraft, TypeOK
  <2>3. d # c => draft[c][ch] = {} \/ draft[d][ch] = {}
    BY DEF LockDiscipline
  <2> QED BY <2>1, <2>2, <2>3 DEF IfCommitted
<1>2. ASSUME NEW a \in Accounts
      PROVE  /\ balance'[a] = VisibleBalance(c, a)
             /\ VisibleBalance(d, a)' \in {VisibleBalance(d, a), VisibleBalance(c, a)}
  <2>1. balance'[a] = VisibleBalance(c, a)
    BY DEF Commit
  <2>2. delta'[d][a] = IF d = c THEN 0 ELSE delta[d][a]
    BY DEF Commit, NoDelta, TypeOK
  <2>3. d # c => delta[c][a] = 0 \/ delta[d][a] = 0
    BY DEF LockDiscipline
  <2>4. balance[a] \in Int /\ delta[c][a] \in Int /\ delta[d][a] \in Int
    BY DEF TypeOK
  <2> QED BY <2>1, <2>2, <2>3, <2>4 DEF VisibleBalance
<1> QED BY <1>1, <1>2

\* A rollback leaves its transaction nothing to commit and changes
\* nothing for the others.
LEMMA RollbackShows ==
    ASSUME TypeOK, NEW c \in Clients, NEW answer, Rollback(c, answer), NEW d \in Clients
    PROVE  /\ UNCHANGED <<balance, ledger>>
           /\ \A ch \in Chains :
                IfCommitted(d, ch)' = IF d = c THEN ledger[ch] ELSE IfCommitted(d, ch)
           /\ \A a \in Accounts :
                VisibleBalance(d, a)' = IF d = c THEN balance[a] ELSE VisibleBalance(d, a)
<1>1. UNCHANGED <<balance, ledger>>
  BY DEF Rollback, db
<1>2. \A ch \in Chains : draft'[d][ch] = IF d = c THEN {} ELSE draft[d][ch]
  BY DEF Rollback, NoDraft, TypeOK
<1>3. \A a \in Accounts : delta'[d][a] = IF d = c THEN 0 ELSE delta[d][a]
  BY DEF Rollback, NoDelta, TypeOK
<1>4. \A a \in Accounts : balance[a] \in Int
  BY DEF TypeOK
<1> QED BY <1>1, <1>2, <1>3, <1>4 DEF IfCommitted, VisibleBalance

\* Appending shows the new row to its own transaction only.
LEMMA AppendShows ==
    ASSUME TypeOK, InCall, NEW c \in Clients, AppendRow(c)
    PROVE  /\ UNCHANGED <<balance, ledger, delta>>
           /\ At(c) \in Posting
           /\ \E now \in Clock : \A d \in Clients, ch \in Chains :
                /\ draft'[d][ch] = IF d = c /\ ch = ChainOf(At(c).acct)
                                   THEN draft[d][ch] \cup {NewRow(c, now)}
                                   ELSE draft[d][ch]
                /\ IfCommitted(d, ch)' = IF d = c /\ ch = ChainOf(At(c).acct)
                                         THEN IfCommitted(d, ch) \cup {NewRow(c, now)}
                                         ELSE IfCommitted(d, ch)
<1>1. UNCHANGED <<balance, ledger, delta>>
  BY DEF AppendRow, db
<1>2. At(c) \in Posting /\ ChainOf(At(c).acct) \in Chains
  BY PostingType, PostingFields DEF AppendRow, InCall
<1>3. PICK now \in Clock :
        draft' = [draft EXCEPT ![c][ChainOf(At(c).acct)] = @ \cup {NewRow(c, now)}]
  BY DEF AppendRow
<1>4. \A d \in Clients, ch \in Chains :
        draft'[d][ch] = IF d = c /\ ch = ChainOf(At(c).acct)
                        THEN draft[d][ch] \cup {NewRow(c, now)}
                        ELSE draft[d][ch]
  BY <1>2, <1>3 DEF TypeOK
<1> QED BY <1>1, <1>2, <1>4 DEF IfCommitted

-----------------------------------------------------------------------------
(* Chains and balances.                                                     *)

LEMMA SnapshotsGoodPreserved ==
    ASSUME IInv, [Next]_vars
    PROVE  SnapshotsGood'
<1> USE DEF IInv, SnapshotsGood
<1>1. CASE UNCHANGED vars
  BY <1>1 DEF vars, db, work
<1>2. ASSUME NEW c \in Clients, Receive(c)
      PROVE  SnapshotsGood'
  BY <1>2 DEF Receive, TypeOK, NoDraft, db
<1>3. ASSUME NEW c \in Clients, Reading(c) \/ Update(c) \/ AppendRow(c)
      PROVE  SnapshotsGood'
  BY <1>3, ReadingChanges DEF Update, AppendRow, db
<1>4. ASSUME NEW c \in Clients, NEW answer \in Replies, Rollback(c, answer)
      PROVE  SnapshotsGood'
  BY <1>4 DEF Rollback, TypeOK, NoDraft, db
<1>5. ASSUME NEW c \in Clients, Commit(c)
      PROVE  SnapshotsGood'
  BY <1>5 DEF Commit, TypeOK, NoDraft
<1> QED BY <1>1, <1>2, <1>3, <1>4, <1>5, StepCases DEF Reading

LEMMA HeadsGoodPreserved ==
    ASSUME IInv, [Next]_vars
    PROVE  HeadsGood'
<1> USE DEF IInv, HeadsGood
<1> SUFFICES ASSUME NEW ch \in Chains, NEW d \in Clients
             PROVE  HasHead(ledger'[ch]) /\ HasHead(snap'[d][ch]) /\ HasHead(draft'[d][ch])
  <2>1. /\ \A ch \in Chains : HasHead(ledger'[ch])
        /\ \A d \in Clients, ch \in Chains : HasHead(snap'[d][ch]) /\ HasHead(draft'[d][ch])
        => HeadsGood'
    BY DEF HasHead, IsHead
  <2>2. Clients = {} => UNCHANGED vars
    BY StepCases
  <2>3. Clients = {} => \A ch \in Chains : HasHead(ledger'[ch])
    BY <2>2 DEF vars, db
  <2> QED BY <2>1, <2>3
<1>1. CASE UNCHANGED vars
  BY <1>1 DEF vars, db, work
<1>2. HasHead({})
  BY DEF HasHead
<1>3. ASSUME NEW c \in Clients, Receive(c)
      PROVE  HasHead(ledger'[ch]) /\ HasHead(snap'[d][ch]) /\ HasHead(draft'[d][ch])
  <2>1. UNCHANGED <<ledger, draft>>
    BY <1>3 DEF Receive, db
  <2>2. snap'[d][ch] \in {snap[d][ch], ledger[ch], {}}
    BY <1>3 DEF Receive, TypeOK, NoDraft
  <2> QED BY <1>2, <2>1, <2>2
<1>4. ASSUME NEW c \in Clients, Reading(c) \/ Update(c)
      PROVE  HasHead(ledger'[ch]) /\ HasHead(snap'[d][ch]) /\ HasHead(draft'[d][ch])
  BY <1>4, ReadingChanges DEF Update, db
<1>5. ASSUME NEW c \in Clients, NEW answer \in Replies, Rollback(c, answer)
      PROVE  HasHead(ledger'[ch]) /\ HasHead(snap'[d][ch]) /\ HasHead(draft'[d][ch])
  <2>1. UNCHANGED ledger
    BY <1>5 DEF Rollback, db
  <2>2. snap'[d][ch] \in {snap[d][ch], {}} /\ draft'[d][ch] \in {draft[d][ch], {}}
    BY <1>5 DEF Rollback, TypeOK, NoDraft
  <2> QED BY <1>2, <2>1, <2>2
<1>6. ASSUME NEW c \in Clients, AppendRow(c)
      PROVE  HasHead(ledger'[ch]) /\ HasHead(snap'[d][ch]) /\ HasHead(draft'[d][ch])
  <2>1. UNCHANGED <<ledger, snap>>
    BY <1>6 DEF AppendRow, db
  <2>2. call[c] \in Calls /\ At(c) \in Posting
    BY <1>6, AppendShows DEF AppendRow, InCall
  <2>3. PICK now \in Clock : \A e \in Clients, h \in Chains :
          /\ draft'[e][h] = IF e = c /\ h = ChainOf(At(c).acct)
                            THEN draft[e][h] \cup {NewRow(c, now)}
                            ELSE draft[e][h]
          /\ IfCommitted(e, h)' = IF e = c /\ h = ChainOf(At(c).acct)
                                  THEN IfCommitted(e, h) \cup {NewRow(c, now)}
                                  ELSE IfCommitted(e, h)
    BY <1>6, AppendShows
  <2>4. draft'[d][ch] \in {draft[d][ch], draft[d][ch] \cup {NewRow(c, now)}}
    BY <2>3
  <2>5. NewRow(c, now) \in Row
    BY <2>2, NewRowFits
  <2>6. HasHead({NewRow(c, now)})
    BY <2>5, RowFields DEF HasHead, IsHead
  <2>7. HasHead(draft[d][ch] \cup {NewRow(c, now)})
    BY <2>5, <2>6, UnionHasHead DEF TypeOK
  <2> QED BY <2>1, <2>7, <2>4
<1>7. ASSUME NEW c \in Clients, Commit(c)
      PROVE  HasHead(ledger'[ch]) /\ HasHead(snap'[d][ch]) /\ HasHead(draft'[d][ch])
  <2>1. ledger'[ch] = ledger[ch] \cup draft[c][ch]
    BY <1>7 DEF Commit
  <2>2. ledger[ch] \in SUBSET Row /\ draft[c][ch] \in SUBSET Row
    BY DEF TypeOK
  <2>3. HasHead(ledger[ch]) /\ HasHead(draft[c][ch])
    OBVIOUS
  <2>4. HasHead(ledger[ch] \cup draft[c][ch])
    BY <2>2, <2>3, UnionHasHead
  <2>5. HasHead(ledger'[ch])
    BY <2>1, <2>4
  <2>6. snap'[d][ch] \in {snap[d][ch], {}} /\ draft'[d][ch] \in {draft[d][ch], {}}
    BY <1>7 DEF Commit, TypeOK, NoDraft
  <2> QED BY <1>2, <2>5, <2>6
<1> QED BY <1>1, <1>3, <1>4, <1>5, <1>6, <1>7, StepCases DEF Reading

\* Without SERIALIZABLE transactions every append sees the head of the chain it
\* holds the lock of.
LEMMA ChainsLinkedPreserved ==
    ASSUME IInv, [Next]_vars, ReadCommitted
    PROVE  ChainsLinked'
<1> USE DEF IInv, ChainsLinked
<1>1. ASSUME UNCHANGED <<ledger, draft>>
      PROVE  ChainsLinked'
  BY <1>1 DEF Linked, IfCommitted
<1>2. ASSUME NEW c \in Clients, NEW answer \in Replies, Rollback(c, answer)
      PROVE  ChainsLinked'
  <2>1. \A ch \in Chains : Linked(ledger'[ch])
    BY <1>2, RollbackShows
  <2>2. \A d \in Clients, ch \in Chains : Linked(IfCommitted(d, ch)')
    BY <1>2, RollbackShows
  <2> QED BY <2>1, <2>2 DEF Linked
<1>3. ASSUME NEW c \in Clients, AppendRow(c)
      PROVE  ChainsLinked'
  <2> DEFINE here == ChainOf(At(c).acct)
  <2>1. here \in Chains /\ At(c) \in Posting /\ call[c] \in Calls
    BY <1>3, AppendShows, PostingFields DEF AppendRow, InCall
  <2>2. PICK now \in Clock : \A d \in Clients, ch \in Chains :
          /\ draft'[d][ch] = IF d = c /\ ch = here
                             THEN draft[d][ch] \cup {NewRow(c, now)}
                             ELSE draft[d][ch]
          /\ IfCommitted(d, ch)' = IF d = c /\ ch = here
                                   THEN IfCommitted(d, ch) \cup {NewRow(c, now)}
                                   ELSE IfCommitted(d, ch)
    BY <1>3, AppendShows
  <2>3. \A r \in IfCommitted(c, here) : r.at \in Nat /\ r.key # At(c).key
    BY <1>3, <2>1, VisibleType, RowFields DEF AppendRow, KeyUsed, IfCommitted
  <2>4. VisibleRows(c, here) = IfCommitted(c, here)
    BY <2>1 DEF VisibleRows, IfCommitted, Serial, ReadCommitted
  <2>5. Linked(IfCommitted(c, here) \cup {NewRow(c, now)})
    <3> DEFINE row == NewRow(c, now)
               rows == IfCommitted(c, here)
    <3>1. /\ row \in Row
          /\ row.key = At(c).key
          /\ rows = {} => row.prev = NoKey
          /\ rows # {} => \E h \in rows : IsHead(h, rows) /\ row.prev = h.key /\ row.at > h.at
      BY <2>1, <2>4, NewRowFits
    <3>2. row.at \in Nat
      BY <3>1, RowFields
    <3>3. Linked(rows)
      BY <2>1
    <3> HIDE DEF row, rows
    <3> QED BY <2>3, <3>1, <3>2, <3>3, AppendKeepsLinked DEF rows, row
  <2>6. \A d \in Clients, ch \in Chains : Linked(IfCommitted(d, ch)')
    BY <2>2, <2>5
  <2>7. \A ch \in Chains : Linked(ledger'[ch])
    BY <1>3, AppendShows
  <2> QED BY <2>6, <2>7 DEF Linked
<1>4. ASSUME NEW c \in Clients, Commit(c)
      PROVE  ChainsLinked'
  <2>1. \A ch \in Chains : Linked(ledger'[ch])
    BY <1>4, CommitShows
  <2>2. \A d \in Clients, ch \in Chains : Linked(IfCommitted(d, ch)')
    BY <1>4, CommitShows
  <2> QED BY <2>1, <2>2 DEF Linked
<1>5. CASE UNCHANGED vars
  BY <1>1, <1>5 DEF vars, db, work
<1>6. ASSUME NEW c \in Clients, Receive(c) \/ Reading(c) \/ Update(c)
      PROVE  ChainsLinked'
  BY <1>1, <1>6, ReadingChanges DEF Receive, Update, db, work
<1> QED BY <1>2, <1>3, <1>4, <1>5, <1>6, StepCases DEF Reading

LEMMA BalancesGoodPreserved ==
    ASSUME IInv, [Next]_vars
    PROVE  BalancesGood'
<1> USE DEF IInv, BalancesGood
<1>1. ASSUME UNCHANGED <<balance, delta>>
      PROVE  BalancesGood'
  BY <1>1 DEF VisibleBalance
<1>2. ASSUME NEW c \in Clients, NEW answer \in Replies, Rollback(c, answer)
      PROVE  BalancesGood'
  BY <1>2, RollbackShows
<1>3. ASSUME NEW c \in Clients, Update(c)
      PROVE  BalancesGood'
  <2> DEFINE p == At(c)
  <2>1. p \in Posting
    BY <1>3, PostingType DEF Update, InCall
  <2>2. p.acct \in Accounts /\ p.amt \in Int
    BY <2>1, PostingFields
  <2>3. UNCHANGED balance
    BY <1>3 DEF Update, db
  <2>4. \A d \in Clients, a \in Accounts :
          delta'[d][a] = IF d = c /\ a = p.acct THEN delta[d][a] + p.amt ELSE delta[d][a]
    BY <1>3, <2>2 DEF Update, Change, TypeOK
  <2>5. \A d \in Clients, a \in Accounts : balance[a] \in Int /\ delta[d][a] \in Int
    BY DEF TypeOK
  <2>6. p.acct \notin Overdraft => VisibleBalance(c, p.acct) + p.amt >= 0
    BY <1>3, <2>2, <2>5 DEF Update, Covers, VisibleBalance
  <2> QED BY <2>2, <2>3, <2>4, <2>5, <2>6 DEF VisibleBalance
<1>4. ASSUME NEW c \in Clients, Commit(c)
      PROVE  BalancesGood'
  BY <1>4, CommitShows
<1>5. CASE UNCHANGED vars
  BY <1>1, <1>5 DEF vars, db, work
<1>6. ASSUME NEW c \in Clients, Receive(c) \/ Reading(c) \/ AppendRow(c)
      PROVE  BalancesGood'
  BY <1>1, <1>6, ReadingChanges, AppendShows DEF Receive, db, work
<1> QED BY <1>2, <1>3, <1>4, <1>5, <1>6, StepCases DEF Reading

-----------------------------------------------------------------------------
(* All of a call or nothing of it.                                          *)

LEMMA AdvanceDoes ==
    ASSUME TypeOK, InCall, NEW c \in Clients, Advance(c), UNCHANGED call,
           pc[c] \notin {"idle", "commit"}
    PROVE  /\ pc'[c] # "idle"
           /\ Done(c)' \subseteq Done(c) \cup {next[c]}
           /\ \A d \in Clients \ {c} : pc'[d] = pc[d] /\ Done(d)' = Done(d)
<1>1. next[c] \in DOMAIN call[c].postings /\ next[c] \in Nat
  BY DEF InCall, TypeOK
<1>2. DOMAIN call[c].postings = 1..Len(call[c].postings) /\ Len(call[c].postings) \in Nat
  BY LedgerAssumption DEF InCall
<1>3. next'[c] = next[c] + 1
  BY DEF Advance, TypeOK
<1>4. pc'[c] = IF next[c] < Len(call[c].postings) THEN "lookup" ELSE "commit"
  BY DEF Advance, TypeOK
<1>5. Done(c) = 1..(next[c] - 1)
  BY DEF Done
<1>6. Done(c)' \subseteq Done(c) \cup {next[c]}
  BY <1>1, <1>2, <1>3, <1>4, <1>5 DEF Done
<1>7. \A d \in Clients \ {c} : pc'[d] = pc[d] /\ next'[d] = next[d]
  BY DEF Advance, TypeOK
<1> QED BY <1>4, <1>6, <1>7 DEF Done

LEMMA PostingsOfCall ==
    ASSUME NEW q \in Calls, NEW i \in DOMAIN q.postings
    PROVE  /\ q.postings[i] \in Posting
           /\ ChainOf(q.postings[i].acct) \in Chains
BY LedgerAssumption, PostingFields

LEMMA PostingsDonePreserved ==
    ASSUME IInv, [Next]_vars
    PROVE  PostingsDone'
<1> USE DEF IInv
<1>1. ASSUME \A d \in Clients : pc'[d] # "idle" =>
                /\ pc[d] # "idle" /\ call'[d] = call[d] /\ Done(d)' \subseteq Done(d)
                /\ \A ch \in Chains : IfCommitted(d, ch) \subseteq IfCommitted(d, ch)'
      PROVE  PostingsDone'
  <2> SUFFICES ASSUME NEW d \in Clients, pc'[d] # "idle", NEW i \in Done(d)'
               PROVE  PostedIn(IfCommitted(d, ChainOf(call[d].postings[i].acct))',
                               call[d].postings[i])
    BY <1>1 DEF PostingsDone, ChainOf, PostedIn
  <2>1. PostedIn(IfCommitted(d, ChainOf(call[d].postings[i].acct)), call[d].postings[i])
    BY <1>1 DEF PostingsDone
  <2>2. ChainOf(call[d].postings[i].acct) \in Chains
    BY DEF ChainOf, Chains
  <2> QED BY <1>1, <2>1, <2>2 DEF PostedIn
<1>2. CASE UNCHANGED vars
  <2>1. \A d \in Clients : Done(d)' = Done(d)
    BY <1>2 DEF vars, Done
  <2> QED BY <1>1, <1>2, <2>1 DEF vars, db, work, IfCommitted
<1>3. ASSUME NEW c \in Clients, Receive(c)
      PROVE  PostingsDone'
  <2>1. PICK q \in Calls :
          /\ call' = [call EXCEPT ![c] = q]
          /\ pc' = [pc EXCEPT ![c] = IF q.kind = "give" THEN "replay" ELSE "lookup"]
    BY <1>3 DEF Receive
  <2>2. next' = next /\ next[c] = 1
    BY <1>3 DEF Receive, InCall
  <2>3. Done(c)' = {}
    BY <2>1, <2>2 DEF Done, TypeOK
  <2>4. \A d \in Clients \ {c} : Done(d)' = Done(d) /\ pc'[d] = pc[d] /\ call'[d] = call[d]
    BY <2>1, <2>2 DEF Done, TypeOK
  <2>5. \A d \in Clients, ch \in Chains : IfCommitted(d, ch)' = IfCommitted(d, ch)
    BY <1>3 DEF Receive, db, work, IfCommitted
  <2> QED BY <2>3, <2>4, <2>5 DEF PostingsDone, PostedIn, ChainOf, Chains
<1>4. ASSUME NEW c \in Clients, GiveIsNew(c) \/ LookupNew(c) \/ EnsureWallet(c) \/ Update(c)
      PROVE  PostingsDone'
  <2>1. /\ pc[c] \notin {"idle", "commit"} /\ pc'[c] \notin {"idle", "commit"}
        /\ UNCHANGED <<call, next, ledger, draft>>
        /\ \A d \in Clients \ {c} : pc'[d] = pc[d]
    BY <1>4 DEF GiveIsNew, LookupNew, EnsureWallet, Update, TypeOK, db, work
  <2>2. \A d \in Clients : Done(d)' = Done(d)
    BY <2>1 DEF Done
  <2> QED BY <1>1, <2>1, <2>2 DEF IfCommitted
<1>5. ASSUME NEW c \in Clients, Advance(c), UNCHANGED call, pc[c] \notin {"idle", "commit"},
             NEW p, p = At(c), PostedIn(IfCommitted(c, ChainOf(p.acct))', p),
             \A d \in Clients, ch \in Chains : IfCommitted(d, ch) \subseteq IfCommitted(d, ch)'
      PROVE  PostingsDone'
  <2>1. \A d \in Clients \ {c} : pc'[d] = pc[d] /\ Done(d)' = Done(d)
    BY <1>5, AdvanceDoes
  <2> SUFFICES ASSUME NEW d \in Clients, pc'[d] # "idle", NEW i \in Done(d)'
               PROVE  PostedIn(IfCommitted(d, ChainOf(call[d].postings[i].acct))',
                               call[d].postings[i])
    BY <1>5 DEF PostingsDone, ChainOf, PostedIn
  <2>2. CASE i \in Done(d) /\ pc[d] # "idle"
    <3>1. PostedIn(IfCommitted(d, ChainOf(call[d].postings[i].acct)), call[d].postings[i])
      BY <2>2 DEF PostingsDone
    <3>2. ChainOf(call[d].postings[i].acct) \in Chains
      BY DEF ChainOf, Chains
    <3> QED BY <1>5, <3>1, <3>2 DEF PostedIn
  <2>3. CASE d = c /\ i = next[c]
    BY <1>5, <2>3 DEF At
  <2> QED BY <1>5, <2>1, <2>2, <2>3, AdvanceDoes
<1>6. ASSUME NEW c \in Clients, LookupReplayed(c)
      PROVE  PostingsDone'
  <2>1. UNCHANGED <<ledger, draft>>
    BY <1>6 DEF LookupReplayed, db, work, Advance
  <2>2. \A d \in Clients, ch \in Chains : IfCommitted(d, ch)' = IfCommitted(d, ch)
    BY <2>1 DEF IfCommitted
  <2>3. PICK p : p = At(c)
    OBVIOUS
  <2>4. ChainOf(p.acct) \in Chains
    BY DEF ChainOf, Chains
  <2>5. PostedIn(IfCommitted(c, ChainOf(p.acct)), p)
    BY <1>6, <2>3, <2>4, VisibleInIfCommitted DEF LookupReplayed, Found, PostedIn
  <2>6. PostedIn(IfCommitted(c, ChainOf(p.acct))', p)
    BY <2>2, <2>5, <2>4
  <2> QED BY <1>5, <1>6, <2>2, <2>3, <2>6 DEF LookupReplayed
<1>7. ASSUME NEW c \in Clients, AppendRow(c)
      PROVE  PostingsDone'
  <2> DEFINE here == ChainOf(At(c).acct)
  <2>1. here \in Chains /\ At(c) \in Posting
    BY <1>7, AppendShows, PostingFields
  <2>2. PICK now \in Clock : \A d \in Clients, ch \in Chains :
          /\ draft'[d][ch] = IF d = c /\ ch = here
                             THEN draft[d][ch] \cup {NewRow(c, now)}
                             ELSE draft[d][ch]
          /\ IfCommitted(d, ch)' = IF d = c /\ ch = here
                                   THEN IfCommitted(d, ch) \cup {NewRow(c, now)}
                                   ELSE IfCommitted(d, ch)
    BY <1>7, AppendShows
  <2>3. NewRow(c, now).key = At(c).key /\ SameRequest(NewRow(c, now), At(c))
    BY <1>7, <2>1, NewRowFits DEF AppendRow, InCall
  <2>4. PICK p : p = At(c)
    OBVIOUS
  <2>5. IfCommitted(c, ChainOf(p.acct))' = IfCommitted(c, ChainOf(p.acct)) \cup {NewRow(c, now)}
    BY <2>1, <2>2, <2>4
  <2>6. PostedIn(IfCommitted(c, ChainOf(p.acct))', p)
    BY <2>3, <2>4, <2>5 DEF PostedIn
  <2>7. \A d \in Clients, ch \in Chains : IfCommitted(d, ch) \subseteq IfCommitted(d, ch)'
    BY <2>2
  <2> QED BY <1>5, <1>7, <2>4, <2>6, <2>7 DEF AppendRow
<1>8. ASSUME NEW c \in Clients, NEW answer \in Replies, Rollback(c, answer)
      PROVE  PostingsDone'
  <2>1. /\ pc'[c] = "idle" /\ UNCHANGED call
        /\ \A d \in Clients \ {c} : pc'[d] = pc[d] /\ next'[d] = next[d]
    BY <1>8 DEF Rollback, TypeOK
  <2>2. \A d \in Clients \ {c} : Done(d)' = Done(d)
    BY <2>1 DEF Done
  <2> QED BY <1>1, <1>8, <2>1, <2>2, RollbackShows
<1>9. ASSUME NEW c \in Clients, Commit(c)
      PROVE  PostingsDone'
  <2>1. /\ pc'[c] = "idle" /\ UNCHANGED call
        /\ \A d \in Clients \ {c} : pc'[d] = pc[d] /\ next'[d] = next[d]
    BY <1>9 DEF Commit, TypeOK
  <2>2. \A d \in Clients \ {c} : Done(d)' = Done(d)
    BY <2>1 DEF Done
  <2> QED BY <1>1, <1>9, <2>1, <2>2, CommitShows
<1> QED BY <1>2, <1>3, <1>4, <1>6, <1>7, <1>8, <1>9, StepCases

LEMMA OwnRowsPreserved ==
    ASSUME IInv, [Next]_vars
    PROVE  OwnRows'
<1> USE DEF IInv, OwnRows
<1>1. ASSUME UNCHANGED draft,
             \A d \in Clients : pc[d] # "idle" => pc'[d] # "idle" /\ call'[d] = call[d]
      PROVE  OwnRows'
  BY <1>1
<1>2. CASE UNCHANGED vars
  BY <1>1, <1>2 DEF vars, work
<1>3. ASSUME NEW c \in Clients, Receive(c)
      PROVE  OwnRows'
  BY <1>1, <1>3 DEF Receive, work, TypeOK
<1>4. ASSUME NEW c \in Clients, GiveIsNew(c) \/ LookupNew(c) \/ EnsureWallet(c) \/ Update(c)
      PROVE  OwnRows'
  BY <1>1, <1>4 DEF GiveIsNew, LookupNew, EnsureWallet, Update, work, TypeOK
<1>5. ASSUME NEW c \in Clients, LookupReplayed(c)
      PROVE  OwnRows'
  BY <1>1, <1>5, AdvanceDoes DEF LookupReplayed, work
<1>6. ASSUME NEW c \in Clients, AppendRow(c)
      PROVE  OwnRows'
  <2> DEFINE here == ChainOf(At(c).acct)
  <2>1. /\ UNCHANGED call
        /\ pc'[c] # "idle"
        /\ \A d \in Clients \ {c} : pc'[d] = pc[d]
    <3>1. Advance(c) /\ UNCHANGED call /\ pc[c] \notin {"idle", "commit"}
      BY <1>6 DEF AppendRow
    <3> QED BY <3>1, AdvanceDoes
  <2>2. here \in Chains /\ At(c) \in Posting
    BY <1>6, AppendShows, PostingFields
  <2>3. PICK now \in Clock : \A d \in Clients, ch \in Chains :
          /\ draft'[d][ch] = IF d = c /\ ch = here
                             THEN draft[d][ch] \cup {NewRow(c, now)}
                             ELSE draft[d][ch]
          /\ IfCommitted(d, ch)' = IF d = c /\ ch = here
                                   THEN IfCommitted(d, ch) \cup {NewRow(c, now)}
                                   ELSE IfCommitted(d, ch)
    BY <1>6, AppendShows
  <2>4. NewRow(c, now).key = At(c).key /\ SameRequest(NewRow(c, now), At(c))
    BY <1>6, <2>2, NewRowFits DEF AppendRow, InCall
  <2>5. next[c] \in DOMAIN call[c].postings
    BY <1>6 DEF AppendRow, InCall
  <2>6. ASSUME NEW d \in Clients, NEW ch \in Chains, NEW r \in draft'[d][ch]
        PROVE  /\ pc'[d] # "idle"
               /\ \E i \in DOMAIN call[d].postings :
                    r.key = call[d].postings[i].key /\ SameRequest(r, call[d].postings[i])
    <3>1. CASE r \in draft[d][ch]
      BY <2>1, <3>1
    <3>2. CASE d = c /\ r = NewRow(c, now)
      BY <2>1, <2>4, <2>5, <3>2 DEF At
    <3>3. draft'[d][ch] \subseteq draft[d][ch] \cup {NewRow(c, now)}
      BY <2>3
    <3>4. d # c => draft'[d][ch] = draft[d][ch]
      BY <2>3
    <3> QED BY <2>6, <3>1, <3>2, <3>3, <3>4
  <2> QED BY <2>1, <2>6
<1>7. ASSUME NEW c \in Clients, NEW answer \in Replies, Rollback(c, answer)
      PROVE  OwnRows'
  BY <1>7 DEF Rollback, NoDraft, TypeOK
<1>8. ASSUME NEW c \in Clients, Commit(c)
      PROVE  OwnRows'
  BY <1>8 DEF Commit, NoDraft, TypeOK
<1> QED BY <1>2, <1>3, <1>4, <1>5, <1>6, <1>7, <1>8, StepCases

\* A commit only adds to the ledger, and adds a whole call.
LEMMA CommitPosts ==
    ASSUME IInv, NEW c \in Clients, Commit(c)
    PROVE  /\ \A ch \in Chains : ledger[ch] \subseteq ledger'[ch]
           /\ call[c] \in Calls
           /\ \A i \in DOMAIN call[c].postings : Posted(call[c].postings[i])'
<1>1. \A ch \in Chains : ledger'[ch] = IfCommitted(c, ch)
  BY CommitShows DEF IInv
<1>2. pc[c] = "commit" /\ UNCHANGED call
  BY DEF Commit
<1>3. call[c] \in Calls
  BY <1>2 DEF IInv, InCall
<1>4. ASSUME NEW i \in DOMAIN call[c].postings
      PROVE  Posted(call[c].postings[i])'
  <2>1. i \in Done(c)
    BY <1>2 DEF Done
  <2>2. PICK p : p = call[c].postings[i]
    OBVIOUS
  <2>3. PostedIn(IfCommitted(c, ChainOf(p.acct)), p)
    BY <1>2, <2>1, <2>2 DEF IInv, PostingsDone
  <2>4. ChainOf(p.acct) \in Chains
    BY DEF ChainOf, Chains
  <2>5. Posted(p)'
    BY <1>1, <2>3, <2>4 DEF Posted, PostedIn
  <2> QED BY <1>2, <2>2, <2>5
<1> QED BY <1>1, <1>3, <1>4 DEF IfCommitted

LEMMA PostedGrows ==
    ASSUME \A ch \in Chains : ledger[ch] \subseteq ledger'[ch]
    PROVE  \A p : Posted(p) => Posted(p)'
BY DEF Posted, ChainOf, Chains

LEMMA AllOrNothingPreserved ==
    ASSUME IInv, [Next]_vars
    PROVE  AllOrNothing'
<1>1. ASSUME UNCHANGED ledger
      PROVE  AllOrNothing'
  BY <1>1 DEF IInv, AllOrNothing, Posted
<1>2. ASSUME NEW c \in Clients, Commit(c)
      PROVE  AllOrNothing'
  <2> SUFFICES ASSUME NEW ch \in Chains, NEW r \in ledger'[ch]
               PROVE  \E q \in Calls :
                        /\ \E i \in DOMAIN q.postings :
                              r.key = q.postings[i].key /\ SameRequest(r, q.postings[i])
                        /\ \A i \in DOMAIN q.postings : Posted(q.postings[i])'
    BY DEF AllOrNothing
  <2>1. CASE r \in ledger[ch]
    <3>1. PICK q \in Calls :
            /\ \E i \in DOMAIN q.postings :
                  r.key = q.postings[i].key /\ SameRequest(r, q.postings[i])
            /\ \A i \in DOMAIN q.postings : Posted(q.postings[i])
      BY <2>1 DEF IInv, AllOrNothing
    <3>2. \A i \in DOMAIN q.postings : Posted(q.postings[i])'
      BY <1>2, <3>1, CommitPosts, PostedGrows
    <3> QED BY <3>1, <3>2
  <2>2. CASE r \in draft[c][ch]
    <3>1. \E i \in DOMAIN call[c].postings :
            r.key = call[c].postings[i].key /\ SameRequest(r, call[c].postings[i])
      BY <2>2 DEF IInv, OwnRows
    <3>2. PICK q : q = call[c]
      OBVIOUS
    <3>3. call' = call
      BY <1>2 DEF Commit
    <3>4. q \in Calls /\ \A i \in DOMAIN q.postings : Posted(q.postings[i])'
      BY <1>2, <3>2, <3>3, CommitPosts
    <3> QED BY <3>1, <3>2, <3>4
  <2> QED BY <1>2, <2>1, <2>2, CommitShows DEF IInv, IfCommitted
<1>3. CASE UNCHANGED vars
  BY <1>1, <1>3 DEF vars, db
<1>4. ASSUME NEW c \in Clients,
             \/ Receive(c) \/ Reading(c) \/ Update(c) \/ AppendRow(c)
             \/ \E answer \in Replies : Rollback(c, answer)
      PROVE  AllOrNothing'
  BY <1>1, <1>4, ReadingChanges DEF IInv, Receive, Update, AppendRow, Rollback, db
<1> QED BY <1>2, <1>3, <1>4, StepCases DEF Reading

\* The early answer of a give is never a success: the incoming row it looks for
\* belongs to another member.
LEMMA GiveNeverReplayed ==
    ASSUME InCall, NEW c \in Clients, pc[c] = "replay"
    PROVE  ~SameGive(c)
<1>1. call[c] \in Calls /\ call[c].kind = "give"
  BY DEF InCall
<1>2. PICK p \in WalletPostings(call[c]) : Owner[p.acct] # Giver(call[c])
  BY <1>1, GiveAssumption
<1>3. \A r \in EarlierGive(c) : SameRequest(r, p) => Owner[r.acct] # Giver(call[c])
  BY <1>2 DEF SameRequest
<1> QED BY <1>2, <1>3 DEF SameGive, EarlierGive

LEMMA AnsweredTruthfullyPreserved ==
    ASSUME IInv, [Next]_vars
    PROVE  AnsweredTruthfully'
<1> USE DEF IInv, AnsweredTruthfully
<1>1. ASSUME \A ch \in Chains : ledger[ch] \subseteq ledger'[ch],
             \A d \in Clients : reply'[d] \in {"applied", "replayed"} =>
                reply[d] = reply'[d] /\ call[d] = call'[d]
      PROVE  AnsweredTruthfully'
  <2> SUFFICES ASSUME NEW d \in Clients, reply'[d] \in {"applied", "replayed"},
                      NEW i \in DOMAIN call'[d].postings
               PROVE  Posted(call[d].postings[i])'
    OBVIOUS
  <2>1. Posted(call[d].postings[i])
    BY <1>1
  <2>2. PICK p : p = call[d].postings[i]
    OBVIOUS
  <2>3. Posted(p)'
    BY <1>1, <2>1, <2>2, PostedGrows
  <2> QED BY <1>1, <2>2, <2>3
<1>2. CASE UNCHANGED vars
  BY <1>1, <1>2 DEF vars, db
<1>3. ASSUME NEW c \in Clients, Receive(c)
      PROVE  AnsweredTruthfully'
  BY <1>1, <1>3 DEF Receive, TypeOK, db
<1>4. ASSUME NEW c \in Clients, Reading(c) \/ Update(c) \/ AppendRow(c)
      PROVE  AnsweredTruthfully'
  BY <1>1, <1>4, ReadingChanges DEF Update, AppendRow, db
<1>5. ASSUME NEW c \in Clients, NEW answer \in Replies, Rollback(c, answer),
             answer # "applied",
             answer = "replayed" => pc[c] = "replay" /\ SameGive(c)
      PROVE  AnsweredTruthfully'
  <2>1. answer # "replayed"
    BY <1>5, GiveNeverReplayed
  <2>2. UNCHANGED <<ledger, call>> /\ reply' = [reply EXCEPT ![c] = answer]
    BY <1>5 DEF Rollback, db
  <2> QED BY <1>1, <1>5, <2>1, <2>2 DEF TypeOK
<1>6. ASSUME NEW c \in Clients, Commit(c)
      PROVE  AnsweredTruthfully'
  <2> SUFFICES ASSUME NEW d \in Clients, reply'[d] \in {"applied", "replayed"},
                      NEW i \in DOMAIN call'[d].postings
               PROVE  Posted(call[d].postings[i])'
    OBVIOUS
  <2>1. UNCHANGED call
    BY <1>6 DEF Commit
  <2>2. CASE d = c
    BY <1>6, <2>1, <2>2, CommitPosts
  <2>3. CASE d # c
    <3>1. reply'[d] = reply[d]
      BY <1>6, <2>3 DEF Commit, TypeOK
    <3>2. Posted(call[d].postings[i])
      BY <2>1, <3>1
    <3>3. PICK p : p = call[d].postings[i]
      OBVIOUS
    <3>4. Posted(p)'
      BY <1>6, <3>2, <3>3, CommitPosts, PostedGrows
    <3> QED BY <2>1, <3>3, <3>4
  <2> QED BY <2>2, <2>3
<1> QED BY <1>2, <1>3, <1>4, <1>5, <1>6, StepCases DEF Reading

-----------------------------------------------------------------------------
(* The theorems.                                                            *)

LEMMA InitGood == Init => IInv
<1> SUFFICES ASSUME Init PROVE IInv
  OBVIOUS
<1> USE DEF Init, NoDelta, NoDraft
<1>1. TypeOK
  BY LedgerAssumption DEF TypeOK, Steps, Replies
<1>2. InCall /\ LockDiscipline /\ PostingsDone /\ OwnRows /\ AllOrNothing /\ AnsweredTruthfully
  BY DEF InCall, LockDiscipline, PostingsDone, OwnRows, AllOrNothing, AnsweredTruthfully
<1>3. ChainsLinked /\ HeadsGood /\ SnapshotsGood
  BY DEF ChainsLinked, HeadsGood, SnapshotsGood, Linked, HasHead, IfCommitted
<1>4. BalancesGood
  BY DEF BalancesGood, VisibleBalance
<1> QED BY <1>1, <1>2, <1>3, <1>4 DEF IInv

LEMMA Invariance == Spec => []IInv
<1>1. IInv /\ [Next]_vars => IInv'
  BY TypePreserved, InCallPreserved, LockDisciplinePreserved, HeadsGoodPreserved,
     SnapshotsGoodPreserved, ChainsLinkedPreserved,
     BalancesGoodPreserved, PostingsDonePreserved, OwnRowsPreserved, AllOrNothingPreserved,
     AnsweredTruthfullyPreserved DEF IInv
<1> QED BY InitGood, <1>1, PTL DEF Spec

\* Every variable keeps its type: no row, lock or balance is ever malformed.
THEOREM TypeCorrect == Spec => []TypeOK
<1>1. IInv => TypeOK
  BY DEF IInv
<1> QED BY Invariance, <1>1, PTL

\* Among READ COMMITTED transactions, the hash chains of wallets and banks never
\* fork or break.
THEOREM ChainsStayIntact == ReadCommitted => (Spec => []ChainIntact)
<1> SUFFICES ASSUME ReadCommitted PROVE Spec => []ChainIntact
  OBVIOUS
<1>1. IInv => ChainIntact
  BY DEF IInv, ChainsLinked, ChainIntact
<1> QED BY Invariance, <1>1, PTL

\* No wallet or bank goes below zero unless its point type allows it.
THEOREM StaysSolvent == Spec => []Solvent
<1>1. IInv => Solvent
  BY DEF IInv, BalancesGood, Solvent
<1> QED BY Invariance, <1>1, PTL

\* A call's postings are committed together or not at all.
THEOREM CallsAreAtomic == Spec => []AllOrNothing
<1>1. IInv => AllOrNothing
  BY DEF IInv
<1> QED BY Invariance, <1>1, PTL

\* A success answer means that the call is in the ledger.
THEOREM AnswersAreTrue == Spec => []AnsweredTruthfully
<1>1. IInv => AnsweredTruthfully
  BY DEF IInv
<1> QED BY Invariance, <1>1, PTL

-----------------------------------------------------------------------------
(* Balances and the sums of their rows.  Rows are filed once, under a key of *)
(* their own in their chain, and what a transaction adds to a balance is what*)
(* its rows add up to, but for the row it is about to append.                *)

\* The rows a transaction has added to an account, what those of a set add up to,
\* and the change it made in the balance whose row is still to be appended.
Drafted(c, a) == {r \in draft[c][ChainOf(a)] : r.acct = a}
Total(rows) == SumFunction([r \in rows |-> r.amt])
Pending(c, a) == IF pc[c] = "append" /\ At(c).acct = a THEN At(c).amt ELSE 0

\* Rows are filed in the chain of their account, each once.
RowsFiled ==
    \A ch \in Chains :
        /\ IsFiniteSet(ledger[ch])
        /\ \A r \in ledger[ch] : ChainOf(r.acct) = ch
        /\ \A c \in Clients :
            /\ IsFiniteSet(draft[c][ch])
            /\ \A r \in draft[c][ch] : ChainOf(r.acct) = ch
            /\ ledger[ch] \cap draft[c][ch] = {}

KeysUnique ==
    \A ch \in Chains :
        /\ \A r, s \in ledger[ch] : r.key = s.key => r = s
        /\ \A c \in Clients : \A r, s \in IfCommitted(c, ch) : r.key = s.key => r = s

\* Balances and rows agree, in the database and in every transaction.
DeltasAgree ==
    \A c \in Clients, a \in Accounts : delta[c][a] = Total(Drafted(c, a)) + Pending(c, a)

JInv ==
    /\ RowsFiled
    /\ KeysUnique
    /\ SumReconciled
    /\ DeltasAgree

\* The amount of a row; Total is its sum over a set of rows.
AmtOf == [r \in Row |-> r.amt]

LEMMA TotalIsSum ==
    ASSUME NEW rows, rows \subseteq Row, IsFiniteSet(rows)
    PROVE  /\ Total(rows) = SumFunctionOnSet(AmtOf, rows)
           /\ Total(rows) \in Int
<1>1. \A r \in rows : AmtOf[r] \in Int /\ AmtOf[r] = [s \in rows |-> s.amt][r]
  BY DEF AmtOf, Row
<1>2. Total(rows) = SumFunctionOnSet([s \in rows |-> s.amt], rows)
  BY DEF Total, SumFunction
<1>3. Total(rows) = SumFunctionOnSet(AmtOf, rows)
  BY <1>1, <1>2, SumSame
<1> QED BY <1>1, <1>3, SumType DEF IntOn

LEMMA TotalEmpty == Total({}) = 0
<1>1. Total({}) = SumFunctionOnSet(AmtOf, {})
  BY TotalIsSum, FS_EmptySet
<1> QED BY <1>1, SumEmpty

LEMMA TotalAdd ==
    ASSUME NEW rows, rows \subseteq Row, IsFiniteSet(rows), NEW row \in Row, row \notin rows
    PROVE  Total(rows \cup {row}) = row.amt + Total(rows)
<1>1. IntOn(AmtOf, rows) /\ AmtOf[row] = row.amt /\ row.amt \in Int
  BY DEF AmtOf, Row, IntOn
<1>2. IsFiniteSet(rows \cup {row}) /\ rows \cup {row} \subseteq Row
  BY FS_AddElement
<1>3. SumFunctionOnSet(AmtOf, rows \cup {row}) = AmtOf[row] + SumFunctionOnSet(AmtOf, rows)
  BY <1>1, SumAdd
<1> QED BY <1>1, <1>2, <1>3, TotalIsSum

LEMMA TotalUnion ==
    ASSUME NEW A, NEW B, A \subseteq Row, B \subseteq Row, IsFiniteSet(A), IsFiniteSet(B),
           A \cap B = {}
    PROVE  Total(A \cup B) = Total(A) + Total(B)
<1>1. IntOn(AmtOf, A) /\ IntOn(AmtOf, B)
  BY DEF AmtOf, Row, IntOn
<1>2. IsFiniteSet(A \cup B) /\ A \cup B \subseteq Row
  BY FS_Union
<1>3. SumFunctionOnSet(AmtOf, A \cup B) = SumFunctionOnSet(AmtOf, A) + SumFunctionOnSet(AmtOf, B)
  BY <1>1, SumDisjoint
<1> QED BY <1>2, <1>3, TotalIsSum

LEMMA RowsFiledPreserved ==
    ASSUME IInv, RowsFiled, [Next]_vars
    PROVE  RowsFiled'
<1> USE DEF IInv
<1>1. ASSUME UNCHANGED <<ledger, draft>>
      PROVE  RowsFiled'
  BY <1>1 DEF RowsFiled
<1>2. ASSUME NEW c \in Clients, NEW answer \in Replies, Rollback(c, answer)
      PROVE  RowsFiled'
  <2>1. /\ UNCHANGED ledger
        /\ \A d \in Clients, ch \in Chains : draft'[d][ch] \in {draft[d][ch], {}}
    BY <1>2 DEF Rollback, NoDraft, TypeOK, db
  <2> QED BY <2>1, FS_EmptySet DEF RowsFiled
<1>3. ASSUME NEW c \in Clients, AppendRow(c)
      PROVE  RowsFiled'
  <2> DEFINE here == ChainOf(At(c).acct)
  <2>1. here \in Chains /\ At(c) \in Posting /\ call[c] \in Calls /\ UNCHANGED ledger
    BY <1>3, AppendShows, PostingFields DEF AppendRow, InCall
  <2>2. PICK now \in Clock : \A d \in Clients, ch \in Chains :
          /\ draft'[d][ch] = IF d = c /\ ch = here
                             THEN draft[d][ch] \cup {NewRow(c, now)}
                             ELSE draft[d][ch]
          /\ IfCommitted(d, ch)' = IF d = c /\ ch = here
                                   THEN IfCommitted(d, ch) \cup {NewRow(c, now)}
                                   ELSE IfCommitted(d, ch)
    BY <1>3, AppendShows
  <2>3. NewRow(c, now).key = At(c).key /\ SameRequest(NewRow(c, now), At(c))
    BY <2>1, NewRowFits
  <2>4. NewRow(c, now) \notin ledger[here]
    BY <1>3, <2>3 DEF AppendRow, KeyUsed
  <2>5. ChainOf(NewRow(c, now).acct) = here
    BY <2>3 DEF SameRequest
  <2>6. IsFiniteSet(draft[c][here] \cup {NewRow(c, now)})
    BY <2>1, FS_AddElement DEF RowsFiled
  <2> DEFINE row == NewRow(c, now)
  <2>7. \A d \in Clients, ch \in Chains :
          draft'[d][ch] = IF d = c /\ ch = here THEN draft[d][ch] \cup {row} ELSE draft[d][ch]
    BY <2>2
  <2> HIDE DEF here, row
  <2>8. ASSUME NEW d \in Clients, NEW ch \in Chains
        PROVE  /\ IsFiniteSet(draft'[d][ch])
               /\ \A r \in draft'[d][ch] : ChainOf(r.acct) = ch
               /\ ledger[ch] \cap draft'[d][ch] = {}
    <3>1. CASE d = c /\ ch = here
      <4>1. draft'[d][ch] = draft[d][ch] \cup {row}
        BY <2>7, <3>1
      <4>2. \A r \in draft[d][ch] : ChainOf(r.acct) = ch
        BY DEF RowsFiled
      <4>3. ledger[ch] \cap draft[d][ch] = {}
        BY DEF RowsFiled
      <4> QED BY <2>4, <2>5, <2>6, <3>1, <4>1, <4>2, <4>3 DEF row
    <3>2. CASE d # c \/ ch # here
      BY <2>7, <3>2 DEF RowsFiled
    <3> QED BY <3>1, <3>2
  <2>9. \A ch \in Chains : IsFiniteSet(ledger[ch]) /\ \A r \in ledger[ch] : ChainOf(r.acct) = ch
    BY DEF RowsFiled
  <2> QED BY <2>1, <2>8, <2>9 DEF RowsFiled, ChainOf
<1>4. ASSUME NEW c \in Clients, Commit(c)
      PROVE  RowsFiled'
  <2>1. \A ch \in Chains : ledger'[ch] = ledger[ch] \cup draft[c][ch]
    BY <1>4 DEF Commit
  <2>2. \A d \in Clients, ch \in Chains : draft'[d][ch] = IF d = c THEN {} ELSE draft[d][ch]
    BY <1>4 DEF Commit, NoDraft, TypeOK
  <2>3. \A d \in Clients \ {c}, ch \in Chains : draft[c][ch] = {} \/ draft[d][ch] = {}
    BY DEF LockDiscipline
  <2>4. ASSUME NEW ch \in Chains
        PROVE  IsFiniteSet(ledger'[ch])
    <3>1. IsFiniteSet(ledger[ch]) /\ IsFiniteSet(draft[c][ch])
      BY DEF RowsFiled
    <3>2. IsFiniteSet(ledger[ch] \cup draft[c][ch])
      BY <3>1, FS_Union
    <3> QED BY <2>1, <3>2
  <2>5. \A ch \in Chains : \A r \in ledger'[ch] : ChainOf(r.acct) = ch
    BY <2>1 DEF RowsFiled
  <2>6. ASSUME NEW d \in Clients, NEW ch \in Chains
        PROVE  /\ IsFiniteSet(draft'[d][ch])
               /\ \A r \in draft'[d][ch] : ChainOf(r.acct) = ch
               /\ ledger'[ch] \cap draft'[d][ch] = {}
    <3>1. CASE d = c
      BY <2>2, <3>1, FS_EmptySet
    <3>2. CASE d # c
      BY <2>1, <2>2, <2>3, <3>2 DEF RowsFiled
    <3> QED BY <3>1, <3>2
  <2> QED BY <2>4, <2>5, <2>6 DEF RowsFiled
<1>5. CASE UNCHANGED vars
  BY <1>1, <1>5 DEF vars, db, work
<1>6. ASSUME NEW c \in Clients, Receive(c) \/ Reading(c) \/ Update(c)
      PROVE  RowsFiled'
  BY <1>1, <1>6, ReadingChanges DEF Receive, Update, db, work
<1> QED BY <1>2, <1>3, <1>4, <1>5, <1>6, StepCases DEF Reading

LEMMA KeysUniquePreserved ==
    ASSUME IInv, KeysUnique, [Next]_vars
    PROVE  KeysUnique'
<1> USE DEF IInv
<1>1. ASSUME UNCHANGED <<ledger, draft>>
      PROVE  KeysUnique'
  BY <1>1 DEF KeysUnique, IfCommitted
<1>2. ASSUME NEW c \in Clients, NEW answer \in Replies, Rollback(c, answer)
      PROVE  KeysUnique'
  BY <1>2, RollbackShows DEF KeysUnique
<1>3. ASSUME NEW c \in Clients, AppendRow(c)
      PROVE  KeysUnique'
  <2> DEFINE here == ChainOf(At(c).acct)
  <2>1. here \in Chains /\ At(c) \in Posting /\ call[c] \in Calls /\ UNCHANGED ledger
    BY <1>3, AppendShows, PostingFields DEF AppendRow, InCall
  <2>2. PICK now \in Clock : \A d \in Clients, ch \in Chains :
          /\ draft'[d][ch] = IF d = c /\ ch = here
                             THEN draft[d][ch] \cup {NewRow(c, now)}
                             ELSE draft[d][ch]
          /\ IfCommitted(d, ch)' = IF d = c /\ ch = here
                                   THEN IfCommitted(d, ch) \cup {NewRow(c, now)}
                                   ELSE IfCommitted(d, ch)
    BY <1>3, AppendShows
  <2>3. NewRow(c, now).key = At(c).key
    BY <2>1, NewRowFits
  <2>4. \A r \in IfCommitted(c, here) : r.key # NewRow(c, now).key
    BY <1>3, <2>3 DEF AppendRow, KeyUsed, IfCommitted
  <2> DEFINE row == NewRow(c, now)
  <2>5. \A d \in Clients, ch \in Chains :
          IfCommitted(d, ch)' = IF d = c /\ ch = here
                                THEN IfCommitted(d, ch) \cup {row} ELSE IfCommitted(d, ch)
    BY <2>2
  <2>6. \A r \in IfCommitted(c, here) : r.key # row.key
    BY <2>4
  <2> HIDE DEF here, row
  <2>7. ASSUME NEW d \in Clients, NEW ch \in Chains
        PROVE  \A r, s \in IfCommitted(d, ch)' : r.key = s.key => r = s
    <3>1. \A r, s \in IfCommitted(d, ch) : r.key = s.key => r = s
      BY DEF KeysUnique
    <3>2. CASE d = c /\ ch = here
      BY <2>5, <2>6, <3>1, <3>2
    <3>3. CASE d # c \/ ch # here
      BY <2>5, <3>1, <3>3
    <3> QED BY <3>2, <3>3
  <2> QED BY <2>1, <2>7 DEF KeysUnique
<1>4. ASSUME NEW c \in Clients, Commit(c)
      PROVE  KeysUnique'
  BY <1>4, CommitShows DEF KeysUnique
<1>5. CASE UNCHANGED vars
  BY <1>1, <1>5 DEF vars, db, work
<1>6. ASSUME NEW c \in Clients, Receive(c) \/ Reading(c) \/ Update(c)
      PROVE  KeysUnique'
  BY <1>1, <1>6, ReadingChanges DEF Receive, Update, db, work
<1> QED BY <1>2, <1>3, <1>4, <1>5, <1>6, StepCases DEF Reading

LEMMA DraftedFacts ==
    ASSUME TypeOK, RowsFiled, NEW c \in Clients, NEW a \in Accounts
    PROVE  /\ ChainOf(a) \in Chains
           /\ Drafted(c, a) \subseteq Row /\ IsFiniteSet(Drafted(c, a))
           /\ RowsOf(a) \subseteq Row /\ IsFiniteSet(RowsOf(a))
           /\ RowsOf(a) \cap Drafted(c, a) = {}
           /\ Total(Drafted(c, a)) \in Int /\ Total(RowsOf(a)) \in Int
<1>1. ChainOf(a) \in Chains
  BY DEF ChainOf, Chains
<1>2. Drafted(c, a) \subseteq draft[c][ChainOf(a)] /\ RowsOf(a) \subseteq ledger[ChainOf(a)]
  BY DEF Drafted, RowsOf
<1>3. Drafted(c, a) \subseteq Row /\ RowsOf(a) \subseteq Row
  BY <1>1, <1>2 DEF TypeOK
<1>4. IsFiniteSet(Drafted(c, a)) /\ IsFiniteSet(RowsOf(a)) /\ RowsOf(a) \cap Drafted(c, a) = {}
  BY <1>1, <1>2, FS_Subset DEF RowsFiled
<1> QED BY <1>1, <1>3, <1>4, TotalIsSum

\* A call that is received or only reads has nothing pending before or after.
LEMMA ReadingKeepsPending ==
    ASSUME TypeOK, NEW c \in Clients, Receive(c) \/ Reading(c)
    PROVE  /\ UNCHANGED <<balance, ledger, delta, draft>>
           /\ \A d \in Clients, a \in Accounts : Pending(d, a)' = Pending(d, a)
<1>1. ASSUME pc[c] # "append", pc'[c] # "append",
             \A d \in Clients \ {c} : pc'[d] = pc[d] /\ call'[d] = call[d] /\ next'[d] = next[d]
      PROVE  \A d \in Clients, a \in Accounts : Pending(d, a)' = Pending(d, a)
  BY <1>1 DEF Pending, At
<1>2. CASE Receive(c)
  BY <1>1, <1>2 DEF Receive, TypeOK, db
<1>3. CASE GiveIsNew(c) \/ LookupNew(c) \/ LookupReplayed(c)
  <2>1. /\ pc[c] # "append" /\ pc'[c] # "append" /\ UNCHANGED <<balance, ledger, delta, draft>>
        /\ \A d \in Clients \ {c} : pc'[d] = pc[d] /\ call'[d] = call[d] /\ next'[d] = next[d]
    BY <1>3 DEF GiveIsNew, LookupNew, LookupReplayed, Advance, TypeOK, work, db
  <2> QED BY <1>1, <2>1
<1>4. CASE EnsureWallet(c)
  <2>1. /\ UNCHANGED <<balance, ledger, delta, draft, call, next>>
        /\ \A d \in Clients \ {c} : pc'[d] = pc[d]
        /\ pc[c] = "ensure" /\ pc'[c] = IF At(c).amt = 0 THEN "append" ELSE "update"
    BY <1>4 DEF EnsureWallet, TypeOK, db
  <2>2. \A d \in Clients, a \in Accounts : Pending(d, a)' = Pending(d, a)
    BY <2>1 DEF Pending, At
  <2> QED BY <2>1, <2>2
<1> QED BY <1>2, <1>3, <1>4 DEF Reading

\* The update moves its amount into the balance its transaction sees, and the row
\* of it is pending.
LEMMA UpdateDrafts ==
    ASSUME IInv, NEW c \in Clients, Update(c)
    PROVE  /\ At(c).acct \in Accounts /\ At(c).amt \in Int
           /\ UNCHANGED <<balance, ledger>>
           /\ \A d \in Clients, a \in Accounts :
                /\ delta'[d][a] = IF d = c /\ a = At(c).acct
                                  THEN delta[d][a] + At(c).amt ELSE delta[d][a]
                /\ Drafted(d, a)' = Drafted(d, a)
                /\ Pending(d, a)' = IF d = c /\ a = At(c).acct THEN At(c).amt ELSE Pending(d, a)
                /\ d = c => Pending(d, a) = 0
<1> USE DEF IInv
<1>1. At(c) \in Posting
  BY PostingType DEF Update, InCall
<1>2. At(c).acct \in Accounts /\ At(c).amt \in Int
  BY <1>1, PostingFields
<1>3. /\ UNCHANGED <<balance, ledger, draft, call, next>>
      /\ \A d \in Clients \ {c} : pc'[d] = pc[d]
      /\ pc[c] = "update" /\ pc'[c] = "append"
  BY DEF Update, TypeOK, db
<1>4. \A d \in Clients, a \in Accounts :
        delta'[d][a] = IF d = c /\ a = At(c).acct THEN delta[d][a] + At(c).amt ELSE delta[d][a]
  BY <1>2 DEF Update, Change, TypeOK
<1>5. \A d \in Clients, a \in Accounts :
        /\ Drafted(d, a)' = Drafted(d, a)
        /\ Pending(d, a)' = IF d = c /\ a = At(c).acct THEN At(c).amt ELSE Pending(d, a)
        /\ d = c => Pending(d, a) = 0
  BY <1>3 DEF Pending, At, Drafted, ChainOf
<1> QED BY <1>2, <1>3, <1>4, <1>5

\* Appending files the row of what was pending.
LEMMA AppendDrafts ==
    ASSUME IInv, NEW c \in Clients, AppendRow(c)
    PROVE  /\ UNCHANGED <<balance, ledger, delta>>
           /\ \E row \in Row :
                /\ row.acct = At(c).acct /\ row.amt = At(c).amt /\ row.after = After(c, At(c))
                /\ row \notin draft[c][ChainOf(At(c).acct)]
                /\ \A r \in VisibleRows(c, ChainOf(At(c).acct)) : r.at < row.at
                /\ \A d \in Clients, a \in Accounts :
                    /\ Drafted(d, a)' = IF d = c /\ a = At(c).acct
                                        THEN Drafted(d, a) \cup {row} ELSE Drafted(d, a)
                    /\ Pending(d, a)' = IF d = c THEN 0 ELSE Pending(d, a)
                    /\ d = c => Pending(d, a) = IF a = At(c).acct THEN At(c).amt ELSE 0
<1> USE DEF IInv
<1> DEFINE here == ChainOf(At(c).acct)
<1>1. /\ here \in Chains /\ At(c) \in Posting /\ call[c] \in Calls
      /\ UNCHANGED <<balance, ledger, delta, call>>
  BY AppendShows, PostingFields DEF AppendRow, InCall
<1>2. PICK now \in Clock : \A d \in Clients, ch \in Chains :
        /\ draft'[d][ch] = IF d = c /\ ch = here
                           THEN draft[d][ch] \cup {NewRow(c, now)}
                           ELSE draft[d][ch]
        /\ IfCommitted(d, ch)' = IF d = c /\ ch = here
                                 THEN IfCommitted(d, ch) \cup {NewRow(c, now)}
                                 ELSE IfCommitted(d, ch)
  BY AppendShows
<1> DEFINE row == NewRow(c, now)
<1>3. row \in Row /\ row.acct = At(c).acct /\ row.amt = At(c).amt /\ row.key = At(c).key
  BY <1>1, NewRowFits DEF SameRequest
<1>4. row.after = After(c, At(c))
  BY DEF NewRow
<1>5. row \notin draft[c][here]
  BY <1>3 DEF AppendRow, KeyUsed
<1>6. \A r \in VisibleRows(c, here) : r.at < row.at
  <2> SUFFICES ASSUME NEW r \in VisibleRows(c, here)
               PROVE  r.at < row.at
    OBVIOUS
  <2>1. PICK h \in VisibleRows(c, here) : IsHead(h, VisibleRows(c, here)) /\ row.at > h.at
    BY <1>1, NewRowFits
  <2>2. r \in Row /\ h \in Row
    BY <1>1, VisibleType
  <2>3. r.at \in Nat /\ h.at \in Nat /\ row.at \in Nat
    BY <1>3, <2>2, RowFields
  <2>4. r.at <= h.at
    BY <2>1 DEF IsHead
  <2> HIDE DEF row
  <2> QED BY <2>1, <2>3, <2>4
<1>7. /\ pc[c] = "append" /\ pc'[c] # "append"
      /\ \A d \in Clients \ {c} : pc'[d] = pc[d] /\ next'[d] = next[d]
  BY DEF AppendRow, Advance, TypeOK
<1> HIDE DEF row
<1>8. ASSUME NEW d \in Clients, NEW a \in Accounts
      PROVE  /\ Drafted(d, a)' = IF d = c /\ a = At(c).acct
                                  THEN Drafted(d, a) \cup {row} ELSE Drafted(d, a)
             /\ Pending(d, a)' = IF d = c THEN 0 ELSE Pending(d, a)
             /\ d = c => Pending(d, a) = IF a = At(c).acct THEN At(c).amt ELSE 0
  <2>1. /\ Pending(d, a)' = IF d = c THEN 0 ELSE Pending(d, a)
        /\ d = c => Pending(d, a) = IF a = At(c).acct THEN At(c).amt ELSE 0
    BY <1>1, <1>7 DEF Pending, At
  <2>2. ChainOf(a) \in Chains
    BY DEF ChainOf, Chains
  <2>3. draft'[d][ChainOf(a)] = IF d = c /\ ChainOf(a) = here
                                THEN draft[d][ChainOf(a)] \cup {row} ELSE draft[d][ChainOf(a)]
    BY <1>2, <2>2 DEF row
  <2>4. Drafted(d, a)' = {r \in draft'[d][ChainOf(a)] : r.acct = a}
    BY DEF Drafted, ChainOf
  <2>5. Drafted(d, a)' = IF d = c /\ a = At(c).acct
                         THEN Drafted(d, a) \cup {row} ELSE Drafted(d, a)
    BY <1>3, <2>3, <2>4 DEF Drafted
  <2> QED BY <2>1, <2>5
<1> HIDE DEF here
<1> QED BY <1>1, <1>3, <1>4, <1>5, <1>6, <1>8 DEF here

\* After a rollback or a commit a transaction has nothing uncommitted.
LEMMA EndDrafts ==
    ASSUME IInv, NEW c \in Clients,
           Commit(c) \/ \E answer \in Replies : Rollback(c, answer)
    PROVE  /\ pc'[c] = "idle" /\ call' = call
           /\ \A a \in Accounts :
                /\ delta'[c][a] = 0 /\ Drafted(c, a)' = {} /\ Pending(c, a)' = 0
                /\ rowLock'[a] = IF rowLock[a] = c THEN NoClient ELSE rowLock[a]
           /\ \A d \in Clients \ {c} :
                /\ pc'[d] = pc[d] /\ snap'[d] = snap[d]
                /\ \A a \in Accounts : /\ delta'[d][a] = delta[d][a]
                                       /\ Drafted(d, a)' = Drafted(d, a)
                                       /\ Pending(d, a)' = Pending(d, a)
<1> USE DEF IInv
<1>1. /\ pc'[c] = "idle" /\ call' = call
      /\ \A a \in Accounts :
           /\ delta'[c][a] = 0
           /\ rowLock'[a] = IF rowLock[a] = c THEN NoClient ELSE rowLock[a]
      /\ \A ch \in Chains : draft'[c][ch] = {}
      /\ \A d \in Clients \ {c} : /\ pc'[d] = pc[d] /\ snap'[d] = snap[d] /\ next'[d] = next[d]
                                   /\ delta'[d] = delta[d] /\ draft'[d] = draft[d]
  BY DEF Commit, Rollback, NoDelta, NoDraft, TypeOK
<1>2. ASSUME NEW a \in Accounts
      PROVE  Drafted(c, a)' = {} /\ Pending(c, a)' = 0
  <2>1. ChainOf(a) \in Chains
    BY DEF ChainOf, Chains
  <2> QED BY <1>1, <2>1 DEF Drafted, ChainOf, Pending
<1>3. ASSUME NEW d \in Clients \ {c}, NEW a \in Accounts
      PROVE  Drafted(d, a)' = Drafted(d, a) /\ Pending(d, a)' = Pending(d, a)
  BY <1>1 DEF Drafted, ChainOf, Pending, At
<1> QED BY <1>1, <1>2, <1>3

LEMMA DeltasAgreePreserved ==
    ASSUME IInv, RowsFiled, DeltasAgree, [Next]_vars
    PROVE  DeltasAgree'
<1> USE DEF IInv
<1>1. ASSUME UNCHANGED <<delta, draft>>,
             \A d \in Clients, a \in Accounts : Pending(d, a)' = Pending(d, a)
      PROVE  DeltasAgree'
  BY <1>1 DEF DeltasAgree, Drafted, ChainOf
<1>2. CASE UNCHANGED vars
  BY <1>1, <1>2 DEF vars, work, Pending, At
<1>3. ASSUME NEW c \in Clients, Receive(c) \/ Reading(c)
      PROVE  DeltasAgree'
  BY <1>1, <1>3, ReadingKeepsPending
<1> SUFFICES ASSUME NEW d \in Clients, NEW a \in Accounts,
                    ~UNCHANGED vars, \A c \in Clients : ~(Receive(c) \/ Reading(c))
             PROVE  delta'[d][a] = Total(Drafted(d, a)') + Pending(d, a)'
  BY <1>2, <1>3 DEF DeltasAgree, Total
<1>4. /\ Total(Drafted(d, a)) \in Int /\ Drafted(d, a) \subseteq Row /\ IsFiniteSet(Drafted(d, a))
      /\ delta[d][a] = Total(Drafted(d, a)) + Pending(d, a)
  BY DraftedFacts DEF DeltasAgree
<1>5. ASSUME NEW c \in Clients, Update(c)
      PROVE  delta'[d][a] = Total(Drafted(d, a)') + Pending(d, a)'
  BY <1>4, <1>5, UpdateDrafts
<1>6. ASSUME NEW c \in Clients, AppendRow(c)
      PROVE  delta'[d][a] = Total(Drafted(d, a)') + Pending(d, a)'
  <2>1. PICK row \in Row :
          /\ row.amt = At(c).amt
          /\ row \notin draft[c][ChainOf(At(c).acct)]
          /\ Drafted(d, a)' = IF d = c /\ a = At(c).acct
                              THEN Drafted(d, a) \cup {row} ELSE Drafted(d, a)
          /\ Pending(d, a)' = IF d = c THEN 0 ELSE Pending(d, a)
          /\ d = c => Pending(d, a) = IF a = At(c).acct THEN At(c).amt ELSE 0
    BY <1>6, AppendDrafts
  <2>2. delta'[d][a] = delta[d][a]
    BY <1>6, AppendDrafts
  <2>3. CASE d = c /\ a = At(c).acct
    <3>1. row \notin Drafted(d, a)
      BY <2>1, <2>3 DEF Drafted
    <3>2. Total(Drafted(d, a)') = row.amt + Total(Drafted(d, a))
      BY <1>4, <2>1, <2>3, <3>1, TotalAdd
    <3>3. Pending(d, a) = row.amt /\ Pending(d, a)' = 0 /\ row.amt \in Int
      BY <2>1, <2>3, RowFields
    <3> QED BY <1>4, <2>2, <3>2, <3>3
  <2>4. CASE d # c \/ a # At(c).acct
    BY <1>4, <2>1, <2>2, <2>4
  <2> QED BY <2>3, <2>4
<1>7. ASSUME NEW c \in Clients, Commit(c) \/ \E answer \in Replies : Rollback(c, answer)
      PROVE  delta'[d][a] = Total(Drafted(d, a)') + Pending(d, a)'
  <2>1. CASE d = c
    <3>1. Drafted(d, a)' = {} /\ Pending(d, a)' = 0 /\ delta'[d][a] = 0
      BY <1>7, <2>1, EndDrafts
    <3> QED BY <3>1, TotalEmpty
  <2>2. CASE d # c
    BY <1>4, <1>7, <2>2, EndDrafts
  <2> QED BY <2>1, <2>2
<1> QED BY <1>5, <1>6, <1>7, StepCases DEF Reading

LEMMA SumReconciledPreserved ==
    ASSUME IInv, RowsFiled, DeltasAgree, SumReconciled, [Next]_vars
    PROVE  SumReconciled'
<1> USE DEF IInv
<1>1. ASSUME UNCHANGED <<balance, ledger>>
      PROVE  SumReconciled'
  BY <1>1 DEF SumReconciled, RowsOf, ChainOf
<1>2. ASSUME NEW c \in Clients, Commit(c)
      PROVE  SumReconciled'
  <2> SUFFICES ASSUME NEW a \in Accounts
               PROVE  balance'[a] = Total(RowsOf(a)')
    BY DEF SumReconciled, Total
  <2>1. ChainOf(a) \in Chains /\ ChainOf(a)' = ChainOf(a)
    BY DEF ChainOf, Chains
  <2>2. RowsOf(a)' = RowsOf(a) \cup Drafted(c, a)
    BY <1>2, <2>1 DEF Commit, RowsOf, Drafted
  <2>3. Total(RowsOf(a)') = Total(RowsOf(a)) + Total(Drafted(c, a))
    BY <2>2, DraftedFacts, TotalUnion
  <2>4. delta[c][a] = Total(Drafted(c, a))
    <3>1. Pending(c, a) = 0 /\ Total(Drafted(c, a)) \in Int
      BY <1>2, DraftedFacts DEF Commit, Pending
    <3> QED BY <3>1 DEF DeltasAgree
  <2>5. balance[a] = Total(RowsOf(a))
    BY DEF SumReconciled, Total
  <2>6. balance'[a] = balance[a] + delta[c][a]
    BY <1>2 DEF Commit, VisibleBalance
  <2> QED BY <2>3, <2>4, <2>5, <2>6
<1>3. CASE UNCHANGED vars
  BY <1>1, <1>3 DEF vars, db
<1>4. ASSUME NEW c \in Clients,
             \/ Receive(c) \/ Reading(c) \/ Update(c) \/ AppendRow(c)
             \/ \E answer \in Replies : Rollback(c, answer)
      PROVE  SumReconciled'
  BY <1>1, <1>4, ReadingChanges DEF Receive, Update, AppendRow, Rollback, db
<1> QED BY <1>2, <1>3, <1>4, StepCases DEF Reading

LEMMA JInvInit == Init => JInv
<1> SUFFICES ASSUME Init PROVE JInv
  OBVIOUS
<1> USE DEF Init, NoDelta, NoDraft
<1>1. \A a \in Accounts : RowsOf(a) = {} /\ \A c \in Clients : Drafted(c, a) = {} /\ Pending(c, a) = 0
  BY DEF RowsOf, Drafted, Pending, ChainOf, Chains
<1>2. RowsFiled /\ KeysUnique
  BY FS_EmptySet DEF RowsFiled, KeysUnique, IfCommitted
<1>3. DeltasAgree
  <2> SUFFICES ASSUME NEW c \in Clients, NEW a \in Accounts
               PROVE  delta[c][a] = Total(Drafted(c, a)) + Pending(c, a)
    BY DEF DeltasAgree
  <2>1. Drafted(c, a) = {} /\ Pending(c, a) = 0 /\ delta[c][a] = 0
    BY <1>1
  <2> QED BY <2>1, TotalEmpty
<1>4. SumReconciled
  BY <1>1, TotalEmpty DEF SumReconciled, Total
<1> QED BY <1>2, <1>3, <1>4 DEF JInv

LEMMA JInvariance == Spec => []JInv
<1>1. IInv /\ JInv /\ [Next]_vars => JInv'
  BY RowsFiledPreserved, KeysUniquePreserved, DeltasAgreePreserved, SumReconciledPreserved
     DEF JInv
<1> QED BY Invariance, JInvInit, <1>1, PTL DEF Spec

\* The rows of every account add up to its balance.
THEOREM RowsAddUp == Spec => []SumReconciled
<1>1. JInv => SumReconciled
  BY DEF JInv
<1> QED BY JInvariance, <1>1, PTL

-----------------------------------------------------------------------------
(* The last row of an account and its balance.  Whoever changed a balance    *)
(* has its row locked, so the rows of the account that are committed before  *)
(* it commits were there when it looked for the head of the chain.           *)

\* No give from the allowance, whose row in the giver's wallet has amount zero.
NoZeroRows == \A q \in Calls : \A i \in DOMAIN q.postings : q.postings[i].amt # 0

\* Whoever has changed a balance holds its row lock until the transaction ends, and
\* sees every row of the account.
RowsGuarded ==
    \A c \in Clients, a \in Accounts :
        /\ pc[c] = "idle" => rowLock[a] # c
        /\ Drafted(c, a) # {} \/ (pc[c] = "append" /\ At(c).acct = a) => rowLock[a] = c
        /\ rowLock[a] = c /\ Serial(c) => RowsOf(a) \subseteq snap[c][ChainOf(a)]

\* The rows of a transaction come after those in the ledger, and the last of them
\* tells the balance it would leave.
TailsAgree ==
    \A c \in Clients, a \in Accounts :
        /\ \A r \in Drafted(c, a), s \in RowsOf(a) : s.at < r.at
        /\ \A h \in Drafted(c, a) : IsHead(h, Drafted(c, a)) =>
                h.after + Pending(c, a) = VisibleBalance(c, a)

TInv == RowsGuarded /\ TailsAgree /\ TailReconciled

LEMMA RowsNotZero ==
    ASSUME AllOrNothing, NoZeroRows, NEW ch \in Chains, NEW r \in ledger[ch]
    PROVE  r.amt # 0
BY DEF AllOrNothing, NoZeroRows, SameRequest

LEMMA RowsGuardedPreserved ==
    ASSUME IInv, NoZeroRows, RowsGuarded, [Next]_vars
    PROVE  RowsGuarded'
<1> USE DEF IInv
<1> DEFINE Touches(d, a) == Drafted(d, a) # {} \/ (pc[d] = "append" /\ At(d).acct = a)
<1>1. CASE UNCHANGED vars
  BY <1>1 DEF RowsGuarded, vars, db, locks, work, Drafted, RowsOf, ChainOf, At, Serial
<1> SUFFICES ASSUME NEW d \in Clients, NEW a \in Accounts, ~UNCHANGED vars
             PROVE  /\ pc'[d] = "idle" => rowLock'[a] # d
                    /\ Touches(d, a)' => rowLock'[a] = d
                    /\ rowLock'[a] = d /\ Serial(d)' => RowsOf(a)' \subseteq snap'[d][ChainOf(a)]
  BY <1>1 DEF RowsGuarded, ChainOf
<1>2. /\ pc[d] = "idle" => rowLock[a] # d
      /\ Touches(d, a) => rowLock[a] = d
      /\ rowLock[a] = d /\ Serial(d) => RowsOf(a) \subseteq snap[d][ChainOf(a)]
      /\ ChainOf(a) \in Chains
      /\ d # NoClient
  BY LedgerAssumption DEF RowsGuarded, ChainOf, Chains
<1>3. ASSUME UNCHANGED <<ledger, rowLock>>, call'[d] = call[d], snap'[d] = snap[d],
             pc'[d] = "idle" => pc[d] = "idle", Touches(d, a)' => Touches(d, a)
      PROVE  /\ pc'[d] = "idle" => rowLock'[a] # d
             /\ Touches(d, a)' => rowLock'[a] = d
             /\ rowLock'[a] = d /\ Serial(d)' => RowsOf(a)' \subseteq snap'[d][ChainOf(a)]
  <2>1. RowsOf(a)' = RowsOf(a) /\ Serial(d)' = Serial(d)
    BY <1>3 DEF RowsOf, ChainOf, Serial
  <2> HIDE DEF Touches
  <2> QED BY <1>2, <1>3, <2>1
<1>4. ASSUME pc'[d] = pc[d] \/ pc'[d] # "append", call'[d] = call[d],
             next'[d] = next[d] \/ pc'[d] # "append", draft' = draft
      PROVE  Touches(d, a)' => Touches(d, a)
  BY <1>4 DEF Drafted, ChainOf, At
<1>5. ASSUME NEW c \in Clients, Receive(c)
      PROVE  /\ pc'[d] = "idle" => rowLock'[a] # d
             /\ Touches(d, a)' => rowLock'[a] = d
             /\ rowLock'[a] = d /\ Serial(d)' => RowsOf(a)' \subseteq snap'[d][ChainOf(a)]
  <2>1. CASE d = c
    <3>1. rowLock'[a] # d /\ pc'[d] # "append" /\ Drafted(d, a)' = Drafted(d, a)
      BY <1>2, <1>5, <2>1 DEF Receive, TypeOK, locks, Drafted, ChainOf
    <3>2. Drafted(d, a) = {}
      BY <1>2, <1>5, <2>1 DEF Receive
    <3> QED BY <3>1, <3>2
  <2>2. CASE d # c
    BY <1>3, <1>4, <1>5, <2>2 DEF Receive, TypeOK, locks, db
  <2> QED BY <2>1, <2>2
<1>6. ASSUME NEW c \in Clients, GiveIsNew(c) \/ LookupNew(c) \/ LookupReplayed(c)
      PROVE  /\ pc'[d] = "idle" => rowLock'[a] # d
             /\ Touches(d, a)' => rowLock'[a] = d
             /\ rowLock'[a] = d /\ Serial(d)' => RowsOf(a)' \subseteq snap'[d][ChainOf(a)]
  <2>1. /\ UNCHANGED <<ledger, rowLock, call, snap, draft>>
        /\ \/ pc'[d] = pc[d] /\ next'[d] = next[d]
           \/ pc'[d] \notin {"idle", "append"}
    BY <1>6 DEF GiveIsNew, LookupNew, LookupReplayed, Advance, TypeOK, locks, db, work
  <2> QED BY <1>3, <1>4, <2>1
<1>7. ASSUME NEW c \in Clients, EnsureWallet(c)
      PROVE  /\ pc'[d] = "idle" => rowLock'[a] # d
             /\ Touches(d, a)' => rowLock'[a] = d
             /\ rowLock'[a] = d /\ Serial(d)' => RowsOf(a)' \subseteq snap'[d][ChainOf(a)]
  <2>1. At(c).amt # 0
    BY <1>7 DEF EnsureWallet, InCall, At, NoZeroRows
  <2>2. /\ UNCHANGED <<ledger, rowLock, call, next, snap, draft>>
        /\ pc'[d] = pc[d] \/ pc'[d] \notin {"idle", "append"}
    BY <1>7, <2>1 DEF EnsureWallet, TypeOK, locks, db
  <2> QED BY <1>3, <1>4, <2>2
<1>8. ASSUME NEW c \in Clients, Update(c)
      PROVE  /\ pc'[d] = "idle" => rowLock'[a] # d
             /\ Touches(d, a)' => rowLock'[a] = d
             /\ rowLock'[a] = d /\ Serial(d)' => RowsOf(a)' \subseteq snap'[d][ChainOf(a)]
  <2>1. /\ At(c).acct \in Accounts
        /\ UNCHANGED <<ledger, call, next, snap>>
        /\ Drafted(d, a)' = Drafted(d, a)
        /\ pc'[d] = IF d = c THEN "append" ELSE pc[d]
        /\ rowLock'[a] = IF a = At(c).acct THEN c ELSE rowLock[a]
        /\ a = At(c).acct => rowLock[a] \in {NoClient, c}
    BY <1>8, UpdateDrafts DEF Update, TypeOK, db, RowFree
  <2>2. At(d)' = At(d) /\ Serial(d)' = Serial(d) /\ RowsOf(a)' = RowsOf(a)
    BY <2>1 DEF At, Serial, RowsOf, ChainOf
  <2>3. CASE d = c /\ a = At(c).acct
    <3>1. Serial(c) => \A r \in ledger[ChainOf(a)] \ snap[c][ChainOf(a)] : r.acct = a => r.amt = 0
      BY <1>8, <2>3 DEF Update, RowChanged
    <3>2. Serial(c) => RowsOf(a) \subseteq snap[c][ChainOf(a)]
      BY <1>2, <3>1, RowsNotZero DEF RowsOf
    <3> QED BY <2>1, <2>2, <2>3, <3>2
  <2>4. CASE d = c /\ a # At(c).acct
    BY <1>2, <2>1, <2>2, <2>4
  <2>5. CASE d # c
    BY <1>2, <2>1, <2>2, <2>5
  <2> QED BY <2>3, <2>4, <2>5
<1>9. ASSUME NEW c \in Clients, AppendRow(c)
      PROVE  /\ pc'[d] = "idle" => rowLock'[a] # d
             /\ Touches(d, a)' => rowLock'[a] = d
             /\ rowLock'[a] = d /\ Serial(d)' => RowsOf(a)' \subseteq snap'[d][ChainOf(a)]
  <2>1. /\ UNCHANGED <<ledger, rowLock, call, snap>>
        /\ pc[c] = "append" /\ pc'[c] \notin {"append", "idle"}
        /\ d # c => pc'[d] = pc[d] /\ next'[d] = next[d]
    BY <1>9 DEF AppendRow, Advance, TypeOK, db
  <2>2. Drafted(d, a)' # {} => Drafted(d, a) # {} \/ (d = c /\ a = At(c).acct)
    BY <1>9, AppendDrafts
  <2>3. Touches(d, a)' => Touches(d, a)
    BY <2>1, <2>2 DEF At
  <2> QED BY <1>3, <2>1, <2>3
<1>10. ASSUME NEW c \in Clients, Commit(c) \/ \E answer \in Replies : Rollback(c, answer)
       PROVE  /\ pc'[d] = "idle" => rowLock'[a] # d
              /\ Touches(d, a)' => rowLock'[a] = d
              /\ rowLock'[a] = d /\ Serial(d)' => RowsOf(a)' \subseteq snap'[d][ChainOf(a)]
  <2>1. CASE d = c
    <3>1. pc'[d] = "idle" /\ Drafted(d, a)' = {} /\ rowLock'[a] # d
      BY <1>2, <1>10, <2>1, EndDrafts
    <3> QED BY <3>1
  <2>2. CASE d # c
    <3>1. /\ pc'[d] = pc[d] /\ snap'[d] = snap[d] /\ call' = call /\ Drafted(d, a)' = Drafted(d, a)
          /\ rowLock'[a] = d <=> rowLock[a] = d
      BY <1>2, <1>10, <2>2, EndDrafts
    <3>2. next'[d] = next[d]
      BY <1>10, <2>2 DEF Commit, Rollback, TypeOK
    <3>3. Touches(d, a)' = Touches(d, a) /\ Serial(d)' = Serial(d)
      BY <3>1, <3>2 DEF At, Serial
    <3>4. RowsOf(a)' \subseteq RowsOf(a) \cup Drafted(c, a)
      BY <1>2, <1>10 DEF Commit, Rollback, db, RowsOf, Drafted, ChainOf
    <3>5. rowLock[a] = d => Drafted(c, a) = {}
      BY <2>2 DEF RowsGuarded
    <3> HIDE DEF Touches
    <3> QED BY <1>2, <3>1, <3>3, <3>4, <3>5
  <2> QED BY <2>1, <2>2
<1> HIDE DEF Touches
<1> QED BY <1>5, <1>6, <1>7, <1>8, <1>9, <1>10, StepCases

LEMMA TailsAgreePreserved ==
    ASSUME IInv, RowsGuarded, TailsAgree, [Next]_vars, NoZeroRows
    PROVE  TailsAgree'
<1> USE DEF IInv
<1>1. ASSUME UNCHANGED <<balance, ledger, delta, draft>>,
             \A d \in Clients, a \in Accounts : Pending(d, a)' = Pending(d, a)
      PROVE  TailsAgree'
  BY <1>1 DEF TailsAgree, Drafted, RowsOf, ChainOf, VisibleBalance, IsHead
<1>2. CASE UNCHANGED vars
  BY <1>1, <1>2 DEF vars, db, work, Pending, At
<1>3. ASSUME NEW c \in Clients, Receive(c) \/ Reading(c)
      PROVE  TailsAgree'
  BY <1>1, <1>3, ReadingKeepsPending
<1> SUFFICES ASSUME NEW d \in Clients, NEW a \in Accounts, NEW h \in Drafted(d, a)',
                    ~UNCHANGED vars, \A c \in Clients : ~(Receive(c) \/ Reading(c))
             PROVE  /\ \A s \in RowsOf(a)' : s.at < h.at
                    /\ IsHead(h, Drafted(d, a)') =>
                         h.after + Pending(d, a)' = VisibleBalance(d, a)'
  BY <1>2, <1>3 DEF TailsAgree, IsHead
<1>4. /\ h \in Drafted(d, a) => \A s \in RowsOf(a) : s.at < h.at
      /\ h \in Drafted(d, a) /\ IsHead(h, Drafted(d, a)) =>
            h.after + Pending(d, a) = VisibleBalance(d, a)
      /\ h \in Drafted(d, a) => rowLock[a] = d
      /\ h \in Drafted(d, a) => h.after \in Int
      /\ balance[a] \in Int /\ delta[d][a] \in Int
      /\ ChainOf(a) \in Chains
  <2>1. ChainOf(a) \in Chains
    BY DEF ChainOf, Chains
  <2>2. h \in Drafted(d, a) => h \in Row
    BY <2>1 DEF Drafted, TypeOK
  <2>3. h \in Row => h.after \in Int
    BY DEF Row
  <2> QED BY <2>1, <2>2, <2>3 DEF TailsAgree, RowsGuarded, TypeOK
<1>5. ASSUME NEW c \in Clients, Update(c)
      PROVE  /\ \A s \in RowsOf(a)' : s.at < h.at
             /\ IsHead(h, Drafted(d, a)') =>
                  h.after + Pending(d, a)' = VisibleBalance(d, a)'
  <2>1. /\ At(c).amt \in Int /\ balance' = balance /\ ledger' = ledger
        /\ delta'[d][a] = IF d = c /\ a = At(c).acct
                          THEN delta[d][a] + At(c).amt ELSE delta[d][a]
        /\ Drafted(d, a)' = Drafted(d, a)
        /\ Pending(d, a)' = IF d = c /\ a = At(c).acct THEN At(c).amt ELSE Pending(d, a)
        /\ d = c => Pending(d, a) = 0
    BY <1>5, UpdateDrafts
  <2>2. RowsOf(a)' = RowsOf(a) /\ VisibleBalance(d, a)' = balance[a] + delta'[d][a]
    BY <2>1 DEF RowsOf, ChainOf, VisibleBalance
  <2>3. IsHead(h, Drafted(d, a)') => IsHead(h, Drafted(d, a))
    BY <2>1
  <2> QED BY <1>4, <2>1, <2>2, <2>3 DEF VisibleBalance
<1>6. ASSUME NEW c \in Clients, AppendRow(c)
      PROVE  /\ \A s \in RowsOf(a)' : s.at < h.at
             /\ IsHead(h, Drafted(d, a)') =>
                  h.after + Pending(d, a)' = VisibleBalance(d, a)'
  <2>1. PICK row \in Row :
          /\ row.after = After(c, At(c))
          /\ \A r \in VisibleRows(c, ChainOf(At(c).acct)) : r.at < row.at
          /\ Drafted(d, a)' = IF d = c /\ a = At(c).acct
                              THEN Drafted(d, a) \cup {row} ELSE Drafted(d, a)
          /\ Pending(d, a)' = IF d = c THEN 0 ELSE Pending(d, a)
          /\ d = c => Pending(d, a) = IF a = At(c).acct THEN At(c).amt ELSE 0
    BY <1>6, AppendDrafts
  <2>2. UNCHANGED <<balance, ledger, delta>>
    BY <1>6, AppendDrafts
  <2>3. RowsOf(a)' = RowsOf(a) /\ VisibleBalance(d, a)' = VisibleBalance(d, a)
    BY <2>2 DEF RowsOf, ChainOf, VisibleBalance
  <2>4. CASE d = c /\ a = At(c).acct
    <3>1. Drafted(d, a) \subseteq VisibleRows(c, ChainOf(At(c).acct))
      BY <2>4 DEF Drafted, VisibleRows
    <3>2. rowLock[a] = d
      BY <1>6, <2>4 DEF RowsGuarded, AppendRow
    <3>3. RowsOf(a) \subseteq VisibleRows(c, ChainOf(At(c).acct))
      BY <2>4, <3>2 DEF RowsGuarded, RowsOf, VisibleRows
    <3>4. row.at \in Nat
      BY RowFields
    <3>5. \/ h = row
          \/ h \in Drafted(d, a) /\ h.at < row.at /\ ~IsHead(h, Drafted(d, a)')
      <4>1. h \in Drafted(d, a) => h \in Row
        BY <1>4 DEF Drafted, TypeOK
      <4>2. h \in Drafted(d, a) => h.at < row.at /\ h.at \in Nat
        BY <2>1, <3>1, <4>1, RowFields
      <4>3. row \in Drafted(d, a)'
        BY <2>1, <2>4
      <4> QED BY <2>1, <2>4, <3>4, <4>2, <4>3 DEF IsHead
    <3>6. At(c).amt # 0
      BY <1>6 DEF AppendRow, InCall, At, NoZeroRows
    <3>7. row.after = VisibleBalance(d, a)
      BY <2>1, <2>4, <3>6 DEF After
    <3>8. VisibleBalance(d, a) \in Int
      BY <1>4 DEF VisibleBalance
    <3> QED BY <1>4, <2>1, <2>3, <2>4, <3>3, <3>5, <3>7, <3>8
  <2>5. CASE d # c \/ a # At(c).acct
    BY <1>4, <2>1, <2>3, <2>5
  <2> QED BY <2>4, <2>5
<1>7. ASSUME NEW c \in Clients, Commit(c) \/ \E answer \in Replies : Rollback(c, answer)
      PROVE  /\ \A s \in RowsOf(a)' : s.at < h.at
             /\ IsHead(h, Drafted(d, a)') =>
                  h.after + Pending(d, a)' = VisibleBalance(d, a)'
  <2>1. d # c
    BY <1>7, EndDrafts
  <2>2. /\ Drafted(d, a)' = Drafted(d, a) /\ Pending(d, a)' = Pending(d, a)
        /\ delta'[d][a] = delta[d][a]
    BY <1>7, <2>1, EndDrafts
  <2>3. rowLock[a] = d
    BY <1>4, <2>2
  <2>4. Drafted(c, a) = {} /\ delta[c][a] = 0
    BY <2>1, <2>3 DEF RowsGuarded, LockDiscipline
  <2>5. RowsOf(a)' \subseteq RowsOf(a) \cup Drafted(c, a)
    BY <1>4, <1>7 DEF Commit, Rollback, db, RowsOf, Drafted, ChainOf
  <2>6. balance'[a] = balance[a]
    BY <1>4, <1>7, <2>4 DEF Commit, Rollback, db, VisibleBalance
  <2>7. VisibleBalance(d, a)' = VisibleBalance(d, a)
    BY <2>2, <2>6 DEF VisibleBalance
  <2> QED BY <1>4, <2>2, <2>4, <2>5, <2>7
<1> QED BY <1>5, <1>6, <1>7, StepCases DEF Reading

LEMMA TailReconciledPreserved ==
    ASSUME IInv, JInv, RowsGuarded, TailsAgree, TailReconciled, [Next]_vars
    PROVE  TailReconciled'
<1> USE DEF IInv
<1>1. ASSUME UNCHANGED <<balance, ledger>>
      PROVE  TailReconciled'
  BY <1>1 DEF TailReconciled, RowsOf, ChainOf, IsHead
<1>2. ASSUME NEW c \in Clients, Commit(c)
      PROVE  TailReconciled'
  <2> SUFFICES ASSUME NEW a \in Accounts, NEW h \in RowsOf(a)', IsHead(h, RowsOf(a)')
               PROVE  h.after = balance'[a]
    BY DEF TailReconciled, IsHead
  <2>1. ChainOf(a) \in Chains
    BY DEF ChainOf, Chains
  <2>2. RowsOf(a)' = RowsOf(a) \cup Drafted(c, a)
    BY <1>2, <2>1 DEF Commit, RowsOf, Drafted, ChainOf
  <2>3. /\ balance'[a] = balance[a] + delta[c][a]
        /\ Pending(c, a) = 0
    BY <1>2 DEF Commit, VisibleBalance, Pending
  <2>4. /\ balance[a] \in Int /\ delta[c][a] \in Int
        /\ delta[c][a] = Total(Drafted(c, a)) + Pending(c, a)
        /\ Total(Drafted(c, a)) \in Int
    BY DraftedFacts DEF TypeOK, JInv, DeltasAgree
  <2>5. CASE Drafted(c, a) = {}
    <3>1. balance'[a] = balance[a]
      BY <2>3, <2>4, <2>5, TotalEmpty
    <3> QED BY <2>2, <2>5, <3>1 DEF TailReconciled
  <2>6. CASE Drafted(c, a) # {}
    <3>1. RowsOf(a) \subseteq Row /\ Drafted(c, a) \subseteq Row
      BY DraftedFacts DEF JInv
    <3>2. h \in Drafted(c, a)
      <4>1. PICK r \in Drafted(c, a) : TRUE
        BY <2>6
      <4>2. r.at <= h.at
        BY <2>2 DEF IsHead
      <4>3. h \in RowsOf(a) => h.at < r.at
        BY DEF TailsAgree
      <4>4. h.at \in Nat /\ r.at \in Nat
        BY <2>2, <3>1, RowFields
      <4> QED BY <2>2, <4>2, <4>3, <4>4
    <3>3. IsHead(h, Drafted(c, a))
      BY <2>2, <3>2 DEF IsHead
    <3>4. h.after + Pending(c, a) = VisibleBalance(c, a) /\ h.after \in Int
      BY <3>1, <3>2, <3>3 DEF TailsAgree, Row
    <3> QED BY <2>3, <2>4, <3>4 DEF VisibleBalance
  <2> QED BY <2>5, <2>6
<1>3. CASE UNCHANGED vars
  BY <1>1, <1>3 DEF vars, db
<1>4. ASSUME NEW c \in Clients,
             \/ Receive(c) \/ Reading(c) \/ Update(c) \/ AppendRow(c)
             \/ \E answer \in Replies : Rollback(c, answer)
      PROVE  TailReconciled'
  BY <1>1, <1>4, ReadingChanges DEF Receive, Update, AppendRow, Rollback, db
<1> QED BY <1>2, <1>3, <1>4, StepCases DEF Reading

\* Unless a give from the allowance adds its row of amount zero, the last row of
\* an account tells its balance.
THEOREM LastRowTellsBalance == NoZeroRows => (Spec => []TailReconciled)
<1> SUFFICES ASSUME NoZeroRows PROVE Spec => []TailReconciled
  OBVIOUS
<1>1. Init => TInv
  <2> SUFFICES ASSUME Init PROVE TInv
    OBVIOUS
  <2> USE DEF Init, NoDelta, NoDraft
  <2>1. \A a \in Accounts : RowsOf(a) = {} /\ \A c \in Clients : Drafted(c, a) = {}
    BY DEF RowsOf, Drafted, ChainOf, Chains
  <2>2. RowsGuarded /\ TailsAgree /\ TailReconciled
    BY <2>1, LedgerAssumption DEF RowsGuarded, TailsAgree, TailReconciled
  <2> QED BY <2>2 DEF TInv
<1>2. IInv /\ JInv /\ TInv /\ [Next]_vars => TInv'
  BY RowsGuardedPreserved, TailsAgreePreserved, TailReconciledPreserved DEF TInv
<1>3. TInv => TailReconciled
  BY DEF TInv
<1> QED BY Invariance, JInvariance, <1>1, <1>2, <1>3, PTL DEF Spec

-----------------------------------------------------------------------------
(* Conflicts.  A row that has the key of a posting and is not its row stays   *)
(* in the ledger, so nobody can post it afterwards.                          *)

\* A conflict was answered because a committed row had the key.
ConflictSeen ==
    \A c \in Clients : reply[c] = "conflict" =>
        \E i \in DOMAIN call[c].postings :
            LET p == call[c].postings[i] IN
            \E r \in ledger[ChainOf(p.acct)] : r.key = p.key /\ ~SameRequest(r, p)

NoGives == \A q \in Calls : q.kind # "give"

LEMMA ConflictFinds ==
    ASSUME IInv, JInv, NEW c \in Clients, LookupConflict(c)
    PROVE  \E r \in ledger[ChainOf(At(c).acct)] : r.key = At(c).key /\ ~SameRequest(r, At(c))
<1> USE DEF IInv, JInv
<1> DEFINE ch == ChainOf(At(c).acct)
<1>1. /\ next[c] \in DOMAIN call[c].postings /\ call[c] \in Calls
      /\ ch \in Chains /\ pc[c] # "idle"
  BY PostingsOfCall DEF LookupConflict, InCall, At
<1>2. PICK r \in VisibleRows(c, ch) : r.key = At(c).key
  BY DEF LookupConflict, KeyTaken
<1>3. ~SameRequest(r, At(c))
  BY <1>2 DEF LookupConflict, Found
<1>4. CASE r \in draft[c][ch]
  <2>1. PICK i \in DOMAIN call[c].postings :
          r.key = call[c].postings[i].key /\ SameRequest(r, call[c].postings[i])
    BY <1>1, <1>4 DEF OwnRows
  <2>2. ChainOf(call[c].postings[i].acct) = ch
    BY <1>1, <1>4, <2>1 DEF RowsFiled, SameRequest
  <2>3. i = next[c]
    BY <1>1, <1>2, <2>1, <2>2, LedgerAssumption DEF At
  <2> QED BY <1>3, <2>1, <2>3 DEF At
<1>5. CASE r \notin draft[c][ch]
  <2>1. r \in ledger[ch]
    BY <1>1, <1>2, <1>5 DEF VisibleRows, SnapshotsGood
  <2> QED BY <1>2, <1>3, <2>1
<1> QED BY <1>4, <1>5

LEMMA ConflictSeenPreserved ==
    ASSUME IInv, JInv, NoGives, ConflictSeen, [Next]_vars
    PROVE  ConflictSeen'
<1> USE DEF IInv
<1> DEFINE Clash(rows, p) == \E r \in rows : r.key = p.key /\ ~SameRequest(r, p)
<1>1. ASSUME \A ch \in Chains : ledger[ch] \subseteq ledger'[ch],
             \A d \in Clients : reply'[d] = "conflict" =>
                \/ reply[d] = "conflict" /\ call'[d] = call[d]
                \/ \E i \in DOMAIN call'[d].postings :
                     Clash(ledger'[ChainOf(call'[d].postings[i].acct)], call'[d].postings[i])
      PROVE  ConflictSeen'
  <2> SUFFICES ASSUME NEW d \in Clients, reply'[d] = "conflict"
               PROVE  \E i \in DOMAIN call'[d].postings :
                        Clash(ledger'[ChainOf(call'[d].postings[i].acct)], call'[d].postings[i])
    BY DEF ConflictSeen, ChainOf, SameRequest
  <2>1. CASE reply[d] = "conflict" /\ call'[d] = call[d]
    <3>1. PICK i \in DOMAIN call[d].postings :
            Clash(ledger[ChainOf(call[d].postings[i].acct)], call[d].postings[i])
      BY <2>1 DEF ConflictSeen
    <3>2. ChainOf(call[d].postings[i].acct) \in Chains
      BY DEF ChainOf, Chains
    <3> QED BY <1>1, <2>1, <3>1, <3>2
  <2> HIDE DEF Clash
  <2> QED BY <1>1, <2>1
<1>2. CASE UNCHANGED vars
  BY <1>1, <1>2 DEF vars, db
<1>3. ASSUME NEW c \in Clients, Receive(c)
      PROVE  ConflictSeen'
  BY <1>1, <1>3 DEF Receive, TypeOK, db
<1>4. ASSUME NEW c \in Clients, Reading(c) \/ Update(c) \/ AppendRow(c)
      PROVE  ConflictSeen'
  BY <1>1, <1>4, ReadingChanges DEF Update, AppendRow, db
<1>5. ASSUME NEW c \in Clients, Commit(c)
      PROVE  ConflictSeen'
  BY <1>1, <1>5 DEF Commit, TypeOK
<1>6. ASSUME NEW c \in Clients, NEW answer \in Replies, answer # "conflict", Rollback(c, answer)
      PROVE  ConflictSeen'
  BY <1>1, <1>6 DEF Rollback, TypeOK, db
<1>7. ASSUME NEW c \in Clients, LookupConflict(c)
      PROVE  ConflictSeen'
  <2>1. UNCHANGED <<ledger, call>> /\ \A d \in Clients \ {c} : reply'[d] = reply[d]
    BY <1>7 DEF LookupConflict, Rollback, db, TypeOK
  <2>2. next[c] \in DOMAIN call[c].postings
    BY <1>7 DEF LookupConflict, InCall
  <2>3. Clash(ledger[ChainOf(At(c).acct)], At(c))
    BY <1>7, ConflictFinds
  <2> QED BY <1>1, <2>1, <2>2, <2>3 DEF At
<1>8. ASSUME NEW c \in Clients, GiveIsReplayed(c)
      PROVE  FALSE
  BY <1>8 DEF GiveIsReplayed, InCall, NoGives
<1>9. ASSUME NEW c \in Clients,
             Refuse(c) \/ AppendRefused(c) \/ SerializationFailure(c) \/ DeadlockVictim(c) \/ Abandon(c)
      PROVE  ConflictSeen'
  BY <1>6, <1>9 DEF Refuse, AppendRefused, SerializationFailure, DeadlockVictim, Abandon, Replies
<1>10. CASE Finished
  BY <1>2, <1>10 DEF Finished
<1> QED BY <1>2, <1>3, <1>4, <1>5, <1>7, <1>8, <1>9, <1>10 DEF Next, Proceed, Reading

\* Without gives, a call is answered with a conflict only when a key of it was
\* used for something else.
THEOREM ConflictsAreReal == NoGives => (Spec => []ConflictMeansReuse)
<1> SUFFICES ASSUME NoGives PROVE Spec => []ConflictMeansReuse
  OBVIOUS
<1>1. Init => ConflictSeen
  BY DEF Init, ConflictSeen
<1>2. IInv /\ JInv /\ ConflictSeen /\ [Next]_vars => ConflictSeen'
  BY ConflictSeenPreserved
<1>3. JInv /\ ConflictSeen => ConflictMeansReuse
  <2> SUFFICES ASSUME JInv, ConflictSeen, NEW c \in Clients, reply[c] = "conflict"
               PROVE  \E i \in DOMAIN call[c].postings : ~Posted(call[c].postings[i])
    BY DEF ConflictMeansReuse
  <2>1. PICK i \in DOMAIN call[c].postings :
          LET p == call[c].postings[i] IN
          \E r \in ledger[ChainOf(p.acct)] : r.key = p.key /\ ~SameRequest(r, p)
    BY DEF ConflictSeen
  <2>2. ChainOf(call[c].postings[i].acct) \in Chains
    BY DEF ChainOf, Chains
  <2> QED BY <2>1, <2>2 DEF Posted, JInv, KeysUnique
<1> QED BY Invariance, JInvariance, <1>1, <1>2, <1>3, PTL DEF Spec

-----------------------------------------------------------------------------
(* The refinement.  A commit posts, in one step, the postings of its call     *)
(* that were not in the ledger: they are the postings of its uncommitted      *)
(* rows.  Every other step leaves balances and rows as they are.              *)

PostedNow == {PostingOf(r) : r \in UNION {ledger[ch] : ch \in Chains}}
DraftedNow(c) == {PostingOf(r) : r \in UNION {draft[c][ch] : ch \in Chains}}

\* A posting is among those of a set of rows just if a row is its row.
LEMMA PostedInRow ==
    ASSUME NEW r, NEW p \in Posting, r.key = p.key, SameRequest(r, p)
    PROVE  PostingOf(r) = p
BY DEF PostingOf, SameRequest, Posting

LEMMA SameWhen ==
    ASSUME NEW r, NEW s, PostingOf(r) = PostingOf(s)
    PROVE  r.acct = s.acct /\ r.amt = s.amt /\ r.key = s.key
<1>1. /\ PostingOf(r).acct = r.acct /\ PostingOf(r).amt = r.amt /\ PostingOf(r).key = r.key
      /\ PostingOf(s).acct = s.acct /\ PostingOf(s).amt = s.amt /\ PostingOf(s).key = s.key
  BY DEF PostingOf
<1> QED BY <1>1

\* At its commit, the postings of a call that are new are those of its rows.
LEMMA NewAreDrafted ==
    ASSUME IInv, JInv, NEW c \in Clients, pc[c] = "commit"
    PROVE  Atomic!Postings(call[c]) \ PostedNow = DraftedNow(c)
<1> USE DEF IInv, JInv
<1>1. call[c] \in Calls /\ Done(c) = DOMAIN call[c].postings
  BY DEF InCall, Done
<1>2. ASSUME NEW i \in DOMAIN call[c].postings, call[c].postings[i] \notin PostedNow
      PROVE  call[c].postings[i] \in DraftedNow(c)
  <2>1. PICK p \in Posting : p = call[c].postings[i] /\ ChainOf(p.acct) \in Chains
    BY <1>1, PostingsOfCall
  <2>2. PICK r \in IfCommitted(c, ChainOf(p.acct)) : r.key = p.key /\ SameRequest(r, p)
    BY <1>1, <2>1 DEF PostingsDone, PostedIn
  <2>3. PostingOf(r) = p
    BY <2>2, PostedInRow
  <2>4. r \notin ledger[ChainOf(p.acct)]
    BY <1>2, <2>1, <2>3 DEF PostedNow
  <2> QED BY <2>1, <2>2, <2>3, <2>4 DEF IfCommitted, DraftedNow
<1>3. ASSUME NEW ch \in Chains, NEW r \in draft[c][ch]
      PROVE  /\ \E i \in DOMAIN call[c].postings : call[c].postings[i] = PostingOf(r)
             /\ PostingOf(r) \notin PostedNow
  <2>1. PICK i \in DOMAIN call[c].postings :
          r.key = call[c].postings[i].key /\ SameRequest(r, call[c].postings[i])
    BY DEF OwnRows
  <2>2. call[c].postings[i] = PostingOf(r)
    BY <1>1, <2>1, PostingsOfCall, PostedInRow
  <2>3. ASSUME NEW h \in Chains, NEW s \in ledger[h], PostingOf(r) = PostingOf(s)
        PROVE  FALSE
    <3>1. r.acct = s.acct /\ r.key = s.key
      BY <2>3, SameWhen
    <3>2. h = ch
      BY <3>1 DEF RowsFiled
    <3>3. r = s
      BY <3>1, <3>2 DEF KeysUnique, IfCommitted
    <3> QED BY <3>2, <3>3 DEF RowsFiled
  <2> QED BY <2>2, <2>3 DEF PostedNow
<1> QED BY <1>2, <1>3 DEF Atomic!Postings, DraftedNow

\* What they add up to per account is the change of its balance.
LEMMA DraftedTotal ==
    ASSUME IInv, JInv, NEW c \in Clients, pc[c] = "commit", NEW a \in Accounts
    PROVE  SumFunction([p \in {q \in DraftedNow(c) : q.acct = a} |-> p.amt]) = delta[c][a]
<1> USE DEF IInv, JInv
<1> DEFINE P == {q \in DraftedNow(c) : q.acct = a}
           S == Drafted(c, a)
           g == [p \in P |-> p.amt]
           h == [r \in S |-> PostingOf(r)]
<1>1. ChainOf(a) \in Chains /\ S \subseteq Row /\ IsFiniteSet(S) /\ Total(S) \in Int
  BY DraftedFacts
<1>2. \A r : PostingOf(r).acct = r.acct /\ PostingOf(r).amt = r.amt
  BY DEF PostingOf
<1>3. P = {h[r] : r \in S}
  <2>1. ASSUME NEW p \in P
        PROVE  \E r \in S : p = PostingOf(r)
    <3>1. PICK ch \in Chains : \E r \in draft[c][ch] : p = PostingOf(r)
      BY DEF DraftedNow
    <3> PICK r \in draft[c][ch] : p = PostingOf(r)
      BY <3>1
    <3>2. r.acct = a
      BY <1>2
    <3>3. ch = ChainOf(a)
      BY <3>2 DEF RowsFiled
    <3> QED BY <3>2, <3>3 DEF Drafted
  <2>2. ASSUME NEW r \in S
        PROVE  PostingOf(r) \in P
    <3>1. r \in draft[c][ChainOf(a)] /\ r.acct = a
      BY DEF Drafted
    <3> QED BY <1>1, <1>2, <3>1 DEF DraftedNow
  <2> HIDE DEF P, S
  <2> QED BY <2>1, <2>2
<1>4. \A r, s \in S : h[r] = h[s] => r = s
  <2> SUFFICES ASSUME NEW r \in S, NEW s \in S, PostingOf(r) = PostingOf(s)
               PROVE  r = s
    OBVIOUS
  <2>1. r.key = s.key
    BY SameWhen
  <2> QED BY <1>1, <2>1 DEF KeysUnique, IfCommitted, Drafted
<1>5. \A r \in S : g[h[r]] = AmtOf[r] /\ AmtOf[r] \in Int
  <2> SUFFICES ASSUME NEW r \in S
               PROVE  g[h[r]] = AmtOf[r] /\ AmtOf[r] \in Int
    OBVIOUS
  <2>1. h[r] = PostingOf(r) /\ h[r] \in P
    BY <1>3
  <2>2. g[h[r]] = r.amt
    <3> HIDE DEF P
    <3> QED BY <1>2, <2>1
  <2>3. AmtOf[r] = r.amt /\ r.amt \in Int
    BY <1>1, RowFields DEF AmtOf
  <2> QED BY <2>2, <2>3
<1>6. SumFunction(g) = SumFunctionOnSet(g, P)
  BY DEF SumFunction
<1>7. Total(S) = SumFunctionOnSet(AmtOf, S)
  BY <1>1, TotalIsSum
<1> HIDE DEF P, S, g, h
<1>8. SumFunctionOnSet(g, P) = SumFunctionOnSet(AmtOf, S)
  BY <1>1, <1>3, <1>4, <1>5, SumImage DEF IntOn
<1>9. delta[c][a] = Total(S)
  <2>1. Pending(c, a) = 0
    BY DEF Pending
  <2> QED BY <1>1, <2>1 DEF DeltasAgree, S
<1> QED BY <1>6, <1>7, <1>8, <1>9 DEF P, g

\* The sum of the abstract module is that of this one.
LEMMA OneSum == ASSUME NEW f PROVE Atomic!SumFunction(f) = SumFunction(f)
BY Zenon DEF SumFunction, SumFunctionOnSet, FoldFunctionOnSet, MapThenFoldSet,
   Atomic!SumFunction, Atomic!SumFunctionOnSet, Atomic!FoldFunctionOnSet, Atomic!MapThenFoldSet

LEMMA CommitApplies ==
    ASSUME IInv, IInv', JInv, NEW c \in Clients, Commit(c), NEW q, q = call[c]
    PROVE  Atomic!Apply(q)
<1>1. pc[c] = "commit"
  BY DEF Commit
<1> DEFINE new == Atomic!Postings(q) \ PostedNow
<1>2. new = DraftedNow(c)
  BY <1>1, NewAreDrafted
<1>3. \A B \in {Wallets, Banks} : \A p \in new, r \in PostedNow :
        {p.acct, r.acct} \subseteq B => p.key # r.key
  <2> SUFFICES ASSUME NEW B \in {Wallets, Banks}, NEW ch \in Chains, NEW x \in draft[c][ch],
                      NEW h \in Chains, NEW s \in ledger[h], x.acct \in B, s.acct \in B,
                      x.key = s.key
               PROVE  FALSE
    <3>1. \A r : PostingOf(r).acct = r.acct /\ PostingOf(r).key = r.key
      BY DEF PostingOf
    <3> HIDE DEF new
    <3> QED BY <1>2, <3>1 DEF DraftedNow, PostedNow
  <2>1. ChainOf(x.acct) = ch /\ ChainOf(s.acct) = h
    BY DEF JInv, RowsFiled
  <2>2. ch = h
    BY <2>1, LedgerAssumption DEF ChainOf
  <2>3. x = s
    BY <2>2 DEF JInv, KeysUnique, IfCommitted
  <2> QED BY <2>2, <2>3 DEF JInv, RowsFiled
<1>4. PostedNow' = PostedNow \cup new
  <2>1. \A ch \in Chains : ledger'[ch] = ledger[ch] \cup draft[c][ch]
    BY DEF Commit
  <2>2. PostedNow' = {PostingOf(r) : r \in UNION {ledger'[ch] : ch \in Chains}}
    BY DEF PostedNow, PostingOf
  <2> HIDE DEF new
  <2> QED BY <1>2, <2>1, <2>2 DEF PostedNow, DraftedNow
<1>5. \A a \in Accounts : SumFunction([p \in {r \in new : r.acct = a} |-> p.amt]) = delta[c][a]
  <2> HIDE DEF new
  <2> QED BY <1>1, <1>2, DraftedTotal
<1>6. balance' = [a \in Accounts |->
                   balance[a] + SumFunction([p \in {r \in new : r.acct = a} |-> p.amt])]
  <2> HIDE DEF new
  <2> QED BY <1>5 DEF Commit, VisibleBalance
<1>7. \A a \in Accounts \ Overdraft : balance'[a] >= 0
  BY DEF IInv, BalancesGood
<1> HIDE DEF new
<1>8. \A f : Atomic!SumFunction(f) = SumFunction(f)
  BY OneSum
<1> QED BY <1>3, <1>4, <1>6, <1>7, <1>8 DEF Atomic!Apply, new, PostedNow, PostingOf

\* The statements of a call, interleaved with those of others, rolled back or
\* repeated, amount to steps of AtomicLedger.
THEOREM LedgerIsAtomic == Spec => ImplementsAtomic
<1>1. Init => Atomic!Init
  <2> SUFFICES ASSUME Init PROVE Atomic!Init
    OBVIOUS
  <2>1. balance = [a \in Accounts |-> 0] /\ \A ch \in Chains : ledger[ch] = {}
    BY DEF Init, NoDelta, NoDraft
  <2> QED BY <2>1 DEF Atomic!Init
<1>2. IInv /\ IInv' /\ JInv /\ [Next]_vars => [Atomic!Next]_(Atomic!vars)
  <2> SUFFICES ASSUME IInv, IInv', JInv, [Next]_vars
               PROVE  [Atomic!Next]_(Atomic!vars)
    OBVIOUS
  <2>1. ASSUME UNCHANGED <<balance, ledger>>
        PROVE  [Atomic!Next]_(Atomic!vars)
    BY <2>1 DEF Atomic!vars, PostingOf
  <2>2. ASSUME NEW c \in Clients, Commit(c)
        PROVE  [Atomic!Next]_(Atomic!vars)
    <3>1. PICK q \in Calls : q = call[c]
      BY <2>2 DEF IInv, InCall, Commit
    <3>2. Atomic!Apply(q)
      BY <2>2, <3>1, CommitApplies
    <3> QED BY <3>2 DEF Atomic!Next
  <2>3. CASE UNCHANGED vars
    BY <2>1, <2>3 DEF vars, db
  <2>4. ASSUME NEW c \in Clients,
               \/ Receive(c) \/ Reading(c) \/ Update(c) \/ AppendRow(c)
               \/ \E answer \in Replies : Rollback(c, answer)
        PROVE  [Atomic!Next]_(Atomic!vars)
    BY <2>1, <2>4, ReadingChanges DEF IInv, Receive, Update, AppendRow, Rollback, db
  <2> QED BY <2>2, <2>3, <2>4, StepCases DEF Reading
<1> QED BY Invariance, JInvariance, <1>1, <1>2, PTL DEF Spec, ImplementsAtomic, Atomic!Spec

=============================================================================
