---------------------------- MODULE FundsProofs -----------------------------
(***************************************************************************)
(* Theorems about Funds: the bank and its cycles, the escrow of a project  *)
(* and the gives out of an allowance, for any sessions, rosters and        *)
(* bounds.                                                                 *)
(*                                                                         *)
(* What every module needs of the bank is said once, of the operators from *)
(* a bank to the next: entries are added and never change, a posting       *)
(* leaves no cycle that is over open, and what a cycle counts as allocated *)
(* keeps up with its entries.                                              *)
(***************************************************************************)
EXTENDS Funds, SumLemmas, SequenceTheorems, NaturalsInduction, WellFoundedInduction

ClearKey(i) == <<"clear", i>>

ClearKeys == {ClearKey(i) : i \in 1 .. MaxCycles}

\* A bank is a record of a balance, its cycles and finitely many entries.
Shaped(b) ==
  /\ b = [balance |-> b.balance, cycles |-> b.cycles, entries |-> b.entries]
  /\ b.balance \in Nat
  /\ b.cycles \in Seq(Cycle)
  /\ IsFiniteSet(DOMAIN b.entries)
  /\ \A k \in DOMAIN b.entries : b.entries[k] \in Entry /\ b.entries[k].cycle \in 0 .. Len(b.cycles)

OneOpen(b) ==
  \A i, j \in DOMAIN b.cycles :
    b.cycles[i].status = "OPEN" /\ b.cycles[j].status = "OPEN" => i = j

\* A cycle is emptied when it is closed, and not again.
ClearedOnce(b) ==
  \A i \in 1 .. MaxCycles :
    Posted(b, ClearKey(i)) => i \in DOMAIN b.cycles /\ b.cycles[i].status = "CLEARED"

CoveredCycles(b) == \A i \in DOMAIN b.cycles : b.cycles[i].allocated >= NetAllocated(b, i)

BankOK(b) ==
  /\ Shaped(b) /\ Len(b.cycles) <= MaxCycles
  /\ OneOpen(b) /\ ClearedOnce(b) /\ CoveredCycles(b)

-----------------------------------------------------------------------------
(***************************************************************************)
(* From a bank to the next.                                                *)
(***************************************************************************)

\* Entries stay as they are; those that are added have keys in K, or of a closing.
Grows(b, e, K) ==
  /\ \A k \in DOMAIN b.entries : k \in DOMAIN e.entries /\ e.entries[k] = b.entries[k]
  /\ DOMAIN e.entries \subseteq DOMAIN b.entries \cup K \cup ClearKeys

\* The dates of a cycle, and whether it clears the bank.
Same(c, d) == c.starts = d.starts /\ c.ends = d.ends /\ c.clears = d.clears

\* No cycle is opened or gets other dates.
CyclesKept(b, e) ==
  /\ DOMAIN e.cycles = DOMAIN b.cycles
  /\ \A i \in DOMAIN b.cycles :
       Same(e.cycles[i], b.cycles[i]) /\ (e.cycles[i].status = "OPEN" => b.cycles[i].status = "OPEN")

NoneOver(b) == \A i \in DOMAIN b.cycles : ~Over(b.cycles[i])

LEMMA LeastNatural ==
  ASSUME NEW S \in SUBSET Nat, S # {}
  PROVE  \E m \in S : \A n \in S : m <= n
<1>1. \E m \in S : \A n \in S : ~(<<n, m>> \in OpToRel(<, Nat))
  BY WFMin, NatLessThanWellFounded, Zenon
<1>2. PICK m \in S : \A n \in S : ~(<<n, m>> \in OpToRel(<, Nat))
  BY <1>1
<1>3. \A n \in S : <<n, m>> \in Nat \X Nat
  OBVIOUS
<1>4. \A n \in S : ~(n < m)
  BY <1>2, <1>3 DEF OpToRel
<1> QED
  BY <1>4

LEMMA FirstFacts ==
  ASSUME NEW S \in SUBSET Nat
  PROVE  IF S = {} THEN First(S) = 0 ELSE First(S) \in S
<1>1. CASE S = {}
  BY <1>1 DEF First
<1>2. CASE S # {}
  BY <1>2, LeastNatural DEF First, Min
<1> QED BY <1>1, <1>2

LEMMA ActiveFacts ==
  ASSUME NEW b, b.cycles \in Seq(Cycle)
  PROVE  ActiveCycle(b) \in {0} \cup DOMAIN b.cycles
BY FirstFacts DEF ActiveCycle, CyclesWhere

LEMMA FundingFacts ==
  ASSUME NEW b, b.cycles \in Seq(Cycle)
  PROVE  FundingCycle(b) \in {0} \cup DOMAIN b.cycles
BY FirstFacts DEF FundingCycle, CyclesWhere

LEMMA OverFacts ==
  ASSUME NEW b, b.cycles \in Seq(Cycle)
  PROVE  LET i == First(CyclesWhere(b, Over)) IN
         /\ i # 0 => i \in DOMAIN b.cycles /\ Over(b.cycles[i])
         /\ i = 0 => \A j \in DOMAIN b.cycles : ~Over(b.cycles[j])
<1>1. CyclesWhere(b, Over) = {i \in DOMAIN b.cycles : Over(b.cycles[i])}
  BY DEF CyclesWhere
<1>2. DOMAIN b.cycles \in SUBSET Nat /\ 0 \notin DOMAIN b.cycles
  OBVIOUS
<1> QED BY <1>1, <1>2, FirstFacts



LEMMA WithCycle ==
  ASSUME NEW b, Shaped(b), NEW i \in DOMAIN b.cycles, NEW c \in Cycle
  PROVE  LET e == [b EXCEPT !.cycles[i] = c] IN
         /\ e = [balance |-> b.balance, cycles |-> [b.cycles EXCEPT ![i] = c], entries |-> b.entries]
         /\ e.balance = b.balance /\ e.entries = b.entries
         /\ e.cycles \in Seq(Cycle) /\ Len(e.cycles) = Len(b.cycles) /\ DOMAIN e.cycles = DOMAIN b.cycles
         /\ e.cycles[i] = c /\ \A j \in DOMAIN b.cycles \ {i} : e.cycles[j] = b.cycles[j]
<1> DEFINE e == [b EXCEPT !.cycles[i] = c]
<1>1. e = [balance |-> b.balance, cycles |-> [b.cycles EXCEPT ![i] = c], entries |-> b.entries]
  <2>1. b = [balance |-> b.balance, cycles |-> b.cycles, entries |-> b.entries]
    BY DEF Shaped
  <2>2. \A m : [[balance |-> b.balance, cycles |-> b.cycles, entries |-> b.entries]
                 EXCEPT !.cycles = m]
               = [balance |-> b.balance, cycles |-> m, entries |-> b.entries]
    OBVIOUS
  <2>3. e = [b EXCEPT !.cycles = [b.cycles EXCEPT ![i] = c]]
    OBVIOUS
  <2> HIDE DEF e
  <2> QED
    BY <2>1, <2>2, <2>3
<1> HIDE DEF e
<1>2. b.cycles \in Seq(Cycle) /\ i \in 1 .. Len(b.cycles) /\ DOMAIN b.cycles = 1 .. Len(b.cycles)
  BY DEF Shaped
<1>3. e.cycles = [b.cycles EXCEPT ![i] = c]
  BY <1>1
<1>4. e.cycles \in Seq(Cycle) /\ Len(e.cycles) = Len(b.cycles)
  BY <1>2, <1>3, ExceptSeq
<1> QED BY <1>1, <1>2, <1>3, <1>4 DEF e

LEMMA CycleFacts ==
  ASSUME NEW c \in Cycle, NEW n \in Nat
  PROVE  /\ Closed(c, n) \in Cycle /\ Same(Closed(c, n), c)
         /\ Closed(c, n).status = "CLEARED" /\ Closed(c, n).allocated = c.allocated
         /\ MoreAllocated(c, n) \in Cycle /\ Same(MoreAllocated(c, n), c)
         /\ MoreAllocated(c, n).status = c.status
         /\ MoreAllocated(c, n).allocated = c.allocated + n
         /\ LessAllocated(c, n) \in Cycle /\ Same(LessAllocated(c, n), c)
         /\ LessAllocated(c, n).status = c.status
         /\ LessAllocated(c, n).allocated = IF c.allocated >= n THEN c.allocated - n ELSE 0
<1>1. /\ Closed(c, n) \in Cycle /\ Same(Closed(c, n), c)
      /\ Closed(c, n).status = "CLEARED" /\ Closed(c, n).allocated = c.allocated
  BY DEF Cycle, Closed, Same
<1>2. /\ MoreAllocated(c, n) \in Cycle /\ Same(MoreAllocated(c, n), c)
      /\ MoreAllocated(c, n).status = c.status
      /\ MoreAllocated(c, n).allocated = c.allocated + n
  BY DEF Cycle, MoreAllocated, Same
<1>3. /\ LessAllocated(c, n) \in Cycle /\ Same(LessAllocated(c, n), c)
      /\ LessAllocated(c, n).status = c.status
      /\ LessAllocated(c, n).allocated = IF c.allocated >= n THEN c.allocated - n ELSE 0
  <2> DEFINE m == IF c.allocated >= n THEN c.allocated - n ELSE 0
  <2>1. m \in Nat
    BY DEF Cycle
  <2>2. LessAllocated(c, n) = [c EXCEPT !.allocated = m]
    BY DEF LessAllocated
  <2> HIDE DEF m
  <2>3. /\ LessAllocated(c, n) \in Cycle /\ Same(LessAllocated(c, n), c)
        /\ LessAllocated(c, n).status = c.status
        /\ LessAllocated(c, n).allocated = m
    BY <2>1, <2>2 DEF Cycle, Same
  <2> QED
    BY <2>3 DEF m
<1> QED
  BY <1>1, <1>2, <1>3

LEMMA PostFacts ==
  ASSUME NEW b, Shaped(b), NEW k, k \notin DOMAIN b.entries,
         NEW type \in Types, NEW amount \in Int, NEW c \in Nat
  PROVE  LET p == Post(b, k, type, amount, c) IN
         /\ p = [balance |-> b.balance + amount, cycles |-> b.cycles, entries |-> p.entries]
         /\ DOMAIN p.entries = DOMAIN b.entries \cup {k}
         /\ p.entries[k] = [type |-> type, amount |-> amount, cycle |-> c]
         /\ \A j \in DOMAIN b.entries : p.entries[j] = b.entries[j]
<1> DEFINE es == [j \in DOMAIN b.entries \cup {k} |->
              IF j = k THEN [type |-> type, amount |-> amount, cycle |-> c] ELSE b.entries[j]]
<1>1. Post(b, k, type, amount, c) = [balance |-> b.balance + amount, cycles |-> b.cycles, entries |-> es]
  <2>1. Post(b, k, type, amount, c) = [b EXCEPT !.balance = b.balance + amount, !.entries = es]
    BY DEF Post
  <2> HIDE DEF es
  <2> QED BY <2>1 DEF Shaped
<1>2. /\ DOMAIN es = DOMAIN b.entries \cup {k}
     /\ es[k] = [type |-> type, amount |-> amount, cycle |-> c]
     /\ \A j \in DOMAIN b.entries : es[j] = b.entries[j]
  OBVIOUS
<1> HIDE DEF es
<1> QED BY <1>1, <1>2

-----------------------------------------------------------------------------
(***************************************************************************)
(* What the entries of a cycle sum up to.                                  *)
(***************************************************************************)

Amounts(b) == [k \in DOMAIN b.entries |-> b.entries[k].amount]

Counts(entry, i) ==
  /\ entry.cycle = i
  /\ \/ entry.amount < 0 /\ entry.type # "CYCLE_CLEAR"
     \/ entry.amount > 0 /\ entry.type \in ReturnTypes

Net(b, i) == SumFunctionOnSet(Amounts(b), {k \in DOMAIN b.entries : Counts(b.entries[k], i)})

LEMMA NetFacts ==
  ASSUME NEW b, Shaped(b), NEW i
  PROVE  Net(b, i) \in Int /\ NetAllocated(b, i) = IF -Net(b, i) < 0 THEN 0 ELSE -Net(b, i)
<1> DEFINE of == {k \in DOMAIN b.entries : Counts(b.entries[k], i)}
<1>1. IsFiniteSet(of) /\ IntOn(Amounts(b), of)
  BY FS_Subset DEF Shaped, Amounts, IntOn, Entry
<1>2. Net(b, i) \in Int
  BY <1>1, SumType DEF Net
<1>3. of = {k \in DOMAIN b.entries :
              /\ b.entries[k].cycle = i
              /\ \/ b.entries[k].amount < 0 /\ b.entries[k].type # "CYCLE_CLEAR"
                 \/ b.entries[k].amount > 0 /\ b.entries[k].type \in ReturnTypes}
  BY DEF Counts
<1> QED
  BY <1>2, <1>3 DEF NetAllocated, Net, Amounts

LEMMA NetOfEntries ==
  ASSUME NEW b, NEW e, e.entries = b.entries, NEW i
  PROVE  NetAllocated(e, i) = NetAllocated(b, i)
BY DEF NetAllocated

(* A new entry changes the sum of a cycle if it counts for it.               *)
LEMMA NetPost ==
  ASSUME NEW b, Shaped(b), NEW p, Shaped(p), NEW k, k \notin DOMAIN b.entries,
         DOMAIN p.entries = DOMAIN b.entries \cup {k},
         \A j \in DOMAIN b.entries : p.entries[j] = b.entries[j],
         NEW i
  PROVE  Net(p, i) = IF Counts(p.entries[k], i) THEN Net(b, i) + p.entries[k].amount ELSE Net(b, i)
<1> DEFINE S == {j \in DOMAIN b.entries : Counts(b.entries[j], i)}
           T == {j \in DOMAIN p.entries : Counts(p.entries[j], i)}
<1>1. IsFiniteSet(S) /\ IntOn(Amounts(b), S) /\ IntOn(Amounts(p), S)
  BY FS_Subset DEF Shaped, Amounts, IntOn, Entry
<1>2. \A j \in S : Amounts(p)[j] = Amounts(b)[j]
  BY DEF Amounts
<1>3. k \notin S /\ Amounts(p)[k] = p.entries[k].amount /\ p.entries[k].amount \in Int
  BY DEF Amounts, Shaped, Entry
<1>4. T = IF Counts(p.entries[k], i) THEN S \cup {k} ELSE S
  OBVIOUS
<1> HIDE DEF S, T
<1>5. SumFunctionOnSet(Amounts(p), S) = SumFunctionOnSet(Amounts(b), S)
  BY <1>1, <1>2, SumSame
<1>6. SumFunctionOnSet(Amounts(p), S \cup {k}) = Amounts(p)[k] + SumFunctionOnSet(Amounts(p), S)
  BY <1>1, <1>3, SumAdd
<1>7. Net(b, i) = SumFunctionOnSet(Amounts(b), S) /\ Net(p, i) = SumFunctionOnSet(Amounts(p), T)
  BY DEF Net, S, T
<1>8. Net(b, i) \in Int
  BY NetFacts
<1> QED
  BY <1>3, <1>4, <1>5, <1>6, <1>7, <1>8

(* Posting adds one entry, which a cycle may count.                          *)
LEMMA PostOK ==
  ASSUME NEW b, Shaped(b), NEW k, k \notin DOMAIN b.entries, NEW type \in Types,
         NEW amount \in Int, b.balance + amount >= 0, NEW c \in 0 .. Len(b.cycles)
  PROVE  LET p == Post(b, k, type, amount, c) IN
         /\ Shaped(p) /\ p.cycles = b.cycles /\ p.balance = b.balance + amount
         /\ DOMAIN p.entries = DOMAIN b.entries \cup {k}
         /\ p.entries[k] = [type |-> type, amount |-> amount, cycle |-> c]
         /\ \A j \in DOMAIN b.entries : p.entries[j] = b.entries[j]
         /\ \A i : Net(p, i) = IF Counts(p.entries[k], i) THEN Net(b, i) + amount ELSE Net(b, i)
<1> DEFINE p == Post(b, k, type, amount, c)
<1>1. c \in Nat
  OBVIOUS
<1>2. /\ p = [balance |-> b.balance + amount, cycles |-> b.cycles, entries |-> p.entries]
      /\ DOMAIN p.entries = DOMAIN b.entries \cup {k}
      /\ p.entries[k] = [type |-> type, amount |-> amount, cycle |-> c]
      /\ \A j \in DOMAIN b.entries : p.entries[j] = b.entries[j]
  BY <1>1, PostFacts
<1> HIDE DEF p
<1>3. p.cycles = b.cycles /\ p.balance = b.balance + amount /\ p.entries[k].amount = amount
  BY <1>2
<1>4. Shaped(p)
  <2>1. IsFiniteSet(DOMAIN p.entries)
    BY <1>2, FS_AddElement DEF Shaped
  <2>2. p.entries[k] \in Entry /\ p.entries[k].cycle \in 0 .. Len(p.cycles)
    BY <1>1, <1>2, <1>3 DEF Entry
  <2> QED
    BY <1>2, <1>3, <2>1, <2>2 DEF Shaped
<1>5. \A i : Net(p, i) = IF Counts(p.entries[k], i) THEN Net(b, i) + p.entries[k].amount ELSE Net(b, i)
  BY <1>2, <1>4, NetPost
<1> QED
  BY <1>2, <1>3, <1>4, <1>5 DEF p

-----------------------------------------------------------------------------
(***************************************************************************)
(* Closing.                                                                *)
(***************************************************************************)

LEMMA ClearKeyFresh ==
  ASSUME NEW b, BankOK(b), NEW i \in DOMAIN b.cycles, b.cycles[i].status = "OPEN"
  PROVE  i \in 1 .. MaxCycles /\ ClearKey(i) \in ClearKeys /\ ClearKey(i) \notin DOMAIN b.entries
<1>1. i \in 1 .. MaxCycles
  BY BanksAssumption DEF BankOK, Shaped
<1> QED
  BY <1>1 DEF BankOK, ClearedOnce, Posted, ClearKeys

LEMMA EmptiedFacts ==
  ASSUME NEW b, BankOK(b), NEW i \in DOMAIN b.cycles, b.cycles[i].status = "OPEN"
  PROVE  LET e == Emptied(b, i) IN
         /\ Shaped(e) /\ e.cycles = b.cycles /\ Grows(b, e, {})
         /\ DOMAIN e.entries \subseteq DOMAIN b.entries \cup {ClearKey(i)}
         /\ \A j : NetAllocated(e, j) = NetAllocated(b, j)
<1> DEFINE e == Emptied(b, i)
<1>1. CASE b.balance <= 0
  <2>1. e = b
    BY <1>1 DEF Emptied
  <2> QED
    BY <2>1 DEF BankOK, Grows
<1>2. CASE ~(b.balance <= 0)
  <2>1. e = Post(b, ClearKey(i), "CYCLE_CLEAR", -b.balance, i)
    BY <1>2 DEF Emptied, ClearKey
  <2>2. /\ ClearKey(i) \in ClearKeys /\ ClearKey(i) \notin DOMAIN b.entries
        /\ "CYCLE_CLEAR" \in Types /\ -b.balance \in Int /\ b.balance + (-b.balance) >= 0
        /\ i \in 0 .. Len(b.cycles) /\ Shaped(b)
    BY ClearKeyFresh DEF Types, BankOK, Shaped
  <2> HIDE DEF e
  <2>3. /\ Shaped(e) /\ e.cycles = b.cycles
        /\ DOMAIN e.entries = DOMAIN b.entries \cup {ClearKey(i)}
        /\ e.entries[ClearKey(i)] = [type |-> "CYCLE_CLEAR", amount |-> -b.balance, cycle |-> i]
        /\ \A j \in DOMAIN b.entries : e.entries[j] = b.entries[j]
        /\ \A j : Net(e, j) = IF Counts(e.entries[ClearKey(i)], j) THEN Net(b, j) + (-b.balance) ELSE Net(b, j)
    BY <2>1, <2>2, PostOK
  <2>4. \A j : ~Counts(e.entries[ClearKey(i)], j)
    BY <1>2, <2>3 DEF Counts, Shaped, BankOK
  <2>5. \A j : NetAllocated(e, j) = NetAllocated(b, j)
    BY <2>2, <2>3, <2>4, NetFacts
  <2> QED
    BY <2>2, <2>3, <2>5 DEF Grows, e
<1> QED
  BY <1>1, <1>2

(* A cycle that is closed was the open one.                                  *)
LEMMA CloseOne ==
  ASSUME NEW b, BankOK(b), NEW i \in DOMAIN b.cycles, b.cycles[i].status = "OPEN",
         NEW m \in {b, Emptied(b, i)},
         NEW c \in Cycle, Same(c, b.cycles[i]), c.status = "CLEARED",
         c.allocated >= NetAllocated(b, i)
  PROVE  LET e == [m EXCEPT !.cycles[i] = c] IN
         /\ BankOK(e) /\ Grows(b, e, {}) /\ CyclesKept(b, e)
         /\ \A j \in DOMAIN e.cycles : e.cycles[j].status # "OPEN"
<1> DEFINE e == [m EXCEPT !.cycles[i] = c]
<1>1. /\ Shaped(m) /\ m.cycles = b.cycles /\ Grows(b, m, {})
      /\ DOMAIN m.entries \subseteq DOMAIN b.entries \cup {ClearKey(i)}
      /\ \A j : NetAllocated(m, j) = NetAllocated(b, j)
  <2>1. CASE m = b
    BY <2>1 DEF Grows, BankOK
  <2>2. CASE m = Emptied(b, i)
    BY <2>2, EmptiedFacts
  <2> QED
    BY <2>1, <2>2
<1>2. /\ e = [balance |-> m.balance, cycles |-> [m.cycles EXCEPT ![i] = c], entries |-> m.entries]
      /\ e.balance = m.balance /\ e.entries = m.entries
      /\ e.cycles \in Seq(Cycle) /\ Len(e.cycles) = Len(m.cycles) /\ DOMAIN e.cycles = DOMAIN m.cycles
      /\ e.cycles[i] = c /\ \A j \in DOMAIN m.cycles \ {i} : e.cycles[j] = m.cycles[j]
  BY <1>1, WithCycle
<1> HIDE DEF e
<1>3. Shaped(e)
  BY <1>1, <1>2 DEF Shaped
<1>4. Grows(b, e, {})
  BY <1>1, <1>2 DEF Grows
<1>5. CyclesKept(b, e)
  BY <1>1, <1>2 DEF CyclesKept, Same
<1>6. \A j \in DOMAIN e.cycles : e.cycles[j].status # "OPEN"
  BY <1>1, <1>2 DEF BankOK, OneOpen
<1>7. CoveredCycles(e)
  <2>1. \A j : NetAllocated(e, j) = NetAllocated(b, j)
    BY <1>1, <1>2, NetOfEntries
  <2>2. \A j \in DOMAIN b.cycles : b.cycles[j].allocated >= NetAllocated(b, j)
    BY DEF BankOK, CoveredCycles
  <2> QED
    BY <1>1, <1>2, <2>1, <2>2 DEF CoveredCycles
<1>8. ClearedOnce(e)
  <2> SUFFICES ASSUME NEW j \in 1 .. MaxCycles, ClearKey(j) \in DOMAIN e.entries
               PROVE  j \in DOMAIN e.cycles /\ e.cycles[j].status = "CLEARED"
    BY DEF ClearedOnce, Posted
  <2>1. CASE ClearKey(j) \in DOMAIN b.entries
    BY <1>1, <1>2, <2>1 DEF BankOK, ClearedOnce, Posted
  <2>2. CASE ClearKey(j) = ClearKey(i)
    <3>1. j = i
      BY <2>2 DEF ClearKey
    <3> QED
      BY <1>1, <1>2, <3>1
  <2> QED
    BY <1>1, <1>2, <2>1, <2>2
<1>9. OneOpen(e) /\ Len(e.cycles) <= MaxCycles
  BY <1>1, <1>2, <1>6 DEF OneOpen, BankOK
<1> QED
  BY <1>3, <1>4, <1>5, <1>6, <1>7, <1>8, <1>9 DEF BankOK, e

LEMMA CloseExpiredFacts ==
  ASSUME NEW b, BankOK(b)
  PROVE  LET e == CloseExpired(b) IN
         BankOK(e) /\ Grows(b, e, {}) /\ CyclesKept(b, e) /\ NoneOver(e)
<1> DEFINE e == CloseExpired(b)
           i == First(CyclesWhere(b, Over))
<1>1. b.cycles \in Seq(Cycle)
  BY DEF BankOK, Shaped
<1>2. /\ i # 0 => i \in DOMAIN b.cycles /\ Over(b.cycles[i])
      /\ i = 0 => \A j \in DOMAIN b.cycles : ~Over(b.cycles[j])
  BY <1>1, OverFacts
<1>3. CASE i = 0
  <2>1. e = b
    BY <1>3 DEF CloseExpired
  <2> QED
    BY <1>2, <1>3, <2>1 DEF Grows, CyclesKept, Same, NoneOver
<1>4. CASE i # 0
  <2> DEFINE m == Emptied(b, i)
             c == Closed(m.cycles[i], 0)
  <2>1. i \in DOMAIN b.cycles /\ b.cycles[i].status = "OPEN" /\ b.cycles[i] \in Cycle
    BY <1>1, <1>2, <1>4 DEF Over
  <2>2. m.cycles = b.cycles
    BY <2>1, EmptiedFacts
  <2>3. c \in Cycle /\ Same(c, b.cycles[i]) /\ c.status = "CLEARED" /\ c.allocated = b.cycles[i].allocated
    BY <2>1, <2>2, CycleFacts, SMTT(20)
  <2>4. c.allocated >= NetAllocated(b, i)
    BY <2>1, <2>3 DEF BankOK, CoveredCycles
  <2>5. e = [m EXCEPT !.cycles[i] = c]
    BY <1>4 DEF CloseExpired
  <2> HIDE DEF e, c, i
  <2>6. /\ BankOK(e) /\ Grows(b, e, {}) /\ CyclesKept(b, e)
        /\ \A j \in DOMAIN e.cycles : e.cycles[j].status # "OPEN"
    BY <2>1, <2>3, <2>4, <2>5, CloseOne
  <2> QED
    BY <2>6 DEF NoneOver, Over, e
<1> QED
  BY <1>3, <1>4

-----------------------------------------------------------------------------
(***************************************************************************)
(* Postings.                                                               *)
(***************************************************************************)

LEMMA GrowsOn ==
  ASSUME NEW b, NEW e, NEW f, NEW K, Grows(b, e, {}), Grows(e, f, K)
  PROVE  Grows(b, f, K)
BY DEF Grows

\* What a posting of this amount under this key makes of a bank.
PostedOn(b, e, k, amount) ==
  /\ BankOK(e) /\ Grows(b, e, {k}) /\ CyclesKept(b, e) /\ NoneOver(e)
  /\ k \in DOMAIN e.entries /\ e.entries[k].amount = amount

(* The cycle a posting belongs to counts it.                                 *)
LEMMA CountOne ==
  ASSUME NEW b, BankOK(b), NoneOver(b), NEW k, k \notin DOMAIN b.entries \cup ClearKeys,
         NEW p, Shaped(p), p.cycles = b.cycles, DOMAIN p.entries = DOMAIN b.entries \cup {k},
         \A j \in DOMAIN b.entries : p.entries[j] = b.entries[j],
         NEW c \in DOMAIN b.cycles, NEW d \in Cycle, Same(d, b.cycles[c]),
         d.status = b.cycles[c].status, d.allocated >= NetAllocated(p, c),
         \A i \in DOMAIN b.cycles \ {c} : NetAllocated(p, i) = NetAllocated(b, i)
  PROVE  PostedOn(b, [p EXCEPT !.cycles[c] = d], k, p.entries[k].amount)
<1> DEFINE e == [p EXCEPT !.cycles[c] = d]
<1>1. /\ e = [balance |-> p.balance, cycles |-> [p.cycles EXCEPT ![c] = d], entries |-> p.entries]
      /\ e.balance = p.balance /\ e.entries = p.entries
      /\ e.cycles \in Seq(Cycle) /\ Len(e.cycles) = Len(p.cycles) /\ DOMAIN e.cycles = DOMAIN p.cycles
      /\ e.cycles[c] = d /\ \A j \in DOMAIN p.cycles \ {c} : e.cycles[j] = p.cycles[j]
  BY WithCycle
<1> HIDE DEF e
<1>2. Shaped(e) /\ Len(e.cycles) <= MaxCycles
  BY <1>1 DEF Shaped, BankOK
<1>3. \A j \in DOMAIN b.cycles :
        Same(e.cycles[j], b.cycles[j]) /\ e.cycles[j].status = b.cycles[j].status
  BY <1>1 DEF Same
<1>4. OneOpen(e) /\ CyclesKept(b, e)
  BY <1>1, <1>3 DEF OneOpen, CyclesKept, BankOK
<1>5. NoneOver(e)
  BY <1>1, <1>3 DEF NoneOver, Over, Same
<1>6. Grows(b, e, {k})
  BY <1>1 DEF Grows
<1>7. ClearedOnce(e)
  BY <1>1, <1>3 DEF ClearedOnce, BankOK, Posted, ClearKeys
<1>8. CoveredCycles(e)
  <2>1. \A j : NetAllocated(e, j) = NetAllocated(p, j)
    BY <1>1, NetOfEntries
  <2> QED
    BY <1>1, <2>1 DEF CoveredCycles, BankOK
<1> QED
  BY <1>1, <1>2, <1>4, <1>5, <1>6, <1>7, <1>8 DEF BankOK, PostedOn, e

(* One that belongs to no cycle, or that its cycle does not count.           *)
LEMMA CountNone ==
  ASSUME NEW b, BankOK(b), NoneOver(b), NEW k, k \notin DOMAIN b.entries \cup ClearKeys,
         NEW p, Shaped(p), p.cycles = b.cycles, DOMAIN p.entries = DOMAIN b.entries \cup {k},
         \A j \in DOMAIN b.entries : p.entries[j] = b.entries[j],
         \A i \in DOMAIN b.cycles : NetAllocated(p, i) = NetAllocated(b, i)
  PROVE  PostedOn(b, p, k, p.entries[k].amount)
<1>1. OneOpen(p) /\ CyclesKept(b, p) /\ NoneOver(p) /\ Grows(b, p, {k})
  BY DEF OneOpen, CyclesKept, Same, NoneOver, Grows, BankOK
<1>2. ClearedOnce(p)
  BY DEF ClearedOnce, BankOK, Posted, ClearKeys
<1>3. CoveredCycles(p)
  BY DEF CoveredCycles, BankOK
<1> QED
  BY <1>1, <1>2, <1>3 DEF BankOK, PostedOn

LEMMA PostedAfterClosing ==
  ASSUME NEW b, BankOK(b), NEW k, k \notin DOMAIN b.entries \cup ClearKeys,
         NEW f, NEW n, PostedOn(CloseExpired(b), f, k, n)
  PROVE  k \notin DOMAIN CloseExpired(b).entries /\ PostedOn(b, f, k, n)
<1> DEFINE e == CloseExpired(b)
<1>1. BankOK(e) /\ Grows(b, e, {}) /\ CyclesKept(b, e)
  BY CloseExpiredFacts
<1> HIDE DEF e
<1>2. Grows(b, f, {k}) /\ CyclesKept(b, f)
  BY <1>1, GrowsOn DEF PostedOn, CyclesKept, Same, e
<1> QED
  BY <1>1, <1>2 DEF PostedOn, Grows, e

LEMMA DebitedFacts ==
  ASSUME NEW b, BankOK(b), NEW k, k \notin DOMAIN b.entries \cup ClearKeys,
         NEW type \in Types \ {"CYCLE_CLEAR"}, NEW n \in Nat \ {0}, CanDebit(b, n)
  PROVE  PostedOn(b, Debited(b, k, type, n), k, -n)
<1> DEFINE e == CloseExpired(b)
           c == ActiveCycle(e)
           p == Post(e, k, type, -n, c)
<1>1. BankOK(e) /\ Grows(b, e, {}) /\ NoneOver(e)
  BY CloseExpiredFacts
<1>2. Debited(b, k, type, n) = IF c = 0 THEN p ELSE [p EXCEPT !.cycles[c] = MoreAllocated(p.cycles[c], n)]
  BY DEF Debited
<1>3. e.balance >= n
  BY DEF CanDebit
<1>4. c \in {0} \cup DOMAIN e.cycles /\ Shaped(e)
  BY <1>1, ActiveFacts DEF BankOK, Shaped
<1> HIDE DEF e, c, p
<1>5. k \notin DOMAIN e.entries \cup ClearKeys
  BY <1>1 DEF Grows
<1>6. /\ Shaped(p) /\ p.cycles = e.cycles
      /\ DOMAIN p.entries = DOMAIN e.entries \cup {k}
      /\ p.entries[k] = [type |-> type, amount |-> -n, cycle |-> c]
      /\ \A j \in DOMAIN e.entries : p.entries[j] = e.entries[j]
      /\ \A i : Net(p, i) = IF Counts(p.entries[k], i) THEN Net(e, i) + (-n) ELSE Net(e, i)
  <2>1. c \in 0 .. Len(e.cycles) /\ -n \in Int /\ e.balance + (-n) >= 0
    BY <1>3, <1>4 DEF Shaped
  <2> QED
    BY <1>4, <1>5, <2>1, PostOK DEF p
<1>7. \A i : Counts(p.entries[k], i) <=> i = c
  BY <1>6 DEF Counts
<1>8. CASE c = 0
  <2>1. \A i \in DOMAIN e.cycles : NetAllocated(p, i) = NetAllocated(e, i)
    <3> TAKE i \in DOMAIN e.cycles
    <3>1. i # 0
      BY <1>4 DEF Shaped
    <3> QED
      BY <1>4, <1>6, <1>7, <1>8, <3>1, NetFacts
  <2>2. PostedOn(e, p, k, -n)
    BY <1>1, <1>5, <1>6, <2>1, CountNone
  <2> QED
    BY <1>2, <1>8, <2>2, PostedAfterClosing DEF e
<1>9. CASE c # 0
  <2> DEFINE d == MoreAllocated(p.cycles[c], n)
  <2>1. c \in DOMAIN e.cycles /\ e.cycles[c] \in Cycle
    BY <1>4, <1>9 DEF Shaped
  <2>2. d \in Cycle /\ Same(d, e.cycles[c]) /\ d.status = e.cycles[c].status
        /\ d.allocated = e.cycles[c].allocated + n
    BY <1>6, <2>1, CycleFacts
  <2>3. e.cycles[c].allocated >= NetAllocated(e, c) /\ e.cycles[c].allocated \in Nat
    BY <1>1, <2>1 DEF BankOK, CoveredCycles, Cycle
  <2>4. /\ NetAllocated(e, c) = IF -Net(e, c) < 0 THEN 0 ELSE -Net(e, c)
        /\ NetAllocated(p, c) = IF -Net(p, c) < 0 THEN 0 ELSE -Net(p, c)
        /\ Net(e, c) \in Int /\ Net(p, c) = Net(e, c) + (-n)
    BY <1>4, <1>6, <1>7, NetFacts
  <2> HIDE DEF d
  <2>5. d.allocated >= NetAllocated(p, c)
    BY <2>2, <2>3, <2>4
  <2>6. \A i \in DOMAIN e.cycles \ {c} : NetAllocated(p, i) = NetAllocated(e, i)
    BY <1>4, <1>6, <1>7, NetFacts
  <2>7. PostedOn(e, [p EXCEPT !.cycles[c] = d], k, p.entries[k].amount)
    BY <1>1, <1>5, <1>6, <2>1, <2>2, <2>5, <2>6, CountOne
  <2>8. p.entries[k].amount = -n
    BY <1>6
  <2> QED
    BY <1>2, <1>9, <2>7, <2>8, PostedAfterClosing DEF e, d
<1> QED
  BY <1>8, <1>9

LEMMA CreditedFacts ==
  ASSUME NEW b, BankOK(b), NEW k, k \notin DOMAIN b.entries \cup ClearKeys,
         NEW type \in Types \ {"CYCLE_CLEAR"}, NEW n \in Nat \ {0}
  PROVE  PostedOn(b, Credited(b, k, type, n), k, n)
<1> DEFINE e == CloseExpired(b)
           c == IF type = "ISSUANCE" THEN FundingCycle(e) ELSE ActiveCycle(e)
           p == Post(e, k, type, n, c)
<1>1. BankOK(e) /\ Grows(b, e, {}) /\ NoneOver(e)
  BY CloseExpiredFacts
<1>2. Credited(b, k, type, n) = IF type \notin ReturnTypes \/ c = 0 THEN p
                                ELSE [p EXCEPT !.cycles[c] = LessAllocated(p.cycles[c], n)]
  BY DEF Credited
<1>3. c \in {0} \cup DOMAIN e.cycles /\ Shaped(e)
  BY <1>1, ActiveFacts, FundingFacts DEF BankOK, Shaped
<1> HIDE DEF e, c, p
<1>4. k \notin DOMAIN e.entries \cup ClearKeys
  BY <1>1 DEF Grows
<1>5. /\ Shaped(p) /\ p.cycles = e.cycles
      /\ DOMAIN p.entries = DOMAIN e.entries \cup {k}
      /\ p.entries[k] = [type |-> type, amount |-> n, cycle |-> c]
      /\ \A j \in DOMAIN e.entries : p.entries[j] = e.entries[j]
      /\ \A i : Net(p, i) = IF Counts(p.entries[k], i) THEN Net(e, i) + n ELSE Net(e, i)
  <2>1. c \in 0 .. Len(e.cycles) /\ n \in Int /\ e.balance + n >= 0
    BY <1>3 DEF Shaped
  <2> QED
    BY <1>3, <1>4, <2>1, PostOK DEF p
<1>6. \A i : Counts(p.entries[k], i) <=> type \in ReturnTypes /\ i = c
  BY <1>5 DEF Counts
<1>7. CASE type \notin ReturnTypes \/ c = 0
  <2>1. \A i \in DOMAIN e.cycles : NetAllocated(p, i) = NetAllocated(e, i)
    <3> TAKE i \in DOMAIN e.cycles
    <3>1. i # 0
      BY <1>3 DEF Shaped
    <3> QED
      BY <1>3, <1>5, <1>6, <1>7, <3>1, NetFacts
  <2>2. PostedOn(e, p, k, n)
    BY <1>1, <1>4, <1>5, <2>1, CountNone
  <2> QED
    BY <1>2, <1>7, <2>2, PostedAfterClosing DEF e
<1>8. CASE type \in ReturnTypes /\ c # 0
  <2> DEFINE d == LessAllocated(p.cycles[c], n)
  <2>1. c \in DOMAIN e.cycles /\ e.cycles[c] \in Cycle
    BY <1>3, <1>8 DEF Shaped
  <2>2. d \in Cycle /\ Same(d, e.cycles[c]) /\ d.status = e.cycles[c].status
        /\ d.allocated = IF e.cycles[c].allocated >= n THEN e.cycles[c].allocated - n ELSE 0
    <3>1. d = LessAllocated(e.cycles[c], n)
      BY <1>5
    <3> HIDE DEF d
    <3> QED
      BY <2>1, <3>1, CycleFacts
  <2>3. e.cycles[c].allocated >= NetAllocated(e, c) /\ e.cycles[c].allocated \in Nat
    BY <1>1, <2>1 DEF BankOK, CoveredCycles, Cycle
  <2>4. /\ NetAllocated(e, c) = IF -Net(e, c) < 0 THEN 0 ELSE -Net(e, c)
        /\ NetAllocated(p, c) = IF -Net(p, c) < 0 THEN 0 ELSE -Net(p, c)
        /\ Net(e, c) \in Int /\ Net(p, c) = Net(e, c) + n
    BY <1>3, <1>5, <1>6, <1>8, NetFacts
  <2> HIDE DEF d
  <2>5. d.allocated >= NetAllocated(p, c)
    BY <2>2, <2>3, <2>4
  <2>6. \A i \in DOMAIN e.cycles \ {c} : NetAllocated(p, i) = NetAllocated(e, i)
    BY <1>3, <1>5, <1>6, NetFacts
  <2>7. PostedOn(e, [p EXCEPT !.cycles[c] = d], k, p.entries[k].amount)
    BY <1>1, <1>4, <1>5, <2>1, <2>2, <2>5, <2>6, CountOne
  <2>8. p.entries[k].amount = n
    BY <1>5
  <2> QED
    BY <1>2, <1>8, <2>7, <2>8, PostedAfterClosing DEF e, d
<1> QED
  BY <1>7, <1>8

-----------------------------------------------------------------------------
(***************************************************************************)
(* The steps on the bank.                                                  *)
(***************************************************************************)

BankInv ==
  /\ BankOK(bank)
  /\ routes \in Rosters /\ clock \in 0 .. Horizon /\ timer \in Timer /\ faults \in 0 .. MaxFaults

\* No debit leaves a cycle open whose time is over.
DebitsFromCurrent(b, e) ==
  \A k \in DOMAIN e.entries :
    ~Posted(b, k) /\ e.entries[k].amount < 0
      => \A i \in DOMAIN b.cycles : Ended(b, i) => e.cycles[i].status # "OPEN"

\* What every step on the bank does to it.
Proceeds(b, e, K) == BankOK(e) /\ Grows(b, e, K) /\ DebitsFromCurrent(b, e)

LEMMA NoneOverDebits ==
  ASSUME NEW b, NEW e, CyclesKept(b, e), NoneOver(e)
  PROVE  DebitsFromCurrent(b, e)
BY DEF DebitsFromCurrent, CyclesKept, NoneOver, Over, Ended, Same

LEMMA PostedProceeds ==
  ASSUME NEW b, NEW e, NEW k, NEW n, PostedOn(b, e, k, n)
  PROVE  Proceeds(b, e, {k})
BY NoneOverDebits DEF PostedOn, Proceeds

LEMMA CloseProceeds ==
  ASSUME NEW b, BankOK(b)
  PROVE  Proceeds(b, CloseExpired(b), {})
<1> DEFINE e == CloseExpired(b)
<1>1. BankOK(e) /\ Grows(b, e, {}) /\ CyclesKept(b, e) /\ NoneOver(e)
  BY CloseExpiredFacts
<1> HIDE DEF e
<1> QED
  BY <1>1, NoneOverDebits DEF Proceeds, e

LEMMA RestProceeds ==
  ASSUME NEW b, BankOK(b), NEW K
  PROVE  Proceeds(b, b, K)
BY DEF Proceeds, Grows, DebitsFromCurrent, Posted

LEMMA PostRequestProceeds ==
  ASSUME BankInv, NEW p \in Sessions, NEW k \in Requests, PostRequest(p, k)
  PROVE  Proceeds(bank, bank', Requests)
<1>1. k \notin DOMAIN bank.entries \cup ClearKeys
  BY KeysAssumption DEF PostRequest, Posted, DerivedKeys, ClearKeys, ClearKey
<1>2. Size[k] \in Nat \ {0} /\ Type[k] \in Types \ {"CYCLE_CLEAR"}
  BY BanksAssumption DEF Types, ReturnTypes
<1>3. BankOK(bank)
  BY DEF BankInv
<1>4. CASE Type[k] = "AUTO_ISSUANCE"
  <2>1. bank' = Debited(bank, k, Type[k], Size[k]) /\ CanDebit(bank, Size[k])
    BY <1>4 DEF PostRequest
  <2>2. PostedOn(bank, bank', k, -Size[k])
    BY <1>1, <1>2, <1>3, <2>1, DebitedFacts
  <2> QED
    BY <2>2, PostedProceeds DEF Proceeds, Grows
<1>5. CASE Type[k] # "AUTO_ISSUANCE"
  <2>1. bank' = Credited(bank, k, Type[k], Size[k])
    BY <1>5 DEF PostRequest
  <2>2. PostedOn(bank, bank', k, Size[k])
    BY <1>1, <1>2, <1>3, <2>1, CreditedFacts
  <2> QED
    BY <2>2, PostedProceeds DEF Proceeds, Grows
<1> QED
  BY <1>4, <1>5

LEMMA OpenCycleProceeds ==
  ASSUME BankInv, NEW p \in Sessions, NEW w \in Windows, NEW clears \in BOOLEAN,
         OpenCycle(p, w, clears)
  PROVE  Proceeds(bank, bank', {})
<1> DEFINE b == CloseExpired(bank)
           c == [starts |-> w[1], ends |-> w[2], clears |-> clears, status |-> "OPEN",
                 opening |-> b.balance, allocated |-> 0, closing |-> 0]
<1>1. BankOK(b) /\ Grows(bank, b, {}) /\ CyclesKept(bank, b) /\ NoneOver(b)
  BY CloseExpiredFacts DEF BankInv
<1>2. OpenCycles(b) = {} /\ Len(b.cycles) < MaxCycles /\ bank' = [b EXCEPT !.cycles = Append(b.cycles, c)]
  BY DEF OpenCycle
<1> HIDE DEF b
<1>3. c \in Cycle
  BY <1>1, BanksAssumption DEF Cycle, BankOK, Shaped
<1> HIDE DEF c
<1>4. /\ bank'.balance = b.balance /\ bank'.entries = b.entries
      /\ bank' = [balance |-> bank'.balance, cycles |-> bank'.cycles, entries |-> bank'.entries]
      /\ bank'.cycles = Append(b.cycles, c)
  BY <1>1, <1>2 DEF BankOK, Shaped
<1>5. /\ bank'.cycles \in Seq(Cycle) /\ Len(bank'.cycles) = Len(b.cycles) + 1
      /\ \A j \in DOMAIN b.cycles : bank'.cycles[j] = b.cycles[j]
      /\ DOMAIN bank'.cycles = DOMAIN b.cycles \cup {Len(b.cycles) + 1}
  BY <1>1, <1>3, <1>4, AppendProperties DEF BankOK, Shaped
<1>6. \A j \in DOMAIN b.cycles : b.cycles[j].status # "OPEN"
  BY <1>2 DEF OpenCycles, CyclesWhere
<1>7. Shaped(bank')
  BY <1>1, <1>4, <1>5 DEF BankOK, Shaped
<1>8. OneOpen(bank')
  BY <1>5, <1>6 DEF OneOpen
<1>9. ClearedOnce(bank')
  BY <1>1, <1>4, <1>5 DEF BankOK, ClearedOnce, Posted
<1>10. CoveredCycles(bank')
  <2> SUFFICES ASSUME NEW i \in DOMAIN bank'.cycles
               PROVE  bank'.cycles[i].allocated >= NetAllocated(bank', i)
    BY DEF CoveredCycles
  <2>1. CASE i \in DOMAIN b.cycles
    BY <1>1, <1>4, <1>5, <2>1, NetOfEntries DEF BankOK, CoveredCycles
  <2>2. CASE i = Len(b.cycles) + 1
    <3>1. {k \in DOMAIN b.entries : Counts(b.entries[k], i)} = {}
      BY <1>1, <2>2 DEF BankOK, Shaped, Counts
    <3>2. Net(b, i) = 0
      BY <3>1, SumEmpty DEF Net
    <3>3. NetAllocated(bank', i) = 0
      BY <1>1, <1>4, <3>2, NetFacts, NetOfEntries DEF BankOK
    <3>4. bank'.cycles[i] \in Cycle
      BY <1>5
    <3> QED
      BY <3>3, <3>4 DEF Cycle
  <2> QED
    BY <1>5, <2>1, <2>2
<1>11. Grows(bank, bank', {})
  BY <1>1, <1>4 DEF Grows
<1>12. DebitsFromCurrent(bank, bank')
  BY <1>1, <1>5, <1>6 DEF DebitsFromCurrent, CyclesKept
<1>13. Len(bank'.cycles) <= MaxCycles
  BY <1>1, <1>2, <1>5, BanksAssumption DEF BankOK, Shaped
<1> QED
  BY <1>7, <1>8, <1>9, <1>10, <1>11, <1>12, <1>13 DEF Proceeds, BankOK

LEMMA PatchCycleProceeds ==
  ASSUME BankInv, NEW p \in Sessions, NEW i \in DOMAIN bank.cycles, NEW w \in Windows,
         NEW clears \in BOOLEAN, PatchCycle(p, i, w, clears)
  PROVE  Proceeds(bank, bank', {})
<1> DEFINE d == [bank.cycles[i] EXCEPT !.starts = w[1], !.ends = w[2], !.clears = clears]
<1>1. bank.cycles[i] \in Cycle /\ Shaped(bank)
  BY DEF BankInv, BankOK, Shaped
<1>2. d \in Cycle /\ d.status = bank.cycles[i].status /\ d.allocated = bank.cycles[i].allocated
  BY <1>1, BanksAssumption DEF Cycle
<1>3. bank' = [bank EXCEPT !.cycles[i] = d]
  BY DEF PatchCycle
<1> HIDE DEF d
<1>4. /\ bank' = [balance |-> bank.balance, cycles |-> [bank.cycles EXCEPT ![i] = d], entries |-> bank.entries]
      /\ bank'.balance = bank.balance /\ bank'.entries = bank.entries
      /\ bank'.cycles \in Seq(Cycle) /\ Len(bank'.cycles) = Len(bank.cycles)
      /\ DOMAIN bank'.cycles = DOMAIN bank.cycles
      /\ bank'.cycles[i] = d /\ \A j \in DOMAIN bank.cycles \ {i} : bank'.cycles[j] = bank.cycles[j]
  BY <1>1, <1>2, <1>3, WithCycle
<1>5. \A j \in DOMAIN bank.cycles : /\ bank'.cycles[j].status = bank.cycles[j].status
                                    /\ bank'.cycles[j].allocated = bank.cycles[j].allocated
  BY <1>2, <1>4
<1>6. Shaped(bank') /\ Len(bank'.cycles) <= MaxCycles
  BY <1>1, <1>4 DEF Shaped, BankInv, BankOK
<1>7. OneOpen(bank') /\ ClearedOnce(bank')
  BY <1>4, <1>5 DEF BankInv, BankOK, OneOpen, ClearedOnce, Posted
<1>8. CoveredCycles(bank')
  <2>1. \A j : NetAllocated(bank', j) = NetAllocated(bank, j)
    BY <1>4, NetOfEntries
  <2>2. \A j \in DOMAIN bank.cycles : bank.cycles[j].allocated >= NetAllocated(bank, j)
    BY DEF BankInv, BankOK, CoveredCycles
  <2> SUFFICES ASSUME NEW j \in DOMAIN bank'.cycles
               PROVE  bank'.cycles[j].allocated >= NetAllocated(bank', j)
    BY DEF CoveredCycles
  <2>3. j \in DOMAIN bank.cycles
    BY <1>4
  <2>4. bank'.cycles[j].allocated = bank.cycles[j].allocated
    BY <1>5, <2>3
  <2> QED
    BY <2>1, <2>2, <2>3, <2>4
<1>9. Grows(bank, bank', {}) /\ DebitsFromCurrent(bank, bank')
  BY <1>4 DEF Grows, DebitsFromCurrent, Posted
<1> QED
  BY <1>6, <1>7, <1>8, <1>9 DEF Proceeds, BankOK

LEMMA ClearCycleProceeds ==
  ASSUME BankInv, NEW p \in Sessions, NEW i \in DOMAIN bank.cycles, ClearCycle(p, i)
  PROVE  Proceeds(bank, bank', {})
<1> DEFINE m == IF bank.cycles[i].clears THEN Emptied(bank, i) ELSE bank
           n == IF bank.cycles[i].clears THEN 0 ELSE bank.balance
           c == Closed(m.cycles[i], n)
           d == [c EXCEPT !.allocated = NetAllocated(bank, i)]
<1>1. BankOK(bank) /\ Shaped(bank) /\ bank.cycles[i] \in Cycle /\ bank.cycles[i].status = "OPEN"
  BY DEF BankInv, BankOK, Shaped, ClearCycle
<1>2. m.cycles = bank.cycles /\ m \in {bank, Emptied(bank, i)}
  BY <1>1, EmptiedFacts
<1>3. bank' = [m EXCEPT !.cycles[i] = d]
  BY DEF ClearCycle
<1>4. n \in Nat
  BY <1>1 DEF Shaped
<1> HIDE DEF m, n
<1>5. c \in Cycle /\ Same(c, bank.cycles[i]) /\ c.status = "CLEARED"
  BY <1>1, <1>2, <1>4, CycleFacts
<1> HIDE DEF c
<1>6. NetAllocated(bank, i) \in Nat
  BY <1>1, NetFacts
<1>7. d \in Cycle /\ Same(d, bank.cycles[i]) /\ d.status = "CLEARED" /\ d.allocated = NetAllocated(bank, i)
  BY <1>5, <1>6 DEF Cycle, Same
<1> HIDE DEF d
<1>8. /\ BankOK(bank') /\ Grows(bank, bank', {}) /\ CyclesKept(bank, bank')
      /\ \A j \in DOMAIN bank'.cycles : bank'.cycles[j].status # "OPEN"
  <2>1. d.allocated >= NetAllocated(bank, i) /\ i \in DOMAIN bank.cycles
    BY <1>6, <1>7 DEF ClearCycle
  <2> DEFINE e == [m EXCEPT !.cycles[i] = d]
  <2>2. /\ BankOK(e) /\ Grows(bank, e, {}) /\ CyclesKept(bank, e)
        /\ \A j \in DOMAIN e.cycles : e.cycles[j].status # "OPEN"
    BY <1>1, <1>2, <1>7, <2>1, CloseOne
  <2>3. bank' = e
    BY <1>3
  <2> HIDE DEF e
  <2> QED BY <2>2, <2>3
<1> QED
  BY <1>8 DEF Proceeds, DebitsFromCurrent, CyclesKept

LEMMA BankStepProceeds ==
  ASSUME BankInv, BankStep
  PROVE  Proceeds(bank, bank', Requests)
<1>1. BankOK(bank)
  BY DEF BankInv
<1>2. ASSUME Proceeds(bank, bank', {}) PROVE Proceeds(bank, bank', Requests)
  BY <1>2 DEF Proceeds, Grows
<1>3. CASE bank' = bank
  BY <1>1, <1>3, RestProceeds
<1>4. CASE bank' = CloseExpired(bank)
  BY <1>1, <1>2, <1>4, CloseProceeds
<1>5. ASSUME NEW p \in Sessions, BankRequest(p) PROVE Proceeds(bank, bank', Requests)
  BY <1>2, <1>5, PostRequestProceeds, OpenCycleProceeds, PatchCycleProceeds, ClearCycleProceeds
     DEF BankRequest
<1> QED
  BY <1>3, <1>4, <1>5
     DEF BankStep, SchedulerStep, Tick, Fire, CloseCycles, CloseFails, Rearm, FinishOvertaken, Restart

-----------------------------------------------------------------------------
(***************************************************************************)
(* The project and its escrow.                                             *)
(***************************************************************************)

Issued(bs) == [i \in DOMAIN bs |-> IF bs[i].status = "APPROVED" THEN bs[i].amount ELSE 0]

\* The escrow holds what was funded and not issued or returned; nothing is returned
\* before the funding, and nothing is held before it or after the return.
EscrowInv ==
  /\ project.issued = SumFunction(Issued(batches))
  /\ -Moved(FundKey) - Moved(ReturnKey) = project.remaining + project.issued
  /\ project.issued + project.remaining <= project.approved
  /\ Posted(bank, ReturnKey) => Posted(bank, FundKey) /\ project.remaining = 0
  /\ ~Posted(bank, FundKey) => project.remaining = 0 /\ project.issued = 0
  /\ project.status = "CLOSED" => project.remaining = 0

Batch == [amount : Awards, status : Decision]

PlanRow == [amount : Budgets, status : Decision]

LEMMA WindowFacts ==
  /\ NoWindow \in Window /\ [op |-> "touch"] \in Window /\ [op |-> "activate"] \in Window
  /\ \A n \in Budgets : [op |-> "sync", amount |-> n] \in Window
  /\ \A n \in Budgets, v \in Nat : [op |-> "submit", version |-> v, amount |-> n] \in Window
  /\ \A n \in Awards : [op |-> "issue", amount |-> n] \in Window
  /\ \A w \in Window :
       /\ w.op = "sync" => w.amount \in Budgets
       /\ w.op = "submit" => w.amount \in Budgets /\ w.version \in Nat
       /\ w.op = "issue" => w.amount \in Awards
<1>1. /\ NoWindow \in Window /\ [op |-> "touch"] \in Window /\ [op |-> "activate"] \in Window
      /\ \A n \in Budgets : [op |-> "sync", amount |-> n] \in Window
      /\ \A n \in Budgets, v \in Nat : [op |-> "submit", version |-> v, amount |-> n] \in Window
      /\ \A n \in Awards : [op |-> "issue", amount |-> n] \in Window
  BY DEF Window, NoWindow
<1>2. ASSUME NEW w \in Window
      PROVE  /\ w.op = "sync" => w.amount \in Budgets
             /\ w.op = "submit" => w.amount \in Budgets /\ w.version \in Nat
             /\ w.op = "issue" => w.amount \in Awards
  BY DEF Window, NoWindow
<1> QED
  BY <1>1, <1>2

LEMMA ProjectTypeStep ==
  ASSUME ProjectTypeOK, ProjectStep
  PROVE  ProjectTypeOK'
<1>0. /\ project \in Project /\ \A v \in DOMAIN plans : plans[v] \in PlanRow
      /\ batches \in Seq(Batch) /\ windows \in [Sessions -> Window]
  BY DEF ProjectTypeOK, PlanRow, Batch
<1>q. ASSUME project' \in Project, \A v \in DOMAIN plans' : plans'[v] \in PlanRow,
             batches' \in Seq(Batch), windows' \in [Sessions -> Window]
      PROVE  ProjectTypeOK'
  BY <1>q DEF ProjectTypeOK, PlanRow, Batch
<1>v. project.version + 1 \in Nat /\ project.remaining \in Nat /\ project.issued \in Nat
  BY <1>0 DEF Project
<1>b. \A i \in DOMAIN batches : i \in 1 .. Len(batches) /\ batches[i] \in Batch
  BY <1>0, ElementOfSeq, LenProperties
<1>w. \A p \in Sessions, w \in Window : Shows(p, w) => windows' \in [Sessions -> Window]
  BY <1>0 DEF Shows
<1>1. ASSUME NEW v \in DOMAIN plans, RejectPlan(v) PROVE ProjectTypeOK'
  <2>1. \A u \in DOMAIN plans' : plans'[u] \in PlanRow
    BY <1>0, <1>1 DEF RejectPlan, PlanRow, Decision
  <2>2. project' \in Project
    BY <1>0, <1>1, <1>v DEF RejectPlan, Project, Statuses
  <2> QED
    BY <1>0, <1>1, <1>q, <2>1, <2>2 DEF RejectPlan
<1>2. ASSUME NEW v \in DOMAIN plans, ApprovePlan(v) PROVE ProjectTypeOK'
  <2>1. \A u \in DOMAIN plans' : plans'[u] \in PlanRow
    BY <1>0, <1>2 DEF ApprovePlan, PlanRow, Decision
  <2>2. project' \in Project
    BY <1>0, <1>2, ProjectsAssumption DEF ApprovePlan, Project, Statuses
  <2> QED
    BY <1>0, <1>2, <1>q, <2>1, <2>2 DEF ApprovePlan
<1>3. ASSUME NEW i \in DOMAIN batches, RejectBatch(i) \/ ApproveBatch(i) PROVE ProjectTypeOK'
  <2>1. ASSUME NEW s \in {"APPROVED", "REJECTED"} PROVE [batches EXCEPT ![i].status = s] \in Seq(Batch)
    <3>1. [batches[i] EXCEPT !.status = s] \in Batch
      BY <1>b DEF Batch, Decision
    <3> QED
      BY <1>0, <1>b, <3>1, ExceptSeq
  <2>2. batches[i] \in Batch /\ batches[i].amount \in Nat
    BY <1>b, ProjectsAssumption DEF Batch
  <2>3. CASE RejectBatch(i)
    BY <1>0, <1>q, <2>1, <2>3 DEF RejectBatch, Project, Statuses
  <2>4. CASE ApproveBatch(i)
    <3>1. project.remaining - batches[i].amount \in Nat /\ project.issued + batches[i].amount \in Nat
      BY <1>0, <2>2, <2>4 DEF ApproveBatch, Enough, Project
    <3>2. project' \in Project
      BY <1>0, <2>4, <3>1 DEF ApproveBatch, Project, Statuses
    <3> QED
      BY <1>0, <1>q, <2>1, <2>4, <3>2 DEF ApproveBatch
  <2> QED
    BY <1>3, <2>3, <2>4
<1>4. ASSUME NEW p \in Sessions, NEW w \in Window, Notes(p, w) PROVE ProjectTypeOK'
  BY <1>0, <1>4, <1>q, <1>w DEF Notes
<1>5. ASSUME NEW p \in Sessions, NEW n \in Budgets, ReadUpdate(p, n) PROVE ProjectTypeOK'
  BY <1>4, <1>5, WindowFacts DEF ReadUpdate
<1>6. ASSUME NEW p \in Sessions, SyncBudgets(p) \/ Touch(p) PROVE ProjectTypeOK'
  <2>1. project' \in Project
    BY <1>0, <1>6, WindowFacts, SMTT(20) DEF SyncBudgets, Touch, Project
  <2>2. windows' \in [Sessions -> Window]
    BY <1>6, <1>w, WindowFacts DEF SyncBudgets, Touch
  <2> QED
    BY <1>0, <1>6, <1>q, <2>1, <2>2 DEF SyncBudgets, Touch
<1>7. ASSUME NEW p \in Sessions, ReadSubmit(p) PROVE ProjectTypeOK'
  <2>1. [op |-> "submit", version |-> project.version, amount |-> project.requested] \in Window
    BY <1>0, WindowFacts DEF Project
  <2> QED
    BY <1>4, <1>7, <2>1 DEF ReadSubmit
<1>8. ASSUME NEW p \in Sessions, Submit(p) PROVE ProjectTypeOK'
  <2>1. windows[p].amount \in Budgets
    BY <1>0, <1>8, WindowFacts DEF Submit
  <2>2. \A u \in DOMAIN plans' : plans'[u] \in PlanRow
    BY <1>0, <1>8, <2>1 DEF Submit, PlanRow, Decision
  <2>3. windows' \in [Sessions -> Window]
    BY <1>8, <1>w, WindowFacts DEF Submit
  <2>4. project' \in Project
    BY <1>0, <1>8, <1>v DEF Submit, Project, Statuses
  <2> QED
    BY <1>0, <1>8, <1>q, <2>2, <2>3, <2>4 DEF Submit
<1>9. ASSUME NEW p \in Sessions, ReadActivate(p) PROVE ProjectTypeOK'
  BY <1>4, <1>9, WindowFacts DEF ReadActivate
<1>10. ASSUME NEW p \in Sessions, Activate(p) PROVE ProjectTypeOK'
  BY <1>0, <1>10, <1>q, <1>w, WindowFacts DEF Activate, Project, Statuses
<1>11. ASSUME NEW p \in Sessions, NEW n \in Awards, ReadIssue(p, n) PROVE ProjectTypeOK'
  BY <1>4, <1>11, WindowFacts DEF ReadIssue
<1>12. ASSUME NEW p \in Sessions, Issue(p) PROVE ProjectTypeOK'
  <2>1. [amount |-> windows[p].amount, status |-> "PENDING"] \in Batch
    BY <1>0, <1>12, WindowFacts DEF Issue, Batch, Decision
  <2>2. batches' \in Seq(Batch)
    BY <1>0, <1>12, <2>1, AppendProperties DEF Issue
  <2>4. project' \in Project
    BY <1>0, <1>12 DEF Issue, Project, Statuses
  <2>3. windows' \in [Sessions -> Window]
    BY <1>12, <1>w, WindowFacts DEF Issue
  <2> QED
    BY <1>0, <1>12, <1>q, <2>2, <2>3, <2>4 DEF Issue
<1>13. ASSUME NEW p \in Sessions, Complete(p) \/ Close(p) PROVE ProjectTypeOK'
  <2>0. 0 \in Nat
    OBVIOUS
  <2>1. project' \in Project
    <3>1. CASE Complete(p)
      BY <1>0, <3>1 DEF Complete, Project, Statuses
    <3>2. CASE Close(p)
      BY <1>0, <2>0, <3>2 DEF Close, Project, Statuses
    <3> QED
      BY <1>13, <3>1, <3>2
  <2> QED
    BY <1>0, <1>13, <1>q, <2>1 DEF Complete, Close
<1> QED
  BY <1>1, <1>2, <1>3, <1>5, <1>6, <1>7, <1>8, <1>9, <1>10, <1>11, <1>12, <1>13
     DEF ProjectStep, Approvers, Manager

(* No two of the keys are the same.                                          *)
LEMMA KeysDiffer ==
  /\ FundKey # ReturnKey
  /\ {FundKey, ReturnKey} \cap (Requests \cup ClearKeys) = {}
  /\ \A k \in Gives : GiveKey(k) \notin {FundKey, ReturnKey} \cup Requests \cup ClearKeys
  /\ \A k, j : GiveKey(k) = GiveKey(j) => k = j
<1>1. FundKey # ReturnKey /\ \A i : FundKey # ClearKey(i) /\ ReturnKey # ClearKey(i)
  BY DEF FundKey, ReturnKey, ClearKey
<1>2. \A k, i : GiveKey(k) # ClearKey(i) /\ GiveKey(k) # FundKey /\ GiveKey(k) # ReturnKey
  BY DEF GiveKey, ClearKey, FundKey, ReturnKey
<1>3. \A k, j : GiveKey(k) = GiveKey(j) => k = j
  BY DEF GiveKey
<1>4. Requests \cap ({FundKey, ReturnKey} \cup {GiveKey(k) : k \in Gives}) = {}
  BY KeysAssumption DEF DerivedKeys
<1> QED
  BY <1>1, <1>2, <1>3, <1>4 DEF ClearKeys

LEMMA ApprovePlanPosts ==
  ASSUME BankInv, ProjectTypeOK, NEW v \in DOMAIN plans, ApprovePlan(v)
  PROVE  PostedOn(bank, bank', FundKey, -project.requested)
<1>1. project.requested \in Nat \ {0}
  BY ProjectsAssumption DEF ProjectTypeOK, Project
<1>2. FundKey \notin DOMAIN bank.entries \cup ClearKeys
  BY KeysDiffer DEF ApprovePlan, Posted
<1>3. "PROJECT_FUNDING" \in Types \ {"CYCLE_CLEAR"}
  BY DEF Types
<1>4. bank' = Debited(bank, FundKey, "PROJECT_FUNDING", project.requested) /\ CanDebit(bank, project.requested)
  BY DEF ApprovePlan
<1> QED
  BY <1>1, <1>2, <1>3, <1>4, DebitedFacts DEF BankInv

LEMMA ClosePosts ==
  ASSUME BankInv, ProjectTypeOK, EscrowInv, NEW p \in Sessions, Close(p), project.remaining # 0
  PROVE  PostedOn(bank, bank', ReturnKey, project.remaining)
<1>1. project.remaining \in Nat \ {0}
  BY DEF ProjectTypeOK, Project
<1>2. ReturnKey \notin DOMAIN bank.entries \cup ClearKeys
  BY KeysDiffer DEF EscrowInv, Posted
<1>3. "PROJECT_RETURN" \in Types \ {"CYCLE_CLEAR"}
  BY DEF Types, ReturnTypes
<1>4. bank' = Credited(bank, ReturnKey, "PROJECT_RETURN", project.remaining)
  BY DEF Close
<1> QED
  BY <1>1, <1>2, <1>3, <1>4, CreditedFacts DEF BankInv

LEMMA ProjectStepProceeds ==
  ASSUME BankInv, ProjectTypeOK, EscrowInv, ProjectStep
  PROVE  Proceeds(bank, bank', {FundKey, ReturnKey})
<1>1. CASE bank' = bank
  BY <1>1, RestProceeds DEF BankInv
<1>2. ASSUME NEW v \in DOMAIN plans, ApprovePlan(v) PROVE Proceeds(bank, bank', {FundKey, ReturnKey})
  BY <1>2, ApprovePlanPosts, PostedProceeds DEF Proceeds, Grows
<1>3. ASSUME NEW p \in Sessions, Close(p) PROVE Proceeds(bank, bank', {FundKey, ReturnKey})
  <2>1. CASE project.remaining = 0
    BY <1>1, <1>3, <2>1 DEF Close
  <2>2. CASE project.remaining # 0
    BY <1>3, <2>2, ClosePosts, PostedProceeds DEF Proceeds, Grows
  <2> QED
    BY <2>1, <2>2
<1> QED
  BY <1>1, <1>2, <1>3
     DEF ProjectStep, Approvers, Manager, RejectPlan, RejectBatch, ApproveBatch, ReadUpdate, Notes,
         bankVars, SyncBudgets, Touch, ReadSubmit, Submit, ReadActivate, Activate, Complete, ReadIssue, Issue

(* The postings the escrow is made of stay, whatever else is posted.         *)
LEMMA MovedStays ==
  ASSUME NEW K, Grows(bank, bank', K), NEW k, k \in DOMAIN bank.entries \/ k \notin K \cup ClearKeys
  PROVE  Moved(k)' = Moved(k) /\ Posted(bank', k) = Posted(bank, k)
BY DEF Grows, Moved, Posted

LEMMA MovedInt == ASSUME BankOK(bank), NEW k PROVE Moved(k) \in Int
BY DEF BankOK, Shaped, Entry, Moved, Posted

LEMMA EscrowStays ==
  ASSUME EscrowInv, NEW K, Grows(bank, bank', K), {FundKey, ReturnKey} \cap K = {},
         UNCHANGED <<project, batches>>
  PROVE  EscrowInv'
<1>1. \A k \in {FundKey, ReturnKey} : Moved(k)' = Moved(k) /\ Posted(bank', k) = Posted(bank, k)
  BY KeysDiffer, MovedStays
<1> QED
  BY <1>1 DEF EscrowInv, Issued

(* What the batches issued, as they come and are decided.                    *)
LEMMA IssuedFacts ==
  ASSUME NEW bs \in Seq(Batch)
  PROVE  /\ IsFiniteSet(DOMAIN bs) /\ DOMAIN Issued(bs) = DOMAIN bs /\ IntOn(Issued(bs), DOMAIN bs)
         /\ SumFunction(Issued(bs)) = SumFunctionOnSet(Issued(bs), DOMAIN bs)
         /\ \A i \in DOMAIN bs : bs[i] \in Batch /\ bs[i].amount \in Nat
<1>1. DOMAIN bs = 1 .. Len(bs) /\ Len(bs) \in Nat /\ \A i \in DOMAIN bs : bs[i] \in Batch
  BY LenProperties, ElementOfSeq
<1>2. IsFiniteSet(DOMAIN bs)
  BY <1>1, FS_Interval
<1>3. \A i \in DOMAIN bs : bs[i].amount \in Nat
  BY <1>1, ProjectsAssumption DEF Batch
<1>4. DOMAIN Issued(bs) = DOMAIN bs
  BY DEF Issued
<1>5. SumFunction(Issued(bs)) = SumFunctionOnSet(Issued(bs), DOMAIN Issued(bs))
  BY DEF SumFunction, SumFunctionOnSet, FoldFunction
<1> QED
  BY <1>1, <1>2, <1>3, <1>4, <1>5 DEF IntOn, Issued

LEMMA IssuedLater ==
  ASSUME NEW bs \in Seq(Batch), NEW b \in Batch, b.status # "APPROVED"
  PROVE  SumFunction(Issued(Append(bs, b))) = SumFunction(Issued(bs))
<1> DEFINE cs == Append(bs, b)
           n == Len(bs) + 1
<1>1. /\ cs \in Seq(Batch) /\ DOMAIN cs = DOMAIN bs \cup {n} /\ n \notin DOMAIN bs /\ cs[n] = b
      /\ \A i \in DOMAIN bs : cs[i] = bs[i]
  BY AppendProperties, LenProperties
<1> HIDE DEF cs, n
<1>2. Issued(cs)[n] = 0 /\ \A i \in DOMAIN bs : Issued(cs)[i] = Issued(bs)[i]
  BY <1>1 DEF Issued
<1>3. IsFiniteSet(DOMAIN bs) /\ IntOn(Issued(cs), DOMAIN bs) /\ IntOn(Issued(bs), DOMAIN bs)
  BY <1>1, IssuedFacts DEF IntOn
<1>4. SumFunctionOnSet(Issued(cs), DOMAIN bs) = SumFunctionOnSet(Issued(bs), DOMAIN bs)
  BY <1>2, <1>3, SumSame
<1>5. SumFunctionOnSet(Issued(cs), DOMAIN cs) = 0 + SumFunctionOnSet(Issued(cs), DOMAIN bs)
  BY <1>1, <1>2, <1>3, SumAdd
<1>6. SumFunctionOnSet(Issued(bs), DOMAIN bs) \in Int
  BY <1>3, SumType
<1>7. /\ SumFunction(Issued(cs)) = SumFunctionOnSet(Issued(cs), DOMAIN cs)
      /\ SumFunction(Issued(bs)) = SumFunctionOnSet(Issued(bs), DOMAIN bs)
  BY <1>1, IssuedFacts
<1>8. SumFunction(Issued(cs)) = SumFunction(Issued(bs))
  BY <1>4, <1>5, <1>6, <1>7
<1> QED
  BY <1>8 DEF cs

LEMMA IssuedDecided ==
  ASSUME NEW bs \in Seq(Batch), NEW i \in DOMAIN bs, bs[i].status = "PENDING",
         NEW s \in {"APPROVED", "REJECTED"}
  PROVE  SumFunction(Issued([bs EXCEPT ![i].status = s])) =
           SumFunction(Issued(bs)) + (IF s = "APPROVED" THEN bs[i].amount ELSE 0)
<1> DEFINE c == [bs[i] EXCEPT !.status = s]
           cs == [bs EXCEPT ![i] = c]
<1>1. bs[i] \in Batch /\ i \in 1 .. Len(bs)
  BY ElementOfSeq, LenProperties
<1>2. c \in Batch /\ c.status = s /\ c.amount = bs[i].amount
  BY <1>1 DEF Batch, Decision
<1> HIDE DEF c
<1>3. cs \in Seq(Batch) /\ DOMAIN cs = DOMAIN bs /\ cs[i] = c /\ \A j \in DOMAIN bs \ {i} : cs[j] = bs[j]
  BY <1>1, <1>2, ExceptSeq
<1> HIDE DEF cs
<1>4. Issued(bs)[i] = 0 /\ Issued(cs)[i] = IF s = "APPROVED" THEN bs[i].amount ELSE 0
  BY <1>2, <1>3 DEF Issued
<1>5. \A j \in DOMAIN bs \ {i} : Issued(cs)[j] = Issued(bs)[j]
  BY <1>3 DEF Issued
<1>6. /\ IsFiniteSet(DOMAIN bs) /\ IntOn(Issued(cs), DOMAIN bs) /\ IntOn(Issued(bs), DOMAIN bs)
      /\ SumFunctionOnSet(Issued(bs), DOMAIN bs) \in Int
  BY <1>3, IssuedFacts, SumType
<1>7. SumFunctionOnSet(Issued(cs), DOMAIN bs)
        = SumFunctionOnSet(Issued(bs), DOMAIN bs) - Issued(bs)[i] + Issued(cs)[i]
  BY <1>5, <1>6, SumChange
<1>8. [bs EXCEPT ![i].status = s] = cs
  BY DEF cs, c
<1>9. bs[i].amount \in Nat
  BY IssuedFacts
<1>10. /\ SumFunction(Issued(cs)) = SumFunctionOnSet(Issued(cs), DOMAIN bs)
       /\ SumFunction(Issued(bs)) = SumFunctionOnSet(Issued(bs), DOMAIN bs)
  BY <1>3, IssuedFacts
<1>11. SumFunction(Issued(cs)) = SumFunction(Issued(bs)) + (IF s = "APPROVED" THEN bs[i].amount ELSE 0)
  BY <1>4, <1>6, <1>7, <1>9, <1>10
<1> QED
  BY <1>8, <1>11

LEMMA EscrowStep ==
  ASSUME BankInv, ProjectTypeOK, EscrowInv, ProjectStep
  PROVE  EscrowInv'
<1>0. /\ BankOK(bank) /\ project \in Project /\ batches \in Seq(Batch)
      /\ project.remaining \in Nat /\ project.issued \in Nat /\ project.approved \in Nat
      /\ Moved(FundKey) \in Int /\ Moved(ReturnKey) \in Int
  BY MovedInt DEF BankInv, ProjectTypeOK, Project, Batch
<1>b. \A i \in DOMAIN batches : batches[i] \in Batch /\ batches[i].amount \in Nat \ {0}
  BY <1>0, IssuedFacts, ProjectsAssumption DEF Batch
<1>1. CASE /\ bank' = bank
           /\ project'.remaining = project.remaining /\ project'.issued = project.issued
           /\ project'.approved = project.approved
           /\ project'.status = "CLOSED" => project.status = "CLOSED" \/ project.remaining = 0
           /\ SumFunction(Issued(batches))' = SumFunction(Issued(batches))
  BY <1>1 DEF EscrowInv, Moved
<1>2. ASSUME NEW v \in DOMAIN plans, ApprovePlan(v) PROVE EscrowInv'
  <2>1. PostedOn(bank, bank', FundKey, -project.requested)
    BY <1>2, ApprovePlanPosts
  <2>2. Moved(FundKey)' = -project.requested /\ Posted(bank', FundKey) /\ ~Posted(bank, FundKey)
    BY <1>2, <2>1 DEF PostedOn, Moved, Posted, ApprovePlan
  <2>3. Moved(ReturnKey)' = Moved(ReturnKey) /\ Posted(bank', ReturnKey) = Posted(bank, ReturnKey)
    BY <2>1, KeysDiffer, MovedStays DEF PostedOn
  <2>4. Moved(ReturnKey) = 0 /\ ~Posted(bank, ReturnKey) /\ project.issued = 0
    BY <2>2 DEF EscrowInv, Moved
  <2>5. /\ project'.remaining = project.requested /\ project'.approved = project.requested
        /\ project'.issued = project.issued /\ project'.status = "APPROVED" /\ batches' = batches
        /\ project.requested \in Nat
    BY <1>0, <1>2, ProjectsAssumption DEF ApprovePlan, Project
  <2>6. SumFunction(Issued(batches))' = project'.issued
    BY <2>5 DEF EscrowInv
  <2> QED
    BY <2>2, <2>3, <2>4, <2>5, <2>6 DEF EscrowInv
<1>3. ASSUME NEW p \in Sessions, Close(p), project.remaining # 0 PROVE EscrowInv'
  <2>1. PostedOn(bank, bank', ReturnKey, project.remaining)
    BY <1>3, ClosePosts
  <2>2. Moved(ReturnKey)' = project.remaining /\ Posted(bank', ReturnKey)
    BY <2>1 DEF PostedOn, Moved, Posted
  <2>3. Moved(FundKey)' = Moved(FundKey) /\ Posted(bank', FundKey) = Posted(bank, FundKey)
    BY <2>1, KeysDiffer, MovedStays DEF PostedOn
  <2>4. Moved(ReturnKey) = 0 /\ Posted(bank, FundKey)
    BY <1>3 DEF EscrowInv, Moved
  <2>5. /\ project'.remaining = 0 /\ project'.approved = project.approved
        /\ project'.issued = project.issued /\ batches' = batches
    BY <1>0, <1>3 DEF Close, Project
  <2>6. SumFunction(Issued(batches))' = project'.issued
    BY <2>5 DEF EscrowInv
  <2> QED
    BY <1>0, <2>2, <2>3, <2>4, <2>5, <2>6 DEF EscrowInv
<1>4. ASSUME NEW p \in Sessions, Close(p), project.remaining = 0 PROVE EscrowInv'
  BY <1>0, <1>1, <1>4 DEF Close, Project
<1>5. ASSUME NEW i \in DOMAIN batches, ApproveBatch(i) PROVE EscrowInv'
  <2>1. SumFunction(Issued(batches))' = SumFunction(Issued(batches)) + batches[i].amount
    BY <1>0, <1>5, IssuedDecided DEF ApproveBatch
  <2>2. /\ project'.remaining = project.remaining - batches[i].amount
        /\ project'.issued = project.issued + batches[i].amount
        /\ project'.approved = project.approved /\ project'.status = "ISSUED" /\ bank' = bank
        /\ batches[i].amount <= project.remaining
    BY <1>0, <1>5 DEF ApproveBatch, Enough, Project, bankVars
  <2>3. project.remaining # 0
    BY <1>0, <1>b, <2>2
  <2>4. Posted(bank, FundKey) /\ ~Posted(bank, ReturnKey)
    BY <2>3 DEF EscrowInv
  <2>5. Moved(FundKey)' = Moved(FundKey) /\ Moved(ReturnKey)' = Moved(ReturnKey)
    BY <2>2 DEF Moved
  <2> QED
    BY <1>0, <1>b, <2>1, <2>2, <2>4, <2>5 DEF EscrowInv
<1>6. ASSUME NEW i \in DOMAIN batches, RejectBatch(i) PROVE EscrowInv'
  <2>1. SumFunction(Issued(batches))' = SumFunction(Issued(batches)) + 0
    BY <1>0, <1>6, IssuedDecided DEF RejectBatch
  <2>2. SumFunction(Issued(batches)) \in Int
    BY <1>0 DEF EscrowInv
  <2> QED
    BY <1>0, <1>1, <1>6, <2>1, <2>2 DEF RejectBatch, Project, bankVars
<1>7. ASSUME NEW p \in Sessions, Issue(p) PROVE EscrowInv'
  <2>1. [amount |-> windows[p].amount, status |-> "PENDING"] \in Batch
    BY <1>7, WindowFacts DEF ProjectTypeOK, Issue, Batch, Decision
  <2>2. SumFunction(Issued(batches))' = SumFunction(Issued(batches))
    BY <1>0, <1>7, <2>1, IssuedLater DEF Issue
  <2> QED
    BY <1>0, <1>1, <1>7, <2>2 DEF Issue, Project, bankVars
<1>8. ASSUME NEW p \in Sessions, SyncBudgets(p) \/ Touch(p) \/ Submit(p) \/ Activate(p) \/ Complete(p)
      PROVE  EscrowInv'
  BY <1>0, <1>1, <1>8 DEF SyncBudgets, Touch, Submit, Activate, Complete, Project, bankVars
<1>9. ASSUME NEW v \in DOMAIN plans, RejectPlan(v) PROVE EscrowInv'
  BY <1>0, <1>1, <1>9 DEF RejectPlan, Project, bankVars
<1>10. ASSUME NEW p \in Sessions, NEW w, Notes(p, w) PROVE EscrowInv'
  BY <1>0, <1>1, <1>10 DEF Notes, bankVars
<1> QED
  BY <1>2, <1>3, <1>4, <1>5, <1>6, <1>7, <1>8, <1>9, <1>10
     DEF ProjectStep, Approvers, Manager, ReadUpdate, ReadSubmit, ReadActivate, ReadIssue

-----------------------------------------------------------------------------
(***************************************************************************)
(* The gives.                                                              *)
(***************************************************************************)

Asked == [stage : {"found", "posting"}, key : Gives, row : Nat, own : Allowance]

\* The allowance a give has found is there, or is the one it brings.
Found(g) ==
  /\ g \in Asked
  /\ g.row \in DOMAIN allowances \cup {0}
  /\ g.row = 0 => g.own.remaining \in 0 .. g.own.allocated

GiveShaped ==
  /\ allowances \in Seq(Allowance)
  /\ DOMAIN given \subseteq Gives
  /\ \A k \in DOMAIN given : given[k] \in [row : DOMAIN allowances, at : 0 .. clock]
  /\ giver \in {"ACTIVE", "INACTIVE"}
  /\ giving \in [Sessions -> Give]
  /\ \A p \in Sessions : giving[p].stage # "none" => Found(giving[p])

\* What a give has checked holds until it commits: it has locked the rows.
Pays(g) ==
  /\ g.key \notin DOMAIN given /\ Posted(bank, GiveKey(g.key))
  /\ EnoughLeft(g)
  /\ PairTotal(To[g.key], clock - PairPeriod) + Points[g.key] <= PairLimit

GiveInv ==
  /\ GiveShaped
  /\ \A p, q \in Posting : p = q
  /\ \A p \in Posting : Pays(giving[p])
  /\ SpentWithinAllowance
  /\ PairLimitKept

LEMMA PointsFacts ==
  ASSUME NEW T \in SUBSET Gives, NEW S \in SUBSET T
  PROVE  /\ IsFiniteSet(T) /\ IntOn(Points, T) /\ SumFunctionOnSet(Points, T) \in Nat
         /\ SumFunctionOnSet(Points, S) <= SumFunctionOnSet(Points, T)
<1>1. ASSUME NEW U \in SUBSET Gives
      PROVE  IsFiniteSet(U) /\ IntOn(Points, U) /\ SumFunctionOnSet(Points, U) \in Nat
  <2>1. IsFiniteSet(U)
    BY GivesAssumption, FS_Subset
  <2>2. IntOn(Points, U) /\ \A x \in U : Points[x] >= 0
    BY GivesAssumption DEF IntOn
  <2> QED
    BY <2>1, <2>2, SumType
<1>2. S \cup (T \ S) = T /\ S \cap (T \ S) = {}
  OBVIOUS
<1>3. SumFunctionOnSet(Points, T) = SumFunctionOnSet(Points, S) + SumFunctionOnSet(Points, T \ S)
  BY <1>1, <1>2, SumDisjoint
<1> QED
  BY <1>1, <1>3

LEMMA GiveFacts ==
  ASSUME GiveInv
  PROVE  /\ \A i \in DOMAIN allowances : /\ i \in 1 .. Len(allowances) /\ allowances[i] \in Allowance
                                         /\ allowances[i].remaining \in Nat
         /\ \A p \in Posting : p \in Sessions /\ giving[p].stage = "posting" /\ Found(giving[p])
         /\ \A k \in DOMAIN given : k \in Gives /\ given[k].at \in 0 .. clock /\ given[k].row \in DOMAIN allowances
<1>1. ASSUME NEW i \in DOMAIN allowances
      PROVE  i \in 1 .. Len(allowances) /\ allowances[i] \in Allowance /\ allowances[i].remaining \in Nat
  <2>1. i \in 1 .. Len(allowances) /\ allowances[i] \in Allowance
    BY ElementOfSeq, LenProperties DEF GiveInv, GiveShaped
  <2>2. allowances[i].remaining >= 0
    BY DEF GiveInv, SpentWithinAllowance
  <2>3. allowances[i].remaining \in Int
    BY <2>1 DEF Allowance
  <2> QED
    BY <2>1, <2>2, <2>3
<1>2. \A p \in Posting : p \in Sessions /\ giving[p].stage = "posting" /\ Found(giving[p])
  BY DEF GiveInv, GiveShaped, Posting
<1>3. \A k \in DOMAIN given : k \in Gives /\ given[k].at \in 0 .. clock /\ given[k].row \in DOMAIN allowances
  BY DEF GiveInv, GiveShaped
<1> QED
  BY <1>1, <1>2, <1>3

(* What others do leaves the gives as they are, and as time passes the pair  *)
(* has had less since then.                                                  *)
LEMMA GiveStays ==
  ASSUME BankInv, GiveInv, NEW K, Grows(bank, bank', K), UNCHANGED giveVars,
         clock' \in {clock, clock + 1}
  PROVE  GiveInv'
<1>0. clock \in Nat /\ clock' \in Nat /\ clock <= clock'
  BY DEF BankInv
<1>1. \A k : Posted(bank, GiveKey(k)) => Posted(bank', GiveKey(k))
  BY DEF Grows, Posted
<1>2. GiveShaped'
  <2>1. \A k \in DOMAIN given : given[k] \in [row : DOMAIN allowances, at : 0 .. clock']
    BY <1>0 DEF GiveInv, GiveShaped
  <2> QED
    BY <2>1 DEF GiveInv, GiveShaped, Found, giveVars
<1>3. SpentWithinAllowance' /\ PairLimitKept' /\ Posting' = Posting
  BY <1>1 DEF GiveInv, SpentWithinAllowance, PairLimitKept, giveVars, Posting
<1>4. ASSUME NEW p \in Posting PROVE Pays(giving[p])'
  <2> DEFINE g == giving[p]
             S == {k \in DOMAIN given : To[k] = To[g.key] /\ given[k].at >= clock - PairPeriod}
             T == {k \in DOMAIN given : To[k] = To[g.key] /\ given[k].at >= clock' - PairPeriod}
  <2>1. T \subseteq S /\ S \subseteq Gives
    BY <1>0, GivesAssumption, GiveFacts
  <2>2. /\ SumFunctionOnSet(Points, T) <= SumFunctionOnSet(Points, S)
        /\ SumFunctionOnSet(Points, S) \in Nat /\ SumFunctionOnSet(Points, T) \in Nat
    BY <2>1, PointsFacts
  <2>3. SumFunctionOnSet(Points, S) + Points[g.key] <= PairLimit /\ Points[g.key] \in Nat
    BY GiveFacts, GivesAssumption DEF GiveInv, Pays, PairTotal, Found, Asked
  <2>4. SumFunctionOnSet(Points, T) + Points[g.key] <= PairLimit
    BY <2>2, <2>3, GivesAssumption
  <2>5. PairTotal(To[g.key], clock - PairPeriod)' = SumFunctionOnSet(Points, T)
    BY DEF PairTotal, giveVars
  <2> QED
    BY <1>1, <2>4, <2>5 DEF GiveInv, Pays, EnoughLeft, giveVars
<1> QED
  BY <1>2, <1>3, <1>4 DEF GiveInv, giveVars

LEMMA FindAllowanceKeeps ==
  ASSUME BankInv, GiveInv, NEW p \in Sessions, NEW k \in Gives, FindAllowance(p, k)
  PROVE  GiveInv'
<1>0. UNCHANGED <<bankVars, allowances, given, giver>> /\ giving \in [Sessions -> Give] /\ clock \in Nat
  BY DEF FindAllowance, GiveInv, GiveShaped, BankInv
<1>1. PICK g \in Asked : Found(g) /\ g.stage = "found" /\ giving' = [giving EXCEPT ![p] = g]
  <2>1. CASE \E i \in Current : giving' = [giving EXCEPT ![p] =
                [stage |-> "found", key |-> k, row |-> i, own |-> allowances[i]]]
    <3>1. PICK i \in Current : giving' = [giving EXCEPT ![p] =
                [stage |-> "found", key |-> k, row |-> i, own |-> allowances[i]]]
      BY <2>1
    <3>2. i \in DOMAIN allowances /\ i \in Nat /\ i # 0 /\ allowances[i] \in Allowance
      BY GiveFacts DEF Current, Latest
    <3> DEFINE g == [stage |-> "found", key |-> k, row |-> i, own |-> allowances[i]]
    <3>3. g \in Asked /\ g.stage = "found" /\ g.row = i
      BY <3>2 DEF Asked
    <3> QED
      BY <3>1, <3>2, <3>3 DEF Found
  <2>2. CASE \E c \in CarriedOver : giving' = [giving EXCEPT ![p] =
                [stage |-> "found", key |-> k, row |-> 0, own |-> NewAllowance(c)]]
    <3>1. PICK c \in CarriedOver : giving' = [giving EXCEPT ![p] =
                [stage |-> "found", key |-> k, row |-> 0, own |-> NewAllowance(c)]]
      BY <2>2
    <3>2. c \in Nat
      BY <3>1, GiveFacts DEF CarriedOver, Latest
    <3>3. AllowanceAmount + c \in Nat /\ clock + CycleLength \in Nat
      BY <1>0, <3>2, GivesAssumption
    <3>4. /\ NewAllowance(c) \in Allowance
          /\ NewAllowance(c).remaining \in 0 .. NewAllowance(c).allocated
      BY <1>0, <3>3 DEF NewAllowance, Allowance
    <3> DEFINE g == [stage |-> "found", key |-> k, row |-> 0, own |-> NewAllowance(c)]
    <3>5. g \in Asked /\ g.stage = "found" /\ g.row = 0 /\ g.own = NewAllowance(c)
      BY <3>4 DEF Asked
    <3> QED
      BY <3>1, <3>4, <3>5 DEF Found
  <2> QED
    BY <2>1, <2>2 DEF FindAllowance
<1>2. giving' \in [Sessions -> Give] /\ giving'[p] = g /\ \A q \in Sessions \ {p} : giving'[q] = giving[q]
  BY <1>0, <1>1 DEF Give, Asked
<1>3. Posting' = Posting /\ p \notin Posting
  BY <1>1, <1>2 DEF Posting, FindAllowance, NoGive
<1>4. GiveShaped'
  <2>1. \A q \in Sessions : giving'[q].stage # "none" => Found(giving'[q])
    BY <1>1, <1>2 DEF GiveInv, GiveShaped
  <2>2. clock' = clock /\ allowances' = allowances /\ given' = given /\ giver' = giver
    BY <1>0 DEF bankVars
  <2>3. (\A q \in Sessions : giving[q].stage # "none" => Found(giving[q]))'
    BY <2>1, <2>2 DEF Found
  <2> QED
    BY <1>2, <2>2, <2>3 DEF GiveInv, GiveShaped
<1>5. ASSUME NEW q \in Posting PROVE Pays(giving[q])'
  <2>1. giving'[q] = giving[q]
    BY <1>2, <1>3, GiveFacts
  <2> QED
    BY <1>0, <2>1 DEF GiveInv, Pays, EnoughLeft, PairTotal, bankVars
<1>6. SpentWithinAllowance' /\ PairLimitKept'
  BY <1>0 DEF GiveInv, SpentWithinAllowance, PairLimitKept, bankVars
<1> QED
  BY <1>3, <1>4, <1>5, <1>6 DEF GiveInv

LEMMA PostGivePosts ==
  ASSUME BankInv, GiveInv, NEW p \in Sessions, PostGive(p)
  PROVE  PostedOn(bank, bank', GiveKey(giving[p].key), -Points[giving[p].key]) /\ giving[p].key \in Gives
<1> DEFINE k == giving[p].key
<1>1. k \in Gives /\ Points[k] \in Nat \ {0}
  BY GivesAssumption DEF PostGive, GiveInv, GiveShaped, Found, Asked
<1>2. GiveKey(k) \notin DOMAIN bank.entries \cup ClearKeys
  BY <1>1, KeysDiffer DEF PostGive, Posted
<1>3. "GIVE_ALLOCATION" \in Types \ {"CYCLE_CLEAR"}
  BY DEF Types
<1>4. bank' = Debited(bank, GiveKey(k), "GIVE_ALLOCATION", Points[k]) /\ CanDebit(bank, Points[k])
  BY DEF PostGive
<1> HIDE DEF k
<1>5. PostedOn(bank, bank', GiveKey(k), -Points[k])
  BY <1>1, <1>2, <1>3, <1>4, DebitedFacts DEF BankInv
<1> QED
  BY <1>1, <1>5 DEF k

LEMMA PostGiveKeeps ==
  ASSUME BankInv, GiveInv, NEW p \in Sessions, PostGive(p)
  PROVE  GiveInv'
<1> DEFINE g == giving[p]
           h == [g EXCEPT !.stage = "posting"]
<1>0. /\ UNCHANGED <<clock, allowances, given, giver>> /\ giving \in [Sessions -> Give]
      /\ g.stage = "found" /\ Found(g)
  BY DEF PostGive, GiveInv, GiveShaped
<1>1. giving' = [giving EXCEPT ![p] = h]
  BY DEF PostGive
<1>2. h \in Asked /\ h.stage = "posting" /\ h.key = g.key /\ h.row = g.row /\ h.own = g.own
  BY <1>0 DEF Found, Asked
<1> HIDE DEF h
<1>3. giving' \in [Sessions -> Give] /\ giving'[p] = h /\ \A q \in Sessions \ {p} : giving'[q] = giving[q]
  BY <1>0, <1>1, <1>2 DEF Give, Asked
<1>4. Posting' = {p}
  BY <1>2, <1>3 DEF Posting, PostGive, BankLocked
<1>5. GiveShaped'
  <2>1. \A q \in Sessions : giving'[q].stage # "none" => Found(giving'[q])
    BY <1>0, <1>2, <1>3 DEF GiveInv, GiveShaped, Found
  <2>2. (\A q \in Sessions : giving[q].stage # "none" => Found(giving[q]))'
    BY <1>0, <2>1 DEF Found
  <2> QED
    BY <1>0, <1>3, <2>2 DEF GiveInv, GiveShaped
<1>6. PostedOn(bank, bank', GiveKey(g.key), -Points[g.key])
  BY PostGivePosts
<1>7. \A k : Posted(bank, GiveKey(k)) => Posted(bank', GiveKey(k))
  BY <1>6 DEF PostedOn, Grows, Posted
<1>8. SpentWithinAllowance' /\ PairLimitKept'
  BY <1>0, <1>7 DEF GiveInv, SpentWithinAllowance, PairLimitKept
<1>9. g.key \notin DOMAIN given
  BY DEF PostGive, GiveInv, SpentWithinAllowance
<1>10. Posted(bank', GiveKey(g.key))
  BY <1>6 DEF PostedOn, Posted
<1>11. EnoughLeft(g) /\ PairTotal(To[g.key], clock - PairPeriod) + Points[g.key] <= PairLimit
  BY DEF PostGive
<1>12. Pays(giving[p])'
  BY <1>0, <1>2, <1>3, <1>9, <1>10, <1>11 DEF Pays, EnoughLeft, PairTotal
<1> QED
  BY <1>4, <1>5, <1>8, <1>12 DEF GiveInv

LEMMA CommitGiveKeeps ==
  ASSUME BankInv, GiveInv, NEW p \in Sessions, CommitGive(p)
  PROVE  GiveInv'
<1> DEFINE g == giving[p]
           k == g.key
           n == Points[k]
           rows == IF g.row = 0 THEN Append(allowances, g.own) ELSE allowances
           i == IF g.row = 0 THEN Len(rows) ELSE g.row
           a == [rows[i] EXCEPT !.remaining = @ - n]
<1>0. /\ bank' = bank /\ clock' = clock /\ giver' = giver /\ giving \in [Sessions -> Give]
      /\ p \in Posting /\ Found(g) /\ Pays(g) /\ k \in Gives /\ n \in Nat \ {0} /\ clock \in Nat
      /\ clock <= Horizon
  BY GivesAssumption, BanksAssumption DEF CommitGive, bankVars, GiveInv, GiveShaped, Posting, Found, Asked, BankInv
<1>1. /\ giving' = [giving EXCEPT ![p] = NoGive] /\ allowances' = [rows EXCEPT ![i] = a]
      /\ given' = [j \in DOMAIN given \cup {k} |->
                    IF j = k THEN [row |-> i, at |-> clock] ELSE given[j]]
  BY DEF CommitGive
<1>2. giving' \in [Sessions -> Give] /\ giving'[p] = NoGive /\ \A q \in Sessions \ {p} : giving'[q] = giving[q]
  BY <1>0, <1>1 DEF Give
<1>3. Posting' = {}
  BY <1>0, <1>2 DEF Posting, NoGive, GiveInv
<1> DEFINE Of(j) == {x \in DOMAIN given : given[x].row = j}
<1>4. /\ rows \in Seq(Allowance) /\ i \in 1 .. Len(rows) /\ DOMAIN allowances \subseteq DOMAIN rows
      /\ \A j \in DOMAIN rows : j # i => j \in DOMAIN allowances /\ rows[j] = allowances[j]
      /\ rows[i].remaining \in Nat /\ n <= rows[i].remaining
      /\ SumFunctionOnSet(Points, Of(i)) + rows[i].remaining <= rows[i].allocated
  <2>1. CASE g.row = 0
    <3>1. g.own \in Allowance /\ g.own.remaining \in Nat /\ n <= g.own.remaining /\ g.own.remaining <= g.own.allocated
      BY <1>0, <2>1 DEF Found, Asked, Allowance, Pays, EnoughLeft
    <3>2. /\ rows \in Seq(Allowance) /\ i = Len(allowances) + 1 /\ Len(rows) = i /\ rows[i] = g.own
          /\ DOMAIN rows = DOMAIN allowances \cup {i} /\ \A j \in DOMAIN allowances : rows[j] = allowances[j]
          /\ i \notin DOMAIN allowances /\ Len(allowances) \in Nat
      BY <2>1, <3>1, AppendProperties, LenProperties DEF GiveInv, GiveShaped
    <3> HIDE DEF rows, i
    <3>3. Of(i) = {}
      BY <3>2, GiveFacts
    <3>4. SumFunctionOnSet(Points, Of(i)) = 0
      BY <3>3, SumEmpty
    <3> HIDE DEF Of
    <3>5. g.own.allocated \in Nat
      BY <3>1 DEF Allowance
    <3> QED
      BY <3>1, <3>2, <3>4, <3>5
  <2>2. CASE g.row # 0
    <3>1. rows = allowances /\ i = g.row /\ i \in DOMAIN allowances
      BY <1>0, <2>2 DEF Found
    <3>2. n <= allowances[i].remaining
      BY <1>0, <2>2, <3>1 DEF Pays, EnoughLeft
    <3> HIDE DEF rows, i
    <3>3. SumFunctionOnSet(Points, Of(i)) + allowances[i].remaining <= allowances[i].allocated
      BY <3>1 DEF GiveInv, SpentWithinAllowance
    <3> HIDE DEF Of
    <3> QED
      BY <3>1, <3>2, <3>3, GiveFacts DEF GiveInv, GiveShaped
  <2> QED
    BY <2>1, <2>2
<1> HIDE DEF rows, i
<1>5. rows[i] \in Allowance /\ \A j \in DOMAIN rows : rows[j] \in Allowance
  BY <1>4, ElementOfSeq, LenProperties
<1>6. a \in Allowance /\ a.remaining = rows[i].remaining - n /\ a.allocated = rows[i].allocated
  <2> HIDE DEF n
  <2>1. rows[i].remaining - n \in Int
    BY <1>0, <1>4 DEF n
  <2> QED
    BY <1>5, <2>1 DEF Allowance
<1> HIDE DEF a
<1>7. /\ allowances' \in Seq(Allowance) /\ DOMAIN allowances' = DOMAIN rows /\ allowances'[i] = a
      /\ i \in DOMAIN allowances'
      /\ \A j \in DOMAIN rows : j # i => allowances'[j] = allowances[j] /\ j \in DOMAIN allowances
  BY <1>1, <1>4, <1>6, ExceptSeq
<1> HIDE DEF n
<1>8. /\ DOMAIN given' = DOMAIN given \cup {k} /\ k \notin DOMAIN given
      /\ given'[k] = [row |-> i, at |-> clock] /\ \A j \in DOMAIN given : given'[j] = given[j]
  BY <1>0, <1>1 DEF Pays
<1>9. GiveShaped'
  <2>1. \A j \in DOMAIN given' : given'[j] \in [row : DOMAIN allowances', at : 0 .. clock]
    <3>1. \A j \in DOMAIN given : given[j] \in [row : DOMAIN allowances, at : 0 .. clock]
      BY DEF GiveInv, GiveShaped
    <3>2. DOMAIN allowances \subseteq DOMAIN allowances'
      BY <1>4, <1>7
    <3>3. given'[k] \in [row : DOMAIN allowances', at : 0 .. clock]
      BY <1>0, <1>7, <1>8
    <3> QED
      BY <1>8, <3>1, <3>2, <3>3
  <2>2. ASSUME NEW q \in Sessions, giving'[q].stage # "none" PROVE Found(giving[q])'
    <3>1. q # p /\ giving'[q] = giving[q]
      BY <1>2, <2>2 DEF NoGive
    <3>2. Found(giving[q])
      BY <2>2, <3>1 DEF GiveInv, GiveShaped
    <3>3. DOMAIN allowances \subseteq DOMAIN allowances'
      BY <1>4, <1>7
    <3>4. giving'[q].row \in DOMAIN allowances' \cup {0}
      BY <3>1, <3>2, <3>3 DEF Found
    <3> QED
      BY <3>1, <3>2, <3>4 DEF Found
  <2>3. DOMAIN given' \subseteq Gives
    BY <1>0, <1>8, GiveFacts
  <2>4. (\A q \in Sessions : giving[q].stage # "none" => Found(giving[q]))'
    BY <2>2
  <2> QED
    BY <1>0, <1>2, <1>7, <2>1, <2>3, <2>4 DEF GiveInv, GiveShaped
<1>10. ASSUME NEW S \in SUBSET Gives, k \notin S
       PROVE  SumFunctionOnSet(Points, S \cup {k}) = n + SumFunctionOnSet(Points, S)
  BY <1>0, <1>10, PointsFacts, SumAdd DEF n
<1>11. SpentWithinAllowance'
  <2>1. ASSUME NEW j \in DOMAIN allowances'
        PROVE  /\ allowances'[j].remaining >= 0
               /\ SumFunctionOnSet(Points, {x \in DOMAIN given' : given'[x].row = j})
                    + allowances'[j].remaining <= allowances'[j].allocated
    <3>1. CASE j = i
      <4>1. {x \in DOMAIN given' : given'[x].row = i} = Of(i) \cup {k} /\ k \notin Of(i) /\ Of(i) \subseteq Gives
        BY <1>8, GiveFacts
      <4>2. SumFunctionOnSet(Points, {x \in DOMAIN given' : given'[x].row = i})
              = n + SumFunctionOnSet(Points, Of(i))
        BY <1>10, <4>1
      <4>3. SumFunctionOnSet(Points, Of(i)) \in Nat
        BY <4>1, PointsFacts
      <4>4. rows[i].allocated \in Nat /\ n \in Nat
        BY <1>0, <1>5 DEF Allowance, n
      <4> HIDE DEF Of
      <4> QED
        BY <1>4, <1>6, <1>7, <3>1, <4>2, <4>3, <4>4
    <3>2. CASE j # i
      <4>1. {x \in DOMAIN given' : given'[x].row = j} = {x \in DOMAIN given : given[x].row = j}
        BY <1>8, <3>2
      <4>2. allowances'[j] = allowances[j] /\ j \in DOMAIN allowances
        BY <1>7, <3>2
      <4> QED
        BY <4>1, <4>2 DEF GiveInv, SpentWithinAllowance
    <3> QED
      BY <3>1, <3>2
  <2>2. \A x \in DOMAIN given' : Posted(bank', GiveKey(x))
    BY <1>0, <1>8 DEF Pays, GiveInv, SpentWithinAllowance
  <2> QED
    BY <2>1, <2>2 DEF SpentWithinAllowance
<1>12. PairLimitKept'
  <2> SUFFICES ASSUME NEW r \in {To[x] : x \in Gives}, NEW from \in 0 .. Horizon
               PROVE  SumFunctionOnSet(Points,
                        {x \in DOMAIN given' : To[x] = r /\ given'[x].at \in from .. from + PairPeriod})
                        <= PairLimit
    BY DEF PairLimitKept
  <2> DEFINE S == {x \in DOMAIN given : To[x] = r /\ given[x].at \in from .. from + PairPeriod}
             T == {x \in DOMAIN given' : To[x] = r /\ given'[x].at \in from .. from + PairPeriod}
             R == {x \in DOMAIN given : To[x] = To[k] /\ given[x].at >= clock - PairPeriod}
  <2>0. PairPeriod \in Nat /\ PairLimit \in Nat /\ from \in Nat
    BY GivesAssumption, BanksAssumption
  <2>1. SumFunctionOnSet(Points, S) <= PairLimit
    BY DEF GiveInv, PairLimitKept
  <2>2. CASE To[k] = r /\ clock \in from .. from + PairPeriod
    <3>1. T = S \cup {k} /\ k \notin S /\ S \subseteq Gives
      BY <1>8, <2>2, GiveFacts
    <3>2. S \subseteq R /\ R \subseteq Gives
      BY <1>0, <2>0, <2>2, GiveFacts
    <3>3. SumFunctionOnSet(Points, T) = n + SumFunctionOnSet(Points, S)
      BY <1>10, <3>1
    <3>4. /\ SumFunctionOnSet(Points, S) <= SumFunctionOnSet(Points, R)
          /\ SumFunctionOnSet(Points, S) \in Nat /\ SumFunctionOnSet(Points, R) \in Nat
      BY <3>1, <3>2, PointsFacts
    <3>5. SumFunctionOnSet(Points, R) + n <= PairLimit
      BY <1>0 DEF Pays, PairTotal, n
    <3>6. n \in Nat
      BY <1>0 DEF n
    <3> HIDE DEF S, T, R
    <3>7. SumFunctionOnSet(Points, T) <= PairLimit
      BY <2>0, <3>3, <3>4, <3>5, <3>6
    <3> QED
      BY <3>7 DEF T
  <2>3. CASE ~(To[k] = r /\ clock \in from .. from + PairPeriod)
    <3>1. T = S
      BY <1>8, <2>3
    <3> QED
      BY <2>1, <3>1
  <2> QED
    BY <2>2, <2>3
<1> QED
  BY <1>3, <1>9, <1>11, <1>12 DEF GiveInv

LEMMA RefuseGiveKeeps ==
  ASSUME BankInv, GiveInv, NEW p \in Sessions, RefuseGive(p)
  PROVE  GiveInv'
<1>1. /\ UNCHANGED <<bank, clock, allowances, given, giver>> /\ giving \in [Sessions -> Give]
      /\ giving[p].stage = "found" /\ giving' = [giving EXCEPT ![p] = NoGive]
  BY DEF RefuseGive, bankVars, GiveInv, GiveShaped
<1>2. giving' \in [Sessions -> Give] /\ giving'[p] = NoGive /\ \A q \in Sessions \ {p} : giving'[q] = giving[q]
  BY <1>1 DEF Give
<1>3. Posting' = Posting /\ p \notin Posting
  BY <1>1, <1>2 DEF Posting, NoGive
<1>4. GiveShaped'
  <2>1. (\A q \in Sessions : giving[q].stage # "none" => Found(giving[q]))'
    BY <1>1, <1>2 DEF GiveInv, GiveShaped, Found, NoGive
  <2> QED
    BY <1>1, <1>2, <2>1 DEF GiveInv, GiveShaped
<1>5. ASSUME NEW q \in Posting PROVE Pays(giving[q])'
  <2>1. giving'[q] = giving[q]
    BY <1>2, <1>3, GiveFacts
  <2> QED
    BY <1>1, <2>1 DEF GiveInv, Pays, EnoughLeft, PairTotal
<1>6. SpentWithinAllowance' /\ PairLimitKept'
  BY <1>1 DEF GiveInv, SpentWithinAllowance, PairLimitKept
<1> QED
  BY <1>3, <1>4, <1>5, <1>6 DEF GiveInv

(* A leaver's allowances are emptied, but for those a give holds, which are  *)
(* over.                                                                     *)
LEMMA LeaveKeeps ==
  ASSUME BankInv, GiveInv, NEW p \in Sessions, Leave(p)
  PROVE  GiveInv'
<1>1. /\ UNCHANGED <<bank, clock, given, giving>> /\ giver' = "INACTIVE"
      /\ \A i \in DOMAIN allowances : allowances[i].ends > clock => ~RowLocked(i)
      /\ allowances' = [i \in DOMAIN allowances |->
           IF allowances[i].ends > clock THEN [allowances[i] EXCEPT !.remaining = 0] ELSE allowances[i]]
  BY DEF Leave, bankVars
<1>2. ASSUME NEW i \in DOMAIN allowances
      PROVE  /\ allowances'[i] \in Allowance /\ allowances'[i].allocated = allowances[i].allocated
             /\ allowances'[i].remaining = allowances[i].remaining \/ allowances'[i].remaining = 0
             /\ RowLocked(i) => allowances'[i] = allowances[i]
  <2>1. allowances[i] \in Allowance
    BY GiveFacts
  <2>2. /\ [allowances[i] EXCEPT !.remaining = 0] \in Allowance
        /\ [allowances[i] EXCEPT !.remaining = 0].remaining = 0
        /\ [allowances[i] EXCEPT !.remaining = 0].allocated = allowances[i].allocated
    BY <2>1 DEF Allowance
  <2> QED
    BY <1>1, <2>1, <2>2
<1>3. DOMAIN allowances' = DOMAIN allowances /\ allowances' \in Seq(Allowance)
  <2>1. allowances' \in [1 .. Len(allowances) -> Allowance] /\ Len(allowances) \in Nat
    BY <1>1, <1>2, LenProperties DEF GiveInv, GiveShaped
  <2> QED
    BY <1>1, <2>1, SeqDef
<1>4. GiveShaped'
  <2>1. (\A q \in Sessions : giving[q].stage # "none" => Found(giving[q]))'
    BY <1>1, <1>3 DEF GiveInv, GiveShaped, Found
  <2>2. \A k \in DOMAIN given : given[k] \in [row : DOMAIN allowances', at : 0 .. clock]
    BY <1>3 DEF GiveInv, GiveShaped
  <2> QED
    BY <1>1, <1>3, <2>1, <2>2 DEF GiveInv, GiveShaped
<1>5. Posting' = Posting
  BY <1>1 DEF Posting
<1>6. ASSUME NEW q \in Posting PROVE Pays(giving[q])'
  <2>1. giving[q].row # 0 => giving[q].row \in DOMAIN allowances /\ allowances'[giving[q].row] = allowances[giving[q].row]
    BY <1>2, GiveFacts DEF RowLocked, Found
  <2>2. EnoughLeft(giving[q])'
    BY <1>1, <2>1 DEF GiveInv, Pays, EnoughLeft
  <2> QED
    BY <1>1, <2>2 DEF GiveInv, Pays, PairTotal
<1>7. SpentWithinAllowance'
  <2>1. ASSUME NEW i \in DOMAIN allowances
        PROVE  /\ allowances'[i].remaining >= 0
               /\ SumFunctionOnSet(Points, {k \in DOMAIN given : given[k].row = i})
                    + allowances'[i].remaining <= allowances'[i].allocated
    <3> DEFINE S == {k \in DOMAIN given : given[k].row = i}
    <3>1. S \subseteq Gives
      BY GiveFacts
    <3>2. SumFunctionOnSet(Points, S) \in Nat
      BY <3>1, PointsFacts
    <3>3. SumFunctionOnSet(Points, S) + allowances[i].remaining <= allowances[i].allocated
      BY DEF GiveInv, SpentWithinAllowance
    <3> HIDE DEF S
    <3>4. allowances[i].remaining \in Nat /\ allowances[i].allocated \in Nat
      BY GiveFacts DEF Allowance
    <3>5. allowances'[i].remaining >= 0 /\ SumFunctionOnSet(Points, S) + allowances'[i].remaining <= allowances'[i].allocated
      BY <1>2, <3>2, <3>3, <3>4
    <3> QED
      BY <3>5 DEF S
  <2> QED
    BY <1>1, <1>3, <2>1 DEF GiveInv, SpentWithinAllowance
<1>8. PairLimitKept'
  BY <1>1 DEF GiveInv, PairLimitKept
<1> QED
  BY <1>4, <1>5, <1>6, <1>7, <1>8 DEF GiveInv

GiveKeys == {GiveKey(k) : k \in Gives}

LEMMA GiveStepKeeps ==
  ASSUME BankInv, GiveInv, GiveStep
  PROVE  GiveInv' /\ Proceeds(bank, bank', GiveKeys)
<1>1. CASE bank' = bank
  BY <1>1, FindAllowanceKeeps, PostGiveKeeps, CommitGiveKeeps, RefuseGiveKeeps, LeaveKeeps, RestProceeds
     DEF GiveStep, BankInv
<1>2. ASSUME NEW p \in Sessions, PostGive(p)
      PROVE  GiveInv' /\ Proceeds(bank, bank', GiveKeys)
  <2>1. PICK k \in Gives : Proceeds(bank, bank', {GiveKey(k)})
    BY <1>2, PostGivePosts, PostedProceeds
  <2> QED
    BY <1>2, <2>1, PostGiveKeeps DEF Proceeds, Grows, GiveKeys
<1> QED
  BY <1>1, <1>2 DEF GiveStep, FindAllowance, CommitGive, RefuseGive, Leave, bankVars

-----------------------------------------------------------------------------
(***************************************************************************)
(* The inductive invariant, and what it shows.                             *)
(***************************************************************************)

IInv == BankInv /\ ProjectTypeOK /\ EscrowInv /\ GiveInv

LEMMA BankTypeStep ==
  ASSUME BankInv, BankStep
  PROVE  /\ routes' \in Rosters /\ timer' \in Timer /\ faults' \in 0 .. MaxFaults
         /\ clock' \in 0 .. Horizon /\ clock' \in {clock, clock + 1}
<1>1. /\ routes \in Rosters /\ timer \in Timer /\ faults \in 0 .. MaxFaults /\ clock \in 0 .. Horizon
      /\ MaxFaults \in Nat /\ Horizon \in Nat
  BY BanksAssumption DEF BankInv
<1>2. Armed \in Timer /\ Rescheduled \in Timer
  BY <1>1 DEF Armed, Rescheduled, Timer
<1>3. CASE Fire \/ CloseCycles \/ Rearm \/ FinishOvertaken
  BY <1>1, <1>3 DEF Fire, CloseCycles, Rearm, FinishOvertaken, Timer
<1>4. CASE CloseFails \/ Restart
  <2>1. timer' \in Timer
    BY <1>1, <1>2, <1>4 DEF CloseFails, Restart, Timer
  <2> QED
    BY <1>1, <1>4, <2>1 DEF CloseFails, Restart
<1>5. CASE Tick
  BY <1>1, <1>5 DEF Tick
<1>6. ASSUME NEW p \in Sessions, BankRequest(p)
      PROVE  UNCHANGED <<routes, clock, faults>> /\ timer' \in {timer, Rescheduled}
  BY <1>6 DEF BankRequest, PostRequest, OpenCycle, PatchCycle, ClearCycle
<1> QED
  BY <1>1, <1>2, <1>3, <1>4, <1>5, <1>6 DEF BankStep, SchedulerStep

LEMMA InvInit == Init => IInv
<1> SUFFICES ASSUME Init PROVE IInv
  OBVIOUS
<1>1. BankInv
  <2>1. /\ bank = EmptyBank /\ routes \in Rosters /\ clock \in 0 .. Horizon /\ timer \in Timer
        /\ faults \in 0 .. MaxFaults
    BY BanksAssumption DEF Init, BankInit, Armed, Timer
  <2>2. bank.balance = 0 /\ bank.cycles = << >> /\ bank.entries = << >>
    BY <2>1 DEF EmptyBank
  <2>3. DOMAIN bank.entries = {} /\ DOMAIN bank.cycles = {} /\ bank.cycles \in Seq(Cycle) /\ Len(bank.cycles) = 0
    BY <2>2, EmptySeq
  <2>4. Shaped(bank)
    BY <2>1, <2>2, <2>3, FS_EmptySet DEF Shaped, EmptyBank
  <2> QED
    BY <2>1, <2>3, <2>4, BanksAssumption
       DEF BankInv, BankOK, OneOpen, ClearedOnce, Posted, CoveredCycles
<1>2. ProjectTypeOK
  <2>1. NoWindow \in Window
    BY WindowFacts
  <2>2. DOMAIN plans = {} /\ batches \in Seq([amount : Awards, status : Decision])
    BY DEF Init, ProjectInit
  <2>3. project \in Project
    BY ProjectsAssumption DEF Init, ProjectInit, Project, Statuses
  <2> QED
    BY <2>1, <2>2, <2>3 DEF Init, ProjectInit, ProjectTypeOK
<1>3. EscrowInv
  <2>1. DOMAIN bank.entries = {}
    BY DEF Init, BankInit, EmptyBank
  <2>2. batches = << >> /\ batches \in Seq(Batch) /\ DOMAIN batches = {}
    BY DEF Init, ProjectInit
  <2>3. SumFunction(Issued(batches)) = 0
    BY <2>2, IssuedFacts, SumEmpty
  <2>4. project.remaining = 0 /\ project.issued = 0 /\ project.approved = 0
    BY DEF Init, ProjectInit
  <2>5. ~Posted(bank, FundKey) /\ ~Posted(bank, ReturnKey)
    BY <2>1 DEF Posted
  <2>6. Moved(FundKey) = 0 /\ Moved(ReturnKey) = 0
    BY <2>5 DEF Moved
  <2>7. -Moved(FundKey) - Moved(ReturnKey) = project.remaining + project.issued
    BY <2>4, <2>6
  <2> QED
    BY <2>3, <2>4, <2>5, <2>7 DEF EscrowInv
<1>4. GiveInv
  <2>1. DOMAIN given = {} /\ DOMAIN allowances = {} /\ allowances \in Seq(Allowance)
    BY DEF Init, GiveInit
  <2>2. Posting = {} /\ giving \in [Sessions -> Give] /\ \A p \in Sessions : giving[p].stage = "none"
    BY DEF Init, GiveInit, NoGive, Give, Posting
  <2>3. GiveShaped
    BY <2>1, <2>2 DEF GiveShaped, Init, GiveInit
  <2>4. SpentWithinAllowance
    BY <2>1 DEF SpentWithinAllowance
  <2>5. PairLimitKept
    <3> SUFFICES ASSUME NEW r \in {To[k] : k \in Gives}, NEW from \in 0 .. Horizon
                 PROVE  SumFunctionOnSet(Points,
                          {k \in DOMAIN given : To[k] = r /\ given[k].at \in from .. from + PairPeriod})
                          <= PairLimit
      BY DEF PairLimitKept
    <3> DEFINE S == {k \in DOMAIN given : To[k] = r /\ given[k].at \in from .. from + PairPeriod}
    <3>1. S = {}
      BY <2>1
    <3> HIDE DEF S
    <3>2. SumFunctionOnSet(Points, S) = 0
      BY <3>1, SumEmpty
    <3>3. SumFunctionOnSet(Points, S) <= PairLimit
      BY <3>2, GivesAssumption
    <3> QED
      BY <3>3 DEF S
  <2> QED
    BY <2>2, <2>3, <2>4, <2>5 DEF GiveInv
<1> QED
  BY <1>1, <1>2, <1>3, <1>4 DEF IInv

AllKeys == Requests \cup {FundKey, ReturnKey} \cup GiveKeys

LEMMA InvNext ==
  ASSUME IInv, [Next]_vars
  PROVE  IInv' /\ Proceeds(bank, bank', AllKeys)
<1>0. BankInv /\ ProjectTypeOK /\ EscrowInv /\ GiveInv /\ BankOK(bank) /\ clock \in Nat
  BY DEF IInv, BankInv
<1>g. ASSUME NEW K \in {Requests, {FundKey, ReturnKey}, GiveKeys}, Proceeds(bank, bank', K)
      PROVE  BankOK(bank') /\ Proceeds(bank, bank', AllKeys)
  BY <1>g DEF Proceeds, Grows, AllKeys
<1>t. ASSUME UNCHANGED <<routes, clock, timer, faults>>, BankOK(bank') PROVE BankInv'
  BY <1>0, <1>t DEF BankInv
<1>1. CASE BankStep /\ UNCHANGED <<projectVars, giveVars>>
  <2>1. Proceeds(bank, bank', Requests)
    BY <1>0, <1>1, BankStepProceeds
  <2>2. BankInv'
    BY <1>0, <1>1, <2>1, BankTypeStep DEF Proceeds, BankInv
  <2>3. EscrowInv'
    BY <1>0, <1>1, <2>1, EscrowStays, KeysDiffer DEF projectVars, Proceeds
  <2>4. GiveInv'
    BY <1>0, <1>1, <2>1, BankTypeStep, GiveStays DEF Proceeds
  <2>5. ProjectTypeOK'
    BY <1>0, <1>1 DEF projectVars, ProjectTypeOK
  <2> QED
    BY <1>g, <2>1, <2>2, <2>3, <2>4, <2>5 DEF IInv
<1>2. CASE ProjectStep /\ UNCHANGED giveVars
  <2>1. Proceeds(bank, bank', {FundKey, ReturnKey})
    BY <1>0, <1>2, ProjectStepProceeds
  <2>2. UNCHANGED <<routes, clock, timer, faults>>
    BY <1>2 DEF ProjectStep, Approvers, Manager, ApprovePlan, RejectPlan, RejectBatch, ApproveBatch,
         ReadUpdate, Notes, bankVars, SyncBudgets, Touch, ReadSubmit, Submit, ReadActivate, Activate,
         Complete, ReadIssue, Issue, Close
  <2>3. BankInv'
    BY <1>t, <2>1, <2>2 DEF Proceeds
  <2>4. EscrowInv' /\ ProjectTypeOK'
    BY <1>0, <1>2, EscrowStep, ProjectTypeStep
  <2>5. GiveInv'
    BY <1>0, <1>2, <2>1, <2>2, GiveStays DEF Proceeds
  <2> QED
    BY <1>g, <2>1, <2>3, <2>4, <2>5 DEF IInv
<1>3. CASE GiveStep /\ UNCHANGED projectVars
  <2>1. GiveInv' /\ Proceeds(bank, bank', GiveKeys)
    BY <1>0, <1>3, GiveStepKeeps
  <2>2. UNCHANGED <<routes, clock, timer, faults>>
    BY <1>3 DEF GiveStep, FindAllowance, PostGive, CommitGive, RefuseGive, Leave, bankVars
  <2>3. BankInv'
    BY <1>t, <2>1, <2>2 DEF Proceeds
  <2>4. EscrowInv'
    BY <1>0, <1>3, <2>1, EscrowStays, KeysDiffer DEF projectVars, Proceeds, GiveKeys
  <2>5. ProjectTypeOK'
    BY <1>0, <1>3 DEF projectVars, ProjectTypeOK
  <2> QED
    BY <1>g, <2>1, <2>3, <2>4, <2>5 DEF IInv
<1>4. CASE UNCHANGED vars
  <2>1. Proceeds(bank, bank', AllKeys)
    BY <1>0, <1>4, RestProceeds DEF vars, bankVars
  <2>2. BankInv'
    BY <1>0, <1>4, <1>t DEF vars, bankVars
  <2>3. EscrowInv' /\ GiveInv'
    BY <1>0, <1>4, <2>1, EscrowStays, GiveStays, KeysDiffer, RestProceeds
       DEF vars, bankVars, projectVars, Proceeds
  <2>4. ProjectTypeOK'
    BY <1>0, <1>4 DEF vars, projectVars, ProjectTypeOK
  <2> QED
    BY <2>1, <2>2, <2>3, <2>4 DEF IInv
<1> QED
  BY <1>1, <1>2, <1>3, <1>4 DEF Next

\* The invariant from which the theorems below follow.
LEMMA InvHolds == Spec => []IInv
BY InvInit, InvNext, PTL DEF Spec

(* The values of every variable, whatever the sessions, the bounds and the   *)
(* restarts: no balance, count or escrow ever gets negative.                 *)
THEOREM FundsTypeCorrect == Spec => []TypeOK
<1>1. IInv => TypeOK
  <2> SUFFICES ASSUME IInv PROVE TypeOK
    OBVIOUS
  <2>1. BankTypeOK
    BY DEF IInv, BankInv, BankOK, Shaped, BankTypeOK
  <2>2. GiveTypeOK
    <3>1. \A k \in DOMAIN given : given[k] \in [row : DOMAIN allowances, at : 0 .. Horizon]
      BY BanksAssumption DEF IInv, GiveInv, GiveShaped, BankInv
    <3> QED
      BY <3>1 DEF IInv, GiveInv, GiveShaped, GiveTypeOK
  <2> QED
    BY <2>1, <2>2 DEF IInv, TypeOK
<1> QED
  BY <1>1, InvHolds, PTL

(* What a cycle counts as allocated covers what its entries show, for any    *)
(* order of debits, credits, closings and clears.                            *)
THEOREM CyclesCoverAllocation == Spec => []AllocationCovered
<1>1. IInv => AllocationCovered
  BY DEF IInv, BankInv, BankOK, CoveredCycles, AllocationCovered
<1> QED
  BY <1>1, InvHolds, PTL

(* No step debits the bank and leaves a cycle open whose time is over.       *)
THEOREM DebitsCloseWhatIsOver == Spec => NothingFromOver
<1>1. IInv /\ [Next]_vars => [\A k \in DOMAIN bank'.entries :
        ~Posted(bank, k) /\ bank'.entries[k].amount < 0
          => \A i \in DOMAIN bank.cycles : Ended(bank, i) => bank'.cycles[i].status # "OPEN"]_bankVars
  BY InvNext DEF Proceeds, DebitsFromCurrent
<1> QED
  BY <1>1, InvHolds, PTL DEF Spec, NothingFromOver

(* What left the bank for the project is in its escrow or was issued.        *)
THEOREM EscrowAddsUp == Spec => []EscrowConserved
<1>1. IInv => EscrowConserved
  <2> SUFFICES ASSUME IInv PROVE EscrowConserved
    OBVIOUS
  <2>1. [i \in DOMAIN batches |-> IssuedBy(i)] = Issued(batches)
    BY DEF IssuedBy, Issued
  <2>2. project.issued \in Nat /\ project.remaining \in Nat /\ project.approved \in Nat
    BY DEF IInv, ProjectTypeOK, Project
  <2> QED
    BY <2>1, <2>2 DEF IInv, EscrowInv, EscrowConserved
<1> QED
  BY <1>1, InvHolds, PTL

(* A project that was closed, or whose points went back, holds none.         *)
THEOREM ClosedProjectIsEmpty == Spec => []ClosedHoldsNothing
<1>1. IInv => ClosedHoldsNothing
  BY DEF IInv, EscrowInv, ClosedHoldsNothing
<1> QED
  BY <1>1, InvHolds, PTL

(* No recipient gets more than the pair limit within its period, however     *)
(* many sessions give and whatever allowances they found.                    *)
THEOREM PairsStayWithinLimit == Spec => []PairLimitKept
<1>1. IInv => PairLimitKept
  BY DEF IInv, GiveInv
<1> QED
  BY <1>1, InvHolds, PTL

(* No allowance is spent beyond what it was allocated, and the bank paid for *)
(* every give.                                                               *)
THEOREM GivesStayWithinAllowance == Spec => []SpentWithinAllowance
<1>1. IInv => SpentWithinAllowance
  BY DEF IInv, GiveInv
<1> QED
  BY <1>1, InvHolds, PTL

-----------------------------------------------------------------------------
(***************************************************************************)
(* The plan that was approved, where one window changes and submits it.    *)
(***************************************************************************)

\* Plans are changed and submitted in at most one window.
OnePlanner ==
  \A r \in Rosters : \A p, q \in Sessions : "plan" \in r[p] /\ "plan" \in r[q] => p = q

Planning(p) == windows[p].op \in {"sync", "touch", "submit"}

PlanStatuses == {"DRAFT", "PLAN_PENDING", "PLAN_REJECTED"}

\* While a plan is open for changes none of its requests is pending, and a pending
\* one asks for what the project asks for.
PlannersEdit ==
  /\ \A v \in DOMAIN plans : v \in Nat /\ v < project.version
  /\ \A p \in Sessions : Planning(p) => "plan" \in routes[p] /\ Editable
  /\ \A p \in Sessions : windows[p].op = "submit" =>
       windows[p].version = project.version /\ windows[p].amount = project.requested

PendingPlan ==
  /\ \A v \in DOMAIN plans : plans[v].status = "PENDING" =>
       project.status = "PLAN_PENDING" /\ plans[v].amount = project.requested
  /\ \A u, v \in DOMAIN plans : plans[u].status = "PENDING" /\ plans[v].status = "PENDING" => u = v

\* A project that is funded is a plan no more, and before it nothing else is done.
FundedPlan ==
  /\ Posted(bank, FundKey) =>
       /\ project.status \notin PlanStatuses
       /\ \E v \in DOMAIN plans : plans[v].status = "APPROVED" /\ plans[v].amount = project.approved
  /\ ~Posted(bank, FundKey) =>
       /\ project.status \in PlanStatuses /\ DOMAIN batches = {}
       /\ \A p \in Sessions : windows[p].op \notin {"activate", "issue"}

PlanInv == PlannersEdit /\ PendingPlan /\ FundedPlan

LEMMA PlanStays ==
  ASSUME PlanInv, UNCHANGED <<routes, project, plans, batches, windows>>,
         Posted(bank', FundKey) = Posted(bank, FundKey)
  PROVE  PlanInv'
BY DEF PlanInv, PlannersEdit, PendingPlan, FundedPlan, Planning, Editable

(* A step that gets a window to something it has read, or out of it, and     *)
(* leaves the plan alone.                                                    *)
LEMMA PlanWindows ==
  ASSUME ProjectTypeOK, PlanInv, NEW p \in Sessions, NEW w, Shows(p, w),
         UNCHANGED <<routes, plans>>, Posted(bank', FundKey) = Posted(bank, FundKey),
         project'.version = project.version, project'.requested = project.requested,
         project'.approved = project.approved,
         w.op \in {"sync", "touch", "submit"} => "plan" \in routes[p] /\ Editable,
         w.op = "submit" => w.version = project.version /\ w.amount = project.requested,
         w.op \in {"activate", "issue"} => Posted(bank, FundKey),
         \/ project'.status = project.status /\ batches' = batches
         \/ Posted(bank, FundKey) /\ project'.status \notin PlanStatuses
  PROVE  PlanInv'
<1>1. windows'[p] = w /\ \A q \in Sessions \ {p} : windows'[q] = windows[q]
  BY DEF Shows, ProjectTypeOK
<1>2. project'.status = project.status \/ (Posted(bank, FundKey) /\ ~Editable /\ project.status # "PLAN_PENDING")
  BY DEF PlanInv, FundedPlan, Editable, PlanStatuses
<1>3. PlannersEdit'
  BY <1>1, <1>2 DEF PlanInv, PlannersEdit, Planning, Editable
<1>4. PendingPlan'
  BY <1>2 DEF PlanInv, PendingPlan
<1>5. FundedPlan'
  BY <1>1, <1>2 DEF PlanInv, FundedPlan
<1> QED
  BY <1>3, <1>4, <1>5 DEF PlanInv

(* The steps of the manager's window that change the plan and submit it.     *)
LEMMA PlanChanges ==
  ASSUME OnePlanner, BankInv, ProjectTypeOK, PlanInv, NEW p \in Sessions,
         SyncBudgets(p) \/ Touch(p) \/ Submit(p)
  PROVE  PlanInv'
<1>0. /\ project \in Project /\ project.version \in Nat /\ windows \in [Sessions -> Window]
      /\ \A v \in DOMAIN plans : v \in Nat /\ v < project.version /\ v # project.version
  BY DEF ProjectTypeOK, Project, PlanInv, PlannersEdit
<1>1. routes \in Rosters /\ routes' = routes /\ bank' = bank /\ batches' = batches
  BY DEF BankInv, SyncBudgets, Touch, Submit, bankVars
<1>2. Planning(p) /\ Editable /\ \A q \in Sessions : Planning(q) => q = p
  BY <1>1 DEF OnePlanner, PlanInv, PlannersEdit, SyncBudgets, Touch, Submit, Planning
<1>3. ~Posted(bank, FundKey) /\ project.status \in {"DRAFT", "PLAN_REJECTED"}
      /\ \A v \in DOMAIN plans : plans[v].status # "PENDING"
  BY <1>2 DEF PlanInv, FundedPlan, PendingPlan, Editable, PlanStatuses
<1>4. ASSUME NEW w, Shows(p, w) PROVE windows'[p] = w /\ \A q \in Sessions \ {p} : windows'[q] = windows[q]
  BY <1>0, <1>4 DEF Shows
<1>5. \A q \in Sessions \ {p} : windows[q].op \notin {"sync", "touch", "submit"}
  BY <1>2 DEF Planning
<1>6. CASE SyncBudgets(p)
  <2>1. /\ plans' = plans /\ project'.status = project.status /\ project'.version = project.version
        /\ windows'[p] = [op |-> "touch"]
    BY <1>0, <1>4, <1>6 DEF SyncBudgets, Project
  <2>2. PlannersEdit'
    <3>1. ASSUME NEW q \in Sessions, Planning(q)' PROVE "plan" \in routes'[q] /\ Editable'
      BY <1>1, <1>2, <1>4, <1>5, <1>6, <2>1, <3>1 DEF Planning, PlanInv, PlannersEdit, SyncBudgets, Editable
    <3>2. \A q \in Sessions : windows'[q].op # "submit"
      BY <1>4, <1>5, <1>6, <2>1 DEF SyncBudgets
    <3> QED
      BY <1>0, <2>1, <3>1, <3>2 DEF PlannersEdit
  <2>3. PendingPlan'
    BY <1>3, <2>1 DEF PendingPlan
  <2>4. FundedPlan'
    BY <1>1, <1>3, <1>4, <1>6, <2>1 DEF PlanInv, FundedPlan, SyncBudgets
  <2> QED
    BY <2>2, <2>3, <2>4 DEF PlanInv
<1>7. CASE Touch(p)
  <2>1. /\ plans' = plans /\ project'.status = project.status /\ project'.version = project.version + 1
        /\ windows'[p] = NoWindow
    BY <1>0, <1>4, <1>7 DEF Touch, Project
  <2>2. PlannersEdit'
    <3>1. \A q \in Sessions : windows'[q].op \notin {"sync", "touch", "submit"}
      BY <1>4, <1>5, <1>7, <2>1 DEF Touch, NoWindow
    <3> QED
      BY <1>0, <2>1, <3>1 DEF PlannersEdit, Planning
  <2>3. PendingPlan'
    BY <1>3, <2>1 DEF PendingPlan
  <2>4. FundedPlan'
    BY <1>1, <1>3, <1>4, <1>7, <2>1 DEF PlanInv, FundedPlan, Touch, NoWindow
  <2> QED
    BY <2>2, <2>3, <2>4 DEF PlanInv
<1>8. CASE Submit(p)
  <2> DEFINE v == project.version
  <2>1. windows[p].version = v /\ windows[p].amount = project.requested
    BY <1>8 DEF Submit, PlanInv, PlannersEdit
  <2>2. /\ project'.status = "PLAN_PENDING" /\ project'.version = v + 1
        /\ project'.requested = project.requested /\ windows'[p] = NoWindow
    BY <1>0, <1>4, <1>8 DEF Submit, Project
  <2>3. /\ DOMAIN plans' = DOMAIN plans \cup {v} /\ \A u \in DOMAIN plans : plans'[u] = plans[u]
        /\ plans'[v] = [amount |-> project.requested, status |-> "PENDING"]
    BY <1>0, <1>8, <2>1 DEF Submit
  <2>4. PlannersEdit'
    <3>1. \A q \in Sessions : windows'[q].op \notin {"sync", "touch", "submit"}
      BY <1>4, <1>5, <1>8, <2>2 DEF Submit, NoWindow
    <3> QED
      BY <1>0, <2>2, <2>3, <3>1 DEF PlannersEdit, Planning
  <2>5. PendingPlan'
    BY <1>3, <2>2, <2>3 DEF PendingPlan
  <2>6. FundedPlan'
    BY <1>1, <1>3, <1>4, <1>8, <2>2 DEF PlanInv, FundedPlan, Submit, NoWindow, PlanStatuses
  <2> QED
    BY <2>4, <2>5, <2>6 DEF PlanInv
<1> QED
  BY <1>6, <1>7, <1>8

(* The approvers' decision of a plan.                                        *)
LEMMA PlanDecided ==
  ASSUME BankInv, ProjectTypeOK, PlanInv, NEW v \in DOMAIN plans, RejectPlan(v) \/ ApprovePlan(v)
  PROVE  PlanInv'
<1>0. project \in Project /\ project.version \in Nat /\ \A u \in DOMAIN plans : plans[u] \in PlanRow
  BY DEF ProjectTypeOK, Project, PlanRow
<1>1. UNCHANGED <<routes, batches, windows>> /\ plans[v].status = "PENDING"
  BY DEF RejectPlan, ApprovePlan, bankVars
<1>2. project.status = "PLAN_PENDING" /\ plans[v].amount = project.requested /\ ~Posted(bank, FundKey)
  BY <1>1 DEF PlanInv, PendingPlan, FundedPlan, PlanStatuses
<1>3. \A q \in Sessions : ~Planning(q)
  BY <1>2 DEF PlanInv, PlannersEdit, Editable
<1>4. \A u \in DOMAIN plans \ {v} : plans[u].status # "PENDING"
  BY <1>1 DEF PlanInv, PendingPlan
<1>5. CASE RejectPlan(v)
  <2>1. /\ DOMAIN plans' = DOMAIN plans /\ plans'[v].status = "REJECTED"
        /\ \A u \in DOMAIN plans \ {v} : plans'[u] = plans[u]
    BY <1>0, <1>5 DEF RejectPlan, PlanRow
  <2>2. project'.status = "PLAN_REJECTED" /\ project'.version = project.version + 1 /\ bank' = bank
    BY <1>0, <1>5 DEF RejectPlan, Project, bankVars
  <2>3. PlannersEdit'
    BY <1>0, <1>1, <1>3, <2>1, <2>2 DEF PlanInv, PlannersEdit, Planning
  <2>4. PendingPlan'
    BY <1>4, <2>1 DEF PendingPlan
  <2>5. FundedPlan'
    BY <1>1, <1>2, <2>2 DEF PlanInv, FundedPlan, PlanStatuses
  <2> QED
    BY <2>3, <2>4, <2>5 DEF PlanInv
<1>6. CASE ApprovePlan(v)
  <2>1. /\ DOMAIN plans' = DOMAIN plans /\ plans'[v].status = "APPROVED"
        /\ plans'[v].amount = plans[v].amount
        /\ \A u \in DOMAIN plans \ {v} : plans'[u] = plans[u]
    BY <1>0, <1>6 DEF ApprovePlan, PlanRow
  <2>2. project'.status = "APPROVED" /\ project'.version = project.version /\ project'.approved = project.requested
    BY <1>0, <1>6 DEF ApprovePlan, Project
  <2>3. Posted(bank', FundKey)
    BY <1>6, ApprovePlanPosts DEF PostedOn, Posted
  <2>4. PlannersEdit'
    BY <1>0, <1>1, <1>3, <2>1, <2>2 DEF PlanInv, PlannersEdit, Planning
  <2>5. PendingPlan'
    BY <1>4, <2>1 DEF PendingPlan
  <2>6. FundedPlan'
    BY <1>2, <2>1, <2>2, <2>3 DEF FundedPlan, PlanStatuses
  <2> QED
    BY <2>4, <2>5, <2>6 DEF PlanInv
<1> QED
  BY <1>5, <1>6

(* The batches and the closing leave the plan as it was approved.            *)
LEMMA PlanKept ==
  ASSUME ProjectTypeOK, PlanInv, UNCHANGED <<routes, plans, windows>>,
         Posted(bank', FundKey) = Posted(bank, FundKey), Posted(bank, FundKey),
         project'.version = project.version, project'.requested = project.requested,
         project'.approved = project.approved, project'.status \notin PlanStatuses
  PROVE  PlanInv'
<1>1. \A q \in Sessions : ~Planning(q)
  BY DEF PlanInv, PlannersEdit, FundedPlan, Editable, PlanStatuses
<1>2. PlannersEdit'
  BY <1>1 DEF PlanInv, PlannersEdit, Planning
<1>3. PendingPlan'
  BY DEF PlanInv, PendingPlan, FundedPlan, PlanStatuses
<1>4. FundedPlan'
  BY DEF PlanInv, FundedPlan
<1> QED
  BY <1>2, <1>3, <1>4 DEF PlanInv

LEMMA PlanStep ==
  ASSUME OnePlanner, IInv, PlanInv, ProjectStep
  PROVE  PlanInv'
<1>0. BankInv /\ ProjectTypeOK /\ EscrowInv /\ project \in Project
  BY DEF IInv, ProjectTypeOK
<1>1. ASSUME NEW p \in Sessions, SyncBudgets(p) \/ Touch(p) \/ Submit(p) PROVE PlanInv'
  BY <1>0, <1>1, PlanChanges
<1>2. ASSUME NEW v \in DOMAIN plans, RejectPlan(v) \/ ApprovePlan(v) PROVE PlanInv'
  BY <1>0, <1>2, PlanDecided
<1>3. ASSUME NEW p \in Sessions, NEW n \in Budgets, ReadUpdate(p, n) PROVE PlanInv'
  <2>1. /\ Shows(p, [op |-> "sync", amount |-> n]) /\ "plan" \in routes[p] /\ Editable
        /\ UNCHANGED <<routes, bank, project, plans, batches>>
    BY <1>3 DEF ReadUpdate, Notes, Manages, Offers, bankVars
  <2> QED
    BY <1>0, <2>1, PlanWindows
<1>4. ASSUME NEW p \in Sessions, ReadSubmit(p) PROVE PlanInv'
  <2>1. /\ Shows(p, [op |-> "submit", version |-> project.version, amount |-> project.requested])
        /\ "plan" \in routes[p] /\ Editable
        /\ UNCHANGED <<routes, bank, project, plans, batches>>
    BY <1>4 DEF ReadSubmit, Notes, Manages, Offers, bankVars, Editable
  <2> QED
    BY <1>0, <2>1, PlanWindows
<1>5. ASSUME NEW p \in Sessions, ReadActivate(p) PROVE PlanInv'
  <2>1. /\ Shows(p, [op |-> "activate"]) /\ Posted(bank, FundKey)
        /\ UNCHANGED <<routes, bank, project, plans, batches>>
    BY <1>5 DEF ReadActivate, Notes, bankVars, PlanInv, FundedPlan, PlanStatuses
  <2> QED
    BY <1>0, <2>1, PlanWindows
<1>6. ASSUME NEW p \in Sessions, NEW n \in Awards, ReadIssue(p, n) PROVE PlanInv'
  <2>1. /\ Shows(p, [op |-> "issue", amount |-> n]) /\ Posted(bank, FundKey)
        /\ UNCHANGED <<routes, bank, project, plans, batches>>
    BY <1>6 DEF ReadIssue, Notes, bankVars, PlanInv, FundedPlan, PlanStatuses
  <2> QED
    BY <1>0, <2>1, PlanWindows
<1>7. ASSUME NEW p \in Sessions, Activate(p) \/ Issue(p) PROVE PlanInv'
  <2>1. /\ Shows(p, NoWindow) /\ Posted(bank, FundKey) /\ UNCHANGED <<routes, bank, plans>>
        /\ project'.version = project.version /\ project'.requested = project.requested
        /\ project'.approved = project.approved /\ project'.status \in {"ACTIVE", "ISSUE_PENDING"}
    BY <1>0, <1>7 DEF Activate, Issue, bankVars, PlanInv, FundedPlan, Project
  <2> QED
    BY <1>0, <2>1, PlanWindows DEF NoWindow, PlanStatuses
<1>8. ASSUME NEW p \in Sessions, Complete(p) PROVE PlanInv'
  <2>1. /\ Posted(bank, FundKey) /\ UNCHANGED <<routes, bank, plans, windows>>
        /\ project'.version = project.version /\ project'.requested = project.requested
        /\ project'.approved = project.approved /\ project'.status = "COMPLETED"
    BY <1>0, <1>8 DEF Complete, bankVars, PlanInv, FundedPlan, Project, PlanStatuses
  <2> QED
    BY <1>0, <2>1, PlanKept DEF PlanStatuses
<1>9. ASSUME NEW i \in DOMAIN batches, RejectBatch(i) \/ ApproveBatch(i) PROVE PlanInv'
  <2>1. /\ Posted(bank, FundKey) /\ UNCHANGED <<routes, bank, plans, windows>>
        /\ project'.version = project.version /\ project'.requested = project.requested
        /\ project'.approved = project.approved /\ project'.status \in {"ISSUED", "ISSUE_REJECTED"}
    BY <1>0, <1>9 DEF RejectBatch, ApproveBatch, bankVars, PlanInv, FundedPlan, Project
  <2> QED
    BY <1>0, <2>1, PlanKept DEF PlanStatuses
<1>10. ASSUME NEW p \in Sessions, Close(p) PROVE PlanInv'
  <2>1. /\ Posted(bank, FundKey) /\ UNCHANGED <<routes, plans, windows>>
        /\ project'.version = project.version /\ project'.requested = project.requested
        /\ project'.approved = project.approved /\ project'.status = "CLOSED"
    BY <1>0, <1>10 DEF Close, PlanInv, FundedPlan, Project, PlanStatuses
  <2>2. Posted(bank', FundKey)
    <3>1. Proceeds(bank, bank', {FundKey, ReturnKey})
      BY <1>0, ProjectStepProceeds
    <3> QED
      BY <2>1, <3>1 DEF Proceeds, Grows, Posted
  <2> QED
    BY <1>0, <2>1, <2>2, PlanKept DEF PlanStatuses
<1> QED
  BY <1>1, <1>2, <1>3, <1>4, <1>5, <1>6, <1>7, <1>8, <1>9, <1>10
     DEF ProjectStep, Approvers, Manager

LEMMA PlanInit == Init => PlanInv
<1> SUFFICES ASSUME Init PROVE PlanInv
  OBVIOUS
<1>1. /\ DOMAIN plans = {} /\ DOMAIN batches = {} /\ DOMAIN bank.entries = {} /\ project.status = "DRAFT"
      /\ \A p \in Sessions : windows[p].op = "idle"
  BY DEF Init, ProjectInit, BankInit, EmptyBank, NoWindow
<1> QED
  BY <1>1 DEF PlanInv, PlannersEdit, PendingPlan, FundedPlan, Planning, PlanStatuses, Posted

LEMMA PlanNext ==
  ASSUME OnePlanner, IInv, PlanInv, [Next]_vars
  PROVE  PlanInv'
<1>0. BankInv /\ GiveInv
  BY DEF IInv
<1>1. ASSUME NEW K, Proceeds(bank, bank', K), FundKey \notin K, routes' = routes, UNCHANGED projectVars
      PROVE  PlanInv'
  <2>1. Posted(bank', FundKey) = Posted(bank, FundKey)
    BY <1>1, KeysDiffer DEF Proceeds, Grows, Posted
  <2> QED
    BY <1>1, <2>1, PlanStays DEF projectVars
<1>2. CASE BankStep /\ UNCHANGED projectVars
  <2>1. routes' = routes
    BY <1>2, ZenonT(60) DEF BankStep, SchedulerStep, Tick, Fire, CloseCycles, CloseFails, Rearm, FinishOvertaken,
         Restart, BankRequest, PostRequest, OpenCycle, PatchCycle, ClearCycle
  <2> QED
    BY <1>0, <1>1, <1>2, <2>1, BankStepProceeds, KeysDiffer
<1>3. CASE GiveStep /\ UNCHANGED projectVars
  <2>1. routes' = routes
    BY <1>3 DEF GiveStep, FindAllowance, PostGive, CommitGive, RefuseGive, Leave, bankVars
  <2> QED
    BY <1>0, <1>1, <1>3, <2>1, GiveStepKeeps, KeysDiffer DEF GiveKeys
<1>4. CASE ProjectStep
  BY <1>4, PlanStep
<1>5. CASE UNCHANGED vars
  BY <1>5, PlanStays DEF vars, bankVars, projectVars
<1> QED
  BY <1>2, <1>3, <1>4, <1>5 DEF Next

(* Where at most one window changes and submits plans, the points reserved   *)
(* are those of the request the approvers saw.                               *)
THEOREM ApprovedPlanIsFunded ==
  ASSUME OnePlanner
  PROVE  Spec => []ApprovedAsShown
<1>1. IInv /\ PlanInv /\ [Next]_vars => PlanInv'
  BY PlanNext
<1>2. PlanInv => ApprovedAsShown
  BY DEF PlanInv, FundedPlan, ApprovedAsShown
<1> QED
  BY <1>1, <1>2, PlanInit, InvHolds, PTL DEF Spec
=============================================================================
