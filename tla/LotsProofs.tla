------------------------------ MODULE LotsProofs ------------------------------
(***************************************************************************)
(* Theorems about Lots, for any sessions, rosters, grants and bounds.      *)
(*                                                                         *)
(* Two facts about the operators carry the proof: what a plan takes of the *)
(* lots adds up to the amount or to all there is, and the lots that give   *)
(* rows back add up to the rows' amounts, on the days of what they took; a *)
(* row that took nothing comes back on no day.  What a debit has planned   *)
(* stays good until it commits, because it has locked the wallet's row,    *)
(* except for a lot that is emptied without the lock.                      *)
(***************************************************************************)
EXTENDS Lots, SumLemmas, SequenceTheorems

LapseKeys == {LapseKey(l) : l \in 1 .. MaxLots}

\* The lots that are to be swept exist, and what is to be debited is not nothing.
WorkOK(w) ==
  /\ w.op \in {"sweep", "offboard", "lapse", "debit"} => w.sweep.todo \subseteq DOMAIN lots
  /\ w.op = "lapse" => w.lot \in DOMAIN lots /\ w.seen > 0
  /\ w.op = "debit" => w.amount > 0
  /\ w.op = "reset" => w.keys \subseteq DOMAIN rows \cap LapseKeys

\* The debit that holds the wallet's row: its plan is for the lots there are, takes
\* no more than the amount, and takes all of a lot before it takes of a later one.
LockOK ==
  LET w == work[lock.by]  plan == lock.plan IN
  lock # Free =>
    /\ w.op = "debit" /\ ~Posted(w.key)
    /\ DOMAIN plan = DOMAIN lots
    /\ SumFunction(plan) <= w.amount
    /\ ~negative => /\ w.amount <= balance
                    /\ SumFunction(plan) = w.amount
                    /\ \A l \in DOMAIN lots : plan[l] <= lots[l].left
    /\ \A l, m \in DOMAIN lots : plan[l] > 0 /\ Before(m, l) => lots[m].left <= plan[m]

\* There are finitely many rows, of something, and they have taken of lots that exist.
RowsOK ==
  /\ IsFiniteSet(DOMAIN rows)
  /\ \A k \in DOMAIN rows : rows[k].amount > 0 /\ DOMAIN rows[k].taken \subseteq DOMAIN lots

LeftOK == ~negative => \A l \in DOMAIN lots : lots[l].left >= 0

WorkInv == \A p \in Processes : WorkOK(work[p])

IInv ==
  /\ TypeOK
  /\ Len(lots) <= MaxLots
  /\ RowsOK
  /\ LeftOK /\ LotsBackBalance
  /\ WorkInv
  /\ LockOK

-----------------------------------------------------------------------------
(***************************************************************************)
(* The order of the lots.                                                  *)
(***************************************************************************)

LEMMA LotFacts ==
  ASSUME lots \in Seq(Lot)
  PROVE  /\ Len(lots) \in Nat /\ DOMAIN lots = 1 .. Len(lots) /\ IsFiniteSet(DOMAIN lots)
         /\ \A l \in DOMAIN lots : l \in Nat \ {0} /\ lots[l] \in Lot
                                  /\ lots[l].left \in Int /\ lots[l].expiry \in 1 .. Never
<1>1. Len(lots) \in Nat /\ DOMAIN lots = 1 .. Len(lots) /\ \A l \in DOMAIN lots : lots[l] \in Lot
  OBVIOUS
<1>2. IsFiniteSet(1 .. Len(lots))
  BY <1>1, FS_Interval
<1> QED BY <1>1, <1>2 DEF Lot

LEMMA BeforeOrders ==
  ASSUME lots \in Seq(Lot), NEW l \in DOMAIN lots, NEW m \in DOMAIN lots
  PROVE  /\ ~Before(l, l)
         /\ l # m => Before(l, m) \/ Before(m, l)
         /\ ~(Before(l, m) /\ Before(m, l))
         /\ \A n \in DOMAIN lots : Before(l, m) /\ Before(m, n) => Before(l, n)
<1>1. \A i \in DOMAIN lots : i \in Nat /\ lots[i].expiry \in Nat
  BY LotFacts, LotsAssumption DEF Never
<1> QED BY <1>1 DEF Before

(* Among some lots there is one that comes before and one that comes after   *)
(* all the others.                                                           *)
LEMMA FirstAndLast ==
  ASSUME lots \in Seq(Lot), NEW D \in SUBSET DOMAIN lots, D # {}
  PROVE  /\ \E l \in D : \A m \in D \ {l} : Before(l, m)
         /\ \E l \in D : \A m \in D \ {l} : Before(m, l)
<1> DEFINE Good(s) == /\ \E l \in s : \A m \in s \ {l} : Before(l, m)
                      /\ \E l \in s : \A m \in s \ {l} : Before(m, l)
           B == {s \in SUBSET DOMAIN lots : s # {} /\ ~Good(s)}
<1>1. SUFFICES ASSUME B # {} PROVE FALSE
  OBVIOUS
<1>2. PICK s \in B : \A u \in B : u \subseteq s => u = s
  <2>1. B \in SUBSET (SUBSET DOMAIN lots)
    OBVIOUS
  <2> HIDE DEF B
  <2> QED BY <1>1, <2>1, LotFacts, MinimalSubset
<1>3. PICK c \in s : TRUE
  OBVIOUS
<1> DEFINE R == s \ {c}
<1>4. R \subseteq s /\ R # s /\ s = R \cup {c} /\ s \subseteq DOMAIN lots /\ c \notin R
  BY <1>3
<1>5. R # {}
  BY <1>2, <1>3
<1>6. Good(R)
  BY <1>2, <1>4, <1>5
<1> HIDE DEF R
<1>7. PICK a \in R : \A m \in R \ {a} : Before(a, m)
  BY <1>6
<1>8. PICK z \in R : \A m \in R \ {z} : Before(m, z)
  BY <1>6
<1>9. \E l \in s : \A m \in s \ {l} : Before(l, m)
  <2>1. CASE Before(c, a)
    <3>1. \A m \in s \ {c} : Before(c, m)
      BY <1>4, <1>7, <2>1, BeforeOrders
    <3> QED BY <3>1, <1>3
  <2>2. CASE Before(a, c)
    <3>1. \A m \in s \ {a} : Before(a, m)
      BY <1>4, <1>7, <2>2
    <3> QED BY <3>1, <1>4, <1>7
  <2> QED BY <1>4, <1>7, <2>1, <2>2, BeforeOrders
<1>10. \E l \in s : \A m \in s \ {l} : Before(m, l)
  <2>1. CASE Before(z, c)
    <3>1. \A m \in s \ {c} : Before(m, c)
      BY <1>4, <1>8, <2>1, BeforeOrders
    <3> QED BY <3>1, <1>3
  <2>2. CASE Before(c, z)
    <3>1. \A m \in s \ {z} : Before(m, z)
      BY <1>4, <1>8, <2>2
    <3> QED BY <3>1, <1>4, <1>8
  <2> QED BY <1>4, <1>8, <2>1, <2>2, BeforeOrders
<1> QED BY <1>9, <1>10

-----------------------------------------------------------------------------
(***************************************************************************)
(* What a plan takes.                                                      *)
(***************************************************************************)

LEMMA PlanFacts ==
  ASSUME lots \in Seq(Lot), NEW amount \in Nat
  PROVE  /\ DOMAIN LeftOf = DOMAIN lots /\ DOMAIN Plan(amount) = DOMAIN lots
         /\ \A l \in DOMAIN lots :
              /\ LeftOf[l] \in Nat /\ LeftOf[l] = AtLeast0(lots[l].left)
              /\ LeftBefore(l) \in Nat
              /\ Plan(amount)[l] \in Nat
              /\ Plan(amount)[l] = Least(LeftOf[l], AtLeast0(amount - LeftBefore(l)))
         /\ IntOn(LeftOf, DOMAIN lots) /\ IntOn(Plan(amount), DOMAIN lots)
<1>1. DOMAIN LeftOf = DOMAIN lots /\ DOMAIN Plan(amount) = DOMAIN lots
  BY DEF LeftOf, Plan
<1>2. \A l \in DOMAIN lots : LeftOf[l] \in Nat /\ LeftOf[l] = AtLeast0(lots[l].left)
  BY LotFacts DEF LeftOf, AtLeast0
<1>3. \A l \in DOMAIN lots : LeftBefore(l) \in Nat
  <2> TAKE l \in DOMAIN lots
  <2> DEFINE D == {m \in DOMAIN lots : Before(m, l)}
  <2>1. IsFiniteSet(D) /\ D \subseteq DOMAIN lots
    BY LotFacts, FS_Subset
  <2> HIDE DEF D
  <2>2. SumFunctionOnSet(LeftOf, D) \in Int /\ SumFunctionOnSet(LeftOf, D) >= 0
    BY <1>2, <2>1, SumType DEF IntOn
  <2> QED BY <2>2 DEF LeftBefore, D
<1>4. \A l \in DOMAIN lots :
        Plan(amount)[l] = Least(LeftOf[l], AtLeast0(amount - LeftBefore(l)))
  BY DEF Plan
<1>5. \A l \in DOMAIN lots : Plan(amount)[l] \in Nat
  BY <1>2, <1>3, <1>4 DEF Least, AtLeast0
<1> QED BY <1>1, <1>2, <1>3, <1>4, <1>5 DEF IntOn

(* What a plan takes of the first lots, in the order of expiry, is the       *)
(* amount or all that is left of them.                                       *)
LEMMA PlanOfFirst ==
  ASSUME lots \in Seq(Lot), NEW amount \in Nat, NEW D \in SUBSET DOMAIN lots,
         \A l \in D : \A m \in DOMAIN lots : Before(m, l) => m \in D
  PROVE  SumFunctionOnSet(Plan(amount), D) = Least(amount, SumFunctionOnSet(LeftOf, D))
<1> DEFINE Closed(s) == \A l \in s : \A m \in DOMAIN lots : Before(m, l) => m \in s
           Good(s) == SumFunctionOnSet(Plan(amount), s)
                        = Least(amount, SumFunctionOnSet(LeftOf, s))
           B == {s \in SUBSET DOMAIN lots : Closed(s) /\ ~Good(s)}
<1>1. SUFFICES ASSUME B # {} PROVE FALSE
  OBVIOUS
<1>2. PICK s \in B : \A u \in B : u \subseteq s => u = s
  <2>1. B \in SUBSET (SUBSET DOMAIN lots)
    OBVIOUS
  <2> HIDE DEF B
  <2> QED BY <1>1, <2>1, LotFacts, MinimalSubset
<1>3. s # {}
  <2>1. SumFunctionOnSet(Plan(amount), {}) = 0 /\ SumFunctionOnSet(LeftOf, {}) = 0
    BY SumEmpty
  <2>2. Good({})
    BY <2>1 DEF Least
  <2> QED BY <1>2, <2>2
<1>4. PICK z \in s : \A m \in s \ {z} : Before(m, z)
  BY <1>2, <1>3, FirstAndLast
<1> DEFINE R == s \ {z}
<1>5. R = {m \in DOMAIN lots : Before(m, z)}
  BY <1>2, <1>4, BeforeOrders
<1>6. Closed(R)
  BY <1>2, <1>4, <1>5, BeforeOrders
<1>7. Good(R)
  BY <1>2, <1>4, <1>6
<1>8. IsFiniteSet(s) /\ s \subseteq DOMAIN lots /\ z \in DOMAIN lots
  BY <1>2, <1>4, LotFacts, FS_Subset
<1>9. IntOn(LeftOf, s) /\ IntOn(Plan(amount), s)
  BY <1>8, PlanFacts DEF IntOn
<1>10. /\ SumFunctionOnSet(LeftOf, s) = LeftOf[z] + SumFunctionOnSet(LeftOf, R)
       /\ SumFunctionOnSet(Plan(amount), s) = Plan(amount)[z] + SumFunctionOnSet(Plan(amount), R)
  BY <1>4, <1>8, <1>9, SumRemove
<1>11. SumFunctionOnSet(LeftOf, R) = LeftBefore(z)
  BY <1>5 DEF LeftBefore
<1>12. Good(s)
  <2>1. /\ LeftOf[z] \in Nat /\ LeftBefore(z) \in Nat
        /\ Plan(amount)[z] = Least(LeftOf[z], AtLeast0(amount - LeftBefore(z)))
    BY <1>8, PlanFacts
  <2> DEFINE pz == Plan(amount)[z]
             lz == LeftOf[z]
             b == LeftBefore(z)
             pr == SumFunctionOnSet(Plan(amount), R)
             ps == SumFunctionOnSet(Plan(amount), s)
             ls == SumFunctionOnSet(LeftOf, s)
  <2>2. /\ lz \in Nat /\ b \in Nat /\ pz = Least(lz, AtLeast0(amount - b))
        /\ pr = Least(amount, b) /\ ls = lz + b /\ ps = pz + pr
    BY <1>7, <1>10, <1>11, <2>1
  <2> HIDE DEF pz, lz, b, pr, ps, ls
  <2>3. ps = Least(amount, ls)
    BY <2>2 DEF Least, AtLeast0
  <2> QED BY <2>3 DEF ps, ls
<1> QED BY <1>2, <1>12

LEMMA PlanAddsUp ==
  ASSUME lots \in Seq(Lot), NEW amount \in Nat
  PROVE  /\ SumFunction(Plan(amount)) = Least(amount, LeftSum)
         /\ LeftSum \in Nat
<1>1. SumFunctionOnSet(Plan(amount), DOMAIN lots) = Least(amount, SumFunctionOnSet(LeftOf, DOMAIN lots))
  BY PlanOfFirst
<1>2. SumFunctionOnSet(LeftOf, DOMAIN lots) \in Int /\ SumFunctionOnSet(LeftOf, DOMAIN lots) >= 0
  <2>1. IntOn(LeftOf, DOMAIN lots) /\ \A l \in DOMAIN lots : LeftOf[l] >= 0
    BY PlanFacts
  <2> QED BY <2>1, LotFacts, SumType
<1> QED BY <1>1, <1>2, PlanFacts DEF LeftSum, SumFunction

(* Where a plan takes something, it takes all of the lots that come before.  *)
LEMMA PlanInOrder ==
  ASSUME lots \in Seq(Lot), NEW amount \in Nat, NEW l \in DOMAIN lots, NEW m \in DOMAIN lots,
         Before(m, l), Plan(amount)[l] > 0
  PROVE  lots[m].left <= Plan(amount)[m]
<1> DEFINE D == {n \in DOMAIN lots : Before(n, m)}
           E == {n \in DOMAIN lots : Before(n, l)}
<1>1. D \cup {m} \subseteq E /\ m \notin D /\ E \subseteq DOMAIN lots
  BY BeforeOrders
<1>2. IsFiniteSet(E) /\ IntOn(LeftOf, E) /\ (\A n \in E : LeftOf[n] >= 0)
  <2>1. IsFiniteSet(E)
    BY <1>1, LotFacts, FS_Subset
  <2>2. \A n \in DOMAIN lots : LeftOf[n] \in Nat
    BY PlanFacts
  <2> QED BY <1>1, <2>1, <2>2 DEF IntOn
<1>3. IsFiniteSet(D) /\ IntOn(LeftOf, D) /\ LeftOf[m] \in Int
  BY <1>1, <1>2, FS_Subset DEF IntOn
<1> HIDE DEF D, E
<1>4. SumFunctionOnSet(LeftOf, D \cup {m}) = LeftOf[m] + SumFunctionOnSet(LeftOf, D)
  BY <1>1, <1>3, SumAdd
<1>5. SumFunctionOnSet(LeftOf, D \cup {m}) <= SumFunctionOnSet(LeftOf, E)
  BY <1>1, <1>2, SumSubset
<1>6. LeftBefore(m) + LeftOf[m] <= LeftBefore(l)
  <2>1. SumFunctionOnSet(LeftOf, D) = LeftBefore(m) /\ SumFunctionOnSet(LeftOf, E) = LeftBefore(l)
    BY DEF LeftBefore, D, E
  <2>2. LeftBefore(m) \in Nat /\ LeftBefore(l) \in Nat /\ LeftOf[m] \in Nat
    BY PlanFacts
  <2> QED BY <1>4, <1>5, <2>1, <2>2
<1>7. /\ LeftOf[m] \in Nat /\ LeftOf[m] = AtLeast0(lots[m].left) /\ lots[m].left \in Int
      /\ LeftOf[l] \in Nat /\ LeftBefore(m) \in Nat /\ LeftBefore(l) \in Nat
      /\ Plan(amount)[l] = Least(LeftOf[l], AtLeast0(amount - LeftBefore(l)))
      /\ Plan(amount)[m] = Least(LeftOf[m], AtLeast0(amount - LeftBefore(m)))
  BY PlanFacts, LotFacts
<1> DEFINE pl == Plan(amount)[l]
           pm == Plan(amount)[m]
           bl == LeftBefore(l)
           bm == LeftBefore(m)
           fl == LeftOf[l]
           fm == LeftOf[m]
           am == lots[m].left
<1>8. /\ fm \in Nat /\ fm = AtLeast0(am) /\ am \in Int /\ fl \in Nat /\ bm \in Nat /\ bl \in Nat
      /\ pl = Least(fl, AtLeast0(amount - bl)) /\ pm = Least(fm, AtLeast0(amount - bm))
      /\ pl > 0 /\ bm + fm <= bl
  BY <1>6, <1>7
<1> HIDE DEF pl, pm, bl, bm, fl, fm, am
<1>9. am <= pm
  BY <1>8 DEF Least, AtLeast0
<1> QED BY <1>9 DEF am, pm

-----------------------------------------------------------------------------
(***************************************************************************)
(* What comes back.  The rows that are given back are one debit of the     *)
(* member, or expirations, so that a number stands for each.               *)
(***************************************************************************)

OneKind(ks) == ks \subseteq LapseKeys \/ \E s \in Spends : ks = {SpendKey(s)}

\* What a row took of the lots that expire on one of the days.
TakenWithin(k, days) ==
  SumFunctionOnSet(rows[k].taken, {l \in DOMAIN rows[k].taken : lots[l].expiry \in days})

\* What it is restored as on one of the days.
RestoredWithin(k, days) ==
  IF ~TookNothing(k) THEN TakenWithin(k, days)
  ELSE IF Never \in days THEN rows[k].amount ELSE 0

RowsGood ==
  /\ lots \in Seq(Lot)
  /\ DOMAIN rows \subseteq Keys /\ \A k \in DOMAIN rows : rows[k] \in Rows
  /\ RowsOK

LEMMA RowFacts ==
  ASSUME RowsGood, NEW k \in DOMAIN rows
  PROVE  LET taken == rows[k].taken IN
         /\ rows[k] = [amount |-> rows[k].amount, taken |-> taken,
                       run |-> rows[k].run, undone |-> rows[k].undone]
         /\ rows[k].amount \in Nat /\ rows[k].amount > 0
         /\ rows[k].run \in Runs \cup {Job} /\ rows[k].undone \in BOOLEAN
         /\ taken \in Seq(Nat)
         /\ IsFiniteSet(DOMAIN taken) /\ DOMAIN taken \subseteq DOMAIN lots
         /\ \A l \in DOMAIN taken : taken[l] \in Nat
<1>1. /\ rows[k].taken \in Seq(Nat) /\ rows[k].amount \in Nat
      /\ rows[k].run \in Runs \cup {Job} /\ rows[k].undone \in BOOLEAN
      /\ rows[k] = [amount |-> rows[k].amount, taken |-> rows[k].taken,
                       run |-> rows[k].run, undone |-> rows[k].undone]
  BY DEF RowsGood, Rows
<1>2. rows[k].amount > 0 /\ DOMAIN rows[k].taken \subseteq DOMAIN lots
  BY DEF RowsGood, RowsOK
<1>3. IsFiniteSet(DOMAIN rows[k].taken)
  BY <1>2, LotFacts, FS_Subset DEF RowsGood
<1> QED BY <1>1, <1>2, <1>3

LEMMA KindFacts ==
  ASSUME NEW ks, OneKind(ks)
  PROVE  /\ IsFiniteSet(ks)
         /\ \A k \in ks : NumberOf(k) \in Nat
         /\ \A j, k \in ks : NumberOf(j) = NumberOf(k) => j = k
<1>1. CASE ks \subseteq LapseKeys
  <2> DEFINE f == [l \in 1 .. MaxLots |-> LapseKey(l)]
  <2>1. f \in Surjection(1 .. MaxLots, LapseKeys)
    BY DEF Surjection, LapseKeys
  <2>2. IsFiniteSet(1 .. MaxLots)
    BY FS_Interval, LotsAssumption
  <2> HIDE DEF f
  <2>3. IsFiniteSet(LapseKeys)
    BY <2>1, <2>2, FS_Surjection
  <2>4. \A k \in LapseKeys : NumberOf(k) \in Nat /\ k = LapseKey(NumberOf(k))
    BY DEF LapseKeys, LapseKey, NumberOf
  <2> QED BY <1>1, <2>3, <2>4, FS_Subset
<1>2. CASE \E s \in Spends : ks = {SpendKey(s)}
  <2>1. PICK s \in Spends : ks = {SpendKey(s)}
    BY <1>2
  <2>2. IsFiniteSet({SpendKey(s)})
    BY FS_Singleton
  <2>3. NumberOf(SpendKey(s)) = 0
    BY DEF SpendKey, NumberOf
  <2> QED BY <2>1, <2>2, <2>3
<1> QED BY <1>1, <1>2 DEF OneKind

(* A piece is of a lot the row took of, or the row's only one.               *)
LEMMA PieceFacts ==
  ASSUME RowsGood, NEW ks \in SUBSET DOMAIN rows, OneKind(ks), NEW k \in ks
  PROVE  /\ Pieces(k) \subseteq AllPieces(ks)
         /\ \A t \in Pieces(k) :
              /\ t[1] = NumberOf(k) /\ t[1] \in Nat
              /\ t[2] \in Nat /\ t[3] \in Nat /\ t[3] > 0
              /\ t = <<t[1], t[2], t[3]>>
              /\ \/ TookNothing(k) /\ t[2] = 0 /\ t[3] = rows[k].amount
                 \/ /\ ~TookNothing(k) /\ t[2] # 0 /\ t[2] \in DOMAIN lots
                    /\ t[2] \in DOMAIN rows[k].taken /\ t[3] = rows[k].taken[t[2]]
<1>1. Pieces(k) \subseteq AllPieces(ks)
  BY DEF AllPieces
<1>2. NumberOf(k) \in Nat
  BY KindFacts
<1>3. rows[k].amount \in Nat /\ rows[k].amount > 0
  BY RowFacts
<1>4. CASE TookNothing(k)
  <2>1. Pieces(k) = {<<NumberOf(k), 0, rows[k].amount>>}
    BY <1>4 DEF Pieces
  <2> QED BY <1>1, <1>2, <1>3, <1>4, <2>1
<1>5. ASSUME ~TookNothing(k), NEW t \in Pieces(k)
      PROVE  /\ t[1] = NumberOf(k)
             /\ t[2] # 0 /\ t[2] \in Nat /\ t[2] \in DOMAIN lots /\ t[2] \in DOMAIN rows[k].taken
             /\ t[3] = rows[k].taken[t[2]] /\ t[3] \in Nat /\ t[3] > 0
             /\ t = <<t[1], t[2], t[3]>>
  <2>1. PICK l \in DOMAIN rows[k].taken :
          t = <<NumberOf(k), l, rows[k].taken[l]>> /\ rows[k].taken[l] > 0
    BY <1>5 DEF Pieces
  <2>2. l \in DOMAIN lots /\ rows[k].taken[l] \in Nat
    BY RowFacts
  <2>3. l \in Nat /\ l # 0
    BY <2>2, LotFacts DEF RowsGood
  <2> QED BY <2>1, <2>2, <2>3
<1> QED BY <1>1, <1>2, <1>4, <1>5

(* A lot is a piece of a row once, and a number stands for one row.          *)
LEMMA PieceOnce ==
  ASSUME RowsGood, NEW ks \in SUBSET DOMAIN rows, OneKind(ks)
  PROVE  /\ \A t \in AllPieces(ks) :
              t[1] \in Nat /\ t[2] \in Nat /\ t[3] \in Nat \ {0} /\ ExpiryOf(t) \in 1 .. Never
         /\ \A t, u \in AllPieces(ks) : t[1] = u[1] /\ t[2] = u[2] => t = u
<1>1. \A t \in AllPieces(ks) : \E k \in ks : t \in Pieces(k)
  BY DEF AllPieces
<1>2. ASSUME NEW t \in AllPieces(ks)
      PROVE  t[1] \in Nat /\ t[2] \in Nat /\ t[3] \in Nat \ {0} /\ ExpiryOf(t) \in 1 .. Never
  <2>1. PICK k \in ks : t \in Pieces(k)
    BY <1>1
  <2>2. t[1] \in Nat /\ t[2] \in Nat /\ t[3] \in Nat \ {0} /\ (t[2] = 0 \/ t[2] \in DOMAIN lots)
    BY <2>1, PieceFacts
  <2>3. Never \in 1 .. Never
    BY LotsAssumption DEF Never
  <2>4. \A l \in DOMAIN lots : lots[l].expiry \in 1 .. Never
    BY LotFacts DEF RowsGood
  <2> QED BY <2>2, <2>3, <2>4 DEF ExpiryOf
<1>3. ASSUME NEW t \in AllPieces(ks), NEW u \in AllPieces(ks), t[1] = u[1], t[2] = u[2]
      PROVE  t = u
  <2>1. PICK j \in ks : t \in Pieces(j)
    BY <1>1
  <2>2. PICK k \in ks : u \in Pieces(k)
    BY <1>1
  <2>3. t[1] = NumberOf(j) /\ u[1] = NumberOf(k)
    BY <2>1, <2>2, PieceFacts
  <2>4. j = k
    BY <1>3, <2>3, KindFacts
  <2>5. t = <<t[1], t[2], t[3]>> /\ t[3] = IF TookNothing(j) THEN rows[j].amount ELSE rows[j].taken[t[2]]
    BY <2>1, PieceFacts
  <2>6. u = <<u[1], u[2], u[3]>> /\ u[3] = IF TookNothing(j) THEN rows[j].amount ELSE rows[j].taken[u[2]]
    BY <2>2, <2>4, PieceFacts
  <2> QED BY <1>3, <2>5, <2>6
<1> QED BY <1>2, <1>3

Points(ts) == [t \in ts |-> t[3]]

PiecesWhere(ks, days) == {t \in AllPieces(ks) : ExpiryOf(t) \in days}

(* The pieces of one row for some days are what it is restored as then.      *)
LEMMA PieceSum ==
  ASSUME RowsGood, NEW ks \in SUBSET DOMAIN rows, OneKind(ks), NEW k \in ks, NEW days
  PROVE  LET F == {t \in Pieces(k) : ExpiryOf(t) \in days}
             f == Points(AllPieces(ks))
         IN  IsFiniteSet(F) /\ IntOn(f, F) /\ RestoredWithin(k, days) = SumFunctionOnSet(f, F)
<1> DEFINE F == {t \in Pieces(k) : ExpiryOf(t) \in days}
           f == Points(AllPieces(ks))
<1>1. \A t \in Pieces(k) : t \in AllPieces(ks) /\ t[3] \in Int
  BY PieceFacts
<1>2. \A t \in Pieces(k) : f[t] = t[3]
  BY <1>1 DEF Points
<1>3. IntOn(f, F)
  BY <1>1, <1>2 DEF IntOn
<1>4. CASE TookNothing(k)
  <2> DEFINE only == <<NumberOf(k), 0, rows[k].amount>>
  <2>1. Pieces(k) = {only} /\ ExpiryOf(only) = Never /\ only[3] = rows[k].amount
    BY <1>4 DEF Pieces, ExpiryOf
  <2>2. RestoredWithin(k, days) = IF Never \in days THEN rows[k].amount ELSE 0
    BY <1>4 DEF RestoredWithin
  <2> HIDE DEF only, f
  <2>3. CASE Never \in days
    <3>1. F = {only} /\ f[only] = rows[k].amount /\ f[only] \in Int
      BY <1>1, <1>2, <2>1, <2>3
    <3>2. IsFiniteSet(F)
      BY <3>1, FS_Singleton
    <3>3. SumFunctionOnSet(f, {only}) = f[only]
      BY <3>1, SumSingle
    <3> QED BY <1>3, <2>2, <2>3, <3>1, <3>2, <3>3 DEF f
  <2>4. CASE Never \notin days
    <3>1. F = {}
      BY <2>1, <2>4
    <3>2. IsFiniteSet({}) /\ SumFunctionOnSet(f, {}) = 0
      BY FS_EmptySet, SumEmpty
    <3> QED BY <1>3, <2>2, <2>4, <3>1, <3>2 DEF f
  <2> QED BY <2>3, <2>4
<1>5. CASE ~TookNothing(k)
  <2> DEFINE taken == rows[k].taken
             D == {l \in DOMAIN taken : lots[l].expiry \in days}
             S == {l \in D : taken[l] > 0}
             h == [l \in S |-> <<NumberOf(k), l, taken[l]>>]
  <2>1. /\ IsFiniteSet(D) /\ IntOn(taken, D) /\ S \in SUBSET D
        /\ \A l \in D \ S : taken[l] = 0
    BY RowFacts, FS_Subset DEF IntOn
  <2>2. Pieces(k) = {<<NumberOf(k), l, taken[l]>> : l \in {m \in DOMAIN taken : taken[m] > 0}}
    BY <1>5 DEF Pieces
  <2>3. \A l \in DOMAIN taken : l # 0
    BY RowFacts, LotFacts DEF RowsGood
  <2>4. \A l \in S : h[l] = <<NumberOf(k), l, taken[l]>> /\ h[l][2] = l /\ h[l][3] = taken[l]
    OBVIOUS
  <2>5. F = {h[l] : l \in S}
    <3>1. ASSUME NEW t \in F PROVE \E l \in S : t = h[l]
      <4>1. PICK l \in DOMAIN taken : taken[l] > 0 /\ t = <<NumberOf(k), l, taken[l]>>
        BY <2>2, <3>1
      <4>2. ExpiryOf(t) = lots[l].expiry
        BY <2>3, <4>1 DEF ExpiryOf
      <4>3. lots[l].expiry \in days
        BY <3>1, <4>2
      <4> QED BY <2>4, <4>1, <4>3
    <3>2. ASSUME NEW l \in S PROVE h[l] \in F
      <4>1. h[l] \in Pieces(k)
        BY <2>2, <2>4
      <4>2. ExpiryOf(h[l]) = lots[l].expiry
        BY <2>3, <2>4 DEF ExpiryOf
      <4> QED BY <4>1, <4>2
    <3> HIDE DEF F, h, S
    <3> QED BY <3>1, <3>2
  <2>6. \A l \in S : f[h[l]] = taken[l]
    <3> TAKE l \in S
    <3>1. h[l] \in Pieces(k)
      BY <2>2, <2>4
    <3> QED BY <1>2, <2>4, <3>1
  <2>7. \A l, m \in S : h[l] = h[m] => l = m
    BY <2>4
  <2>8. RestoredWithin(k, days) = SumFunctionOnSet(taken, D)
    BY <1>5 DEF RestoredWithin, TakenWithin
  <2> HIDE DEF taken, D, S, h, f, F
  <2>9. SumFunctionOnSet(taken, D) = SumFunctionOnSet(taken, S)
    BY <2>1, SumSupport
  <2>10. IsFiniteSet(S) /\ IntOn(taken, S)
    BY <2>1, FS_Subset DEF IntOn
  <2>11. IsFiniteSet({h[l] : l \in S}) /\ SumFunctionOnSet(f, {h[l] : l \in S}) = SumFunctionOnSet(taken, S)
    BY <2>6, <2>7, <2>10, SumImage
  <2> QED BY <1>3, <2>5, <2>8, <2>9, <2>11 DEF F, f
<1> QED BY <1>4, <1>5

(* The pieces of some days, row by row.                                      *)
LEMMA PiecesSum ==
  ASSUME RowsGood, NEW ks \in SUBSET DOMAIN rows, OneKind(ks), NEW days
  PROVE  /\ IsFiniteSet(PiecesWhere(ks, days))
         /\ IntOn(Points(AllPieces(ks)), PiecesWhere(ks, days))
         /\ SumFunctionOnSet(Points(AllPieces(ks)), PiecesWhere(ks, days))
              = SumFunction([k \in ks |-> RestoredWithin(k, days)])
<1> DEFINE f == Points(AllPieces(ks))
           g == [k \in ks |-> RestoredWithin(k, days)]
           F == [k \in ks |-> {t \in Pieces(k) : ExpiryOf(t) \in days}]
<1>1. \A k \in ks : IsFiniteSet(F[k]) /\ IntOn(f, F[k]) /\ g[k] = SumFunctionOnSet(f, F[k])
  BY PieceSum
<1>2. \A j, k \in ks : j # k => F[j] \cap F[k] = {}
  <2> TAKE j, k \in ks
  <2> HAVE j # k
  <2>1. NumberOf(j) # NumberOf(k)
    BY KindFacts
  <2>2. \A t \in F[j] : t[1] = NumberOf(j)
    BY PieceFacts
  <2>3. \A t \in F[k] : t[1] = NumberOf(k)
    BY PieceFacts
  <2> HIDE DEF F
  <2> QED BY <2>1, <2>2, <2>3
<1>3. PiecesWhere(ks, days) = UNION {F[k] : k \in ks}
  BY DEF PiecesWhere, AllPieces
<1>4. IntOn(f, PiecesWhere(ks, days))
  BY PieceOnce DEF IntOn, Points, PiecesWhere
<1>5. IsFiniteSet(ks)
  BY KindFacts
<1>6. SumFunction(g) = SumFunctionOnSet(g, ks)
  BY DEF SumFunction
<1> HIDE DEF f, g, F
<1>7. /\ IsFiniteSet(UNION {F[k] : k \in ks})
      /\ SumFunctionOnSet(f, UNION {F[k] : k \in ks}) = SumFunctionOnSet(g, ks)
  BY <1>1, <1>2, <1>5, SumUnion
<1> QED BY <1>3, <1>4, <1>6, <1>7 DEF f, g

(* The position of a piece is a number of its own, and all numbers up to the *)
(* last one are positions.                                                   *)
LEMMA PositionFacts ==
  ASSUME NEW ts, IsFiniteSet(ts), \A t \in ts : t[1] \in Nat /\ t[2] \in Nat,
         \A t, u \in ts : t[1] = u[1] /\ t[2] = u[2] => t = u
  PROVE  /\ Cardinality(ts) \in Nat
         /\ \A t \in ts : Position(t, ts) \in 1 .. Cardinality(ts)
         /\ \A t, u \in ts : Position(t, ts) = Position(u, ts) => t = u
         /\ \A i \in 1 .. Cardinality(ts) : \E t \in ts : Position(t, ts) = i
<1> DEFINE UpTo(t) == {u \in ts : u[1] < t[1] \/ (u[1] = t[1] /\ u[2] <= t[2])}
           N == Cardinality(ts)
<1>1. N \in Nat
  BY FS_CardinalityType
<1>2. \A t \in ts : /\ Position(t, ts) = Cardinality(UpTo(t)) /\ IsFiniteSet(UpTo(t))
                    /\ Cardinality(UpTo(t)) \in Nat /\ Cardinality(UpTo(t)) <= N
  <2> TAKE t \in ts
  <2>1. UpTo(t) \in SUBSET ts
    OBVIOUS
  <2>2. Position(t, ts) = Cardinality(UpTo(t))
    BY DEF Position
  <2> HIDE DEF UpTo
  <2> QED BY <2>1, <2>2, FS_Subset, FS_CardinalityType
<1>3. \A t \in ts : Cardinality(UpTo(t)) # 0
  <2> TAKE t \in ts
  <2>1. t \in UpTo(t)
    OBVIOUS
  <2> HIDE DEF UpTo
  <2> QED BY <1>2, <2>1, FS_EmptySet
<1>4. ASSUME NEW t \in ts, NEW u \in ts, UpTo(t) \subseteq UpTo(u), u \notin UpTo(t)
      PROVE  Cardinality(UpTo(t)) # Cardinality(UpTo(u))
  <2>1. u \in UpTo(u)
    OBVIOUS
  <2> HIDE DEF UpTo
  <2> QED BY <1>2, <1>4, <2>1, FS_Subset
<1>5. \A t, u \in ts : Position(t, ts) = Position(u, ts) => t = u
  <2> SUFFICES ASSUME NEW t \in ts, NEW u \in ts, t # u
               PROVE  Position(t, ts) # Position(u, ts)
    OBVIOUS
  <2>1. t[1] \in Nat /\ t[2] \in Nat /\ u[1] \in Nat /\ u[2] \in Nat /\ (t[1] # u[1] \/ t[2] # u[2])
    OBVIOUS
  <2>2. \/ t[1] < u[1] \/ (t[1] = u[1] /\ t[2] < u[2])
        \/ u[1] < t[1] \/ (t[1] = u[1] /\ u[2] < t[2])
    BY <2>1
  <2>3. CASE t[1] < u[1] \/ (t[1] = u[1] /\ t[2] < u[2])
    <3>1. UpTo(t) \subseteq UpTo(u) /\ u \notin UpTo(t)
      BY <2>1, <2>3
    <3> HIDE DEF UpTo
    <3> QED BY <1>2, <1>4, <3>1
  <2>4. CASE u[1] < t[1] \/ (t[1] = u[1] /\ u[2] < t[2])
    <3>1. UpTo(u) \subseteq UpTo(t) /\ t \notin UpTo(u)
      BY <2>1, <2>4
    <3> HIDE DEF UpTo
    <3> QED BY <1>2, <1>4, <3>1
  <2> QED BY <2>2, <2>3, <2>4
<1>6. \A t \in ts : Position(t, ts) \in 1 .. N
  <2> HIDE DEF UpTo, N
  <2> QED BY <1>1, <1>2, <1>3
<1>7. \A i \in 1 .. N : \E t \in ts : Position(t, ts) = i
  <2> DEFINE h == [t \in ts |-> Position(t, ts)]
  <2>1. h \in Injection(ts, 1 .. N)
    BY <1>5, <1>6 DEF Injection, IsInjective
  <2>2. IsFiniteSet(1 .. N) /\ Cardinality(1 .. N) = N
    <3> HIDE DEF N
    <3> QED BY <1>1, FS_Interval
  <2> HIDE DEF h
  <2>3. h \in Surjection(ts, 1 .. N)
    BY <2>1, <2>2, FS_Injection
  <2>4. \A i \in 1 .. N : \E t \in ts : h[t] = i
    BY <2>3 DEF Surjection
  <2> QED BY <2>4 DEF h
<1> QED BY <1>1, <1>5, <1>6, <1>7

(* The lots that come back are a lot for every piece.                        *)
LEMMA RestoredFacts ==
  ASSUME RowsGood, NEW ks \in SUBSET DOMAIN rows, OneKind(ks)
  PROVE  LET ts == AllPieces(ks)  new == RestoredLots(ks) IN
         /\ IsFiniteSet(ts) /\ Cardinality(ts) \in Nat
         /\ new \in Seq(Lot) /\ Len(new) = Cardinality(ts) /\ DOMAIN new = 1 .. Cardinality(ts)
         /\ \A i \in DOMAIN new : new[i].left > 0
         /\ \A t \in ts :
              /\ Position(t, ts) \in DOMAIN new
              /\ new[Position(t, ts)].left = t[3]
              /\ new[Position(t, ts)].expiry = ExpiryOf(t)
         /\ \A i \in DOMAIN new : \E t \in ts : i = Position(t, ts)
         /\ \A t, u \in ts : Position(t, ts) = Position(u, ts) => t = u
<1> DEFINE ts == AllPieces(ks)
           new == RestoredLots(ks)
           N == Cardinality(ts)
<1>1. IsFiniteSet(ts)
  <2>1. PiecesWhere(ks, 1 .. Never) = ts
    BY PieceOnce DEF PiecesWhere
  <2> QED BY <2>1, PiecesSum
<1>2. /\ N \in Nat
      /\ \A t \in ts : Position(t, ts) \in 1 .. N
      /\ \A t, u \in ts : Position(t, ts) = Position(u, ts) => t = u
      /\ \A i \in 1 .. N : \E t \in ts : Position(t, ts) = i
  <2>1. (\A t \in ts : t[1] \in Nat /\ t[2] \in Nat) /\ \A t, u \in ts : t[1] = u[1] /\ t[2] = u[2] => t = u
    BY PieceOnce
  <2> HIDE DEF ts
  <2> QED BY <1>1, <2>1, PositionFacts
<1>3. DOMAIN new = 1 .. N
  BY DEF RestoredLots
<1>4. ASSUME NEW t \in ts
      PROVE  new[Position(t, ts)] = [amount |-> t[3], left |-> t[3], expiry |-> ExpiryOf(t)]
  <2> DEFINE i == Position(t, ts)
             u == CHOOSE v \in ts : Position(v, ts) = i
  <2>1. u \in ts /\ Position(u, ts) = i
    OBVIOUS
  <2>2. u = t
    BY <1>2, <2>1
  <2>3. i \in 1 .. N
    BY <1>2
  <2>4. new[i] = [amount |-> u[3], left |-> u[3], expiry |-> ExpiryOf(u)]
    <3> HIDE DEF i
    <3> QED BY <2>3 DEF RestoredLots
  <2> QED BY <2>2, <2>4
<1>5. \A t \in ts : t[3] \in Nat \ {0} /\ ExpiryOf(t) \in 1 .. Never
  BY PieceOnce
<1> HIDE DEF ts, new
<1>6. \A i \in 1 .. N : new[i] \in Lot /\ new[i].left > 0
  <2> TAKE i \in 1 .. N
  <2>1. PICK t \in ts : Position(t, ts) = i
    BY <1>2
  <2>2. new[i] = [amount |-> t[3], left |-> t[3], expiry |-> ExpiryOf(t)]
    BY <1>4, <2>1
  <2> QED BY <1>5, <2>2 DEF Lot
<1>7. new \in Seq(Lot) /\ Len(new) = N
  <2>1. new = [i \in 1 .. N |-> new[i]]
    BY <1>3 DEF new, RestoredLots
  <2>2. new \in [1 .. N -> Lot]
    BY <1>6, <2>1
  <2> HIDE DEF N
  <2> QED BY <1>2, <1>3, <2>2
<1>8. \A t \in ts : /\ Position(t, ts) \in DOMAIN new
                    /\ new[Position(t, ts)].left = t[3]
                    /\ new[Position(t, ts)].expiry = ExpiryOf(t)
  <2> TAKE t \in ts
  <2>1. new[Position(t, ts)] = [amount |-> t[3], left |-> t[3], expiry |-> ExpiryOf(t)]
    BY <1>4
  <2>2. Position(t, ts) \in DOMAIN new
    BY <1>2, <1>3
  <2> HIDE DEF N
  <2> QED BY <2>1, <2>2
<1>9. \A i \in DOMAIN new : new[i].left > 0 /\ \E t \in ts : i = Position(t, ts)
  BY <1>2, <1>3, <1>6
<1> HIDE DEF N
<1>10. N \in Nat /\ Len(new) = N /\ new \in Seq(Lot)
  BY <1>2, <1>7
<1> QED BY <1>1, <1>2, <1>3, <1>8, <1>9, <1>10 DEF ts, new, N

(* By their days they add up to what the rows are restored as.               *)
LEMMA RestoredSum ==
  ASSUME RowsGood, NEW ks \in SUBSET DOMAIN rows, OneKind(ks), NEW days
  PROVE  LET new == RestoredLots(ks)
             S == {i \in DOMAIN new : new[i].expiry \in days}
             f == [i \in DOMAIN new |-> new[i].left]
         IN  /\ IsFiniteSet(S) /\ IntOn(f, S)
             /\ SumFunctionOnSet(f, S) = SumFunction([k \in ks |-> RestoredWithin(k, days)])
<1> DEFINE ts == AllPieces(ks)
           new == RestoredLots(ks)
           S == {i \in DOMAIN new : new[i].expiry \in days}
           f == [i \in DOMAIN new |-> new[i].left]
           T == PiecesWhere(ks, days)
           h == [t \in ts |-> Position(t, ts)]
           e == Points(ts)
<1>1. IsFiniteSet(T) /\ IntOn(e, T) /\ T \subseteq ts
      /\ SumFunctionOnSet(e, T) = SumFunction([k \in ks |-> RestoredWithin(k, days)])
  BY PiecesSum DEF PiecesWhere
<1>2. /\ \A t \in ts : h[t] \in DOMAIN new /\ new[h[t]].left = t[3]
                       /\ new[h[t]].expiry = ExpiryOf(t)
      /\ \A i \in DOMAIN new : \E t \in ts : i = h[t]
      /\ \A t, u \in ts : h[t] = h[u] => t = u
  BY RestoredFacts
<1>3. \A i \in DOMAIN new : new[i].left \in Int
  <2>1. new \in Seq(Lot)
    BY RestoredFacts
  <2>2. \A i \in DOMAIN new : new[i] \in Lot
    <3> HIDE DEF new
    <3> QED BY <2>1
  <2> HIDE DEF new
  <2> QED BY <2>2 DEF Lot
<1>4. T = {t \in ts : ExpiryOf(t) \in days} /\ \A t \in ts : e[t] = t[3]
  BY DEF PiecesWhere, Points
<1> HIDE DEF ts, new, h, T, e
<1>5. S = {h[t] : t \in T}
  BY <1>2, <1>4
<1>6. \A t \in T : f[h[t]] = e[t]
  BY <1>1, <1>2, <1>4
<1>7. \A t, u \in T : h[t] = h[u] => t = u
  BY <1>1, <1>2
<1>8. IntOn(f, S)
  BY <1>3 DEF IntOn
<1> HIDE DEF f, S
<1>9. IsFiniteSet({h[t] : t \in T}) /\ SumFunctionOnSet(f, {h[t] : t \in T}) = SumFunctionOnSet(e, T)
  BY <1>1, <1>6, <1>7, SumImage
<1> QED BY <1>1, <1>5, <1>8, <1>9 DEF f, S, new

-----------------------------------------------------------------------------
(***************************************************************************)
(* What a step does to the wallet: nothing, or one of five things.         *)
(***************************************************************************)

Member == [status : {"ACTIVE", "INACTIVE"}, last : 0 .. Never]

\* One process goes on, and is not the one that holds the wallet's row.
Moves(p, w) ==
  /\ w \in Work /\ WorkOK(w)
  /\ lock = Free \/ lock.by # p
  /\ work' = [work EXCEPT ![p] = w]
  /\ UNCHANGED <<fixed, ledger, lock>>

Rests == UNCHANGED <<fixed, ledger, lock, work>>

GivesBack(p, ks) ==
  /\ ks \subseteq DOMAIN rows /\ OneKind(ks)
  /\ \A k \in ks : ~rows[k].undone /\ Restorable(k)
  /\ GiveBack(ks)
  /\ work' = work \/ work' = [work EXCEPT ![p] = Idle]

Outside == clock' \in 0 .. Horizon /\ member' \in Member

\* The part of the invariant that the control depends on.
Control == TypeOK /\ Len(lots) <= MaxLots /\ WorkInv /\ LockOK

LEMMA WorkFacts ==
  ASSUME NEW w \in Work
  PROVE  /\ w.op = "earn" => w.g \in Grants
         /\ w.op \in {"sweep", "offboard", "lapse", "debit"} => w.sweep \in Sweep
         /\ w.op = "lapse" => w.lot \in 1 .. MaxLots /\ w.seen \in Nat
         /\ w.op = "debit" => w.key \in Keys /\ w.amount \in Nat
         /\ w.op = "reset" => w.keys \in SUBSET Keys
         /\ w.op = "schedule" => w.day \in 0 .. Horizon
BY DEF Work, Idle

LEMMA IdleOK == Idle \in Work /\ WorkOK(Idle) /\ Idle.op = "idle"
BY DEF Work, Idle, WorkOK

LEMMA ProcessFacts ==
  /\ \A p \in Sessions : p \in Processes /\ p # Job
  /\ Job \in Processes /\ "none" \notin Processes
BY LotsAssumption DEF Processes

LEMMA NotHolder ==
  ASSUME Control, NEW p \in Processes, work[p].op # "debit"
  PROVE  lock = Free \/ lock.by # p
BY DEF Control, LockOK

LEMMA BeginMoves ==
  ASSUME Control, NEW p \in Processes, NEW w \in Work, WorkOK(w), Begin(p, w),
         lock = Free \/ lock.by # p
  PROVE  Moves(p, w) /\ Outside
BY DEF Begin, Set, Moves, Outside, Control, TypeOK, Member

LEMMA SweepOK ==
  ASSUME Control, NEW sweep \in Sweep, sweep.todo \subseteq DOMAIN lots
  PROVE  /\ \A op \in {"sweep", "offboard"} :
              [op |-> op, sweep |-> sweep] \in Work /\ WorkOK([op |-> op, sweep |-> sweep])
         /\ \A l : Without(sweep, l) \in Work /\ WorkOK(Without(sweep, l))
                   /\ Without(sweep, l).sweep \in Sweep
                   /\ Without(sweep, l).sweep.todo \subseteq DOMAIN lots
         /\ \A l \in 1 .. MaxLots, n \in Nat :
              l \in DOMAIN lots /\ n > 0 =>
                LET w == [op |-> "lapse", sweep |-> sweep, lot |-> l, seen |-> n] IN
                w \in Work /\ WorkOK(w)
         /\ \A k \in Keys, n \in Nat :
              n > 0 => Debit(k, n, sweep) \in Work /\ WorkOK(Debit(k, n, sweep))
<1>1. \A op \in {"sweep", "offboard"} :
        [op |-> op, sweep |-> sweep] \in Work /\ WorkOK([op |-> op, sweep |-> sweep])
  BY DEF Work, WorkOK
<1>2. ASSUME NEW l
      PROVE  /\ Without(sweep, l) \in Work /\ WorkOK(Without(sweep, l))
             /\ Without(sweep, l).sweep \in Sweep
             /\ Without(sweep, l).sweep.todo \subseteq DOMAIN lots
  <2> DEFINE s == [sweep EXCEPT !.todo = @ \ {l}]
  <2>1. s \in Sweep /\ s.todo = sweep.todo \ {l}
    BY DEF Sweep
  <2>2. Without(sweep, l) = [op |-> "sweep", sweep |-> s]
    BY DEF Without
  <2> HIDE DEF s
  <2> QED BY <2>1, <2>2 DEF Work, WorkOK
<1>3. \A l \in 1 .. MaxLots, n \in Nat :
        l \in DOMAIN lots /\ n > 0 =>
          LET w == [op |-> "lapse", sweep |-> sweep, lot |-> l, seen |-> n] IN
          w \in Work /\ WorkOK(w)
  BY DEF Work, WorkOK
<1>4. \A k \in Keys, n \in Nat :
        n > 0 => Debit(k, n, sweep) \in Work /\ WorkOK(Debit(k, n, sweep))
  BY DEF Work, WorkOK, Debit
<1> QED BY <1>1, <1>2, <1>3, <1>4

LEMMA NoSweepOK == NoSweep \in Sweep /\ NoSweep.todo \subseteq DOMAIN lots
BY DEF NoSweep, Sweep

LEMMA SweepFacts ==
  ASSUME Control, NEW p \in Processes, work[p].op \in {"sweep", "offboard", "lapse", "debit"}
  PROVE  work[p].sweep \in Sweep /\ work[p].sweep.todo \subseteq DOMAIN lots
BY WorkFacts DEF Control, WorkInv, WorkOK, TypeOK

LEMMA StartSweepMoves ==
  ASSUME Control, NEW p \in Processes, NEW op, NEW force \in BOOLEAN, NEW r \in Runs \cup {Job},
         StartSweep(p, op, force, r)
  PROVE  (\E w : Moves(p, w)) /\ Outside
<1> DEFINE todo == {l \in DOMAIN lots : lots[l].left > 0 /\ (force \/ Due(l))}
           sweep == [todo |-> todo, force |-> force, run |-> r]
<1>1. todo \subseteq DOMAIN lots /\ todo \subseteq 1 .. MaxLots
  BY LotFacts, LotsAssumption DEF Control, TypeOK
<1>2. Begin(p, [op |-> "sweep", sweep |-> sweep]) /\ work[p] = Idle
  BY DEF StartSweep, Serves
<1> HIDE DEF todo
<1>3. sweep \in Sweep /\ sweep.todo = todo
  BY <1>1 DEF Sweep
<1> HIDE DEF sweep
<1>4. [op |-> "sweep", sweep |-> sweep] \in Work /\ WorkOK([op |-> "sweep", sweep |-> sweep])
  BY <1>1, <1>3, SweepOK
<1> QED BY <1>2, <1>4, NotHolder, IdleOK, BeginMoves

LEMMA ClearMoves ==
  ASSUME Control, NEW p \in Processes, NEW k, ClearKey(k) \in Keys, Clear(p, k), work[p].op # "debit"
  PROVE  (\E w : Moves(p, w)) /\ Outside
<1>1. CASE balance > 0
  <2>1. Begin(p, Debit(ClearKey(k), balance, NoSweep)) /\ balance \in Nat
    BY <1>1 DEF Clear, Control, TypeOK
  <2>2. Debit(ClearKey(k), balance, NoSweep) \in Work /\ WorkOK(Debit(ClearKey(k), balance, NoSweep))
    BY <1>1, <2>1, NoSweepOK, SweepOK
  <2> QED BY <2>1, <2>2, NotHolder, BeginMoves
<1>2. CASE ~(balance > 0)
  <2>1. Moves(p, Idle)
    BY <1>2, IdleOK, NotHolder DEF Clear, Moves, Set
  <2>2. Outside
    BY <1>2, LotsAssumption DEF Clear, Outside, Inactive, Member, Control, TypeOK, Never
  <2> QED BY <2>1, <2>2
<1> QED BY <1>1, <1>2

LEMMA ReadLotMoves ==
  ASSUME Control, NEW p \in Processes, ReadLot(p)
  PROVE  (\E w : Moves(p, w)) /\ Outside
<1> DEFINE sweep == work[p].sweep
           l == Next1(sweep.todo)
<1>1. work[p].op = "sweep" /\ sweep \in Sweep /\ sweep.todo \subseteq DOMAIN lots /\ sweep.todo # {}
  BY SweepFacts DEF ReadLot
<1>2. l \in sweep.todo
  <2>1. \E m \in sweep.todo : \A n \in sweep.todo \ {m} : Before(m, n)
    <3>1. lots \in Seq(Lot) /\ sweep.todo # {} /\ sweep.todo \subseteq DOMAIN lots
      BY <1>1 DEF Control, TypeOK
    <3> HIDE DEF sweep
    <3> QED BY <3>1, FirstAndLast
  <2> HIDE DEF sweep
  <2> QED BY <2>1 DEF Next1
<1>3. l \in DOMAIN lots /\ l \in 1 .. MaxLots /\ lots[l].left \in Int
  <2>1. l \in DOMAIN lots
    BY <1>1, <1>2
  <2> HIDE DEF l
  <2> QED BY <2>1, LotFacts, LotsAssumption DEF Control, TypeOK
<1>4. lock = Free \/ lock.by # p
  BY <1>1, NotHolder
<1>5. CASE lots[l].left <= 0
  <2>1. Begin(p, Without(sweep, l))
    BY <1>5 DEF ReadLot
  <2> HIDE DEF sweep, l
  <2> QED BY <1>1, <1>4, <2>1, SweepOK, BeginMoves
<1>6. CASE ~(lots[l].left <= 0)
  <2>1. Begin(p, [op |-> "lapse", sweep |-> sweep, lot |-> l, seen |-> lots[l].left])
    BY <1>6 DEF ReadLot
  <2>2. lots[l].left \in Nat /\ lots[l].left > 0
    BY <1>3, <1>6
  <2> HIDE DEF sweep, l
  <2>3. LET w == [op |-> "lapse", sweep |-> sweep, lot |-> l, seen |-> lots[l].left] IN
        w \in Work /\ WorkOK(w)
    BY <1>1, <1>3, <2>2, SweepOK
  <2> QED BY <1>4, <2>1, <2>3, BeginMoves
<1> QED BY <1>5, <1>6

LEMMA LapseFacts ==
  ASSUME Control, NEW p \in Processes, work[p].op = "lapse"
  PROVE  /\ work[p].sweep \in Sweep /\ work[p].sweep.todo \subseteq DOMAIN lots
         /\ work[p].lot \in DOMAIN lots /\ work[p].lot \in 1 .. MaxLots
         /\ LapseKey(work[p].lot) \in Keys
         /\ LapseAmount(p) \in Nat
         /\ LapseAmount(p) = 0 => balance <= 0
         /\ lock = Free \/ lock.by # p
<1>1. work[p].seen \in Nat /\ work[p].seen > 0 /\ work[p].lot \in DOMAIN lots /\ work[p].lot \in 1 .. MaxLots
  BY WorkFacts DEF Control, WorkInv, WorkOK, TypeOK
<1>2. LapseKey(work[p].lot) \in Keys
  BY <1>1 DEF Keys
<1>3. LapseAmount(p) \in Nat /\ (LapseAmount(p) = 0 => balance <= 0)
  BY <1>1 DEF LapseAmount, Least, AtLeast0, Control, TypeOK
<1> QED BY <1>1, <1>2, <1>3, SweepFacts, NotHolder

LEMMA LapseMoves ==
  ASSUME Control, NEW p \in Processes, LapseReplayed(p) \/ StartLapse(p)
  PROVE  (\E w : Moves(p, w)) /\ Outside
<1> DEFINE sweep == work[p].sweep
           l == work[p].lot
           n == LapseAmount(p)
<1>1. work[p].op = "lapse" /\ n > 0
  BY DEF LapseReplayed, StartLapse
<1>2. /\ sweep \in Sweep /\ sweep.todo \subseteq DOMAIN lots /\ LapseKey(l) \in Keys /\ n \in Nat
      /\ lock = Free \/ lock.by # p
  BY <1>1, LapseFacts
<1>3. \/ Begin(p, Without(sweep, l)) \/ Begin(p, Idle)
      \/ Begin(p, Debit(LapseKey(l), n, Without(sweep, l).sweep))
  BY DEF LapseReplayed, StartLapse
<1> HIDE DEF sweep, l, n
<1>4. Without(sweep, l) \in Work /\ WorkOK(Without(sweep, l))
  BY <1>2, SweepOK
<1>5. LET w == Debit(LapseKey(l), n, Without(sweep, l).sweep) IN w \in Work /\ WorkOK(w)
  <2> DEFINE s == Without(sweep, l).sweep
  <2>1. s \in Sweep /\ s.todo \subseteq DOMAIN lots
    BY <1>2, SweepOK
  <2> HIDE DEF s
  <2>2. Debit(LapseKey(l), n, s) \in Work /\ WorkOK(Debit(LapseKey(l), n, s))
    BY <1>1, <1>2, <2>1, SweepOK DEF n
  <2> QED BY <2>2 DEF s
<1> QED BY <1>2, <1>3, <1>4, <1>5, IdleOK, BeginMoves

LEMMA SweepGoesOn ==
  ASSUME Control, NEW p \in Processes, LapseOvertaken(p) \/ EndSweep(p)
  PROVE  (\E w : Moves(p, w)) /\ Outside
<1> DEFINE sweep == work[p].sweep
<1>1. work[p].op \in {"sweep", "debit"} /\ (lock = Free \/ lock.by # p)
  BY NotHolder DEF LapseOvertaken, EndSweep
<1>2. sweep \in Sweep /\ sweep.todo \subseteq DOMAIN lots
  BY <1>1, SweepFacts
<1>3. \/ Begin(p, [op |-> "sweep", sweep |-> sweep])
      \/ Begin(p, [op |-> "offboard", sweep |-> sweep])
      \/ Begin(p, Idle)
  BY DEF LapseOvertaken, EndSweep
<1> HIDE DEF sweep
<1>4. \A op \in {"sweep", "offboard"} :
        [op |-> op, sweep |-> sweep] \in Work /\ WorkOK([op |-> op, sweep |-> sweep])
  BY <1>2, SweepOK
<1> QED BY <1>1, <1>3, <1>4, IdleOK, BeginMoves

LEMMA RestorableRows ==
  ASSUME Control, NEW p \in Processes, Reset(p), p \in Sessions
  PROVE  (\E ks : GivesBack(p, ks)) /\ Outside
<1> DEFINE ks == {k \in work[p].keys : ~rows[k].undone}
<1>1. work[p].op = "reset" /\ (\A k \in ks : Restorable(k)) /\ GiveBack(ks) /\ Set(p, Idle)
  BY DEF Reset
<1>2. ks \subseteq DOMAIN rows /\ OneKind(ks)
  BY <1>1 DEF Control, WorkInv, WorkOK, OneKind
<1>3. \A k \in ks : ~rows[k].undone
  OBVIOUS
<1> HIDE DEF ks
<1>4. GivesBack(p, ks)
  BY <1>1, <1>2, <1>3 DEF GivesBack, Set
<1>5. Outside
  BY <1>1 DEF GiveBack, Outside, Control, TypeOK, Member
<1> QED BY <1>4, <1>5

LEMMA RefundGives ==
  ASSUME Control, NEW p \in Sessions, NEW s \in Spends, Refund(p, s)
  PROVE  (\E ks : GivesBack(p, ks)) /\ Outside
<1>1. GivesBack(p, {SpendKey(s)})
  BY DEF Refund, GivesBack, OneKind, Posted
<1>2. Outside
  BY DEF Refund, GiveBack, Outside, Control, TypeOK, Member
<1> QED BY <1>1, <1>2

WalletStep ==
  \/ Rests
  \/ \E p \in Processes : \E w : Moves(p, w)
  \/ \E p \in Processes : Earn(p) \/ Lock(p) \/ Commit(p) \/ EmptyLot(p)
  \/ \E p \in Processes : \E ks : GivesBack(p, ks)

LEMMA SessionStepKinds ==
  ASSUME Control, NEW p \in Sessions, SessionStep(p)
  PROVE  WalletStep /\ Outside
<1>p. p \in Processes
  BY ProcessFacts
<1>s. \A op : Serves(p, op) => work[p].op # "debit"
  BY IdleOK DEF Serves
<1> DEFINE Quiet == \E w : Moves(p, w)
<1>1. ASSUME NEW g \in Grants, ReadEarn(p, g) PROVE Quiet /\ Outside
  <2>1. [op |-> "earn", g |-> g] \in Work /\ WorkOK([op |-> "earn", g |-> g])
    BY DEF Work, WorkOK
  <2> QED BY <1>1, <1>p, <1>s, <2>1, NotHolder, BeginMoves DEF ReadEarn
<1>2. ASSUME Earn(p) PROVE Outside
  BY <1>2 DEF Earn, Outside, Control, TypeOK, Member
<1>3. ASSUME EarnRefused(p) \/ ResetRefused(p) PROVE Quiet /\ Outside
  BY <1>3, <1>p, IdleOK, NotHolder, BeginMoves DEF EarnRefused, ResetRefused
<1>4. ASSUME NEW s \in Spends, ReadSpend(p, s) PROVE Quiet /\ Outside
  <2>1. SpendKey(s) \in Keys /\ Cost[s] \in Nat /\ Cost[s] > 0
    BY LotsAssumption DEF Keys
  <2>2. Debit(SpendKey(s), Cost[s], NoSweep) \in Work /\ WorkOK(Debit(SpendKey(s), Cost[s], NoSweep))
    BY <2>1, NoSweepOK, SweepOK
  <2> QED BY <1>4, <1>p, <1>s, <2>2, NotHolder, BeginMoves DEF ReadSpend
<1>5. ASSUME NEW s \in Spends, Refund(p, s) PROVE (\E ks : GivesBack(p, ks)) /\ Outside
  BY <1>5, RefundGives
<1>6. ASSUME NEW r \in Runs, StartExpire(p, r) \/ StartForce(p, r) PROVE Quiet /\ Outside
  BY <1>6, <1>p, StartSweepMoves DEF StartExpire, StartForce
<1>7. ASSUME NEW r \in Runs, ReadReset(p, r) PROVE Quiet /\ Outside
  <2> DEFINE ks == {k \in OfRun(r) : ~rows[k].undone}
  <2>1. ks \subseteq DOMAIN rows /\ ks \in SUBSET Keys /\ \A k \in ks : k[1] = "lapse"
    BY DEF OfRun, Control, TypeOK
  <2>2. ks \subseteq LapseKeys
    BY <2>1 DEF Keys, LapseKeys, SpendKey, ClearKey, LapseKey
  <2>3. Begin(p, [op |-> "reset", keys |-> ks])
    BY <1>7 DEF ReadReset
  <2>4. work[p].op # "debit"
    BY <1>7, <1>s DEF ReadReset
  <2> HIDE DEF ks
  <2>5. [op |-> "reset", keys |-> ks] \in Work /\ WorkOK([op |-> "reset", keys |-> ks])
    BY <2>1, <2>2 DEF Work, WorkOK
  <2> QED BY <1>p, <2>3, <2>4, <2>5, NotHolder, BeginMoves
<1>8. ASSUME Reset(p) PROVE (\E ks : GivesBack(p, ks)) /\ Outside
  BY <1>8, <1>p, RestorableRows
<1>9. ASSUME ReadClear(p) PROVE Quiet /\ Outside
  <2>1. ClearKey(p) \in Keys
    BY DEF Keys
  <2> QED BY <1>9, <1>p, <1>s, <2>1, ClearMoves DEF ReadClear
<1>10. ASSUME NEW day \in 0 .. Horizon, ReadSchedule(p, day) PROVE Quiet /\ Outside
  <2>1. [op |-> "schedule", day |-> day] \in Work /\ WorkOK([op |-> "schedule", day |-> day])
    BY DEF Work, WorkOK
  <2> QED BY <1>10, <1>p, <1>s, <2>1, NotHolder, BeginMoves DEF ReadSchedule
<1>11. ASSUME Schedule(p) PROVE Quiet /\ Outside
  <2>1. work[p].op = "schedule" /\ work[p].day \in 0 .. Horizon /\ member \in Member /\ clock \in 0 .. Horizon
    BY <1>11, <1>p, WorkFacts DEF Schedule, Control, TypeOK, Member
  <2>2. Moves(p, Idle)
    BY <1>11, <1>p, <2>1, IdleOK, NotHolder DEF Schedule, Moves, Set
  <2>3. Outside
    BY <1>11, <2>1, LotsAssumption DEF Schedule, Outside, Member, Never
  <2> QED BY <2>2, <2>3
<1>12. ASSUME CancelSchedule(p) \/ Rehire(p) PROVE Rests /\ Outside
  <2>1. Rests
    BY <1>12 DEF CancelSchedule, Rehire, Rests
  <2>2. member \in Member /\ clock \in 0 .. Horizon /\ Never \in 0 .. Never
    BY LotsAssumption DEF Control, TypeOK, Member, Never
  <2>3. Outside
    BY <1>12, <2>2 DEF CancelSchedule, Rehire, Outside, Member
  <2> QED BY <2>1, <2>3
<1> HIDE DEF Quiet
<1>q. Quiet => WalletStep
  BY <1>p DEF Quiet, WalletStep
<1>g. (\E ks : GivesBack(p, ks)) => WalletStep
  BY <1>p DEF WalletStep
<1>r. Rests \/ Earn(p) => WalletStep
  BY <1>p DEF WalletStep
<1> QED
  BY <1>1, <1>2, <1>3, <1>4, <1>5, <1>6, <1>7, <1>8, <1>9, <1>10, <1>11, <1>12,
     <1>q, <1>g, <1>r DEF SessionStep

LEMMA StepKinds ==
  ASSUME Control, [Next]_vars
  PROVE  WalletStep /\ Outside
<1>1. CASE UNCHANGED vars
  BY <1>1 DEF vars, fixed, ledger, WalletStep, Rests, Outside, Control, TypeOK, Member
<1>2. CASE StartJob
  BY <1>2, ProcessFacts, StartSweepMoves DEF StartJob, WalletStep
<1>3. CASE Offboard
  <2>1. work[Job].op # "debit"
    BY <1>3 DEF Offboard
  <2>2. CASE member.status = "ACTIVE" /\ member.last < clock
    <3>1. member.last \in 0 .. Horizon
      BY <2>2, LotsAssumption DEF Control, TypeOK, Never
    <3>2. ClearKey(member.last) \in Keys
      BY <3>1 DEF Keys
    <3>3. Clear(Job, member.last)
      BY <1>3, <2>2 DEF Offboard
    <3> QED BY <2>1, <3>2, <3>3, ProcessFacts, ClearMoves DEF WalletStep
  <2>3. CASE ~(member.status = "ACTIVE" /\ member.last < clock)
    BY <1>3, <2>1, <2>3, ProcessFacts, IdleOK, NotHolder, BeginMoves DEF Offboard, WalletStep
  <2> QED BY <2>2, <2>3
<1>4. CASE Tick
  BY <1>4, LotsAssumption DEF Tick, WalletStep, Rests, Outside, Control, TypeOK, Member
<1>5. ASSUME NEW p \in Processes, SweepStep(p) PROVE WalletStep /\ Outside
  <2>1. ASSUME EmptyLot(p) PROVE WalletStep /\ Outside
    BY <2>1 DEF EmptyLot, WalletStep, Outside, Control, TypeOK, Member
  <2>2. ASSUME ReadLot(p) PROVE WalletStep /\ Outside
    BY <2>2, ReadLotMoves DEF WalletStep
  <2>3. ASSUME LapseReplayed(p) \/ StartLapse(p) PROVE WalletStep /\ Outside
    BY <2>3, LapseMoves DEF WalletStep
  <2>4. ASSUME LapseOvertaken(p) \/ EndSweep(p) PROVE WalletStep /\ Outside
    BY <2>4, SweepGoesOn DEF WalletStep
  <2> QED BY <1>5, <2>1, <2>2, <2>3, <2>4 DEF SweepStep
<1>6. ASSUME NEW p \in Processes, DebitStep(p) PROVE WalletStep /\ Outside
  <2>1. ASSUME Lock(p) PROVE WalletStep /\ Outside
    BY <2>1 DEF Lock, WalletStep, Outside, Control, TypeOK, Member
  <2>2. ASSUME Commit(p) PROVE WalletStep /\ Outside
    <3>1. member \in Member /\ Inactive \in Member /\ clock \in 0 .. Horizon
      BY LotsAssumption DEF Control, TypeOK, Member, Inactive, Never
    <3>2. Outside
      BY <2>2, <3>1 DEF Commit, Outside
    <3> QED BY <2>2, <3>2 DEF WalletStep
  <2>3. ASSUME Refuse(p) PROVE WalletStep /\ Outside
    BY <2>3, IdleOK, BeginMoves DEF Refuse, WalletStep
  <2> QED BY <1>6, <2>1, <2>2, <2>3 DEF DebitStep
<1> QED
  BY <1>1, <1>2, <1>3, <1>4, <1>5, <1>6, SessionStepKinds DEF Next

-----------------------------------------------------------------------------
(***************************************************************************)
(* The points in some lots that expire on some days.  A lot counts with    *)
(* what is left of it, or with nothing when it has gone below zero.        *)
(***************************************************************************)

LeftIn == [x \in Lot |-> x.left]
NetIn == [x \in Lot |-> AtLeast0(x.left)]

OnDays(L, days) == {l \in DOMAIN L : L[l].expiry \in days}

PointsIn(L, val, days) == SumFunctionOnSet([l \in DOMAIN L |-> val[L[l]]], OnDays(L, days))

Days == 1 .. Never

LEMMA PointsFacts ==
  ASSUME NEW L \in Seq(Lot), NEW val \in [Lot -> Int], NEW days
  PROVE  /\ IsFiniteSet(OnDays(L, days)) /\ OnDays(L, days) \subseteq DOMAIN L
         /\ IntOn([l \in DOMAIN L |-> val[L[l]]], OnDays(L, days))
         /\ PointsIn(L, val, days) \in Int
         /\ OnDays(L, Days) = DOMAIN L
<1>1. IsFiniteSet(DOMAIN L)
  BY FS_Interval
<1>2. OnDays(L, days) \subseteq DOMAIN L
  BY DEF OnDays
<1>3. \A l \in DOMAIN L : L[l] \in Lot
  OBVIOUS
<1>4. IntOn([l \in DOMAIN L |-> val[L[l]]], OnDays(L, days))
  BY <1>2, <1>3 DEF IntOn
<1>5. IsFiniteSet(OnDays(L, days))
  BY <1>1, <1>2, FS_Subset
<1>6. OnDays(L, Days) = DOMAIN L
  BY <1>3 DEF OnDays, Lot, Days
<1>7. PointsIn(L, val, days) \in Int
  BY <1>4, <1>5, SumType DEF PointsIn
<1> QED BY <1>2, <1>4, <1>5, <1>6, <1>7

LEMMA ValuesAreInt == LeftIn \in [Lot -> Int] /\ NetIn \in [Lot -> Int]
BY DEF LeftIn, NetIn, Lot, AtLeast0

(* Lots that are added count with the others.                                *)
LEMMA PointsAdd ==
  ASSUME NEW L \in Seq(Lot), NEW M \in Seq(Lot), NEW val \in [Lot -> Int], NEW days
  PROVE  PointsIn(L \o M, val, days) = PointsIn(L, val, days) + PointsIn(M, val, days)
<1> DEFINE n == Len(L)
           f == [l \in DOMAIN L |-> val[L[l]]]
           g == [l \in DOMAIN M |-> val[M[l]]]
           h == [l \in DOMAIN (L \o M) |-> val[(L \o M)[l]]]
           S == OnDays(L, days)
           T == OnDays(M, days)
           I == OnDays(L \o M, days)
<1>1. /\ L \o M \in Seq(Lot) /\ n \in Nat /\ DOMAIN L = 1 .. n
      /\ DOMAIN M = 1 .. Len(M) /\ Len(M) \in Nat /\ DOMAIN (L \o M) = 1 .. (n + Len(M))
  OBVIOUS
<1>2. \A l \in DOMAIN L : l \in DOMAIN (L \o M) /\ (L \o M)[l] = L[l]
  BY <1>1, ConcatProperties
<1>3. \A i \in DOMAIN M : n + i \in DOMAIN (L \o M) /\ (L \o M)[n + i] = M[i]
  BY <1>1, ConcatProperties
<1>4. \A l \in DOMAIN (L \o M) : l \in DOMAIN L \/ \E i \in DOMAIN M : l = n + i
  <2> SUFFICES ASSUME NEW l \in 1 .. (n + Len(M)), l \notin 1 .. n
               PROVE  \E i \in 1 .. Len(M) : l = n + i
    BY <1>1
  <2>1. l - n \in 1 .. Len(M) /\ l = n + (l - n)
    BY <1>1
  <2> QED BY <2>1
<1>5. I = S \cup {n + i : i \in T}
  <2> HIDE DEF n
  <2> QED BY <1>2, <1>3, <1>4 DEF OnDays
<1>6. S \in SUBSET (1 .. n) /\ T \in SUBSET (Nat \ {0})
  BY <1>1 DEF OnDays
<1>7. (\A l \in S : h[l] = f[l]) /\ (\A i \in T : h[n + i] = g[i])
  <2> HIDE DEF n
  <2> QED BY <1>2, <1>3 DEF OnDays
<1>8. IntOn(f, S) /\ IsFiniteSet(T) /\ IntOn(g, T)
  BY PointsFacts
<1> HIDE DEF f, g, h, S, T, I, n
<1>9. SumFunctionOnSet(h, I) = SumFunctionOnSet(f, S) + SumFunctionOnSet(g, T)
  <2>1. Follows(h, I, f, S, g, T, n)
    BY <1>5, <1>7 DEF Follows
  <2> QED BY <1>1, <1>6, <1>8, <2>1, SumConcat
<1> QED BY <1>9 DEF PointsIn, f, g, h, S, T, I

LEMMA PointsInOne ==
  ASSUME NEW x \in Lot, NEW val \in [Lot -> Int], NEW days
  PROVE  PointsIn(<<x>>, val, days) = IF x.expiry \in days THEN val[x] ELSE 0
<1> DEFINE f == [l \in DOMAIN <<x>> |-> val[<<x>>[l]]]
<1>1. OnDays(<<x>>, days) = (IF x.expiry \in days THEN {1} ELSE {}) /\ f[1] = val[x] /\ val[x] \in Int
  BY DEF OnDays
<1> HIDE DEF f
<1>2. SumFunctionOnSet(f, {1}) = f[1] /\ SumFunctionOnSet(f, {}) = 0
  BY <1>1, SumSingle, SumEmpty
<1> QED BY <1>1, <1>2 DEF PointsIn, f

(* Where no lot is below zero both ways of counting agree.                   *)
LEMMA NetIsLeft ==
  ASSUME NEW L \in Seq(Lot), \A l \in DOMAIN L : L[l].left >= 0, NEW days
  PROVE  PointsIn(L, NetIn, days) = PointsIn(L, LeftIn, days)
<1> DEFINE f == [l \in DOMAIN L |-> NetIn[L[l]]]
           g == [l \in DOMAIN L |-> LeftIn[L[l]]]
<1>1. \A l \in DOMAIN L : f[l] = g[l]
  <2>1. \A l \in DOMAIN L : L[l] \in Lot
    OBVIOUS
  <2> QED BY <2>1 DEF NetIn, LeftIn, AtLeast0, Lot
<1>2. IsFiniteSet(OnDays(L, days)) /\ OnDays(L, days) \subseteq DOMAIN L
  BY PointsFacts, ValuesAreInt
<1> HIDE DEF f, g
<1> QED BY <1>1, <1>2, SumSame DEF PointsIn, f, g

(* What the properties say in these terms.                                   *)
LEMMA InPoints ==
  ASSUME NEW L \in Seq(Lot), NEW e
  PROVE  /\ SumFunction([l \in DOMAIN L |-> AtLeast0(L[l].left)]) = PointsIn(L, NetIn, Days)
         /\ SumFunction([l \in {m \in DOMAIN L : L[m].expiry = e} |-> L[l].left])
              = PointsIn(L, LeftIn, {e})
<1> DEFINE N == [l \in DOMAIN L |-> AtLeast0(L[l].left)]
<1>1. \A l \in DOMAIN L : L[l] \in Lot
  OBVIOUS
<1>2. N = [l \in DOMAIN L |-> NetIn[L[l]]] /\ DOMAIN N = OnDays(L, Days)
  BY <1>1, PointsFacts, ValuesAreInt DEF NetIn
<1>3. SumFunction(N) = PointsIn(L, NetIn, Days)
  <2> HIDE DEF N
  <2> QED BY <1>2 DEF SumFunction, PointsIn
<1>4. SumFunction([l \in {m \in DOMAIN L : L[m].expiry = e} |-> L[l].left]) = PointsIn(L, LeftIn, {e})
  <2> DEFINE D == {m \in DOMAIN L : L[m].expiry = e}
             f == [l \in D |-> L[l].left]
             g == [l \in DOMAIN L |-> LeftIn[L[l]]]
  <2>1. D = OnDays(L, {e}) /\ IsFiniteSet(D)
    <3>1. D = OnDays(L, {e})
      BY DEF OnDays
    <3> QED BY <3>1, PointsFacts, ValuesAreInt
  <2>2. \A l \in D : f[l] = g[l]
    BY <1>1 DEF LeftIn
  <2>3. SumFunction(f) = SumFunctionOnSet(f, D)
    BY DEF SumFunction
  <2> HIDE DEF D, f, g
  <2>4. SumFunctionOnSet(f, D) = SumFunctionOnSet(g, D)
    BY <2>1, <2>2, SumSame
  <2>5. SumFunction(f) = PointsIn(L, LeftIn, {e})
    BY <2>1, <2>3, <2>4 DEF PointsIn, g
  <2> QED BY <2>5 DEF f, D
<1> QED BY <1>3, <1>4

-----------------------------------------------------------------------------
(***************************************************************************)
(* The wallet after a step of each kind.                                   *)
(***************************************************************************)

Wallet ==
  /\ balance \in Int /\ (negative \/ balance >= 0)
  /\ lots \in Seq(Lot) /\ Len(lots) <= MaxLots
  /\ granted \subseteq Grants
  /\ DOMAIN rows \subseteq Keys /\ \A k \in DOMAIN rows : rows[k] \in Rows
  /\ RowsOK /\ LeftOK /\ LotsBackBalance

Locks == (lock = Free \/ lock \in [by : Processes, plan : Seq(Nat)]) /\ LockOK

Works == work \in [Processes -> Work] /\ WorkInv

LEMMA Parts ==
  IInv <=> /\ routes \in Rosters /\ clock \in 0 .. Horizon /\ negative \in BOOLEAN /\ member \in Member
           /\ Wallet /\ Locks /\ Works
BY DEF IInv, TypeOK, Wallet, Locks, Works, Member

LEMMA WalletKept ==
  ASSUME Wallet, UNCHANGED <<negative, ledger>>
  PROVE  Wallet'
<1>1. negative' = negative /\ balance' = balance /\ lots' = lots /\ granted' = granted /\ rows' = rows
  BY DEF ledger
<1>2. LeftOf' = LeftOf
  BY <1>1 DEF LeftOf
<1>3. LeftSum' = LeftSum
  BY <1>2 DEF LeftSum
<1>4. \A k : Recorded(k)' = Recorded(k)
  BY <1>1 DEF Recorded
<1>5. LotsBackBalance'
  BY <1>1, <1>3, <1>4 DEF Wallet, LotsBackBalance
<1> QED BY <1>1, <1>5 DEF Wallet, RowsOK, LeftOK

(* What a process is doing stays good while lots and rows are only added.    *)
LEMMA WorkStays ==
  ASSUME DOMAIN lots \subseteq DOMAIN lots', DOMAIN rows \subseteq DOMAIN rows', NEW w, WorkOK(w)
  PROVE  WorkOK(w)'
BY DEF WorkOK

LEMMA WorksKept ==
  ASSUME Works, DOMAIN lots \subseteq DOMAIN lots', DOMAIN rows \subseteq DOMAIN rows',
         NEW p \in Processes,
         work' = work \/ \E w \in Work : work' = [work EXCEPT ![p] = w] /\ WorkOK(w)
  PROVE  Works'
<1>1. CASE work' = work
  BY <1>1, WorkStays DEF Works, WorkInv
<1>2. ASSUME NEW w \in Work, work' = [work EXCEPT ![p] = w], WorkOK(w)
      PROVE  Works'
  <2>1. \A q \in Processes : work'[q] \in Work /\ WorkOK(work'[q])
    BY <1>2 DEF Works, WorkInv
  <2>2. \A q \in Processes : WorkOK(work[q])'
    BY <2>1 DEF WorkOK
  <2>3. work' \in [Processes -> Work]
    BY <1>2 DEF Works
  <2> QED BY <2>2, <2>3 DEF Works, WorkInv
<1> QED BY <1>1, <1>2

(* Whoever holds the row keeps its plan while the others move.               *)
LEMMA LocksKept ==
  ASSUME Locks, UNCHANGED <<negative, ledger, lock>>,
         lock # Free => work'[lock.by] = work[lock.by]
  PROVE  Locks'
<1>1. negative' = negative /\ balance' = balance /\ lots' = lots /\ rows' = rows /\ lock' = lock
  BY DEF ledger
<1>2. CASE lock = Free
  BY <1>1, <1>2 DEF Locks, LockOK
<1>3. CASE lock # Free
  <2>1. work'[lock'.by] = work[lock.by]
    BY <1>1, <1>3
  <2>2. LockOK'
    BY <1>1, <1>3, <2>1 DEF Locks, LockOK, Posted, Before
  <2> QED BY <1>1, <2>2 DEF Locks
<1> QED BY <1>2, <1>3

LEMMA RestsKeeps ==
  ASSUME IInv, Rests
  PROVE  Wallet' /\ Locks' /\ Works'
<1>1. UNCHANGED <<negative, ledger, lock, work>>
  BY DEF Rests, fixed
<1>2. Wallet /\ Locks /\ Works
  BY Parts
<1>3. DOMAIN lots' = DOMAIN lots /\ DOMAIN rows' = DOMAIN rows
  BY <1>1 DEF ledger
<1> QED BY <1>1, <1>2, <1>3, WalletKept, LocksKept, WorksKept, ProcessFacts

LEMMA MovesKeeps ==
  ASSUME IInv, NEW p \in Processes, NEW w, Moves(p, w)
  PROVE  Wallet' /\ Locks' /\ Works'
<1>1. UNCHANGED <<negative, ledger, lock>> /\ work' = [work EXCEPT ![p] = w] /\ w \in Work /\ WorkOK(w)
      /\ (lock = Free \/ lock.by # p)
  BY DEF Moves, fixed
<1>2. Wallet /\ Locks /\ Works
  BY Parts
<1>3. DOMAIN lots' = DOMAIN lots /\ DOMAIN rows' = DOMAIN rows
  BY <1>1 DEF ledger
<1>4. lock # Free => work'[lock.by] = work[lock.by]
  BY <1>1, <1>2 DEF Works
<1>5. Works'
  BY <1>1, <1>2, <1>3, WorksKept
<1> QED BY <1>1, <1>2, <1>4, <1>5, WalletKept, LocksKept

LEMMA BothAdd ==
  ASSUME NEW L \in Seq(Lot), NEW M \in Seq(Lot), NEW days
  PROVE  /\ PointsIn(L \o M, NetIn, days) = PointsIn(L, NetIn, days) + PointsIn(M, NetIn, days)
         /\ PointsIn(L \o M, LeftIn, days) = PointsIn(L, LeftIn, days) + PointsIn(M, LeftIn, days)
<1>1. NetIn \in [Lot -> Int]
  BY ValuesAreInt
<1>2. LeftIn \in [Lot -> Int]
  BY ValuesAreInt
<1>3. PointsIn(L \o M, NetIn, days) = PointsIn(L, NetIn, days) + PointsIn(M, NetIn, days)
  BY <1>1, PointsAdd
<1>4. PointsIn(L \o M, LeftIn, days) = PointsIn(L, LeftIn, days) + PointsIn(M, LeftIn, days)
  BY <1>2, PointsAdd
<1> QED BY <1>3, <1>4

(* Lots at the end count with the others.                                    *)
LEMMA LotsAppended ==
  ASSUME lots \in Seq(Lot), NEW new \in Seq(Lot), lots' = lots \o new, NEW e
  PROVE  /\ lots' \in Seq(Lot) /\ Len(lots') = Len(lots) + Len(new)
         /\ DOMAIN lots \subseteq DOMAIN lots'
         /\ \A l \in DOMAIN lots : lots'[l] = lots[l]
         /\ \A l \in DOMAIN lots' : l \in DOMAIN lots \/ \E i \in DOMAIN new : lots'[l] = new[i]
         /\ LeftSum' = LeftSum + PointsIn(new, NetIn, Days)
         /\ LeftUntil(e)' = LeftUntil(e) + PointsIn(new, LeftIn, {e})
<1>1. lots' \in Seq(Lot) /\ Len(lots') = Len(lots) + Len(new) /\ DOMAIN lots \subseteq DOMAIN lots'
  OBVIOUS
<1>2. \A l \in DOMAIN lots : lots'[l] = lots[l]
  BY ConcatProperties
<1>3. \A l \in DOMAIN lots' : l \in DOMAIN lots \/ \E i \in DOMAIN new : lots'[l] = new[i]
  <2>1. DOMAIN lots' = 1 .. (Len(lots) + Len(new)) /\ DOMAIN lots = 1 .. Len(lots)
        /\ DOMAIN new = 1 .. Len(new) /\ Len(lots) \in Nat /\ Len(new) \in Nat
    OBVIOUS
  <2> SUFFICES ASSUME NEW l \in DOMAIN lots', l \notin DOMAIN lots
               PROVE  \E i \in DOMAIN new : lots'[l] = new[i]
    OBVIOUS
  <2>2. l - Len(lots) \in DOMAIN new
    BY <2>1
  <2>3. lots'[l] = new[l - Len(lots)]
    BY <2>1, ConcatProperties
  <2> QED BY <2>2, <2>3
<1>4. /\ LeftSum = PointsIn(lots, NetIn, Days) /\ LeftUntil(e) = PointsIn(lots, LeftIn, {e})
      /\ LeftSum' = PointsIn(lots', NetIn, Days) /\ LeftUntil(e)' = PointsIn(lots', LeftIn, {e})
  BY <1>1, InPoints DEF LeftSum, LeftOf, LeftUntil
<1>5. PointsIn(lots \o new, NetIn, Days) = PointsIn(lots, NetIn, Days) + PointsIn(new, NetIn, Days)
  BY BothAdd
<1>6. PointsIn(lots \o new, LeftIn, {e}) = PointsIn(lots, LeftIn, {e}) + PointsIn(new, LeftIn, {e})
  BY BothAdd
<1> QED BY <1>1, <1>2, <1>3, <1>4, <1>5, <1>6

LEMMA RowsKept ==
  ASSUME RowsOK, rows' = rows, DOMAIN lots \subseteq DOMAIN lots'
  PROVE  RowsOK' /\ \A k : Recorded(k)' = Recorded(k)
BY DEF RowsOK, Recorded

LEMMA EarnKeeps ==
  ASSUME IInv, NEW p \in Processes, Earn(p)
  PROVE  Wallet' /\ Locks' /\ Works'
<1> DEFINE g == work[p].g
           x == [amount |-> Amount[g], left |-> Amount[g], expiry |-> Expiry[g]]
<1>1. /\ work[p].op = "earn" /\ lock = Free /\ Len(lots) < MaxLots
      /\ granted' = granted \cup {g} /\ balance' = balance + Amount[g] /\ lots' = Append(lots, x)
      /\ work' = [work EXCEPT ![p] = Idle] /\ UNCHANGED <<negative, rows, lock>>
  BY DEF Earn, Set, fixed
<1>2. Wallet /\ Locks /\ Works /\ negative \in BOOLEAN
  BY Parts
<1>3. g \in Grants
  BY <1>1, <1>2, WorkFacts DEF Works
<1>4. Amount[g] \in Nat \ {0} /\ Expiry[g] \in 1 .. Never
  BY <1>3, LotsAssumption
<1>5. x \in Lot /\ x.left = Amount[g] /\ x.left > 0 /\ x.expiry \in Days
  BY <1>4 DEF Lot, Days
<1> HIDE DEF g, x
<1>6. <<x>> \in Seq(Lot) /\ lots' = lots \o <<x>> /\ Len(<<x>>) = 1
      /\ \A i \in DOMAIN <<x>> : <<x>>[i] = x
  BY <1>1, <1>2, <1>5 DEF Wallet
<1>7. /\ lots' \in Seq(Lot) /\ Len(lots') = Len(lots) + 1
      /\ DOMAIN lots \subseteq DOMAIN lots' /\ \A l \in DOMAIN lots : lots'[l] = lots[l]
      /\ \A l \in DOMAIN lots' : l \in DOMAIN lots \/ lots'[l] = x
      /\ LeftSum' = LeftSum + PointsIn(<<x>>, NetIn, Days)
  <2>1. lots \in Seq(Lot)
    BY <1>2 DEF Wallet
  <2>2. /\ lots' \in Seq(Lot) /\ Len(lots') = Len(lots) + Len(<<x>>)
        /\ DOMAIN lots \subseteq DOMAIN lots' /\ \A l \in DOMAIN lots : lots'[l] = lots[l]
        /\ \A l \in DOMAIN lots' : l \in DOMAIN lots \/ \E i \in DOMAIN <<x>> : lots'[l] = <<x>>[i]
        /\ LeftSum' = LeftSum + PointsIn(<<x>>, NetIn, Days)
    BY <1>6, <2>1, LotsAppended
  <2> QED BY <1>6, <2>2
<1>8. PointsIn(<<x>>, NetIn, Days) = Amount[g]
  <2>1. PointsIn(<<x>>, NetIn, Days) = NetIn[x]
    BY <1>5, PointsInOne, ValuesAreInt
  <2> QED BY <1>4, <1>5, <2>1 DEF NetIn, AtLeast0
<1>9. RowsOK' /\ \A k : Recorded(k)' = Recorded(k)
  BY <1>1, <1>2, <1>7, RowsKept DEF Wallet
<1>10. LeftSum \in Nat
  BY <1>2, PlanAddsUp DEF Wallet
<1>11. LotsBackBalance'
  BY <1>1, <1>2, <1>4, <1>7, <1>8, <1>9, <1>10 DEF Wallet, LotsBackBalance
<1>12. LeftOK'
  BY <1>1, <1>2, <1>4, <1>5, <1>7 DEF Wallet, LeftOK
<1>13. /\ (balance \in Int /\ (negative \/ balance >= 0))' /\ Len(lots') <= MaxLots
       /\ granted' \subseteq Grants /\ DOMAIN rows' \subseteq Keys /\ \A k \in DOMAIN rows' : rows'[k] \in Rows
  <2>1. balance \in Int /\ (negative \/ balance >= 0) /\ Len(lots) \in Nat /\ MaxLots \in Nat
    BY <1>2, LotsAssumption DEF Wallet
  <2> QED BY <1>1, <1>2, <1>3, <1>4, <1>7, <2>1 DEF Wallet
<1>14. Wallet'
  BY <1>7, <1>9, <1>11, <1>12, <1>13 DEF Wallet
<1>15. Locks'
  BY <1>1, <1>2 DEF Locks, LockOK
<1>16. Works'
  BY <1>1, <1>2, <1>7, IdleOK, WorksKept
<1> QED BY <1>14, <1>15, <1>16

LEMMA LockKeeps ==
  ASSUME IInv, NEW p \in Processes, Lock(p)
  PROVE  Wallet' /\ Locks' /\ Works'
<1> DEFINE n == work[p].amount
<1>1. /\ work[p].op = "debit" /\ ~Posted(work[p].key) /\ (negative \/ balance >= n)
      /\ lock' = [by |-> p, plan |-> Plan(n)] /\ UNCHANGED <<negative, ledger, work>>
  BY DEF Lock, fixed
<1>2. Wallet /\ Locks /\ Works /\ negative \in BOOLEAN
  BY Parts
<1>3. n \in Nat /\ lots \in Seq(Lot)
  BY <1>1, <1>2, WorkFacts DEF Works, Wallet
<1>4. negative' = negative /\ balance' = balance /\ lots' = lots /\ rows' = rows /\ work' = work
  BY <1>1 DEF ledger
<1>5. Wallet' /\ Works'
  BY <1>1, <1>2, <1>4, WalletKept, WorksKept
<1> HIDE DEF n
<1>6. /\ DOMAIN Plan(n) = DOMAIN lots
      /\ \A l \in DOMAIN lots :
           /\ LeftOf[l] \in Nat /\ LeftOf[l] = AtLeast0(lots[l].left) /\ LeftBefore(l) \in Nat
           /\ Plan(n)[l] \in Nat /\ Plan(n)[l] = Least(LeftOf[l], AtLeast0(n - LeftBefore(l)))
      /\ SumFunction(Plan(n)) = Least(n, LeftSum) /\ LeftSum \in Nat
      /\ \A l \in DOMAIN lots : lots[l].left \in Int
  BY <1>3, PlanFacts, PlanAddsUp, LotFacts
<1>7. Plan(n) \in Seq(Nat)
  <2>1. Plan(n) \in [1 .. Len(lots) -> Nat] /\ Len(lots) \in Nat
    BY <1>3, <1>6, LotFacts DEF Plan
  <2> QED BY <2>1
<1>8. \A l, m \in DOMAIN lots : Plan(n)[l] > 0 /\ Before(m, l) => lots[m].left <= Plan(n)[m]
  BY <1>3, PlanInOrder
<1>9. SumFunction(Plan(n)) <= n
  BY <1>3, <1>6 DEF Least
<1>10. ~negative => n <= balance /\ SumFunction(Plan(n)) = n
  BY <1>1, <1>2, <1>3, <1>6 DEF Least, Wallet, LotsBackBalance
<1>11. ~negative => \A l \in DOMAIN lots : Plan(n)[l] <= lots[l].left
  <2> SUFFICES ASSUME ~negative, NEW l \in DOMAIN lots
               PROVE  Plan(n)[l] <= lots[l].left
    OBVIOUS
  <2>1. lots[l].left >= 0
    BY <1>2 DEF Wallet, LeftOK
  <2>2. LeftOf[l] = lots[l].left /\ Plan(n)[l] \in Nat /\ lots[l].left \in Int
        /\ Plan(n)[l] = Least(LeftOf[l], AtLeast0(n - LeftBefore(l)))
        /\ AtLeast0(n - LeftBefore(l)) \in Int
    BY <1>3, <1>6, <2>1 DEF AtLeast0
  <2> HIDE DEF Plan
  <2> QED BY <2>2 DEF Least
<1>12. LockOK'
  <2>1. lock'.by = p /\ lock'.plan = Plan(n) /\ work'[p] = work[p] /\ work[p].amount = n
    BY <1>1, <1>4 DEF n
  <2> HIDE DEF Plan
  <2> QED BY <1>1, <1>4, <1>6, <1>8, <1>9, <1>10, <1>11, <2>1 DEF LockOK, Posted, Before
<1>13. Locks'
  BY <1>1, <1>7, <1>12 DEF Locks
<1> QED BY <1>5, <1>13

(* A debit takes its plan out of the lots.  A lot counts for nothing below   *)
(* zero, so that the lots lose at most the plan.                             *)
LEMMA LotsTaken ==
  ASSUME lots \in Seq(Lot), NEW plan \in Seq(Nat), DOMAIN plan = DOMAIN lots, NEW days,
         lots' = [l \in DOMAIN lots |-> [lots[l] EXCEPT !.left = @ - plan[l]]]
  PROVE  /\ lots' \in Seq(Lot) /\ Len(lots') = Len(lots) /\ DOMAIN lots' = DOMAIN lots
         /\ \A l \in DOMAIN lots : /\ lots'[l].left = lots[l].left - plan[l]
                                   /\ lots'[l].expiry = lots[l].expiry
                                   /\ plan[l] \in Nat /\ lots[l].left \in Int
         /\ IsFiniteSet(OnDays(lots, days)) /\ IntOn(plan, OnDays(lots, days))
         /\ PointsIn(lots', LeftIn, days) + SumFunctionOnSet(plan, OnDays(lots, days))
              = PointsIn(lots, LeftIn, days)
         /\ PointsIn(lots', NetIn, days) + SumFunctionOnSet(plan, OnDays(lots, days))
              >= PointsIn(lots, NetIn, days)
<1>1. \A l \in DOMAIN lots : lots[l] \in Lot /\ lots[l].left \in Int /\ plan[l] \in Nat
  BY LotFacts
<1>2. \A l \in DOMAIN lots :
        /\ lots'[l] = [amount |-> lots[l].amount, left |-> lots[l].left - plan[l], expiry |-> lots[l].expiry]
        /\ lots'[l] \in Lot
  <2> TAKE l \in DOMAIN lots
  <2>1. lots'[l] = [lots[l] EXCEPT !.left = @ - plan[l]]
    OBVIOUS
  <2>2. lots[l] \in [amount : Nat, left : Int, expiry : 1 .. Never] /\ lots[l].left - plan[l] \in Int
    BY <1>1 DEF Lot
  <2>3. lots'[l] = [amount |-> lots[l].amount, left |-> lots[l].left - plan[l], expiry |-> lots[l].expiry]
    BY <2>1, <2>2
  <2> QED BY <2>2, <2>3 DEF Lot
<1>3. DOMAIN lots' = DOMAIN lots /\ DOMAIN lots = 1 .. Len(lots) /\ Len(lots) \in Nat
  OBVIOUS
<1>4. lots' \in Seq(Lot) /\ Len(lots') = Len(lots)
  <2>1. lots' \in [1 .. Len(lots) -> Lot]
    BY <1>2, <1>3
  <2> QED BY <1>3, <2>1
<1> DEFINE D == OnDays(lots, days)
           f == [l \in DOMAIN lots |-> LeftIn[lots[l]]]
           g == [l \in DOMAIN lots' |-> LeftIn[lots'[l]]]
           i == [l \in DOMAIN lots |-> NetIn[lots[l]]]
           j == [l \in DOMAIN lots' |-> NetIn[lots'[l]]]
           h == [l \in DOMAIN lots |-> j[l] + plan[l]]
<1>5. OnDays(lots', days) = D /\ D \subseteq DOMAIN lots
  BY <1>2, <1>3 DEF OnDays
<1>6. IsFiniteSet(D)
  BY PointsFacts, ValuesAreInt
<1>7. \A l \in DOMAIN lots :
        /\ f[l] = lots[l].left /\ g[l] = lots[l].left - plan[l]
        /\ i[l] = AtLeast0(lots[l].left) /\ j[l] = AtLeast0(lots[l].left - plan[l])
        /\ h[l] = j[l] + plan[l]
  <2> TAKE l \in DOMAIN lots
  <2>1. f[l] = LeftIn[lots[l]] /\ g[l] = LeftIn[lots'[l]] /\ i[l] = NetIn[lots[l]] /\ j[l] = NetIn[lots'[l]]
        /\ h[l] = j[l] + plan[l]
    BY <1>3
  <2>2. lots[l] \in Lot /\ lots'[l] \in Lot /\ lots'[l].left = lots[l].left - plan[l]
    BY <1>1, <1>2
  <2> HIDE DEF f, g, h, i, j
  <2> QED BY <2>1, <2>2 DEF LeftIn, NetIn
<1>8. PointsIn(lots, LeftIn, days) = SumFunctionOnSet(f, D) /\ PointsIn(lots, NetIn, days) = SumFunctionOnSet(i, D)
      /\ PointsIn(lots', LeftIn, days) = SumFunctionOnSet(g, D) /\ PointsIn(lots', NetIn, days) = SumFunctionOnSet(j, D)
  BY <1>5 DEF PointsIn
<1> HIDE DEF D, f, g, h, i, j
<1>9. \A l \in D : /\ f[l] \in Int /\ g[l] \in Int /\ i[l] \in Int /\ j[l] \in Int /\ plan[l] \in Int
                   /\ f[l] = g[l] + plan[l] /\ h[l] = j[l] + plan[l] /\ h[l] \in Int /\ i[l] <= h[l]
  <2> TAKE l \in D
  <2>1. l \in DOMAIN lots
    BY <1>5
  <2> DEFINE a == lots[l].left
             b == plan[l]
  <2>2. /\ a \in Int /\ b \in Nat /\ f[l] = a /\ g[l] = a - b
        /\ i[l] = AtLeast0(a) /\ j[l] = AtLeast0(a - b) /\ h[l] = j[l] + b
    BY <1>1, <1>7, <2>1
  <2> HIDE DEF a, b
  <2>3. /\ f[l] \in Int /\ g[l] \in Int /\ i[l] \in Int /\ j[l] \in Int /\ b \in Int
        /\ f[l] = g[l] + b /\ h[l] = j[l] + b /\ h[l] \in Int /\ i[l] <= h[l]
    BY <2>2 DEF AtLeast0
  <2> QED BY <2>3 DEF b
<1>10. IntOn(f, D) /\ IntOn(g, D) /\ IntOn(h, D) /\ IntOn(i, D) /\ IntOn(j, D) /\ IntOn(plan, D)
  BY <1>9 DEF IntOn
<1>11. SumFunctionOnSet(f, D) = SumFunctionOnSet(g, D) + SumFunctionOnSet(plan, D)
  BY <1>6, <1>9, <1>10, SumPlus
<1>12. SumFunctionOnSet(h, D) = SumFunctionOnSet(j, D) + SumFunctionOnSet(plan, D)
  BY <1>6, <1>9, <1>10, SumPlus
<1>13. SumFunctionOnSet(i, D) <= SumFunctionOnSet(h, D)
  BY <1>6, <1>9, <1>10, SumMonotone
<1>14. SumFunctionOnSet(i, D) \in Int /\ SumFunctionOnSet(j, D) \in Int /\ SumFunctionOnSet(plan, D) \in Int
  BY <1>6, <1>10, SumType
<1>15. IsFiniteSet(OnDays(lots, days)) /\ IntOn(plan, OnDays(lots, days))
  BY <1>6, <1>10 DEF D
<1>16. PointsIn(lots', LeftIn, days) + SumFunctionOnSet(plan, OnDays(lots, days)) = PointsIn(lots, LeftIn, days)
  BY <1>8, <1>11 DEF D
<1>17. PointsIn(lots', NetIn, days) + SumFunctionOnSet(plan, OnDays(lots, days)) >= PointsIn(lots, NetIn, days)
  BY <1>8, <1>12, <1>13, <1>14 DEF D
<1>18. \A l \in DOMAIN lots : /\ lots'[l].left = lots[l].left - plan[l]
                               /\ lots'[l].expiry = lots[l].expiry
                               /\ plan[l] \in Nat /\ lots[l].left \in Int
  BY <1>1, <1>2
<1> QED BY <1>3, <1>4, <1>15, <1>16, <1>17, <1>18

(* The same of all the lots, and without rounding where none goes below zero. *)
LEMMA SumTaken ==
  ASSUME lots \in Seq(Lot), NEW plan \in Seq(Nat), DOMAIN plan = DOMAIN lots,
         lots' = [l \in DOMAIN lots |-> [lots[l] EXCEPT !.left = @ - plan[l]]]
  PROVE  /\ LeftSum \in Nat /\ LeftSum' \in Int /\ SumFunction(plan) \in Int
         /\ LeftSum' + SumFunction(plan) >= LeftSum
         /\ (\A l \in DOMAIN lots : plan[l] <= lots[l].left) => LeftSum' + SumFunction(plan) = LeftSum
<1>1. /\ lots' \in Seq(Lot) /\ DOMAIN lots' = DOMAIN lots
      /\ \A l \in DOMAIN lots : /\ lots'[l].left = lots[l].left - plan[l]
                                /\ plan[l] \in Nat /\ lots[l].left \in Int
      /\ PointsIn(lots', LeftIn, Days) + SumFunctionOnSet(plan, OnDays(lots, Days)) = PointsIn(lots, LeftIn, Days)
      /\ PointsIn(lots', NetIn, Days) + SumFunctionOnSet(plan, OnDays(lots, Days)) >= PointsIn(lots, NetIn, Days)
      /\ IsFiniteSet(OnDays(lots, Days)) /\ IntOn(plan, OnDays(lots, Days))
  BY LotsTaken
<1>2. OnDays(lots, Days) = DOMAIN lots /\ SumFunction(plan) = SumFunctionOnSet(plan, OnDays(lots, Days))
  BY PointsFacts, ValuesAreInt DEF SumFunction
<1>3. LeftSum = PointsIn(lots, NetIn, Days) /\ LeftSum' = PointsIn(lots', NetIn, Days)
  BY <1>1, InPoints DEF LeftSum, LeftOf
<1>4. LeftSum \in Nat
  BY PlanAddsUp
<1>5. LeftSum' \in Int
  BY <1>1, <1>3, PointsFacts, ValuesAreInt
<1>6. SumFunction(plan) \in Int
  BY <1>1, <1>2, SumType
<1>7. ASSUME \A l \in DOMAIN lots : plan[l] <= lots[l].left
      PROVE  LeftSum' + SumFunction(plan) = LeftSum
  <2>1. (\A l \in DOMAIN lots : lots[l].left >= 0) /\ \A l \in DOMAIN lots' : lots'[l].left >= 0
    <3>1. ASSUME NEW l \in DOMAIN lots PROVE lots[l].left >= 0 /\ lots'[l].left >= 0
      <4> DEFINE a == lots[l].left
                 b == plan[l]
                 c == lots'[l].left
      <4>1. a \in Int /\ b \in Nat /\ b <= a /\ c = a - b
        BY <1>1, <1>7
      <4> HIDE DEF a, b, c
      <4>2. a >= 0 /\ c >= 0
        BY <4>1
      <4> QED BY <4>2 DEF a, c
    <3> QED BY <1>1, <3>1
  <2>2. PointsIn(lots, NetIn, Days) = PointsIn(lots, LeftIn, Days)
    BY <2>1, NetIsLeft
  <2>3. PointsIn(lots', NetIn, Days) = PointsIn(lots', LeftIn, Days)
    <3>1. lots' \in Seq(Lot) /\ \A l \in DOMAIN lots' : lots'[l].left >= 0
      BY <1>1, <2>1
    <3> QED BY <3>1, NetIsLeft
  <2> QED BY <1>1, <1>2, <1>3, <2>2, <2>3
<1>8. LeftSum' + SumFunction(plan) >= LeftSum
  BY <1>1, <1>2, <1>3
<1> QED BY <1>4, <1>5, <1>6, <1>7, <1>8

LEMMA LeftFacts ==
  ASSUME lots \in Seq(Lot)
  PROVE  /\ IsFiniteSet(DOMAIN lots) /\ IntOn(LeftOf, DOMAIN lots) /\ DOMAIN LeftOf = DOMAIN lots
         /\ \A l \in DOMAIN lots : LeftOf[l] >= 0 /\ LeftOf[l] = AtLeast0(lots[l].left)
<1>1. 0 \in Nat
  OBVIOUS
<1>2. /\ DOMAIN LeftOf = DOMAIN lots /\ DOMAIN Plan(0) = DOMAIN lots
      /\ \A l \in DOMAIN lots : LeftOf[l] \in Nat /\ LeftOf[l] = AtLeast0(lots[l].left)
      /\ IntOn(LeftOf, DOMAIN lots)
  BY <1>1, PlanFacts
<1> QED BY <1>2, LotFacts

LEMMA CommitKeeps ==
  ASSUME IInv, NEW p \in Processes, Commit(p)
  PROVE  Wallet' /\ Locks' /\ Works'
<1> DEFINE w == work[p]
           k == w.key
           n == w.amount
           plan == lock.plan
           row == [amount |-> n, taken |-> plan, run |-> w.sweep.run, undone |-> FALSE]
           next == IF k[1] = "lapse" THEN [op |-> "sweep", sweep |-> w.sweep] ELSE Idle
<1>1. /\ lock.by = p /\ balance' = balance - n
      /\ lots' = [l \in DOMAIN lots |-> [lots[l] EXCEPT !.left = @ - plan[l]]]
      /\ rows' = [j \in DOMAIN rows \cup {k} |-> IF j = k THEN row ELSE rows[j]]
      /\ lock' = Free /\ work' = [work EXCEPT ![p] = next] /\ UNCHANGED <<negative, granted>>
  BY DEF Commit, Set, fixed
<1>2. Wallet /\ Locks /\ Works /\ negative \in BOOLEAN
  BY Parts
<1>3. lock # Free
  BY <1>1, ProcessFacts DEF Free
<1>4. /\ w.op = "debit" /\ ~Posted(k) /\ plan \in Seq(Nat) /\ DOMAIN plan = DOMAIN lots
      /\ SumFunction(plan) <= n
      /\ ~negative => /\ n <= balance /\ SumFunction(plan) = n
                      /\ \A l \in DOMAIN lots : plan[l] <= lots[l].left
  BY <1>1, <1>2, <1>3 DEF Locks, LockOK
<1>5. /\ w \in Work /\ WorkOK(w) /\ k \in Keys /\ n \in Nat /\ n > 0
      /\ w.sweep \in Sweep /\ w.sweep.todo \subseteq DOMAIN lots
  BY <1>2, <1>4, WorkFacts DEF Works, WorkInv, WorkOK
<1>6. row \in Rows
  BY <1>4, <1>5 DEF Rows, Sweep
<1>7. next \in Work /\ WorkOK(next)
  <2>1. Control
    BY DEF IInv, Control
  <2> QED BY <1>5, <2>1, SweepOK, IdleOK
<1> HIDE DEF w, k, n, plan, next
<1>8. row.taken = plan /\ row.amount = n
  OBVIOUS
<1> HIDE DEF row
<1>9. /\ lots' \in Seq(Lot) /\ Len(lots') = Len(lots) /\ DOMAIN lots' = DOMAIN lots
      /\ \A l \in DOMAIN lots : /\ lots'[l].left = lots[l].left - plan[l]
                                /\ plan[l] \in Nat /\ lots[l].left \in Int
  BY <1>1, <1>2, <1>4, LotsTaken DEF Wallet
<1>10. /\ LeftSum \in Nat /\ LeftSum' \in Int /\ SumFunction(plan) \in Int
       /\ LeftSum' + SumFunction(plan) >= LeftSum
       /\ (\A l \in DOMAIN lots : plan[l] <= lots[l].left) => LeftSum' + SumFunction(plan) = LeftSum
  BY <1>1, <1>2, <1>4, SumTaken DEF Wallet
<1>11. /\ DOMAIN rows' = DOMAIN rows \cup {k} /\ k \notin DOMAIN rows /\ rows'[k] = row
       /\ \A j \in DOMAIN rows : rows'[j] = rows[j]
  BY <1>1, <1>4 DEF Posted
<1>12. RowsOK'
  <2>1. IsFiniteSet(DOMAIN rows \cup {k})
    BY <1>2, FS_AddElement DEF Wallet, RowsOK
  <2> QED BY <1>2, <1>4, <1>5, <1>8, <1>9, <1>11, <2>1 DEF Wallet, RowsOK
<1>13. /\ SumFunction(rows'[k].taken) = SumFunction(plan)
       /\ \A j \in DOMAIN rows : SumFunction(rows'[j].taken) = Recorded(j)
  BY <1>8, <1>11 DEF Recorded
<1>14. balance \in Int /\ (negative \/ balance >= 0) /\ balance' \in Int /\ (negative \/ balance' >= 0)
  BY <1>1, <1>2, <1>4, <1>5 DEF Wallet
<1>15. LotsBackBalance'
  <2>1. CASE negative
    <3>1. LeftSum >= balance
      BY <1>2, <2>1 DEF Wallet, LotsBackBalance
    <3>2. LeftSum' >= balance'
      BY <1>1, <1>4, <1>5, <1>10, <1>14, <3>1
    <3> QED BY <1>1, <2>1, <3>2 DEF LotsBackBalance
  <2>2. CASE ~negative
    <3>1. LeftSum = balance /\ \A j \in DOMAIN rows : rows[j].amount = Recorded(j)
      BY <1>2, <2>2 DEF Wallet, LotsBackBalance
    <3>2. LeftSum' = balance'
      BY <1>1, <1>4, <1>5, <1>10, <1>14, <2>2, <3>1
    <3>3. \A j \in DOMAIN rows' : rows'[j].amount = SumFunction(rows'[j].taken)
      BY <1>4, <1>8, <1>11, <1>13, <2>2, <3>1
    <3> QED BY <1>1, <2>2, <3>2, <3>3 DEF LotsBackBalance, Recorded
  <2> QED BY <2>1, <2>2
<1>16. LeftOK'
  <2> SUFFICES ASSUME ~negative, NEW l \in DOMAIN lots
               PROVE  lots'[l].left >= 0
    BY <1>1, <1>9 DEF LeftOK
  <2> DEFINE a == lots[l].left
             b == plan[l]
             c == lots'[l].left
  <2>1. a \in Int /\ b \in Nat /\ b <= a /\ c = a - b
    BY <1>4, <1>9
  <2> HIDE DEF a, b, c
  <2>2. c >= 0
    BY <2>1
  <2> QED BY <2>2 DEF c
<1>17. DOMAIN rows' \subseteq Keys /\ \A j \in DOMAIN rows' : rows'[j] \in Rows
  BY <1>2, <1>5, <1>6, <1>11 DEF Wallet
<1>18. Wallet'
  BY <1>1, <1>2, <1>9, <1>12, <1>14, <1>15, <1>16, <1>17 DEF Wallet
<1>19. Locks'
  BY <1>1 DEF Locks, LockOK
<1>20. Works'
  BY <1>1, <1>2, <1>7, <1>9, <1>11, WorksKept
<1> QED BY <1>18, <1>19, <1>20

(* Only a wallet without points has a lot emptied; where the balance may not *)
(* be negative there is nothing left in the lot by then.                     *)
LEMMA EmptyLotFacts ==
  ASSUME IInv, NEW p \in Processes, EmptyLot(p)
  PROVE  /\ lots' \in Seq(Lot) /\ Len(lots') = Len(lots) /\ DOMAIN lots' = DOMAIN lots
         /\ \A l \in DOMAIN lots : lots'[l].expiry = lots[l].expiry
         /\ \A l \in DOMAIN lots : lots'[l].left = lots[l].left \/ lots'[l].left = 0
         /\ balance <= 0
         /\ ~negative => lots' = lots
<1> DEFINE c == work[p].lot
<1>1. Wallet /\ Locks /\ Works /\ negative \in BOOLEAN
  BY Parts
<1>2. work[p].op = "lapse" /\ LapseAmount(p) = 0 /\ lots' = [lots EXCEPT ![c].left = 0]
  BY DEF EmptyLot
<1>3. work[p].seen \in Nat /\ work[p].seen > 0 /\ c \in DOMAIN lots /\ balance \in Int /\ lots \in Seq(Lot)
  BY <1>1, <1>2, WorkFacts DEF Works, WorkInv, WorkOK, Wallet
<1>4. balance <= 0
  BY <1>2, <1>3 DEF LapseAmount, Least, AtLeast0
<1> HIDE DEF c
<1>5. /\ DOMAIN lots = 1 .. Len(lots) /\ Len(lots) \in Nat
      /\ \A l \in DOMAIN lots : lots[l] \in [amount : Nat, left : Int, expiry : 1 .. Never]
  BY <1>3, LotFacts DEF Lot
<1>6. /\ DOMAIN lots' = DOMAIN lots
      /\ \A l \in DOMAIN lots : l # c => lots'[l] = lots[l]
      /\ lots'[c] = [amount |-> lots[c].amount, left |-> 0, expiry |-> lots[c].expiry]
  BY <1>2, <1>3, <1>5
<1>7. \A l \in DOMAIN lots : lots'[l] \in Lot
  <2> TAKE l \in DOMAIN lots
  <2>1. CASE l = c
    BY <1>5, <1>6, <2>1 DEF Lot
  <2>2. CASE l # c
    BY <1>5, <1>6, <2>2 DEF Lot
  <2> QED BY <2>1, <2>2
<1>8. lots' \in Seq(Lot) /\ Len(lots') = Len(lots)
  <2>1. lots' \in [1 .. Len(lots) -> Lot]
    BY <1>2, <1>5, <1>7
  <2> QED BY <1>5, <2>1
<1>9. ASSUME ~negative PROVE lots' = lots
  <2>1. balance = 0 /\ LeftSum = 0 /\ lots[c].left >= 0 /\ lots[c].left \in Int
    BY <1>1, <1>3, <1>4, <1>5, <1>9 DEF Wallet, LotsBackBalance, LeftOK
  <2>2. /\ IsFiniteSet(DOMAIN lots) /\ IntOn(LeftOf, DOMAIN lots) /\ DOMAIN LeftOf = DOMAIN lots
        /\ \A l \in DOMAIN lots : LeftOf[l] >= 0 /\ LeftOf[l] = AtLeast0(lots[l].left)
    BY <1>3, LeftFacts
  <2>3. SumFunctionOnSet(LeftOf, DOMAIN lots) = 0
    BY <2>1, <2>2 DEF LeftSum, SumFunction
  <2>4. LeftOf[c] = 0
    BY <1>3, <2>2, <2>3, SumZero
  <2>5. lots[c].left = 0
    BY <1>3, <2>1, <2>2, <2>4 DEF AtLeast0
  <2>6. \A l \in DOMAIN lots : lots'[l] = lots[l]
    BY <1>3, <1>5, <1>6, <2>5
  <2> QED BY <1>3, <1>6, <1>8, <2>6
<1> QED BY <1>3, <1>4, <1>6, <1>8, <1>9

LEMMA EmptyLotKeeps ==
  ASSUME IInv, NEW p \in Processes, EmptyLot(p)
  PROVE  Wallet' /\ Locks' /\ Works'
<1> DEFINE w == Without(work[p].sweep, work[p].lot)
<1>1. Wallet /\ Locks /\ Works /\ negative \in BOOLEAN /\ Control
  BY Parts DEF IInv, Control
<1>2. /\ work[p].op = "lapse" /\ work' = [work EXCEPT ![p] = w]
      /\ UNCHANGED <<negative, balance, granted, rows, lock>>
  BY DEF EmptyLot, Set, fixed
<1>3. /\ lots' \in Seq(Lot) /\ Len(lots') = Len(lots) /\ DOMAIN lots' = DOMAIN lots
      /\ \A l \in DOMAIN lots : lots'[l].expiry = lots[l].expiry
      /\ \A l \in DOMAIN lots : lots'[l].left = lots[l].left \/ lots'[l].left = 0
      /\ balance <= 0
      /\ ~negative => lots' = lots
  BY EmptyLotFacts
<1>4. w \in Work /\ WorkOK(w)
  BY <1>1, <1>2, SweepFacts, SweepOK
<1>5. lock = Free \/ lock.by # p
  BY <1>1, <1>2, NotHolder
<1> HIDE DEF w
<1>6. Works'
  BY <1>1, <1>2, <1>3, <1>4, WorksKept
<1>7. RowsOK' /\ \A k : Recorded(k)' = Recorded(k)
  BY <1>1, <1>2, <1>3, RowsKept DEF Wallet
<1>8. LotsBackBalance'
  <2>1. CASE negative
    <3>1. LeftSum' \in Nat
      <4>1. LeftSum' = PointsIn(lots', NetIn, Days)
        BY <1>3, InPoints DEF LeftSum, LeftOf
      <4>2. \A l \in DOMAIN lots' : NetIn[lots'[l]] >= 0
        <5>1. \A l \in DOMAIN lots' : lots'[l] \in Lot
          BY <1>3
        <5>2. \A x \in Lot : NetIn[x] >= 0
          BY DEF NetIn, AtLeast0, Lot
        <5> QED BY <5>1, <5>2
      <4>3. PointsIn(lots', NetIn, Days) \in Nat
        <5> DEFINE L == lots'
                   f == [l \in DOMAIN L |-> NetIn[L[l]]]
        <5>1. L \in Seq(Lot)
          BY <1>3
        <5>2. IsFiniteSet(OnDays(L, Days)) /\ OnDays(L, Days) \subseteq DOMAIN L /\ IntOn(f, OnDays(L, Days))
          <6> HIDE DEF L
          <6> QED BY <5>1, PointsFacts, ValuesAreInt
        <5>3. \A l \in OnDays(L, Days) : f[l] >= 0
          BY <4>2, <5>2
        <5> HIDE DEF L, f
        <5>4. SumFunctionOnSet(f, OnDays(L, Days)) \in Int /\ SumFunctionOnSet(f, OnDays(L, Days)) >= 0
          BY <5>2, <5>3, SumType
        <5> QED BY <5>4 DEF PointsIn, f, L
      <4> QED BY <4>1, <4>3
    <3>2. balance \in Int
      BY <1>1 DEF Wallet
    <3> QED BY <1>2, <1>3, <2>1, <3>1, <3>2 DEF LotsBackBalance
  <2>2. CASE ~negative
    <3>1. LeftSum' = LeftSum
      BY <1>3, <2>2 DEF LeftSum, LeftOf
    <3> QED BY <1>1, <1>2, <1>7, <2>2, <3>1 DEF Wallet, LotsBackBalance
  <2> QED BY <2>1, <2>2
<1>9. LeftOK'
  BY <1>1, <1>2, <1>3 DEF Wallet, LeftOK
<1>10. Wallet'
  BY <1>1, <1>2, <1>3, <1>7, <1>8, <1>9 DEF Wallet
<1>11. Locks'
  <2>1. CASE lock = Free
    BY <1>1, <1>2, <2>1 DEF Locks, LockOK
  <2>2. CASE lock # Free
    <3>1. work'[lock'.by] = work[lock.by] /\ lock' = lock
      BY <1>1, <1>2, <1>5, <2>2 DEF Works
    <3>2. \A l, m \in DOMAIN lots : Before(m, l)' = Before(m, l)
      BY <1>3 DEF Before
    <3>3. /\ lock.plan \in Seq(Nat) /\ DOMAIN lock.plan = DOMAIN lots
          /\ \A l, m \in DOMAIN lots : lock.plan[l] > 0 /\ Before(m, l) => lots[m].left <= lock.plan[m]
      BY <1>1, <2>2 DEF Locks, LockOK
    <3>4. \A m \in DOMAIN lots : lock.plan[m] \in Nat
      BY <3>3
    <3>5. \A l, m \in DOMAIN lots : lock.plan[l] > 0 /\ Before(m, l) => lots'[m].left <= lock.plan[m]
      BY <1>3, <3>3, <3>4
    <3>6. LockOK'
      BY <1>1, <1>2, <1>3, <2>2, <3>1, <3>2, <3>5 DEF Locks, LockOK, Posted
    <3> QED BY <1>1, <1>2, <3>6 DEF Locks
  <2> QED BY <2>1, <2>2
<1> QED BY <1>6, <1>10, <1>11

LEMMA TakenIsNat ==
  ASSUME RowsGood, NEW k \in DOMAIN rows, NEW days
  PROVE  TakenWithin(k, days) \in Nat
<1> DEFINE taken == rows[k].taken
           D == {l \in DOMAIN taken : lots[l].expiry \in days}
<1>1. IsFiniteSet(DOMAIN taken) /\ \A l \in DOMAIN taken : taken[l] \in Nat
  BY RowFacts
<1>2. IsFiniteSet(D) /\ \A l \in D : taken[l] \in Nat
  BY <1>1, FS_Subset
<1> HIDE DEF taken, D
<1>3. SumFunctionOnSet(taken, D) \in Int /\ SumFunctionOnSet(taken, D) >= 0
  BY <1>2, SumType DEF IntOn
<1>4. SumFunctionOnSet(taken, D) \in Nat
  BY <1>3
<1> QED BY <1>4 DEF TakenWithin, taken, D

LEMMA RestoredIsNat ==
  ASSUME RowsGood, NEW k \in DOMAIN rows, NEW days
  PROVE  RestoredWithin(k, days) \in Nat
BY TakenIsNat, RowFacts DEF RestoredWithin

LEMMA OneOfKind ==
  ASSUME NEW ks, OneKind(ks), NEW k \in ks
  PROVE  OneKind({k})
BY DEF OneKind

(* A row that can be given back is restored as its amount.                   *)
LEMMA RestorableRestores ==
  ASSUME RowsGood, NEW k \in DOMAIN rows, OneKind({k}), Restorable(k)
  PROVE  RestoredWithin(k, Days) = rows[k].amount /\ rows[k].amount \in Nat
<1>1. PiecesWhere({k}, Days) = AllPieces({k}) /\ AllPieces({k}) = Pieces(k)
  BY PieceOnce DEF PiecesWhere, AllPieces, Days
<1>2. /\ IsFiniteSet(PiecesWhere({k}, Days))
      /\ SumFunctionOnSet(Points(AllPieces({k})), PiecesWhere({k}, Days))
           = SumFunction([j \in {k} |-> RestoredWithin(j, Days)])
  BY PiecesSum
<1>3. SumFunction(Points(AllPieces({k}))) = rows[k].amount
  BY <1>1 DEF Restorable, Points
<1>4. SumFunction(Points(AllPieces({k}))) = SumFunctionOnSet(Points(AllPieces({k})), AllPieces({k}))
  BY DEF SumFunction, Points
<1> DEFINE g == [j \in {k} |-> RestoredWithin(j, Days)]
<1>5. SumFunction(g) = SumFunctionOnSet(g, {k}) /\ g[k] = RestoredWithin(k, Days)
  BY DEF SumFunction
<1>6. RestoredWithin(k, Days) \in Int
  BY RestoredIsNat
<1> HIDE DEF g
<1>7. SumFunctionOnSet(g, {k}) = g[k]
  BY <1>5, <1>6, SumSingle
<1>8. rows[k].amount \in Nat
  BY RowFacts
<1> QED BY <1>1, <1>2, <1>3, <1>4, <1>5, <1>7, <1>8 DEF g

(* The lots that come back hold what the rows are restored as, day by day,   *)
(* and their amounts in all.                                                 *)
LEMMA GivenBack ==
  ASSUME IInv, NEW p \in Processes, NEW ks, GivesBack(p, ks), NEW days
  PROVE  LET new == RestoredLots(ks) IN
         /\ RowsGood /\ IsFiniteSet(ks)
         /\ new \in Seq(Lot) /\ lots' = lots \o new /\ Len(lots) + Len(new) <= MaxLots
         /\ \A i \in DOMAIN new : new[i].left > 0
         /\ PointsIn(new, LeftIn, days) = SumFunction([k \in ks |-> RestoredWithin(k, days)])
         /\ PointsIn(new, NetIn, days) = PointsIn(new, LeftIn, days)
         /\ PointsIn(new, NetIn, Days) = SumFunction([k \in ks |-> rows[k].amount])
         /\ SumFunction([k \in ks |-> rows[k].amount]) \in Nat
<1> DEFINE new == RestoredLots(ks)
<1>1. RowsGood
  BY DEF IInv, TypeOK, RowsGood
<1>2. /\ ks \in SUBSET DOMAIN rows /\ OneKind(ks) /\ \A k \in ks : Restorable(k)
      /\ lots' = lots \o new /\ Len(lots) + Cardinality(AllPieces(ks)) <= MaxLots
  BY DEF GivesBack, GiveBack
<1>3. /\ new \in Seq(Lot) /\ Len(new) = Cardinality(AllPieces(ks))
      /\ \A i \in DOMAIN new : new[i].left > 0
  BY <1>1, <1>2, RestoredFacts
<1>4. IsFiniteSet(ks)
  BY <1>2, KindFacts
<1> HIDE DEF new
<1>5. \A i \in DOMAIN new : new[i] \in Lot
  BY <1>3
<1>6. ASSUME NEW D
      PROVE  /\ PointsIn(new, LeftIn, D) = SumFunction([k \in ks |-> RestoredWithin(k, D)])
             /\ PointsIn(new, NetIn, D) = PointsIn(new, LeftIn, D)
  <2> DEFINE S == {i \in DOMAIN new : new[i].expiry \in D}
             f == [i \in DOMAIN new |-> new[i].left]
             g == [i \in DOMAIN new |-> LeftIn[new[i]]]
  <2>1. SumFunctionOnSet(f, S) = SumFunction([k \in ks |-> RestoredWithin(k, D)])
    BY <1>1, <1>2, RestoredSum DEF new
  <2>2. f = g
    BY <1>5 DEF LeftIn
  <2>3. PointsIn(new, LeftIn, D) = SumFunctionOnSet(g, S)
    BY DEF PointsIn, OnDays
  <2>4. \A i \in DOMAIN new : new[i].left >= 0
    BY <1>3, <1>5 DEF Lot
  <2>5. PointsIn(new, NetIn, D) = PointsIn(new, LeftIn, D)
    BY <1>3, <2>4, NetIsLeft
  <2> HIDE DEF S, f, g
  <2> QED BY <2>1, <2>2, <2>3, <2>5
<1>7. [k \in ks |-> RestoredWithin(k, Days)] = [k \in ks |-> rows[k].amount]
  <2>1. \A k \in ks : RestoredWithin(k, Days) = rows[k].amount
    BY <1>1, <1>2, OneOfKind, RestorableRestores
  <2> QED BY <2>1
<1>8. PointsIn(new, NetIn, Days) = SumFunction([k \in ks |-> rows[k].amount])
  BY <1>6, <1>7
<1>9. SumFunction([k \in ks |-> rows[k].amount]) \in Nat
  <2> DEFINE g == [k \in ks |-> rows[k].amount]
  <2>1. \A k \in ks : g[k] \in Nat
    BY <1>1, <1>2, RowFacts
  <2>2. SumFunction(g) = SumFunctionOnSet(g, ks)
    BY DEF SumFunction
  <2> HIDE DEF g
  <2>3. SumFunctionOnSet(g, ks) \in Int /\ SumFunctionOnSet(g, ks) >= 0
    BY <1>4, <2>1, SumType DEF IntOn
  <2>4. SumFunction(g) \in Nat
    BY <2>2, <2>3
  <2> QED BY <2>4 DEF g
<1> QED BY <1>1, <1>2, <1>3, <1>4, <1>6, <1>8, <1>9 DEF new

LEMMA GivesBackKeeps ==
  ASSUME IInv, NEW p \in Processes, NEW ks, GivesBack(p, ks)
  PROVE  Wallet' /\ Locks' /\ Works'
<1> DEFINE new == RestoredLots(ks)
           back == SumFunction([k \in ks |-> rows[k].amount])
<1>1. Wallet /\ Locks /\ Works /\ negative \in BOOLEAN
  BY Parts
<1>2. /\ ks \subseteq DOMAIN rows /\ lock = Free
      /\ balance' = balance + back
      /\ rows' = [k \in DOMAIN rows |-> IF k \in ks THEN [rows[k] EXCEPT !.undone = TRUE] ELSE rows[k]]
      /\ UNCHANGED <<granted, lock>>
      /\ work' = work \/ work' = [work EXCEPT ![p] = Idle]
  BY DEF GivesBack, GiveBack
<1>3. negative' = negative
  BY DEF GivesBack, GiveBack, fixed
<1>4. /\ RowsGood /\ new \in Seq(Lot) /\ lots' = lots \o new /\ Len(lots) + Len(new) <= MaxLots
      /\ \A i \in DOMAIN new : new[i].left > 0
      /\ PointsIn(new, NetIn, Days) = back /\ back \in Nat
  BY GivenBack
<1> HIDE DEF new, back
<1>5. /\ lots' \in Seq(Lot) /\ Len(lots') = Len(lots) + Len(new)
      /\ DOMAIN lots \subseteq DOMAIN lots' /\ \A l \in DOMAIN lots : lots'[l] = lots[l]
      /\ \A l \in DOMAIN lots' : l \in DOMAIN lots \/ \E i \in DOMAIN new : lots'[l] = new[i]
      /\ LeftSum' = LeftSum + PointsIn(new, NetIn, Days)
  BY <1>1, <1>4, LotsAppended DEF Wallet
<1>6. DOMAIN rows' = DOMAIN rows
  BY <1>2
<1>7. \A k \in DOMAIN rows : /\ rows'[k] \in Rows
                             /\ rows'[k].taken = rows[k].taken /\ rows'[k].amount = rows[k].amount
  <2> TAKE k \in DOMAIN rows
  <2>1. rows[k] \in [amount : Nat, taken : Seq(Nat), run : Runs \cup {Job}, undone : BOOLEAN]
    BY <1>4 DEF RowsGood, Rows
  <2>2. rows'[k] = rows[k] \/ rows'[k] = [rows[k] EXCEPT !.undone = TRUE]
    BY <1>2
  <2> HIDE <1>2
  <2> QED BY <2>1, <2>2 DEF Rows
<1>8. RowsOK'
  BY <1>1, <1>5, <1>6, <1>7 DEF Wallet, RowsOK
<1>9. \A k \in DOMAIN rows : SumFunction(rows'[k].taken) = Recorded(k)
  BY <1>7 DEF Recorded
<1>10. LeftSum \in Nat
  BY <1>1, PlanAddsUp DEF Wallet
<1>11. balance \in Int /\ (negative \/ balance >= 0) /\ balance' \in Int /\ (negative \/ balance' >= 0)
  BY <1>1, <1>2, <1>4 DEF Wallet
<1>12. LotsBackBalance'
  <2>1. CASE negative
    <3>1. LeftSum >= balance
      BY <1>1, <2>1 DEF Wallet, LotsBackBalance
    <3>2. LeftSum' >= balance'
      BY <1>2, <1>4, <1>5, <1>10, <1>11, <3>1
    <3> QED BY <1>3, <2>1, <3>2 DEF LotsBackBalance
  <2>2. CASE ~negative
    <3>1. LeftSum = balance /\ \A k \in DOMAIN rows : rows[k].amount = Recorded(k)
      BY <1>1, <2>2 DEF Wallet, LotsBackBalance
    <3>2. LeftSum' = balance'
      BY <1>2, <1>4, <1>5, <3>1
    <3>3. \A k \in DOMAIN rows' : rows'[k].amount = SumFunction(rows'[k].taken)
      BY <1>6, <1>7, <1>9, <3>1
    <3> QED BY <1>3, <2>2, <3>2, <3>3 DEF LotsBackBalance, Recorded
  <2> QED BY <2>1, <2>2
<1>13. LeftOK'
  <2>1. \A i \in DOMAIN new : new[i].left >= 0
    <3>1. \A i \in DOMAIN new : new[i] \in Lot
      BY <1>4
    <3> QED BY <1>4, <3>1 DEF Lot
  <2> QED BY <1>1, <1>3, <1>5, <2>1 DEF Wallet, LeftOK
<1>14. Len(lots') <= MaxLots
  BY <1>4, <1>5
<1>15. Wallet'
  BY <1>1, <1>2, <1>3, <1>5, <1>6, <1>7, <1>8, <1>11, <1>12, <1>13, <1>14 DEF Wallet
<1>16. Locks'
  BY <1>1, <1>2 DEF Locks, LockOK
<1>17. Works'
  BY <1>1, <1>2, <1>5, <1>6, IdleOK, WorksKept
<1> QED BY <1>15, <1>16, <1>17

-----------------------------------------------------------------------------
(***************************************************************************)
(* The invariant.                                                          *)
(***************************************************************************)

LEMMA InitIInv == Init => IInv
<1> SUFFICES ASSUME Init PROVE IInv
  OBVIOUS
<1>1. /\ clock = 0 /\ negative \in BOOLEAN /\ balance = 0 /\ lots = << >> /\ granted = {} /\ rows = << >>
      /\ member = [status |-> "ACTIVE", last |-> Never] /\ lock = Free
      /\ work = [p \in Processes |-> Idle] /\ routes \in Rosters
  BY DEF Init
<1>2. DOMAIN lots = {} /\ DOMAIN rows = {} /\ lots \in Seq(Lot) /\ Len(lots) = 0
  BY <1>1
<1>3. LeftSum = 0
  <2>1. DOMAIN LeftOf = {}
    BY <1>2 DEF LeftOf
  <2> QED BY <2>1, SumEmpty DEF LeftSum, SumFunction
<1>4. Wallet
  BY <1>1, <1>2, <1>3, FS_EmptySet, LotsAssumption DEF Wallet, RowsOK, LeftOK, LotsBackBalance
<1>5. Locks /\ Works
  BY <1>1, IdleOK DEF Locks, LockOK, Works, WorkInv
<1>6. clock \in 0 .. Horizon /\ member \in Member
  BY <1>1, LotsAssumption DEF Member, Never
<1> QED BY <1>1, <1>4, <1>5, <1>6, Parts

LEMMA NextIInv == IInv /\ [Next]_vars => IInv'
<1> SUFFICES ASSUME IInv, [Next]_vars PROVE IInv'
  OBVIOUS
<1>1. Control
  BY DEF IInv, Control
<1>2. WalletStep /\ Outside
  BY <1>1, StepKinds
<1>3. Wallet' /\ Locks' /\ Works'
  BY <1>2, RestsKeeps, MovesKeeps, EarnKeeps, LockKeeps, CommitKeeps, EmptyLotKeeps, GivesBackKeeps
     DEF WalletStep
<1>4. UNCHANGED fixed
  BY <1>2 DEF WalletStep, Rests, Moves, Earn, Lock, Commit, EmptyLot, GivesBack, GiveBack
<1>5. routes \in Rosters /\ negative \in BOOLEAN
  BY Parts
<1>6. (IInv <=> /\ routes \in Rosters /\ clock \in 0 .. Horizon /\ negative \in BOOLEAN /\ member \in Member
                /\ Wallet /\ Locks /\ Works)'
  BY Parts, PTL
<1>7. (routes \in Rosters)' /\ (negative \in BOOLEAN)' /\ (clock \in 0 .. Horizon)' /\ (member \in Member)'
  BY <1>2, <1>4, <1>5 DEF Outside, fixed, Member
<1> QED BY <1>3, <1>6, <1>7

(* The lots, the balance, the rows and the debit that holds the wallet's row *)
(* agree after every step of the sessions and the daily job.                 *)
THEOREM LotsInvariant == Spec => []IInv
BY InitIInv, NextIInv, PTL DEF Spec

(* The variables keep their types: a balance that may not be negative never  *)
(* is, whatever the debits, expirations and refunds of several requests.     *)
THEOREM LotsTypeCorrect == Spec => []TypeOK
<1>1. IInv => TypeOK
  BY DEF IInv
<1> QED BY <1>1, LotsInvariant, PTL

(* Where the balance may not be negative, the lots add up to it after every  *)
(* step and each debit recorded lots that add up to its points.  Where it    *)
(* may, they never fall short of it, and a reset that brings back a debit    *)
(* that took nothing (resetExpiry) brings back a lot of all its points.      *)
THEOREM LotsAddUp == Spec => []LotsBackBalance
<1>1. IInv => LotsBackBalance
  BY DEF IInv
<1> QED BY <1>1, LotsInvariant, PTL

-----------------------------------------------------------------------------
(***************************************************************************)
(* No point changes its day.                                               *)
(***************************************************************************)

Conserved(e) == GrantedUntil(e) = LeftUntil(e) + TakenUntil(e)

TakenByRow(e) == [k \in Standing |-> TakenFrom(k, e)]

LEMMA TakenUntilFacts ==
  ASSUME RowsGood, NEW e
  PROVE  /\ Standing \subseteq DOMAIN rows /\ IsFiniteSet(Standing)
         /\ \A k \in DOMAIN rows : TakenFrom(k, e) = TakenWithin(k, {e}) /\ TakenFrom(k, e) \in Nat
         /\ IntOn(TakenByRow(e), Standing)
         /\ TakenUntil(e) = SumFunctionOnSet(TakenByRow(e), Standing)
         /\ LeftUntil(e) \in Int /\ TakenUntil(e) \in Int
<1>1. Standing \subseteq DOMAIN rows /\ IsFiniteSet(Standing)
  BY FS_Subset DEF Standing, RowsGood, RowsOK
<1>2. \A k \in DOMAIN rows : TakenFrom(k, e) = TakenWithin(k, {e}) /\ TakenFrom(k, e) \in Nat
  <2> TAKE k \in DOMAIN rows
  <2>1. {l \in DOMAIN rows[k].taken : lots[l].expiry = e} = {l \in DOMAIN rows[k].taken : lots[l].expiry \in {e}}
    OBVIOUS
  <2>2. TakenFrom(k, e) = TakenWithin(k, {e})
    BY <2>1 DEF TakenFrom, TakenWithin
  <2> QED BY <2>2, TakenIsNat
<1>3. IntOn(TakenByRow(e), Standing)
  BY <1>1, <1>2 DEF TakenByRow, IntOn
<1>4. TakenUntil(e) = SumFunctionOnSet(TakenByRow(e), Standing)
  BY DEF TakenUntil, TakenByRow, SumFunction
<1>5. LeftUntil(e) = PointsIn(lots, LeftIn, {e})
  BY InPoints DEF LeftUntil, RowsGood
<1>6. LeftUntil(e) \in Int
  BY <1>5, PointsFacts, ValuesAreInt DEF RowsGood
<1>7. TakenUntil(e) \in Int
  BY <1>1, <1>3, <1>4, SumType
<1> QED BY <1>1, <1>2, <1>3, <1>4, <1>6, <1>7

(* A row has taken of the same days as long as its lots keep theirs.         *)
LEMMA SameTaken ==
  ASSUME RowsGood, NEW k \in DOMAIN rows, rows'[k].taken = rows[k].taken, NEW e,
         \A l \in DOMAIN lots : lots'[l].expiry = lots[l].expiry
  PROVE  TakenFrom(k, e)' = TakenFrom(k, e)
<1> DEFINE taken == rows[k].taken
<1>1. DOMAIN taken \subseteq DOMAIN lots
  BY RowFacts
<1>2. {l \in DOMAIN taken : lots'[l].expiry = e} = {l \in DOMAIN taken : lots[l].expiry = e}
  BY <1>1
<1> HIDE DEF taken
<1>3. rows'[k].taken = taken
  BY DEF taken
<1>4. SumFunctionOnSet(rows'[k].taken, {l \in DOMAIN rows'[k].taken : lots'[l].expiry = e})
        = SumFunctionOnSet(taken, {l \in DOMAIN taken : lots[l].expiry = e})
  BY <1>2, <1>3
<1> QED BY <1>4 DEF TakenFrom, taken

LEMMA QuietConserves ==
  ASSUME UNCHANGED <<lots, granted, rows>>, NEW e, Conserved(e)
  PROVE  Conserved(e)'
<1>1. GrantedUntil(e)' = GrantedUntil(e)
  BY DEF GrantedUntil
<1>2. LeftUntil(e)' = LeftUntil(e)
  BY DEF LeftUntil
<1>3. \A k : TakenFrom(k, e)' = TakenFrom(k, e)
  BY DEF TakenFrom
<1>4. Standing' = Standing
  BY DEF Standing
<1>5. TakenUntil(e)' = TakenUntil(e)
  BY <1>3, <1>4 DEF TakenUntil
<1> QED BY <1>1, <1>2, <1>5 DEF Conserved

LEMMA EarnConserves ==
  ASSUME IInv, NEW p \in Processes, Earn(p), NEW e, Conserved(e)
  PROVE  Conserved(e)'
<1> DEFINE g == work[p].g
           x == [amount |-> Amount[g], left |-> Amount[g], expiry |-> Expiry[g]]
           G == {h \in granted : Expiry[h] = e}
<1>1. /\ work[p].op = "earn" /\ g \notin granted
      /\ granted' = granted \cup {g} /\ lots' = Append(lots, x) /\ rows' = rows
  BY DEF Earn
<1>2. RowsGood /\ Wallet /\ Works
  BY Parts DEF RowsGood, Wallet
<1>3. g \in Grants /\ granted \subseteq Grants
  BY <1>1, <1>2, WorkFacts DEF Works, Wallet
<1>4. Amount[g] \in Nat /\ Amount \in [Grants -> Nat \ {0}] /\ IsFiniteSet(Grants) /\ Expiry[g] \in 1 .. Never
  BY <1>3, LotsAssumption
<1>5. x \in Lot /\ LeftIn[x] = Amount[g] /\ x.expiry = Expiry[g]
  BY <1>4 DEF Lot, LeftIn
<1>6. IsFiniteSet(G) /\ IntOn(Amount, G) /\ g \notin G
  <2>1. G \subseteq Grants /\ g \notin G
    BY <1>1, <1>3
  <2> QED BY <1>4, <2>1, FS_Subset DEF IntOn
<1>7. {h \in granted' : Expiry[h] = e} = IF Expiry[g] = e THEN G \cup {g} ELSE G
  BY <1>1
<1> HIDE DEF g, x, G
<1>8. <<x>> \in Seq(Lot) /\ lots' = lots \o <<x>>
  BY <1>1, <1>2, <1>5 DEF Wallet
<1>9. /\ DOMAIN lots \subseteq DOMAIN lots' /\ \A l \in DOMAIN lots : lots'[l] = lots[l]
      /\ LeftUntil(e)' = LeftUntil(e) + PointsIn(<<x>>, LeftIn, {e})
  BY <1>2, <1>8, LotsAppended DEF Wallet
<1>10. PointsIn(<<x>>, LeftIn, {e}) = IF Expiry[g] = e THEN Amount[g] ELSE 0
  <2>1. PointsIn(<<x>>, LeftIn, {e}) = IF x.expiry \in {e} THEN LeftIn[x] ELSE 0
    BY <1>5, PointsInOne, ValuesAreInt
  <2> QED BY <1>5, <2>1
<1>11. TakenUntil(e)' = TakenUntil(e)
  <2>1. Standing' = Standing /\ Standing \subseteq DOMAIN rows
    BY <1>1 DEF Standing
  <2>2. \A k \in DOMAIN rows : TakenFrom(k, e)' = TakenFrom(k, e)
    BY <1>1, <1>2, <1>9, SameTaken
  <2>3. [k \in Standing |-> TakenFrom(k, e)]' = [k \in Standing |-> TakenFrom(k, e)]
    BY <2>1, <2>2
  <2> QED BY <2>3 DEF TakenUntil
<1>12. GrantedUntil(e)' = GrantedUntil(e) + (IF Expiry[g] = e THEN Amount[g] ELSE 0)
  <2>1. GrantedUntil(e) = SumFunctionOnSet(Amount, G)
        /\ GrantedUntil(e)' = SumFunctionOnSet(Amount, IF Expiry[g] = e THEN G \cup {g} ELSE G)
    BY <1>7 DEF GrantedUntil, G
  <2>2. SumFunctionOnSet(Amount, G) \in Int
    BY <1>6, SumType
  <2>3. SumFunctionOnSet(Amount, G \cup {g}) = Amount[g] + SumFunctionOnSet(Amount, G)
    BY <1>4, <1>6, SumAdd
  <2> QED BY <1>4, <2>1, <2>2, <2>3
<1>13. LeftUntil(e) \in Int /\ TakenUntil(e) \in Int
  BY <1>2, TakenUntilFacts
<1> QED BY <1>4, <1>9, <1>10, <1>11, <1>12, <1>13 DEF Conserved

LEMMA CommitConserves ==
  ASSUME IInv, NEW p \in Processes, Commit(p), NEW e, Conserved(e)
  PROVE  Conserved(e)'
<1> DEFINE k == work[p].key
           plan == lock.plan
           row == [amount |-> work[p].amount, taken |-> plan, run |-> work[p].sweep.run, undone |-> FALSE]
           f == TakenByRow(e)
           g == [j \in Standing' |-> TakenFrom(j, e)']
<1>1. /\ lock.by = p /\ granted' = granted
      /\ lots' = [l \in DOMAIN lots |-> [lots[l] EXCEPT !.left = @ - plan[l]]]
      /\ rows' = [j \in DOMAIN rows \cup {k} |-> IF j = k THEN row ELSE rows[j]]
  BY DEF Commit
<1>2. RowsGood /\ Wallet /\ Locks
  BY Parts DEF RowsGood, Wallet
<1>3. plan \in Seq(Nat) /\ DOMAIN plan = DOMAIN lots /\ k \notin DOMAIN rows
  <2>1. lock # Free
    BY <1>1, ProcessFacts DEF Free
  <2> QED BY <1>1, <1>2, <2>1 DEF Locks, LockOK, Posted
<1>4. row.taken = plan /\ row.undone = FALSE
  OBVIOUS
<1>5. /\ DOMAIN rows' = DOMAIN rows \cup {k} /\ rows'[k] = row
      /\ \A j \in DOMAIN rows : rows'[j] = rows[j]
  BY <1>1, <1>3
<1> HIDE DEF plan, row, k
<1>6. /\ lots' \in Seq(Lot)
      /\ \A l \in DOMAIN lots : lots'[l].expiry = lots[l].expiry
      /\ IsFiniteSet(OnDays(lots, {e})) /\ IntOn(plan, OnDays(lots, {e}))
      /\ PointsIn(lots', LeftIn, {e}) + SumFunctionOnSet(plan, OnDays(lots, {e})) = PointsIn(lots, LeftIn, {e})
  BY <1>1, <1>2, <1>3, LotsTaken DEF Wallet
<1>7. LeftUntil(e) = PointsIn(lots, LeftIn, {e}) /\ LeftUntil(e)' = PointsIn(lots', LeftIn, {e})
  BY <1>2, <1>6, InPoints DEF LeftUntil, Wallet
<1>8. Standing' = Standing \cup {k} /\ k \notin Standing
  BY <1>3, <1>4, <1>5 DEF Standing
<1>9. /\ Standing \subseteq DOMAIN rows /\ IsFiniteSet(Standing)
      /\ \A j \in DOMAIN rows : TakenFrom(j, e) \in Nat
      /\ IntOn(f, Standing) /\ TakenUntil(e) = SumFunctionOnSet(f, Standing)
      /\ LeftUntil(e) \in Int /\ TakenUntil(e) \in Int
  BY <1>2, TakenUntilFacts
<1>10. \A j \in Standing : g[j] = f[j] /\ f[j] \in Nat
  <2> TAKE j \in Standing
  <2>1. TakenFrom(j, e)' = TakenFrom(j, e)
    BY <1>2, <1>5, <1>6, <1>9, SameTaken
  <2> QED BY <1>8, <1>9, <2>1 DEF TakenByRow
<1>11. g[k] = SumFunctionOnSet(plan, OnDays(lots, {e}))
  <2>1. {l \in DOMAIN plan : lots'[l].expiry = e} = OnDays(lots, {e})
    BY <1>3, <1>6 DEF OnDays
  <2>2. \A j : rows'[j].taken = plan => TakenFrom(j, e)' = SumFunctionOnSet(plan, OnDays(lots, {e}))
    BY <2>1 DEF TakenFrom
  <2>3. k \in Standing'
    BY <1>8
  <2> QED BY <1>4, <1>5, <2>2, <2>3
<1>12. TakenUntil(e)' = SumFunctionOnSet(g, Standing \cup {k})
  BY <1>8 DEF TakenUntil, SumFunction
<1> HIDE DEF f, g
<1>13. SumFunctionOnSet(plan, OnDays(lots, {e})) \in Int
  BY <1>6, SumType
<1>14. SumFunctionOnSet(g, Standing \cup {k}) = g[k] + SumFunctionOnSet(g, Standing)
  <2>1. IntOn(g, Standing) /\ g[k] \in Int
    BY <1>10, <1>11, <1>13 DEF IntOn
  <2> QED BY <1>8, <1>9, <2>1, SumAdd
<1>15. SumFunctionOnSet(g, Standing) = SumFunctionOnSet(f, Standing)
  BY <1>9, <1>10, SumSame
<1>16. PointsIn(lots', LeftIn, {e}) \in Int
  BY <1>6, PointsFacts, ValuesAreInt
<1>17. GrantedUntil(e)' = GrantedUntil(e)
  BY <1>1 DEF GrantedUntil
<1> QED BY <1>6, <1>7, <1>9, <1>11, <1>12, <1>13, <1>14, <1>15, <1>16, <1>17 DEF Conserved

(* Where the balance may not be negative, every debit took something.        *)
LEMMA SomethingTaken ==
  ASSUME IInv, ~negative, NEW k \in DOMAIN rows
  PROVE  ~TookNothing(k)
<1> DEFINE taken == rows[k].taken
<1>1. RowsGood
  BY DEF IInv, TypeOK, RowsGood
<1>2. rows[k].amount > 0 /\ rows[k].amount = SumFunction(taken)
  BY <1>1, RowFacts DEF IInv, LotsBackBalance, Recorded
<1>3. ASSUME TookNothing(k) PROVE SumFunction(taken) = 0
  <2>1. \A l \in DOMAIN taken : taken[l] = 0
    BY <1>3 DEF TookNothing
  <2>2. IsFiniteSet(DOMAIN taken) /\ IntOn(taken, DOMAIN taken)
    BY <1>1, RowFacts DEF IntOn
  <2>3. SumFunction(taken) = SumFunctionOnSet(taken, DOMAIN taken)
    BY DEF SumFunction
  <2> HIDE DEF taken
  <2>4. SumFunctionOnSet(taken, DOMAIN taken) = 0
    <3>1. {} \in SUBSET DOMAIN taken /\ \A l \in (DOMAIN taken) \ {} : taken[l] = 0
      BY <2>1
    <3>2. SumFunctionOnSet(taken, DOMAIN taken) = SumFunctionOnSet(taken, {})
      BY <2>2, <3>1, SumSupport
    <3> QED BY <3>2, SumEmpty
  <2> QED BY <2>3, <2>4
<1> QED BY <1>2, <1>3

LEMMA GivesBackConserves ==
  ASSUME IInv, NEW p \in Processes, NEW ks, GivesBack(p, ks), NEW e, Conserved(e), ~negative
  PROVE  Conserved(e)'
<1> DEFINE new == RestoredLots(ks)
           back == [k \in ks |-> RestoredWithin(k, {e})]
           f == TakenByRow(e)
           g == [j \in Standing' |-> TakenFrom(j, e)']
<1>1. /\ ks \subseteq DOMAIN rows /\ granted' = granted
      /\ rows' = [k \in DOMAIN rows |-> IF k \in ks THEN [rows[k] EXCEPT !.undone = TRUE] ELSE rows[k]]
      /\ \A k \in ks : ~rows[k].undone
  BY DEF GivesBack, GiveBack
<1>2. Wallet
  BY Parts
<1>3. /\ RowsGood /\ new \in Seq(Lot) /\ lots' = lots \o new /\ IsFiniteSet(ks)
      /\ PointsIn(new, LeftIn, {e}) = SumFunction(back)
  BY GivenBack
<1>4. SumFunction(back) = SumFunctionOnSet(back, ks)
  BY DEF SumFunction
<1> HIDE DEF new
<1>5. /\ \A l \in DOMAIN lots : lots'[l] = lots[l]
      /\ LeftUntil(e)' = LeftUntil(e) + PointsIn(new, LeftIn, {e})
  BY <1>2, <1>3, LotsAppended DEF Wallet
<1>6. DOMAIN rows' = DOMAIN rows
      /\ \A k \in DOMAIN rows : /\ rows'[k].taken = rows[k].taken
                                /\ k \in ks => rows'[k].undone
                                /\ k \notin ks => rows'[k] = rows[k]
  <2>1. \A k \in DOMAIN rows : rows[k] \in [amount : Nat, taken : Seq(Nat), run : Runs \cup {Job}, undone : BOOLEAN]
    BY <1>3 DEF RowsGood, Rows
  <2>2. ASSUME NEW k \in ks
        PROVE  rows'[k].taken = rows[k].taken /\ rows'[k].undone
    <3>1. rows'[k] = [rows[k] EXCEPT !.undone = TRUE]
      BY <1>1
    <3> QED BY <1>1, <2>1, <3>1
  <2>3. \A k \in DOMAIN rows : k \notin ks => rows'[k] = rows[k]
    BY <1>1
  <2>4. DOMAIN rows' = DOMAIN rows
    BY <1>1
  <2> HIDE <1>1
  <2> QED BY <2>2, <2>3, <2>4
<1>7. Standing = Standing' \cup ks /\ Standing' \cap ks = {}
  BY <1>1, <1>6 DEF Standing
<1>8. /\ Standing \subseteq DOMAIN rows /\ IsFiniteSet(Standing)
      /\ \A k \in DOMAIN rows : TakenFrom(k, e) = TakenWithin(k, {e}) /\ TakenFrom(k, e) \in Nat
      /\ IntOn(f, Standing) /\ TakenUntil(e) = SumFunctionOnSet(f, Standing)
      /\ LeftUntil(e) \in Int /\ TakenUntil(e) \in Int
  BY <1>3, TakenUntilFacts
<1>9. \A j \in Standing' : g[j] = f[j]
  <2> TAKE j \in Standing'
  <2>1. j \in Standing /\ j \in DOMAIN rows
    BY <1>7, <1>8
  <2>2. TakenFrom(j, e)' = TakenFrom(j, e)
    BY <1>3, <1>5, <1>6, <2>1, SameTaken
  <2> QED BY <2>1, <2>2 DEF TakenByRow
<1>10. \A k \in ks : back[k] = f[k]
  BY <1>1, <1>7, <1>8, SomethingTaken DEF TakenByRow, RestoredWithin
<1>11. TakenUntil(e)' = SumFunctionOnSet(g, Standing')
  BY DEF TakenUntil, SumFunction
<1> DEFINE A == Standing'
<1>12. A \subseteq Standing /\ ks \subseteq Standing /\ A \cap ks = {} /\ Standing = A \cup ks
  BY <1>7
<1> HIDE DEF f, g, back, A
<1>13. IsFiniteSet(A) /\ IntOn(f, A) /\ IntOn(f, ks)
  BY <1>8, <1>12, FS_Subset DEF IntOn
<1>14. SumFunctionOnSet(f, A \cup ks) = SumFunctionOnSet(f, A) + SumFunctionOnSet(f, ks)
  BY <1>3, <1>12, <1>13, SumDisjoint
<1>15. SumFunctionOnSet(back, ks) = SumFunctionOnSet(f, ks)
  BY <1>3, <1>10, SumSame
<1>16. SumFunctionOnSet(g, A) = SumFunctionOnSet(f, A)
  BY <1>9, <1>13, SumSame DEF A
<1>17. SumFunctionOnSet(f, A) \in Int /\ SumFunctionOnSet(f, ks) \in Int
  BY <1>3, <1>13, SumType
<1>18. GrantedUntil(e)' = GrantedUntil(e)
  BY <1>1 DEF GrantedUntil
<1>19. TakenUntil(e)' = SumFunctionOnSet(f, A) /\ TakenUntil(e) = SumFunctionOnSet(f, A) + SumFunctionOnSet(f, ks)
  BY <1>8, <1>11, <1>12, <1>14, <1>16 DEF A
<1> QED BY <1>3, <1>4, <1>5, <1>8, <1>15, <1>17, <1>18, <1>19 DEF Conserved

LEMMA InitConserves ==
  ASSUME Init, NEW e
  PROVE  Conserved(e)
<1>1. lots = << >> /\ granted = {} /\ rows = << >>
  BY DEF Init
<1>2. GrantedUntil(e) = 0
  <2>1. {g \in granted : Expiry[g] = e} = {}
    BY <1>1
  <2> QED BY <2>1, SumEmpty DEF GrantedUntil
<1>3. LeftUntil(e) = 0
  <2> DEFINE f == [l \in {m \in DOMAIN lots : lots[m].expiry = e} |-> lots[l].left]
  <2>1. DOMAIN f = {}
    BY <1>1
  <2> HIDE DEF f
  <2>2. SumFunction(f) = 0
    BY <2>1, SumEmpty DEF SumFunction
  <2> QED BY <2>2 DEF LeftUntil, f
<1>4. TakenUntil(e) = 0
  <2> DEFINE f == [k \in Standing |-> TakenFrom(k, e)]
  <2>1. DOMAIN f = {}
    BY <1>1 DEF Standing
  <2> HIDE DEF f
  <2>2. SumFunction(f) = 0
    BY <2>1, SumEmpty DEF SumFunction
  <2> QED BY <2>2 DEF TakenUntil, f
<1> QED BY <1>2, <1>3, <1>4 DEF Conserved

LEMMA NextConserves ==
  ASSUME IInv, ExpiryConserved, [Next]_vars
  PROVE  ExpiryConserved'
<1> SUFFICES ASSUME ~negative', NEW e \in 1 .. Never
             PROVE  Conserved(e)'
  BY DEF ExpiryConserved, Conserved
<1>1. WalletStep
  BY StepKinds DEF IInv, Control
<1>2. negative' = negative
  BY <1>1 DEF WalletStep, Rests, Moves, Earn, Lock, Commit, EmptyLot, GivesBack, GiveBack, fixed
<1>3. Conserved(e)
  BY <1>2 DEF ExpiryConserved, Conserved
<1>4. CASE Rests \/ \E p \in Processes : \E w : Moves(p, w)
  <2>1. UNCHANGED <<lots, granted, rows>>
    BY <1>4 DEF Rests, Moves, ledger
  <2> QED BY <1>3, <2>1, QuietConserves
<1>5. ASSUME NEW p \in Processes, Earn(p) PROVE Conserved(e)'
  BY <1>3, <1>5, EarnConserves
<1>6. ASSUME NEW p \in Processes, Lock(p) PROVE Conserved(e)'
  <2>1. UNCHANGED <<lots, granted, rows>>
    BY <1>6 DEF Lock, ledger
  <2> QED BY <1>3, <2>1, QuietConserves
<1>7. ASSUME NEW p \in Processes, Commit(p) PROVE Conserved(e)'
  BY <1>3, <1>7, CommitConserves
<1>8. ASSUME NEW p \in Processes, EmptyLot(p) PROVE Conserved(e)'
  <2>1. UNCHANGED <<granted, rows>>
    BY <1>8 DEF EmptyLot
  <2>2. lots' = lots
    BY <1>2, <1>8, EmptyLotFacts
  <2> QED BY <1>3, <2>1, <2>2, QuietConserves
<1>9. ASSUME NEW p \in Processes, NEW ks, GivesBack(p, ks) PROVE Conserved(e)'
  BY <1>2, <1>3, <1>9, GivesBackConserves
<1> QED BY <1>1, <1>4, <1>5, <1>6, <1>7, <1>8, <1>9 DEF WalletStep

(* Day by day, what was granted is in lots that expire then or was taken by  *)
(* debits that stand: refunds and resets give back once, with the old expiry. *)
THEOREM ExpiryIsKept == Spec => []ExpiryConserved
<1>1. Init => ExpiryConserved
  BY InitConserves DEF ExpiryConserved, Conserved
<1>2. IInv /\ ExpiryConserved /\ [Next]_vars => ExpiryConserved'
  BY NextConserves
<1> QED BY <1>1, <1>2, LotsInvariant, PTL DEF Spec

-----------------------------------------------------------------------------
(***************************************************************************)
(* The first lots to expire are the first to be taken.                     *)
(***************************************************************************)

Ordered ==
  \A l, m \in DOMAIN lots :
    rows' # rows /\ lots'[l].left < lots[l].left /\ Before(m, l) => lots'[m].left <= 0

LEMMA NextOrdered ==
  ASSUME IInv, [Next]_vars
  PROVE  [Ordered]_vars
<1>1. WalletStep
  BY StepKinds DEF IInv, Control
<1>2. Wallet /\ Locks
  BY Parts
<1> SUFFICES ASSUME NEW l \in DOMAIN lots, NEW m \in DOMAIN lots,
                    rows' # rows, lots'[l].left < lots[l].left, Before(m, l)
             PROVE  lots'[m].left <= 0
  BY DEF Ordered
<1>3. lots[l].left \in Int /\ lots[m].left \in Int
  BY <1>2, LotFacts DEF Wallet
<1>4. CASE Rests \/ \E p \in Processes : \E w : Moves(p, w)
  BY <1>4 DEF Rests, Moves, ledger
<1>5. ASSUME NEW p \in Processes, Earn(p) \/ Lock(p) \/ EmptyLot(p)
      PROVE  FALSE
  BY <1>5 DEF Earn, Lock, EmptyLot, ledger
<1>6. ASSUME NEW p \in Processes, Commit(p)
      PROVE  lots'[m].left <= 0
  <2> DEFINE plan == lock.plan
  <2>1. lock.by = p /\ lots' = [i \in DOMAIN lots |-> [lots[i] EXCEPT !.left = @ - plan[i]]]
    BY <1>6 DEF Commit
  <2>2. lock # Free
    BY <2>1, ProcessFacts DEF Free
  <2>3. /\ plan \in Seq(Nat) /\ DOMAIN plan = DOMAIN lots
        /\ \A i, j \in DOMAIN lots : plan[i] > 0 /\ Before(j, i) => lots[j].left <= plan[j]
    BY <1>2, <2>1, <2>2 DEF Locks, LockOK
  <2> HIDE DEF plan
  <2>4. /\ lots'[l].left = lots[l].left - plan[l] /\ plan[l] \in Nat
        /\ lots'[m].left = lots[m].left - plan[m] /\ plan[m] \in Nat
    BY <1>2, <2>1, <2>3, LotsTaken DEF Wallet
  <2>5. plan[l] > 0
    BY <1>3, <2>4
  <2>6. lots[m].left <= plan[m]
    BY <2>3, <2>5
  <2> QED BY <1>3, <2>4, <2>6
<1>7. ASSUME NEW p \in Processes, NEW ks, GivesBack(p, ks)
      PROVE  FALSE
  <2>1. RestoredLots(ks) \in Seq(Lot) /\ lots' = lots \o RestoredLots(ks)
    BY <1>7, GivenBack
  <2>2. lots'[l] = lots[l]
    BY <1>2, <2>1, LotsAppended DEF Wallet
  <2> QED BY <1>3, <2>2
<1> QED BY <1>1, <1>4, <1>5, <1>6, <1>7 DEF WalletStep

(* A debit that commits leaves nothing in a lot that expires before one it   *)
(* took of, although it planned what to take when it locked the wallet.      *)
THEOREM EarliestLotsFirst == Spec => FirstToExpireFirst
<1>1. IInv /\ [Next]_vars => [Ordered]_vars
  BY NextOrdered
<1>2. Spec => [][Ordered]_vars
  BY <1>1, LotsInvariant, PTL DEF Spec
<1> QED BY <1>2 DEF FirstToExpireFirst, Ordered

=============================================================================
