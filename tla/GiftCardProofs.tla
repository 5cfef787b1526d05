--------------------------- MODULE GiftCardProofs ---------------------------
(***************************************************************************)
(* Theorems about GiftCards, for any requests, sessions and bounds.        *)
(*                                                                         *)
(* What a card has paid out follows from the guarded writes alone, locks   *)
(* or not.  That its status tells its balance needs the lock: as long as   *)
(* none has lapsed under its holder, a session at work on the card is the  *)
(* one that holds it, and what it has read is what the card still is.      *)
(***************************************************************************)
EXTENDS GiftCards, SumLemmas

AtWork(p) == work[p].stage \in {"read", "write", "release"}

\* A session at work holds the lock.
LockHeld == faults.lapses = 0 => \A p \in Sessions : AtWork(p) => holder = p

\* A session about to write has read the balance there is, and may write.
ReadStands ==
  faults.lapses = 0 =>
    \A p \in Sessions : At(p, "write") =>
      LET k == work[p].key IN
      /\ work[p].seen = card.balance
      /\ Op[k] = "redeem" => card.balance >= Amount[k]
      /\ Op[k] = "refund" => card.balance + Amount[k] <= Initial

IInv == TypeOK /\ NothingBeyondCard /\ StatusAgrees /\ LockHeld /\ ReadStands

-----------------------------------------------------------------------------

LEMMA WorkFacts ==
  ASSUME TypeOK, NEW p \in Sessions
  PROVE  /\ work[p].stage = "idle" <=> work[p] = Idle
         /\ work[p] # Idle =>
              /\ work[p].stage \in {"lock", "read", "write", "release"}
              /\ work[p].key \in Requests
              /\ work[p].seen \in Int
BY DEF TypeOK, Work, Idle

(* What was posted for an operation is a natural number, and grows by the    *)
(* amount of a request that is posted.                                       *)
LEMMA PostedFacts ==
  ASSUME posted \subseteq Requests, NEW op
  PROVE  /\ PostedOf(op) \in Nat
         /\ \A k \in Requests \ posted : posted' = posted \cup {k} =>
              PostedOf(op)' = IF Op[k] = op THEN PostedOf(op) + Amount[k] ELSE PostedOf(op)
<1> DEFINE S == {k \in posted : Op[k] = op}
<1>1. IsFiniteSet(S) /\ IntOn(Amount, S) /\ \A k \in S : Amount[k] >= 0
  BY FS_Subset, GiftCardsAssumption DEF IntOn
<1>2. PostedOf(op) \in Nat
  BY <1>1, SumType DEF PostedOf
<1>3. ASSUME NEW k \in Requests \ posted, posted' = posted \cup {k}
      PROVE  PostedOf(op)' = IF Op[k] = op THEN PostedOf(op) + Amount[k] ELSE PostedOf(op)
  <2> DEFINE T == {j \in posted \cup {k} : Op[j] = op}
  <2>1. PostedOf(op)' = SumFunctionOnSet(Amount, T)
    BY <1>3 DEF PostedOf
  <2>2. CASE Op[k] # op
    <3>1. T = S
      BY <2>2
    <3> QED
      BY <2>1, <2>2, <3>1 DEF PostedOf
  <2>3. CASE Op[k] = op
    <3>1. T = S \cup {k}
      BY <2>3
    <3>2. Amount[k] \in Int /\ k \notin S
      BY GiftCardsAssumption
    <3> HIDE DEF S, T
    <3>3. SumFunctionOnSet(Amount, S \cup {k}) = Amount[k] + SumFunctionOnSet(Amount, S)
      BY <1>1, <3>2, SumAdd
    <3>4. SumFunctionOnSet(Amount, S) = PostedOf(op)
      BY DEF PostedOf, S
    <3> QED
      BY <1>2, <2>1, <2>3, <3>1, <3>2, <3>3, <3>4
  <2> QED
    BY <2>2, <2>3
<1> QED
  BY <1>2, <1>3

LEMMA InitOK == Init => IInv
<1> SUFFICES ASSUME Init PROVE IInv
  OBVIOUS
<1> USE GiftCardsAssumption DEF Init
<1>1. TypeOK
  <2>1. PICK s \in {"pending", "active"} : card = [status |-> s, balance |-> Initial]
    OBVIOUS
  <2>2. card \in [status : Statuses, balance : Nat]
    BY <2>1 DEF Statuses, Alive
  <2>3. Idle \in Work
    BY DEF Work
  <2>4. work \in [Sessions -> Work]
    BY <2>3
  <2>5. faults \in [lapses : 0 .. MaxLapses, crashes : 0 .. MaxCrashes]
    OBVIOUS
  <2> QED
    BY <2>2, <2>4, <2>5 DEF TypeOK
<1>2. NothingBeyondCard
  <2>1. PostedOf("redeem") = 0 /\ PostedOf("refund") = 0
    <3>1. \A op : {k \in posted : Op[k] = op} = {}
      OBVIOUS
    <3> QED BY <3>1, SumEmpty DEF PostedOf
  <2> QED BY <2>1 DEF NothingBeyondCard
<1>3. StatusAgrees /\ LockHeld /\ ReadStands
  BY DEF StatusAgrees, LockHeld, ReadStands, AtWork, At, Idle
<1> QED BY <1>1, <1>2, <1>3 DEF IInv

LEMMA LapsesGrow ==
  ASSUME TypeOK, [Next]_vars
  PROVE  faults'.lapses = 0 => faults.lapses = 0
<1>1. CASE UNCHANGED faults
  BY <1>1
<1>2. CASE faults' = [faults EXCEPT !.lapses = @ + 1]
  <2>1. faults'.lapses = faults.lapses + 1
    BY <1>2 DEF TypeOK
  <2>2. faults.lapses \in Nat
    BY GiftCardsAssumption DEF TypeOK
  <2> QED
    BY <2>1, <2>2
<1>3. CASE faults' = [faults EXCEPT !.crashes = @ + 1]
  BY <1>3 DEF TypeOK
<1> QED
  BY <1>1, <1>2, <1>3
     DEF Next, Serve, Lock, Read, Write, WriteCancel, Release, Crash, Check, Lapse, Pass,
         FindExpired, Expire, vars

LEMMA TypeStep == TypeOK /\ [Next]_vars => TypeOK'
<1> SUFFICES ASSUME TypeOK, [Next]_vars PROVE TypeOK'
  OBVIOUS
<1> USE GiftCardsAssumption DEF TypeOK
<1>1. ASSUME NEW p \in Sessions, Lock(p) PROVE TypeOK'
  BY <1>1, WorkFacts DEF Lock, At, Goes, Work, Idle
<1>2. ASSUME NEW p \in Sessions, Read(p) PROVE TypeOK'
  <2> DEFINE to == IF Allowed(work[p].key) THEN "write" ELSE "release"
  <2>1. to \in {"write", "release"}
    OBVIOUS
  <2>2. work[p].key \in Requests /\ work[p] # Idle /\ work[p] \in Work
    BY <1>2, WorkFacts DEF Read, At, Idle
  <2>3. work' = [work EXCEPT ![p] = [work[p] EXCEPT !.stage = to, !.seen = card.balance]]
    BY <1>2 DEF Read, Seen
  <2> HIDE DEF to
  <2>4. [work[p] EXCEPT !.stage = to, !.seen = card.balance] \in Work
    <3>1. work[p] \in [stage : {"lock", "read", "write", "release"}, key : Requests, seen : Int]
      BY <2>2 DEF Work
    <3>2. card.balance \in Int
      OBVIOUS
    <3> QED
      BY <2>1, <3>1, <3>2 DEF Work
  <2>5. work' \in [Sessions -> Work]
    BY <2>3, <2>4
  <2> QED
    BY <1>2, <2>5 DEF Read
<1>3. ASSUME NEW p \in Sessions, Write(p) PROVE TypeOK'
  BY <1>3, WorkFacts DEF Write, At, Goes, Work, Idle, Moved, Covered, KeyFree, Statuses, Alive
<1>4. ASSUME NEW p \in Sessions, WriteCancel(p) PROVE TypeOK'
  BY <1>4, WorkFacts DEF WriteCancel, At, Goes, Work, Idle, Statuses
<1>5. ASSUME NEW p \in Sessions, Release(p) PROVE TypeOK'
  BY <1>5, WorkFacts DEF Release, At, Work, Idle, Released
<1>6. ASSUME NEW p \in Sessions, Crash(p) PROVE TypeOK'
  BY <1>6 DEF Crash, Work
<1>7. ASSUME NEW p \in Sessions, NEW k \in Requests, Check(p, k) PROVE TypeOK'
  BY <1>7 DEF Check, Work
<1>8. CASE Lapse
  BY <1>8 DEF Lapse
<1>9. CASE Pass \/ FindExpired \/ Expire
  BY <1>9 DEF Pass, FindExpired, Expire, Statuses
<1>10. CASE UNCHANGED vars
  BY <1>10 DEF vars
<1> QED
  BY <1>1, <1>2, <1>3, <1>4, <1>5, <1>6, <1>7, <1>8, <1>9, <1>10 DEF Next, Serve

-----------------------------------------------------------------------------
(***************************************************************************)
(* What is paid out.                                                       *)
(***************************************************************************)

LEMMA NothingBeyondStep ==
  TypeOK /\ NothingBeyondCard /\ [Next]_vars => NothingBeyondCard'
<1> SUFFICES ASSUME TypeOK, NothingBeyondCard, [Next]_vars PROVE NothingBeyondCard'
  OBVIOUS
<1> USE GiftCardsAssumption
<1>1. card.balance \in Nat /\ card'.balance \in Nat
  BY TypeStep DEF TypeOK
<1>2. PostedOf("redeem") \in Nat /\ PostedOf("refund") \in Nat
  BY PostedFacts DEF TypeOK
<1>3. ASSUME UNCHANGED posted, card'.balance = card.balance \/ card'.balance = 0
      PROVE  NothingBeyondCard'
  BY <1>1, <1>2, <1>3 DEF NothingBeyondCard, PostedOf
<1>4. ASSUME NEW p \in Sessions, Write(p) PROVE NothingBeyondCard'
  <2> DEFINE k == work[p].key
  <2>1. k \in Requests /\ Op[k] # "cancel" /\ Op[k] \in Operations /\ Amount[k] \in Nat
    BY <1>4, WorkFacts DEF Write, At, Idle
  <2>2. CASE UNCHANGED <<card, posted>>
    BY <1>3, <2>2
  <2>3. CASE k \notin posted /\ posted' = posted \cup {k} /\ card' = Moved(p, k)
    <3>1. PostedOf("redeem")' = IF Op[k] = "redeem" THEN PostedOf("redeem") + Amount[k]
                                                    ELSE PostedOf("redeem")
      BY <2>1, <2>3, PostedFacts DEF TypeOK
    <3>2. PostedOf("refund")' = IF Op[k] = "refund" THEN PostedOf("refund") + Amount[k]
                                                    ELSE PostedOf("refund")
      BY <2>1, <2>3, PostedFacts DEF TypeOK
    <3>3. card'.balance = IF Op[k] = "redeem" THEN card.balance - Amount[k]
                                              ELSE card.balance + Amount[k]
      BY <2>3 DEF Moved
    <3>4. Op[k] = "redeem" \/ Op[k] = "refund"
      BY <2>1 DEF Operations
    <3> HIDE DEF k
    <3> QED
      BY <1>1, <1>2, <2>1, <3>1, <3>2, <3>3, <3>4 DEF NothingBeyondCard
  <2> QED
    BY <1>4, <2>2, <2>3 DEF Write, KeyFree
<1>5. CASE UNCHANGED <<card, posted>>
  BY <1>3, <1>5
<1>6. ASSUME NEW p \in Sessions, WriteCancel(p) PROVE NothingBeyondCard'
  BY <1>3, <1>6 DEF WriteCancel
<1>7. CASE Expire
  <2>1. card'.balance = card.balance
    BY <1>7 DEF Expire, TypeOK
  <2> QED
    BY <1>3, <1>7, <2>1 DEF Expire
<1> QED
  BY <1>4, <1>5, <1>6, <1>7
     DEF Next, Serve, Lock, Read, Release, Crash, Check, Lapse, Pass, FindExpired, vars

-----------------------------------------------------------------------------
(***************************************************************************)
(* The lock.                                                               *)
(***************************************************************************)

LEMMA LockHeldStep == IInv /\ [Next]_vars => LockHeld'
<1> SUFFICES ASSUME IInv, [Next]_vars, faults'.lapses = 0, NEW q \in Sessions, AtWork(q)'
             PROVE  holder' = q
  BY DEF LockHeld
<1> USE DEF IInv, LockHeld, AtWork, At, Goes
<1>1. faults.lapses = 0 /\ TypeOK
  BY LapsesGrow
<1>2. \A p \in Sessions : AtWork(p) => holder = p
  BY <1>1
<1>3. ASSUME NEW p \in Sessions, Lock(p) PROVE holder' = q
  BY <1>1, <1>2, <1>3, GiftCardsAssumption DEF Lock, TypeOK, Idle
<1>4. ASSUME NEW p \in Sessions, Read(p) \/ Write(p) \/ WriteCancel(p) PROVE holder' = q
  BY <1>1, <1>2, <1>4 DEF Read, Write, WriteCancel, TypeOK
<1>5. ASSUME NEW p \in Sessions, Release(p) PROVE holder' = q
  BY <1>1, <1>2, <1>5 DEF Release, Released, TypeOK, Idle
<1>6. ASSUME NEW p \in Sessions, Crash(p) PROVE holder' = q
  BY <1>1, <1>2, <1>6 DEF Crash, TypeOK, Idle
<1>7. ASSUME NEW p \in Sessions, NEW k \in Requests, Check(p, k) PROVE holder' = q
  BY <1>1, <1>2, <1>7 DEF Check, TypeOK
<1>8. CASE Lapse
  <2>1. holder \in Sessions /\ work[holder] = Idle
    BY <1>1, <1>8, GiftCardsAssumption DEF Lapse, TypeOK
  <2> QED
    BY <1>1, <1>2, <1>8, <2>1 DEF Lapse, Idle
<1>9. CASE Pass \/ FindExpired \/ Expire \/ UNCHANGED vars
  BY <1>2, <1>9 DEF Pass, FindExpired, Expire, vars
<1> QED
  BY <1>3, <1>4, <1>5, <1>6, <1>7, <1>8, <1>9 DEF Next, Serve

LEMMA ReadStandsStep == IInv /\ [Next]_vars => ReadStands'
<1> SUFFICES ASSUME IInv, [Next]_vars, faults'.lapses = 0, NEW q \in Sessions, At(q, "write")'
             PROVE  LET k == work'[q].key IN
                    /\ work'[q].seen = card'.balance
                    /\ Op[k] = "redeem" => card'.balance >= Amount[k]
                    /\ Op[k] = "refund" => card'.balance + Amount[k] <= Initial
  BY DEF ReadStands
<1> USE DEF IInv, AtWork, At, Goes
<1>1. faults.lapses = 0 /\ TypeOK
  BY LapsesGrow
<1>2. \A p \in Sessions : AtWork(p) => holder = p
  BY <1>1 DEF LockHeld
<1>3. ASSUME work'[q] = work[q], card'.balance = card.balance
      PROVE  LET k == work'[q].key IN
             /\ work'[q].seen = card'.balance
             /\ Op[k] = "redeem" => card'.balance >= Amount[k]
             /\ Op[k] = "refund" => card'.balance + Amount[k] <= Initial
  BY <1>1, <1>3 DEF ReadStands
<1>4. ASSUME NEW p \in Sessions, Read(p)
      PROVE  LET k == work'[q].key IN
             /\ work'[q].seen = card'.balance
             /\ Op[k] = "redeem" => card'.balance >= Amount[k]
             /\ Op[k] = "refund" => card'.balance + Amount[k] <= Initial
  <2>1. CASE p # q
    BY <1>1, <1>3, <1>4, <2>1 DEF Read, TypeOK
  <2>2. CASE p = q
    BY <1>1, <1>4, <2>2, WorkFacts DEF Read, TypeOK, Allowed, Redeemable, Refundable, Seen, Idle
  <2> QED
    BY <2>1, <2>2
<1>5. ASSUME NEW p \in Sessions, Write(p) \/ WriteCancel(p)
      PROVE  LET k == work'[q].key IN
             /\ work'[q].seen = card'.balance
             /\ Op[k] = "redeem" => card'.balance >= Amount[k]
             /\ Op[k] = "refund" => card'.balance + Amount[k] <= Initial
  (* Another session at work would hold the lock as well. *)
  <2>1. work' = [work EXCEPT ![p] = [work[p] EXCEPT !.stage = "release"]]
    BY <1>5 DEF Write, WriteCancel
  <2>2. DOMAIN work = Sessions
    BY <1>1 DEF TypeOK
  <2>3. p # q
    <3>1. work[p] \in [stage : {"lock", "read", "write", "release"}, key : Requests, seen : Int]
      BY <1>1, <1>5 DEF Write, WriteCancel, TypeOK, Work, Idle
    <3> QED
      BY <2>1, <2>2, <3>1
  <2>4. work'[q] = work[q]
    BY <2>1, <2>2, <2>3
  <2> QED
    BY <1>2, <1>5, <2>3, <2>4 DEF Write, WriteCancel
<1>6. ASSUME NEW p \in Sessions,
             Lock(p) \/ Release(p) \/ Crash(p) \/ \E k \in Requests : Check(p, k)
      PROVE  work'[q] = work[q] /\ card'.balance = card.balance
  <2>1. card' = card
    BY <1>6 DEF Lock, Release, Crash, Check
  <2>2. \E to : work' = [work EXCEPT ![p] = to] /\ to.stage # "write"
    <3>1. CASE Lock(p) /\ holder = NoOne
      <4> DEFINE to == [work[p] EXCEPT !.stage = "read"]
      <4>1. work[p] \in [stage : {"lock", "read", "write", "release"}, key : Requests, seen : Int]
        BY <1>1, <3>1 DEF Lock, TypeOK, Work, Idle
      <4>2. to.stage # "write"
        BY <4>1
      <4>3. work' = [work EXCEPT ![p] = to]
        BY <3>1 DEF Lock
      <4> QED
        BY <4>2, <4>3
    <3>2. CASE work' = [work EXCEPT ![p] = Idle]
      <4>1. Idle.stage # "write"
        BY DEF Idle
      <4> QED
        BY <3>2, <4>1
    <3>3. ASSUME NEW k \in Requests, Check(p, k)
          PROVE  \E to : work' = [work EXCEPT ![p] = to] /\ to.stage # "write"
      <4> DEFINE to == [stage |-> "lock", key |-> k, seen |-> card.balance]
      <4>1. work' = [work EXCEPT ![p] = to] /\ to.stage # "write"
        BY <3>3 DEF Check
      <4> QED
        BY <4>1
    <3> QED
      BY <1>6, <3>1, <3>2, <3>3 DEF Lock, Release, Crash
  <2> QED
    BY <1>1, <2>1, <2>2 DEF TypeOK
<1>7. CASE Lapse \/ Pass \/ FindExpired \/ UNCHANGED vars
  BY <1>1, <1>3, <1>7 DEF Lapse, Pass, FindExpired, vars
<1>8. CASE Expire
  <2>1. card'.balance = card.balance
    BY <1>1, <1>8 DEF Expire, TypeOK
  <2> QED
    BY <1>3, <1>8, <2>1 DEF Expire
<1> QED
  BY <1>3, <1>4, <1>5, <1>6, <1>7, <1>8 DEF Next, Serve

-----------------------------------------------------------------------------
(***************************************************************************)
(* The status.                                                             *)
(***************************************************************************)

LEMMA StatusAgreesStep == IInv /\ [Next]_vars => StatusAgrees'
<1> SUFFICES ASSUME IInv, [Next]_vars PROVE StatusAgrees'
  OBVIOUS
<1> USE GiftCardsAssumption
<1>1. TypeOK /\ (faults'.lapses = 0 => faults.lapses = 0)
  BY LapsesGrow DEF IInv
<1>2. CASE UNCHANGED card
  BY <1>1, <1>2 DEF IInv, StatusAgrees
<1>3. ASSUME NEW p \in Sessions, Write(p) PROVE StatusAgrees'
  <2> DEFINE k == work[p].key
             after == IF Op[k] = "redeem" THEN work[p].seen - Amount[k]
                                          ELSE work[p].seen + Amount[k]
  <2>1. SUFFICES ASSUME faults.lapses = 0, card' = Moved(p, k) PROVE StatusAgrees'
    BY <1>1, <1>2, <1>3 DEF Write, StatusAgrees
  <2>2. /\ k \in Requests /\ Amount[k] \in Nat \ {0}
        /\ Op[k] = "redeem" \/ Op[k] = "refund"
    BY <1>1, <1>3, WorkFacts DEF Write, At, Idle, Operations
  <2>3. /\ work[p].seen = card.balance /\ card.balance \in Nat
        /\ Op[k] = "redeem" => card.balance >= Amount[k]
        /\ Op[k] = "refund" => card.balance + Amount[k] <= Initial
        /\ card.balance <= Initial
    BY <1>1, <1>3, <2>1 DEF Write, IInv, ReadStands, StatusAgrees, TypeOK
  <2>4. /\ card'.balance = after
        /\ card'.status = IF after = 0 THEN "depleted"
                          ELSE IF Op[k] = "refund" /\ after = Initial
                               THEN "active" ELSE "partially_redeemed"
    BY <2>1, <2>3 DEF Moved
  <2>5. after \in Nat /\ after <= Initial /\ (after = Initial => Op[k] = "refund")
    BY <2>2, <2>3
  <2> HIDE DEF after, k
  <2>6. CASE after = 0
    BY <2>4, <2>5, <2>6 DEF StatusAgrees
  <2>7. CASE after # 0 /\ Op[k] = "refund" /\ after = Initial
    BY <2>4, <2>5, <2>7 DEF StatusAgrees
  <2>8. CASE after # 0 /\ ~(Op[k] = "refund" /\ after = Initial)
    <3>1. card'.status = "partially_redeemed"
      BY <2>4, <2>8
    <3>2. after \in 1 .. Initial - 1
      BY <2>5, <2>8
    <3> QED
      BY <2>4, <2>5, <3>1, <3>2 DEF StatusAgrees
  <2> QED
    BY <2>6, <2>7, <2>8
<1>4. ASSUME NEW p \in Sessions, WriteCancel(p) PROVE StatusAgrees'
  BY <1>4 DEF WriteCancel, StatusAgrees
<1>5. CASE Expire
  <2>1. card'.balance = card.balance /\ card'.status = "expired"
    BY <1>1, <1>5 DEF Expire, TypeOK
  <2> QED
    BY <1>1, <2>1 DEF IInv, StatusAgrees
<1> QED
  BY <1>2, <1>3, <1>4, <1>5
     DEF Next, Serve, Lock, Read, Release, Crash, Check, Lapse, Pass, FindExpired, vars

-----------------------------------------------------------------------------

LEMMA StepOK == IInv /\ [Next]_vars => IInv'
BY TypeStep, NothingBeyondStep, StatusAgreesStep, LockHeldStep, ReadStandsStep DEF IInv

LEMMA Inductive == Spec => []IInv
<1>1. Init => IInv
  BY InitOK
<1>2. IInv /\ [Next]_vars => IInv'
  BY StepOK
<1> QED
  BY <1>1, <1>2, PTL DEF Spec

(* A card is always in one of its states, with a balance that is not         *)
(* negative: the guarded decrement of updateCardBalance suffices for it.     *)
THEOREM CardTypeCorrect == Spec => []TypeOK
<1>1. IInv => TypeOK
  BY DEF IInv
<1> QED
  BY <1>1, Inductive, PTL

(* No card pays out more than it was created with and has been refunded,     *)
(* whatever becomes of its locks (redeem, refund).                           *)
THEOREM CardPaysWhatItHolds == Spec => []NothingBeyondCard
<1>1. IInv => NothingBeyondCard
  BY DEF IInv
<1> QED
  BY <1>1, Inductive, PTL

(* While no lock lapses under its holder, the status that is computed from   *)
(* the balance read under the lock is the status of the balance written.     *)
THEOREM CardStatusTellsBalance == Spec => []StatusAgrees
<1>1. IInv => StatusAgrees
  BY DEF IInv
<1> QED
  BY <1>1, Inductive, PTL
=============================================================================
