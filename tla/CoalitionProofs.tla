--------------------------- MODULE CoalitionProofs ---------------------------
(***************************************************************************)
(* Theorems about Coalition, for any sessions, keys and bounds.            *)
(*                                                                         *)
(* The unique key of a CoalitionTransaction is what makes one request the  *)
(* only one that deals with it: the request that has created the row.  The *)
(* number of its attempts then bounds the calls, and the stage it is at    *)
(* tells what the partner and the wallet have done so far.                 *)
(***************************************************************************)
EXTENDS Coalition, TLAPS

\* The request has created the row of its key, and is not done with it.
Dealing(p) ==
  work[p].stage \in {"call", "waiting", "confirm", "debit", "credit", "compensate", "fail"}

\* A key is dealt with by one request, which has recorded it.
OneDeals ==
  \A p \in Sessions : Dealing(p) =>
    /\ Recorded(work[p].key)
    /\ \A q \in Sessions : Dealing(q) /\ work[q].key = work[p].key => q = p

\* A key that is not recorded was not sent, and an attempt is sent once.
AttemptsCount ==
  /\ \A k \in Keys : sent[k] <= Attempts /\ (~Recorded(k) => sent[k] = 0)
  /\ \A p \in Sessions :
       /\ At(p, "call") => sent[work[p].key] < work[p].attempt
       /\ At(p, "waiting") => sent[work[p].key] <= work[p].attempt

\* What the stage of a request says of the partner and of the wallet.
StageTells ==
  \A p \in Sessions :
    /\ At(p, "waiting") /\ work[p].landed => work[p].key \in applied
    /\ work[p].stage \in {"confirm", "debit", "credit"} => work[p].key \in applied
    /\ At(p, "credit") => work[p].key \in local.debits

\* A PENDING row is dealt with, or known to be left to nobody; a conversion
\* that is at the wallet has it confirmed.
Attended ==
  /\ \A k \in Keys : txs[k].status = "PENDING" =>
       k \in unrecorded \/ \E p \in Sessions : Dealing(p) /\ work[p].key = k
  /\ \A p \in Sessions : At(p, "debit") \/ At(p, "credit") =>
       txs[work[p].key].status # "PENDING"

IInv == TypeOK /\ OneDeals /\ AttemptsCount /\ StageTells /\ LocalFollows /\ Attended

-----------------------------------------------------------------------------
(***************************************************************************)
(* What a request is doing.                                                *)
(***************************************************************************)

Busy == [stage : Stages, key : Keys, attempt : 1 .. Attempts, landed : BOOLEAN]

LEMMA WorkFacts ==
  ASSUME TypeOK, NEW p \in Sessions
  PROVE  /\ work[p] # Idle => work[p] \in Busy
         /\ work[p].stage # "idle" => work[p] # Idle
         /\ Idle.stage = "idle"
         /\ \A e \in Busy : e # Idle
BY DEF TypeOK, Work, Busy, Idle, Stages

LEMMA GoesFacts ==
  ASSUME TypeOK, NEW p \in Sessions, work[p] \in Busy, NEW s \in Stages, Goes(p, s)
  PROVE  \E e \in Busy : /\ work' = [work EXCEPT ![p] = e]
                         /\ e.stage = s /\ e.key = work[p].key
                         /\ e.attempt = work[p].attempt /\ e.landed = work[p].landed
<1> DEFINE e == [work[p] EXCEPT !.stage = s]
<1>1. e \in Busy /\ e.stage = s /\ e.key = work[p].key
      /\ e.attempt = work[p].attempt /\ e.landed = work[p].landed
  BY DEF Busy
<1>2. work' = [work EXCEPT ![p] = e]
  BY DEF Goes
<1> HIDE DEF e
<1> QED
  BY <1>1, <1>2

LEMMA TriedAgainFacts ==
  ASSUME NEW p, work[p] \in Busy
  PROVE  /\ TriedAgain(p) \in Busy /\ TriedAgain(p).key = work[p].key
         /\ \/ TriedAgain(p).stage = "fail"
            \/ TriedAgain(p).stage = "call" /\ TriedAgain(p).attempt = work[p].attempt + 1
<1> DEFINE e == TriedAgain(p)
<1>1. work[p].attempt = Attempts => e = [work[p] EXCEPT !.stage = "fail"]
  BY DEF TriedAgain
<1>2. work[p].attempt # Attempts
        => e = [work[p] EXCEPT !.stage = "call", !.attempt = work[p].attempt + 1]
  BY DEF TriedAgain
<1>3. work[p].attempt \in 1 .. 3
  BY DEF Busy, Attempts
<1> SUFFICES /\ e \in Busy /\ e.key = work[p].key
             /\ e.stage = "fail" \/ (e.stage = "call" /\ e.attempt = work[p].attempt + 1)
  OBVIOUS
<1> HIDE DEF e
<1>4. CASE work[p].attempt = Attempts
  BY <1>1, <1>4 DEF Busy, Stages
<1>5. CASE work[p].attempt # Attempts
  <2>1. work[p].attempt + 1 \in 1 .. Attempts
    BY <1>3, <1>5 DEF Attempts
  <2> QED
    BY <1>2, <1>5, <2>1 DEF Busy, Stages
<1> QED
  BY <1>4, <1>5

(* What a request does next, as a whole: which stage follows which, and what *)
(* it leaves of its key, its attempt and the call that has landed.           *)
Follows(d, e) ==
  \/ e.stage = "create" /\ d.stage = "link"
  \/ e.stage = "call" /\ d.stage = "create" /\ e.attempt = d.attempt
  \/ e.stage = "call" /\ d.stage = "waiting" /\ e.attempt = d.attempt + 1
  \/ e.stage = "waiting" /\ d.stage = "call" /\ e.attempt = d.attempt /\ ~e.landed
  \/ e.stage = "waiting" /\ d.stage = "waiting" /\ e.attempt = d.attempt /\ e.landed
  \/ e.stage = "confirm" /\ d.stage = "waiting" /\ d.landed
  \/ e.stage = "debit" /\ d.stage = "confirm"
  \/ e.stage = "credit" /\ d.stage = "debit"
  \/ e.stage = "compensate" /\ d.stage \in {"debit", "credit"}
  \/ e.stage = "fail" /\ d.stage \in {"call", "waiting", "confirm", "compensate"}
  \/ e.stage = "reversed" /\ d.stage = "reverse"

Proceeds(p) ==
  \/ work' = [work EXCEPT ![p] = Idle]
  \/ \E e \in Busy : /\ work' = [work EXCEPT ![p] = e]
                     /\ e.key = work[p].key
                     /\ Follows(work[p], e)

LEMMA ProgressFacts ==
  ASSUME TypeOK, NEW p \in Sessions, Progress(p)
  PROVE  work[p] \in Busy /\ Proceeds(p)
<1>1. work[p] \in Busy
  BY WorkFacts
     DEF Progress, LinkAccount, CreateTx, Call, Blocked, Land, Answer, Refuse, Lose, TimeOut,
         Confirm, Debit, Credit, LocalFails, Compensate, Fail, CallReversal, RecordReversal, At
<1> SUFFICES Proceeds(p)
  BY <1>1
<1>2. ASSUME NEW s \in Stages, Goes(p, s),
             \A e \in Busy : /\ e.stage = s /\ e.attempt = work[p].attempt
                             /\ e.landed = work[p].landed
                             => Follows(work[p], e)
      PROVE  Proceeds(p)
  BY <1>1, <1>2, GoesFacts DEF Proceeds
<1>3. work' = [work EXCEPT ![p] = Idle] => Proceeds(p)
  BY DEF Proceeds
<1>4. \A e \in Busy : /\ work' = [work EXCEPT ![p] = e]
                       /\ e.key = work[p].key
                       /\ Follows(work[p], e)
                       => Proceeds(p)
  BY DEF Proceeds
<1>5. CASE LinkAccount(p)
  <2>1. Goes(p, "create") => Proceeds(p)
    BY <1>2, <1>5 DEF LinkAccount, At, Follows, Stages
  <2> QED
    BY <1>3, <1>5, <2>1 DEF LinkAccount, Ends
<1>6. CASE CreateTx(p)
  <2>1. Goes(p, "call") => Proceeds(p)
    BY <1>2, <1>6 DEF CreateTx, At, Follows, Stages
  <2> QED
    BY <1>3, <1>6, <2>1 DEF CreateTx, LosesTx, Ends
<1>7. CASE Call(p)
  <2> DEFINE e == [work[p] EXCEPT !.stage = "waiting", !.landed = FALSE]
  <2>1. e \in Busy /\ e.stage = "waiting" /\ e.landed = FALSE /\ e.key = work[p].key
        /\ e.attempt = work[p].attempt
    BY <1>1 DEF Busy, Stages
  <2>2. work' = [work EXCEPT ![p] = e]
    BY <1>7 DEF Call
  <2> HIDE DEF e
  <2>3. Follows(work[p], e)
    BY <1>7, <2>1 DEF Call, At, Follows
  <2> QED
    BY <1>4, <1>7, <2>1, <2>2, <2>3
<1>8. CASE Land(p)
  <2> DEFINE e == [work[p] EXCEPT !.landed = TRUE]
  <2>1. e \in Busy /\ e.stage = "waiting" /\ e.landed = TRUE /\ e.key = work[p].key
        /\ e.attempt = work[p].attempt
    BY <1>1, <1>8 DEF Busy, Land, At
  <2>2. work' = [work EXCEPT ![p] = e]
    BY <1>8 DEF Land
  <2> HIDE DEF e
  <2>3. Follows(work[p], e)
    BY <1>8, <2>1 DEF Land, At, Follows
  <2> QED
    BY <1>4, <1>8, <2>1, <2>2, <2>3
<1>9. CASE Lose(p)
  <2> DEFINE e == TriedAgain(p)
  <2>1. e \in Busy /\ e.key = work[p].key
        /\ (e.stage = "fail" \/ (e.stage = "call" /\ e.attempt = work[p].attempt + 1))
    BY <1>1, TriedAgainFacts
  <2>2. work' = [work EXCEPT ![p] = e]
    BY <1>9 DEF Lose
  <2> HIDE DEF e
  <2>3. Follows(work[p], e)
    BY <1>9, <2>1 DEF Lose, At, Follows
  <2> QED
    BY <1>4, <1>9, <2>1, <2>2, <2>3
<1>10. CASE Blocked(p) \/ Answer(p) \/ Refuse(p) \/ TimeOut(p)
  BY <1>2, <1>10 DEF Blocked, Answer, Refuse, TimeOut, At, Follows, Stages
<1>11. CASE Confirm(p)
  <2>1. Goes(p, "debit") => Proceeds(p)
    BY <1>2, <1>11 DEF Confirm, At, Follows, Stages
  <2>2. Goes(p, "fail") => Proceeds(p)
    BY <1>2, <1>11 DEF Confirm, At, Follows, Stages
  <2> QED
    BY <1>3, <1>11, <2>1, <2>2 DEF Confirm, Ends
<1>12. CASE Debit(p) \/ LocalFails(p)
  BY <1>2, <1>12 DEF Debit, LocalFails, AfterLocalError, At, Follows, Stages
<1>13. CASE Compensate(p)
  BY <1>2, <1>13 DEF Compensate, At, Follows, Stages
<1>14. CASE CallReversal(p)
  <2>1. Goes(p, "reversed") => Proceeds(p)
    BY <1>2, <1>14 DEF CallReversal, At, Follows, Stages
  <2> QED
    BY <1>3, <1>14, <2>1 DEF CallReversal, Ends
<1>15. CASE Credit(p) \/ Fail(p) \/ RecordReversal(p)
  BY <1>3, <1>15 DEF Credit, Fail, LosesTx, RecordReversal, Ends
<1> QED
  BY <1>5, <1>6, <1>7, <1>8, <1>9, <1>10, <1>11, <1>12, <1>13, <1>14, <1>15 DEF Progress

(* One request makes a step, or the process dies and all of them end.        *)
LEMMA OthersRest ==
  ASSUME TypeOK, [Next]_vars, NEW p \in Sessions, work'[p] # work[p], work'[p] # Idle
  PROVE  \A q \in Sessions \ {p} : work'[q] = work[q]
<1>1. ASSUME NEW q \in Sessions, Progress(q)
      PROVE  \A r \in Sessions \ {q} : work'[r] = work[r]
  BY <1>1, ProgressFacts DEF Proceeds, TypeOK
<1>2. ASSUME NEW q \in Sessions, NEW k \in Keys, Check(q, k) \/ ReadReversal(q, k)
      PROVE  \A r \in Sessions \ {q} : work'[r] = work[r]
  BY <1>2 DEF Check, ReadReversal, TypeOK
<1>3. CASE Crash
  BY <1>3 DEF Crash
<1>4. CASE (\E k \in Keys : LandLate(k)) \/ Unlink \/ UNCHANGED vars
  BY <1>4 DEF LandLate, Unlink, vars
<1> QED
  BY <1>1, <1>2, <1>3, <1>4 DEF Next

(* A request deals with a key from the creation of its row on.               *)
LEMMA DealingStep ==
  ASSUME TypeOK, [Next]_vars, NEW p \in Sessions, Dealing(p)'
  PROVE  /\ work[p] \in Busy /\ work'[p] \in Busy
         /\ work'[p].key = work[p].key
         /\ \/ Dealing(p) /\ work'[p] = work[p]
            \/ Dealing(p) /\ Progress(p) /\ Follows(work[p], work'[p])
            \/ At(p, "create") /\ CreateTx(p) /\ At(p, "call")'
                 /\ work'[p].attempt = work[p].attempt
<1>1. work'[p] = work[p] => Dealing(p) /\ work[p] \in Busy
  BY WorkFacts DEF Dealing
<1>2. CASE Progress(p)
  <2>1. PICK e \in Busy : /\ work' = [work EXCEPT ![p] = e]
                          /\ e.key = work[p].key
                          /\ Follows(work[p], e)
    BY <1>2, ProgressFacts DEF Proceeds, Dealing, Idle, TypeOK
  <2>2. work'[p] = e /\ work[p] \in Busy
    BY <1>2, <2>1, ProgressFacts DEF TypeOK
  <2>3. Dealing(p) \/ (At(p, "create") /\ e.stage = "call" /\ e.attempt = work[p].attempt)
    BY <2>1, <2>2 DEF Dealing, Follows, At
  <2>4. At(p, "create") => CreateTx(p)
    BY <1>2 DEF Progress, LinkAccount, Call, Blocked, Land, Answer, Refuse, Lose, TimeOut,
         Confirm, Debit, Credit, LocalFails, Compensate, Fail, CallReversal, RecordReversal, At
  <2> QED
    BY <1>2, <2>1, <2>2, <2>3, <2>4 DEF At
<1>3. ASSUME NEW k \in Keys, Check(p, k) \/ ReadReversal(p, k) PROVE FALSE
  <2>1. work'[p].stage \in {"create", "link", "reverse"}
    BY <1>3 DEF Check, ReadReversal, TypeOK
  <2> QED
    BY <2>1 DEF Dealing
<1>4. ASSUME NEW q \in Sessions, q # p,
             Progress(q) \/ \E k \in Keys : Check(q, k) \/ ReadReversal(q, k)
      PROVE  work'[p] = work[p]
  <2>1. CASE Progress(q)
    BY <1>4, <2>1, ProgressFacts DEF Proceeds, TypeOK
  <2> QED
    BY <1>4, <2>1 DEF Check, ReadReversal, TypeOK
<1>5. ASSUME Crash PROVE FALSE
  <2>1. work'[p].stage = "idle"
    BY <1>5 DEF Crash, Idle
  <2> QED
    BY <2>1 DEF Dealing
<1>6. (\E k \in Keys : LandLate(k)) \/ Unlink \/ UNCHANGED vars => work' = work
  BY DEF LandLate, Unlink, vars
<1>7. Progress(p) \/ work'[p] = work[p]
  BY <1>3, <1>4, <1>5, <1>6 DEF Next
<1>8. CASE work'[p] = work[p]
  BY <1>1, <1>8
<1> QED
  BY <1>2, <1>7, <1>8

-----------------------------------------------------------------------------
(***************************************************************************)
(* Types.                                                                  *)
(***************************************************************************)

LEMMA InitOK == Init => IInv
<1> SUFFICES ASSUME Init PROVE IInv
  OBVIOUS
<1>1. TypeOK
  BY CoalitionAssumption DEF Init, TypeOK, Tx, Work
<1>2. OneDeals /\ AttemptsCount /\ StageTells /\ LocalFollows /\ Attended
  BY DEF Init, Attended, OneDeals, AttemptsCount, StageTells, LocalFollows, Dealing, At, Idle, Attempts
<1> QED
  BY <1>1, <1>2 DEF IInv

LEMMA WorkTypeStep ==
  ASSUME TypeOK, [Next]_vars
  PROVE  work' \in [Sessions -> Work]
<1>1. Idle \in Work /\ Busy \subseteq Work /\ work \in [Sessions -> Work]
  BY DEF TypeOK, Work, Busy
<1>2. ASSUME NEW p \in Sessions, Progress(p) PROVE work' \in [Sessions -> Work]
  BY <1>1, <1>2, ProgressFacts DEF Proceeds
<1>3. ASSUME NEW p \in Sessions, NEW k \in Keys, Check(p, k) \/ ReadReversal(p, k)
      PROVE  work' \in [Sessions -> Work]
  <2>1. PICK s \in Stages :
          work' = [work EXCEPT ![p] = [stage |-> s, key |-> k, attempt |-> 1, landed |-> FALSE]]
    BY <1>3 DEF Check, ReadReversal, Stages
  <2>2. [stage |-> s, key |-> k, attempt |-> 1, landed |-> FALSE] \in Busy
    BY DEF Busy, Attempts
  <2> QED
    BY <1>1, <2>1, <2>2
<1>4. CASE Crash
  BY <1>1, <1>4 DEF Crash
<1>5. CASE (\E k \in Keys : LandLate(k)) \/ Unlink \/ UNCHANGED vars
  BY <1>1, <1>5 DEF LandLate, Unlink, vars
<1> QED
  BY <1>2, <1>3, <1>4, <1>5 DEF Next

(* A row stays, gets a status that is none of a missing row, and is answered *)
(* for only by the confirmation.  It becomes PENDING when it is created.     *)
LEMMA RowsStep ==
  ASSUME TypeOK, [Next]_vars
  PROVE  /\ txs' \in [Keys -> Tx]
         /\ \A k \in Keys :
              /\ Recorded(k) => Recorded(k)'
              /\ txs'[k].external /\ ~txs[k].external =>
                   \E p \in Sessions : Confirm(p) /\ k = work[p].key
              /\ txs'[k].status = "PENDING" /\ txs[k].status # "PENDING" =>
                   ~Recorded(k) /\ \E p \in Sessions : CreateTx(p) /\ k = work[p].key
<1> DEFINE Goal == /\ txs' \in [Keys -> Tx]
                   /\ \A k \in Keys :
                        /\ Recorded(k) => Recorded(k)'
                        /\ txs'[k].external /\ ~txs[k].external =>
                             \E p \in Sessions : Confirm(p) /\ k = work[p].key
                        /\ txs'[k].status = "PENDING" /\ txs[k].status # "PENDING" =>
                             ~Recorded(k) /\ \E p \in Sessions : CreateTx(p) /\ k = work[p].key
<1> SUFFICES Goal
  OBVIOUS
<1>1. txs \in [Keys -> Tx] /\ \A k \in Keys : txs[k] \in Tx
  BY DEF TypeOK
<1>2. UNCHANGED txs => Goal
  BY <1>1 DEF Recorded
<1>3. ASSUME NEW k \in Keys, NEW s \in {"PENDING", "REVERSED", "FAILED"},
             s = "PENDING" => ~Recorded(k) /\ \E p \in Sessions : CreateTx(p) /\ k = work[p].key,
             txs' = [txs EXCEPT ![k].status = s]
      PROVE  Goal
  <2> DEFINE row == [txs[k] EXCEPT !.status = s]
  <2>1. row \in Tx /\ row.status = s /\ row.external = txs[k].external
    BY <1>1 DEF Tx
  <2>2. txs' = [txs EXCEPT ![k] = row]
    BY <1>3
  <2>3. row.status # "NONE"
    BY <2>1
  <2> HIDE DEF row
  <2>4. \A j \in Keys : txs'[j] = IF j = k THEN row ELSE txs[j]
    BY <1>1, <2>2
  <2>5. txs' \in [Keys -> Tx]
    BY <1>1, <2>1, <2>2
  <2> QED
    BY <1>1, <1>3, <2>1, <2>3, <2>4, <2>5 DEF Recorded
<1>4. ASSUME NEW p \in Sessions, Confirm(p), work[p].key \in Keys, txs' # txs PROVE Goal
  <2> DEFINE row == [status |-> "CONFIRMED", external |-> TRUE]
  <2>1. row \in Tx /\ row.status = "CONFIRMED"
    BY DEF Tx
  <2>2. txs' = [txs EXCEPT ![work[p].key] = row]
    BY <1>4 DEF Confirm
  <2> HIDE DEF row
  <2> QED
    BY <1>1, <1>4, <2>1, <2>2 DEF Recorded
<1> HIDE DEF Goal
<1>5. ASSUME NEW p \in Sessions, Progress(p) PROVE Goal
  <2>1. work[p].key \in Keys
    BY <1>5, ProgressFacts DEF Busy
  <2>2. CASE CreateTx(p)
    BY <1>2, <1>3, <2>1, <2>2 DEF CreateTx, Creatable
  <2>3. CASE Confirm(p)
    BY <1>2, <1>4, <2>1, <2>3
  <2>4. CASE Compensate(p) \/ Fail(p) \/ RecordReversal(p)
    BY <1>2, <1>3, <2>1, <2>4 DEF Compensate, Fail, RecordReversal
  <2>5. CASE \/ LinkAccount(p) \/ Call(p) \/ Blocked(p) \/ Land(p) \/ Answer(p) \/ Refuse(p)
             \/ Lose(p) \/ TimeOut(p) \/ Debit(p) \/ Credit(p) \/ LocalFails(p) \/ CallReversal(p)
    BY <1>2, <2>5 DEF LinkAccount, Call, Blocked, Land, Answer, Refuse, Lose, TimeOut, Debit,
         Credit, LocalFails, CallReversal
  <2> QED
    BY <1>5, <2>2, <2>3, <2>4, <2>5 DEF Progress
<1>6. ASSUME NEW p \in Sessions, NEW k \in Keys, Check(p, k) \/ ReadReversal(p, k) PROVE Goal
  BY <1>2, <1>6 DEF Check, ReadReversal
<1>7. CASE (\E k \in Keys : LandLate(k)) \/ Unlink \/ Crash \/ UNCHANGED vars
  BY <1>2, <1>7 DEF LandLate, Unlink, Crash, vars
<1> QED
  BY <1>5, <1>6, <1>7 DEF Next

(* What the partner has executed stays executed, and the wallet's records of *)
(* conversions stay.  A call counts for the key of the request that calls.   *)
LEMMA OutsideStep ==
  ASSUME TypeOK, [Next]_vars
  PROVE  /\ applied' \subseteq Keys /\ applied \subseteq applied'
         /\ late' \subseteq Keys
         /\ local' \in [debits : SUBSET Keys, credits : SUBSET Keys]
         /\ local.debits \subseteq local'.debits
         /\ \A k \in Keys :
              /\ k \in local'.debits \ local.debits =>
                   \E p \in Sessions : At(p, "debit") /\ work[p].key = k
              /\ k \in local'.credits \ local.credits =>
                   \E p \in Sessions : At(p, "credit") /\ work[p].key = k
         /\ sent' \in [Keys -> Nat]
         /\ \/ UNCHANGED sent
            \/ \E p \in Sessions : /\ Call(p) /\ work[p].key \in Keys
                                  /\ sent' = [sent EXCEPT ![work[p].key] = @ + 1]
<1> DEFINE Partner == applied' \subseteq Keys /\ applied \subseteq applied' /\ late' \subseteq Keys
           Wallet == /\ local' \in [debits : SUBSET Keys, credits : SUBSET Keys]
                     /\ local.debits \subseteq local'.debits
                     /\ \A k \in Keys :
                          /\ k \in local'.debits \ local.debits =>
                               \E p \in Sessions : At(p, "debit") /\ work[p].key = k
                          /\ k \in local'.credits \ local.credits =>
                               \E p \in Sessions : At(p, "credit") /\ work[p].key = k
           Calls == /\ sent' \in [Keys -> Nat]
                    /\ \/ UNCHANGED sent
                       \/ \E p \in Sessions : /\ Call(p) /\ work[p].key \in Keys
                                             /\ sent' = [sent EXCEPT ![work[p].key] = @ + 1]
<1> SUFFICES Partner /\ Wallet /\ Calls
  OBVIOUS
<1>1. /\ UNCHANGED <<applied, late>> => Partner
      /\ UNCHANGED local => Wallet
      /\ UNCHANGED sent => Calls
  BY DEF TypeOK
<1>2. ASSUME NEW p \in Sessions, Progress(p) PROVE Partner /\ Wallet /\ Calls
  <2>1. work[p].key \in Keys
    BY <1>2, ProgressFacts DEF Busy
  <2>2. At(p, "debit") /\ local' = [local EXCEPT !.debits = @ \cup {work[p].key}] => Wallet
    <3>1. local = [debits |-> local.debits, credits |-> local.credits]
          /\ local.debits \in SUBSET Keys /\ local.credits \in SUBSET Keys
      BY DEF TypeOK
    <3> QED
      BY <2>1, <3>1
  <2>3. At(p, "credit") /\ local' = [local EXCEPT !.credits = @ \cup {work[p].key}] => Wallet
    <3>1. local = [debits |-> local.debits, credits |-> local.credits]
          /\ local.debits \in SUBSET Keys /\ local.credits \in SUBSET Keys
      BY DEF TypeOK
    <3> QED
      BY <2>1, <3>1
  <2>4. CASE Call(p)
    <3>1. sent' = [sent EXCEPT ![work[p].key] = sent[work[p].key] + 1]
      BY <2>4 DEF Call
    <3>2. sent' \in [Keys -> Nat]
      BY <2>1, <3>1 DEF TypeOK
    <3>3. Calls
      BY <2>1, <2>4, <3>1, <3>2
    <3> QED
      BY <1>1, <2>4, <3>3 DEF Call
  <2>5. CASE Land(p)
    <3>1. Partner
      BY <2>1, <2>5 DEF Land, TypeOK
    <3> QED
      BY <1>1, <2>5, <3>1 DEF Land
  <2>6. CASE Lose(p) \/ TimeOut(p)
    <3>1. Partner
      BY <2>1, <2>6 DEF Lose, TimeOut, LeftBehind, TypeOK
    <3> QED
      BY <1>1, <2>6, <3>1 DEF Lose, TimeOut
  <2>7. CASE Debit(p) \/ Credit(p) \/ LocalFails(p)
    BY <1>1, <2>2, <2>3, <2>7 DEF Debit, Credit, LocalFails, provider
  <2>8. CASE \/ LinkAccount(p) \/ CreateTx(p) \/ Blocked(p) \/ Answer(p) \/ Refuse(p) \/ Confirm(p)
             \/ Compensate(p) \/ Fail(p) \/ CallReversal(p) \/ RecordReversal(p)
    BY <1>1, <2>8 DEF LinkAccount, CreateTx, Blocked, Answer, Refuse, Confirm,
         Compensate, Fail, CallReversal, RecordReversal, provider
  <2> HIDE DEF Partner, Wallet, Calls
  <2> QED
    BY <1>2, <2>4, <2>5, <2>6, <2>7, <2>8 DEF Progress
<1>3. CASE Crash
  <2>1. \A q \in Sessions : At(q, "waiting") => work[q].key \in Keys
    BY WorkFacts DEF At, Busy
  <2>2. Partner
    BY <1>3, <2>1 DEF Crash, TypeOK
  <2> QED
    BY <1>1, <1>3, <2>2 DEF Crash
<1>4. ASSUME NEW k \in Keys, LandLate(k) PROVE Partner /\ Wallet /\ Calls
  <2>1. Partner
    BY <1>4 DEF LandLate, TypeOK
  <2> QED
    BY <1>1, <1>4, <2>1 DEF LandLate
<1>5. ASSUME NEW p \in Sessions, NEW k \in Keys, Check(p, k) \/ ReadReversal(p, k)
      PROVE  Partner /\ Wallet /\ Calls
  BY <1>1, <1>5 DEF Check, ReadReversal, provider
<1>6. CASE Unlink \/ UNCHANGED vars
  BY <1>1, <1>6 DEF Unlink, vars, provider
<1> HIDE DEF Partner, Wallet, Calls
<1> QED
  BY <1>2, <1>3, <1>4, <1>5, <1>6 DEF Next

(* What is left to nobody stays so.                                          *)
LEMMA UnrecordedStep ==
  ASSUME TypeOK, [Next]_vars
  PROVE  unrecorded' \subseteq Keys /\ unrecorded \subseteq unrecorded'
<1> DEFINE Goal == unrecorded' \subseteq Keys /\ unrecorded \subseteq unrecorded'
<1> SUFFICES Goal
  OBVIOUS
<1>1. UNCHANGED unrecorded => Goal
  BY DEF TypeOK
<1>2. ASSUME NEW p \in Sessions, Progress(p) PROVE Goal
  <2>1. work[p].key \in Keys
    BY <1>2, ProgressFacts DEF Busy
  <2>2. LosesTx(p) => Goal
    BY <2>1 DEF LosesTx, TypeOK
  <2> HIDE DEF Goal
  <2> QED
    BY <1>1, <1>2, <2>2
       DEF Progress, LinkAccount, CreateTx, Call, Blocked, Land, Answer, Refuse, Lose, TimeOut,
           Confirm, Debit, Credit, LocalFails, Compensate, Fail, CallReversal, RecordReversal
<1>3. CASE Crash
  BY <1>3 DEF Crash, TypeOK
<1> HIDE DEF Goal
<1>4. ASSUME NEW p \in Sessions, NEW k \in Keys, Check(p, k) \/ ReadReversal(p, k) PROVE Goal
  BY <1>1, <1>4 DEF Check, ReadReversal, provider
<1>5. CASE (\E k \in Keys : LandLate(k)) \/ Unlink \/ UNCHANGED vars
  BY <1>1, <1>5 DEF LandLate, Unlink, vars, provider
<1> QED
  BY <1>2, <1>3, <1>4, <1>5 DEF Next

LEMMA TypeStep == TypeOK /\ [Next]_vars => TypeOK'
<1> SUFFICES ASSUME TypeOK, [Next]_vars PROVE TypeOK'
  OBVIOUS
<1>1. \/ UNCHANGED <<linked, reversals, crashes>>
      \/ linked' \in BOOLEAN /\ UNCHANGED <<reversals, crashes>>
      \/ UNCHANGED <<linked, crashes>> /\ reversals < MaxReversals /\ reversals' = reversals + 1
      \/ UNCHANGED <<linked, reversals>> /\ crashes < MaxCrashes /\ crashes' = crashes + 1
  BY ZenonT(60) DEF Next, Progress, LinkAccount, CreateTx, Call, Blocked, Land, Answer, Refuse, Lose,
         TimeOut, Confirm, Debit, Credit, LocalFails, Compensate, Fail, CallReversal,
         RecordReversal, Check, ReadReversal, LandLate, Unlink, Crash, vars
<1> QED
  BY <1>1, WorkTypeStep, RowsStep, UnrecordedStep, OutsideStep, CoalitionAssumption DEF TypeOK

-----------------------------------------------------------------------------
(***************************************************************************)
(* One request deals with a key, and its attempts count the calls.         *)
(***************************************************************************)

LEMMA OneDealsStep == IInv /\ [Next]_vars => OneDeals'
<1> SUFFICES ASSUME IInv, [Next]_vars, NEW p \in Sessions, Dealing(p)'
             PROVE  /\ Recorded(work[p].key)'
                    /\ \A q \in Sessions : Dealing(q)' /\ work'[q].key = work'[p].key => q = p
  BY DEF OneDeals
<1> USE DEF IInv
<1>1. \A q \in Sessions : Dealing(q)' =>
        /\ work[q] \in Busy /\ work'[q] \in Busy /\ work'[q].key = work[q].key
        /\ Dealing(q) \/ (At(q, "create") /\ CreateTx(q) /\ work'[q] # work[q])
  BY DealingStep DEF At
<1>2. \A q \in Sessions : Dealing(q)' /\ ~Dealing(q) =>
        ~Recorded(work[q].key) /\ Recorded(work[q].key)' /\ work'[q] # Idle
  <2> TAKE q \in Sessions
  <2> HAVE Dealing(q)' /\ ~Dealing(q)
  <2>1. work[q] \in Busy /\ CreateTx(q) /\ work'[q] # Idle
    BY <1>1, WorkFacts
  <2>2. ~Ends(q)
    BY <2>1 DEF Ends, TypeOK
  <2>3. /\ Creatable(work[q].key)
        /\ txs' = [txs EXCEPT ![work[q].key] = [txs[work[q].key] EXCEPT !.status = "PENDING"]]
    BY <2>1, <2>2 DEF CreateTx, LosesTx
  <2>4. txs'[work[q].key].status = "PENDING"
    BY <2>1, <2>3 DEF TypeOK, Tx, Busy
  <2> QED
    BY <1>1, <2>1, <2>3, <2>4 DEF Creatable, Recorded
<1>3. Recorded(work[p].key)'
  <2>1. work'[p].key = work[p].key /\ work[p].key \in Keys
    BY <1>1 DEF Busy
  <2> QED
    BY <1>1, <1>2, <2>1, RowsStep DEF OneDeals, Recorded
<1>4. ASSUME NEW q \in Sessions, Dealing(q)', work'[q].key = work'[p].key PROVE q = p
  <2>1. work[q].key = work[p].key
    BY <1>1, <1>4
  <2>2. CASE Dealing(p) /\ Dealing(q)
    BY <2>1, <2>2 DEF OneDeals
  <2>3. CASE Dealing(p) /\ ~Dealing(q)
    BY <1>2, <1>4, <2>1, <2>3 DEF OneDeals
  <2>4. CASE ~Dealing(p) /\ Dealing(q)
    BY <1>2, <2>1, <2>4 DEF OneDeals
  <2>5. CASE ~Dealing(p) /\ ~Dealing(q)
    BY <1>1, <1>2, <1>4, <2>5, OthersRest
  <2> QED
    BY <2>2, <2>3, <2>4, <2>5
<1> QED
  BY <1>3, <1>4

LEMMA AttemptsStep == IInv /\ [Next]_vars => AttemptsCount'
<1> SUFFICES ASSUME IInv, [Next]_vars PROVE AttemptsCount'
  OBVIOUS
<1> USE DEF IInv
<1>1. sent \in [Keys -> Nat] /\ \A p \in Sessions : At(p, "call") => Dealing(p) /\ work[p] \in Busy
  BY WorkFacts DEF TypeOK, At, Dealing
<1>2. \A k \in Keys : sent'[k] <= Attempts /\ (~Recorded(k)' => sent'[k] = 0)
  <2>1. CASE UNCHANGED sent
    BY <2>1, RowsStep DEF AttemptsCount
  <2>2. ASSUME NEW p \in Sessions, Call(p), work[p].key \in Keys,
               sent' = [sent EXCEPT ![work[p].key] = @ + 1]
        PROVE  \A k \in Keys : sent'[k] <= Attempts /\ (~Recorded(k)' => sent'[k] = 0)
    <3>1. Recorded(work[p].key) /\ work[p].attempt \in 1 .. Attempts /\ At(p, "call")
      BY <1>1, <2>2 DEF Call, OneDeals, Busy
    <3>2. sent[work[p].key] < work[p].attempt
      BY <3>1 DEF AttemptsCount
    <3> QED
      BY <1>1, <2>2, <3>1, <3>2, RowsStep DEF AttemptsCount, Attempts
  <2> QED
    BY <2>1, <2>2, OutsideStep
<1>3. ASSUME NEW p \in Sessions, At(p, "call")' \/ At(p, "waiting")'
      PROVE  /\ At(p, "call")' => sent'[work'[p].key] < work'[p].attempt
             /\ At(p, "waiting")' => sent'[work'[p].key] <= work'[p].attempt
  <2>1. Dealing(p)'
    BY <1>3 DEF Dealing, At
  <2>2. work[p] \in Busy /\ work'[p] \in Busy /\ work'[p].key = work[p].key
    BY <2>1, DealingStep
  <2> DEFINE k == work[p].key
  <2>3. k \in Keys /\ sent[k] \in Nat /\ work[p].attempt \in Nat
    BY <1>1, <2>2 DEF Busy
  <2>4. CASE At(p, "create") /\ CreateTx(p) /\ At(p, "call")' /\ work'[p].attempt = work[p].attempt
    <3>1. ~Recorded(k) /\ sent' = sent
      BY <2>4 DEF CreateTx, Creatable, provider, Ends, Idle, TypeOK, At
    <3>2. sent[k] = 0 /\ work[p].attempt >= 1
      BY <2>2, <2>3, <3>1 DEF AttemptsCount, Busy
    <3> QED
      BY <2>2, <2>3, <2>4, <3>1, <3>2 DEF At
  <2>5. CASE Dealing(p) /\ work'[p] = work[p]
    <3>1. sent'[k] = sent[k]
      <4>1. ASSUME NEW q \in Sessions, Call(q), work[q].key = k PROVE FALSE
        <5>1. q = p
          BY <1>1, <2>5, <4>1 DEF OneDeals, Call
        <5>2. work'[p] = [work[p] EXCEPT !.stage = "waiting", !.landed = FALSE]
          BY <4>1, <5>1 DEF Call, TypeOK
        <5>3. work'[p].stage = "waiting"
          BY <2>2, <5>2 DEF Busy
        <5> QED
          BY <2>5, <4>1, <5>1, <5>3 DEF Call, At
      <4> QED
        BY <1>1, <2>3, <4>1, OutsideStep
    <3> QED
      BY <2>2, <2>5, <3>1 DEF AttemptsCount, At
  <2>6. CASE Dealing(p) /\ Progress(p) /\ Follows(work[p], work'[p]) /\ work'[p] # work[p]
    <3>1. \A q \in Sessions : Call(q) => q = p
      <4> TAKE q \in Sessions
      <4> HAVE Call(q)
      <4>1. work'[q] = [work[q] EXCEPT !.stage = "waiting", !.landed = FALSE] /\ work[q] \in Busy
        BY <1>1 DEF Call, TypeOK
      <4>2. work'[q].stage = "waiting" /\ work[q].stage # "waiting"
        BY <4>1 DEF Call, Busy, At
      <4>3. work'[q] # work[q] /\ work'[q] # Idle
        BY <4>2 DEF Idle
      <4> QED
        BY <2>6, <4>3, OthersRest
    <3>2. CASE At(p, "call")
      <4>1. sent'[k] \in {sent[k], sent[k] + 1}
        BY <1>1, <2>3, OutsideStep
      <4>2. work'[p].stage = "waiting" /\ work'[p].attempt = work[p].attempt
        BY <1>3, <2>6, <3>2 DEF Follows, At
      <4>3. sent[k] < work[p].attempt
        BY <3>2 DEF AttemptsCount
      <4> QED
        BY <2>2, <2>3, <4>1, <4>2, <4>3 DEF At
    <3>3. CASE ~At(p, "call")
      <4>1. sent' = sent
        BY <3>1, <3>3, OutsideStep DEF Call
      <4>2. /\ At(p, "waiting")
            /\ \/ work'[p].stage = "call" /\ work'[p].attempt = work[p].attempt + 1
               \/ work'[p].stage = "waiting" /\ work'[p].attempt = work[p].attempt
        BY <1>3, <2>6, <3>3 DEF Follows, At, Dealing
      <4>3. sent[k] <= work[p].attempt
        BY <4>2 DEF AttemptsCount
      <4> QED
        BY <2>2, <2>3, <4>1, <4>2, <4>3 DEF At
    <3> QED
      BY <3>2, <3>3
  <2> QED
    BY <2>1, <2>4, <2>5, <2>6, DealingStep
<1> QED
  BY <1>2, <1>3 DEF AttemptsCount

-----------------------------------------------------------------------------
(***************************************************************************)
(* The partner first, then the wallet.                                     *)
(***************************************************************************)

LEMMA StageTellsStep == IInv /\ [Next]_vars => StageTells'
<1> SUFFICES ASSUME IInv, [Next]_vars, NEW p \in Sessions, Dealing(p)'
             PROVE  /\ At(p, "waiting")' /\ work'[p].landed => work'[p].key \in applied'
                    /\ work'[p].stage \in {"confirm", "debit", "credit"} => work'[p].key \in applied'
                    /\ At(p, "credit")' => work'[p].key \in local'.debits
  BY DEF StageTells, Dealing, At
<1> USE DEF IInv
<1>1. work[p] \in Busy /\ work'[p] \in Busy /\ work'[p].key = work[p].key
  BY DealingStep
<1>2. applied \subseteq applied' /\ local.debits \subseteq local'.debits
  BY OutsideStep
<1>3. CASE work'[p] = work[p]
  BY <1>1, <1>2, <1>3 DEF StageTells, At
<1>4. CASE At(p, "call")'
  BY <1>4 DEF At
<1>5. CASE Progress(p) /\ Follows(work[p], work'[p])
  <2>1. At(p, "waiting")' /\ work'[p].landed => At(p, "waiting")
    BY <1>5 DEF Follows, At
  <2>2. At(p, "waiting")' /\ At(p, "waiting") => Land(p)
    <3>1. ASSUME NEW s, Goes(p, s), s # "waiting", At(p, "waiting")' PROVE FALSE
      BY <1>1, <3>1 DEF Goes, At, TypeOK, Busy
    <3>2. TriedAgain(p).stage # "waiting"
      BY <1>1 DEF TriedAgain, Busy
    <3>3. ASSUME Lose(p), At(p, "waiting")' PROVE FALSE
      BY <3>2, <3>3 DEF Lose, At, TypeOK
    <3> QED
      BY <1>5, <3>1, <3>3
         DEF Progress, LinkAccount, CreateTx, Call, Blocked, Answer, Refuse, TimeOut,
             Confirm, Debit, Credit, LocalFails, AfterLocalError, Compensate, Fail, CallReversal,
             RecordReversal, At
  <2>3. Land(p) => work[p].key \in applied'
    BY DEF Land
  <2>4. At(p, "confirm")' => At(p, "waiting") /\ work[p].landed
    BY <1>5 DEF Follows, At
  <2>5. At(p, "debit")' => At(p, "confirm")
    BY <1>5 DEF Follows, At
  <2>6. At(p, "credit")' => At(p, "debit")
    BY <1>5 DEF Follows, At
  <2>7. ASSUME At(p, "credit")', At(p, "debit") PROVE work[p].key \in local'.debits
    <3>1. Debit(p)
      <4>1. ASSUME LocalFails(p) PROVE FALSE
        BY <1>1, <2>7, <4>1 DEF LocalFails, AfterLocalError, Goes, At, TypeOK, Busy
      <4> QED
        BY <1>5, <2>7, <4>1
           DEF Progress, LinkAccount, CreateTx, Call, Blocked, Land, Answer, Refuse, Lose, TimeOut,
               Confirm, Credit, Compensate, Fail, CallReversal, RecordReversal, At
    <3> QED
      BY <3>1 DEF Debit, TypeOK
  <2> QED
    BY <1>1, <1>2, <2>1, <2>2, <2>3, <2>4, <2>5, <2>6, <2>7 DEF StageTells, At
<1> QED
  BY <1>3, <1>4, <1>5, DealingStep

LEMMA LocalFollowsStep == IInv /\ [Next]_vars => LocalFollows'
<1> SUFFICES ASSUME IInv, [Next]_vars, NEW k \in Keys
             PROVE  /\ k \in local'.credits => k \in local'.debits
                    /\ k \in local'.debits \/ txs'[k].external => k \in applied'
  BY DEF LocalFollows
<1> USE DEF IInv
<1>1. applied \subseteq applied' /\ local.debits \subseteq local'.debits
  BY OutsideStep
<1>2. k \in local'.credits => k \in local'.debits
  BY <1>1, OutsideStep DEF StageTells, LocalFollows
<1>3. k \in local'.debits => k \in applied'
  BY <1>1, OutsideStep DEF StageTells, LocalFollows, At
<1>4. txs'[k].external => k \in applied'
  BY <1>1, RowsStep DEF StageTells, LocalFollows, Confirm, At
<1> QED
  BY <1>2, <1>3, <1>4

-----------------------------------------------------------------------------

(***************************************************************************)
(* No row is left PENDING unnoticed.                                       *)
(***************************************************************************)

LEMMA CallsGoOn ==
  ASSUME TypeOK, NEW p \in Sessions, work[p] \in Busy, Call(p) \/ Land(p) \/ Lose(p)
  PROVE  work'[p] \in Busy
<1>1. CASE Call(p)
  <2> DEFINE e == [work[p] EXCEPT !.stage = "waiting", !.landed = FALSE]
  <2>1. e \in Busy
    BY DEF Busy, Stages
  <2>2. work'[p] = e
    BY <1>1 DEF Call, TypeOK
  <2> QED
    BY <2>1, <2>2
<1>2. CASE Land(p)
  <2> DEFINE e == [work[p] EXCEPT !.landed = TRUE]
  <2>1. e \in Busy
    BY DEF Busy
  <2>2. work'[p] = e
    BY <1>2 DEF Land, TypeOK
  <2> QED
    BY <2>1, <2>2
<1>3. CASE Lose(p)
  BY <1>3, TriedAgainFacts DEF Lose, TypeOK
<1> QED
  BY <1>1, <1>2, <1>3

LEMMA ConfirmedStep ==
  ASSUME IInv, [Next]_vars, NEW p \in Sessions, At(p, "debit")' \/ At(p, "credit")'
  PROVE  txs'[work'[p].key].status # "PENDING"
<1> USE DEF IInv
<1>1. Dealing(p)'
  BY DEF Dealing, At
<1>2. /\ work[p] \in Busy /\ work'[p].key = work[p].key
      /\ \/ Dealing(p) /\ work'[p] = work[p]
         \/ Dealing(p) /\ Progress(p) /\ Follows(work[p], work'[p])
  BY <1>1, DealingStep DEF At
<1>3. CASE At(p, "debit") \/ At(p, "credit")
  <2>1. Recorded(work[p].key) /\ txs[work[p].key].status # "PENDING"
    BY <1>2, <1>3 DEF OneDeals, Attended
  <2> QED
    BY <1>2, <2>1, RowsStep DEF Busy
<1>4. CASE ~(At(p, "debit") \/ At(p, "credit"))
  <2>1. At(p, "confirm") /\ At(p, "debit")' /\ Progress(p)
    BY <1>2, <1>4 DEF Follows, At
  <2>2. Confirm(p)
    BY <2>1 DEF Progress, LinkAccount, CreateTx, Call, Blocked, Land, Answer, Refuse, Lose,
         TimeOut, Debit, Credit, LocalFails, Compensate, Fail, CallReversal, RecordReversal, At
  <2>3. ~Goes(p, "fail")
    BY <1>2, <2>1 DEF Goes, At, TypeOK, Busy
  <2>4. txs' = [txs EXCEPT ![work[p].key] = [status |-> "CONFIRMED", external |-> TRUE]]
    BY <2>2, <2>3 DEF Confirm
  <2> QED
    BY <1>2, <2>4 DEF TypeOK, Busy
<1> QED
  BY <1>3, <1>4

(* The request that deals with a row goes on, ends it, or fails to.          *)
LEMMA AttendedStep == IInv /\ [Next]_vars => Attended'
<1> SUFFICES ASSUME IInv, [Next]_vars, NEW k \in Keys, txs'[k].status = "PENDING"
             PROVE  \/ k \in unrecorded'
                    \/ \E p \in Sessions : Dealing(p)' /\ work'[p].key = k
  BY ConfirmedStep DEF Attended
<1> USE DEF IInv
<1> DEFINE Goal == k \in unrecorded' \/ \E p \in Sessions : Dealing(p)' /\ work'[p].key = k
<1> SUFFICES Goal
  OBVIOUS
<1>1. k \in unrecorded => Goal
  BY UnrecordedStep
<1>2. ASSUME NEW p \in Sessions, work[p] \in Busy, work[p].key = k,
             \E e \in Busy : /\ work' = [work EXCEPT ![p] = e]
                            /\ e.key = k
                            /\ e.stage \in {"call", "waiting", "confirm", "debit", "credit",
                                           "compensate", "fail"}
      PROVE  Goal
  BY <1>2 DEF Dealing, TypeOK
<1>3. ASSUME NEW p \in Sessions, LosesTx(p), work[p].key = k PROVE Goal
  BY <1>3 DEF LosesTx
<1>4. CASE txs[k].status = "PENDING" /\ k \notin unrecorded
  <2>1. PICK p \in Sessions : Dealing(p) /\ work[p].key = k
    BY <1>4 DEF Attended
  <2>2. work[p] \in Busy
    BY <2>1, WorkFacts DEF Dealing
  <2>3. CASE work'[p] = work[p]
    BY <2>1, <2>3 DEF Dealing
  <2>4. CASE Progress(p)
    <3>1. ASSUME work' = [work EXCEPT ![p] = Idle] PROVE Goal
      <4>1. work'[p] = Idle /\ work'[p] \notin Busy
        BY <3>1, WorkFacts DEF TypeOK
      <4>2. \A t \in Stages : ~Goes(p, t)
        BY <2>2, <4>1, GoesFacts DEF TypeOK
      <4>3. ~Call(p) /\ ~Land(p) /\ ~Lose(p)
        BY <2>2, <4>1, CallsGoOn
      <4>4. Confirm(p) \/ Credit(p) \/ Fail(p)
        BY <2>1, <2>4, <4>2, <4>3
           DEF Progress, LinkAccount, CreateTx, Blocked, Answer, Refuse, TimeOut, Debit,
               LocalFails, AfterLocalError, Compensate, CallReversal, RecordReversal, Dealing,
               At, Stages
      <4>5. CASE Confirm(p)
        <5>1. txs' = [txs EXCEPT ![k] = [status |-> "CONFIRMED", external |-> TRUE]]
          BY <2>1, <4>2, <4>5 DEF Confirm, Stages
        <5> QED
          BY <1>4, <5>1 DEF TypeOK
      <4>6. CASE Credit(p)
        BY <1>4, <2>1, <4>6 DEF Credit, Attended
      <4>7. CASE Fail(p)
        <5>1. CASE txs' = [txs EXCEPT ![k].status = "FAILED"]
          <6>1. txs' = [txs EXCEPT ![k] = [txs[k] EXCEPT !.status = "FAILED"]]
            BY <5>1
          <6> QED
            BY <1>4, <6>1 DEF TypeOK, Tx
        <5>2. CASE LosesTx(p)
          BY <1>3, <2>1, <5>2
        <5> QED
          BY <2>1, <4>7, <5>1, <5>2 DEF Fail
      <4> QED
        BY <4>4, <4>5, <4>6, <4>7
    <3>2. ASSUME NEW e \in Busy, work' = [work EXCEPT ![p] = e], e.key = work[p].key,
                 Follows(work[p], e)
          PROVE  Goal
      <4>1. e.stage \in {"call", "waiting", "confirm", "debit", "credit", "compensate", "fail"}
        BY <2>1, <3>2 DEF Follows, Dealing
      <4> QED
        BY <1>2, <2>1, <2>2, <3>2, <4>1
    <3> QED
      BY <2>4, <3>1, <3>2, ProgressFacts DEF Proceeds
  <2>5. CASE Crash
    BY <1>4, <2>5 DEF Crash
  <2>6. ASSUME NEW q \in Sessions, q # p, Progress(q) PROVE work'[p] = work[p]
    BY <2>6, ProgressFacts DEF Proceeds, TypeOK
  <2>7. ASSUME NEW q \in Sessions, NEW j \in Keys, Check(q, j) \/ ReadReversal(q, j)
        PROVE  work'[p] = work[p]
    BY <2>2, <2>7, WorkFacts DEF Check, ReadReversal, TypeOK
  <2>8. CASE (\E j \in Keys : LandLate(j)) \/ Unlink \/ UNCHANGED vars
    BY <2>3, <2>8 DEF LandLate, Unlink, vars
  <2> HIDE DEF Goal
  <2> QED
    BY <2>3, <2>4, <2>5, <2>6, <2>7, <2>8 DEF Next
<1>5. CASE txs[k].status # "PENDING"
  <2>1. PICK p \in Sessions : CreateTx(p) /\ work[p].key = k
    BY <1>5, RowsStep
  <2>2. work[p] \in Busy
    BY <2>1, WorkFacts DEF CreateTx, At
  <2>3. txs' # txs
    BY <1>5
  <2>4. Goes(p, "call") \/ LosesTx(p)
    BY <2>1, <2>3 DEF CreateTx
  <2>5. CASE Goes(p, "call")
    <3>1. PICK e \in Busy : work' = [work EXCEPT ![p] = e] /\ e.stage = "call" /\ e.key = k
      BY <2>1, <2>2, <2>5, GoesFacts DEF Stages
    <3> QED
      BY <1>2, <2>1, <2>2, <3>1
  <2> QED
    BY <1>3, <2>1, <2>4, <2>5
<1> QED
  BY <1>1, <1>4, <1>5

-----------------------------------------------------------------------------

LEMMA StepOK == IInv /\ [Next]_vars => IInv'
BY TypeStep, OneDealsStep, AttemptsStep, StageTellsStep, LocalFollowsStep, AttendedStep
   DEF IInv

LEMMA Inductive == Spec => []IInv
<1>1. Init => IInv
  BY InitOK
<1>2. IInv /\ [Next]_vars => IInv'
  BY StepOK
<1> QED
  BY <1>1, <1>2, PTL DEF Spec

(* The rows, the requests and what was done outside stay what they are       *)
(* declared to be: a request is at one of its stages, with three attempts.   *)
THEOREM CoalitionTypeCorrect == Spec => []TypeOK
<1>1. IInv => TypeOK
  BY DEF IInv
<1> QED
  BY <1>1, Inductive, PTL

(* However many requests carry a reference, and whenever the process dies,   *)
(* the partner is called for one of them, three times at most (callWithRetry *)
(* behind the unique key that createTx relies on).                           *)
THEOREM PartnerCalledByOneRequest == Spec => []SentByOneRequest
<1>1. IInv => SentByOneRequest
  BY DEF IInv, AttemptsCount, SentByOneRequest
<1> QED
  BY <1>1, Inductive, PTL

(* Whatever is lost, late or refused, the wallet moves only for what the     *)
(* partner has executed, and credits only what was debited (convert).        *)
THEOREM WalletFollowsPartner == Spec => []LocalFollows
<1>1. IInv => LocalFollows
  BY DEF IInv
<1> QED
  BY <1>1, Inductive, PTL

(* A row that is PENDING belongs to a request that is at work on it, or its  *)
(* end was lost: with the process, or with a write nothing catches the error *)
(* of (updateTxFailed in the catches of executeWithTwoPhaseCommit, convert). *)
THEOREM PendingIsAttended == Spec => []Attended
<1>1. IInv => Attended
  BY DEF IInv
<1> QED
  BY <1>1, Inductive, PTL
=============================================================================
