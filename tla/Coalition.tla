------------------------------ MODULE Coalition ------------------------------
(***************************************************************************)
(* Operations on a coalition partner's points                              *)
(* (packages/coalition/src/service.ts and repository.ts): a transaction is *)
(* recorded as PENDING, the partner is called, with retries, and what came *)
(* of it is recorded.  A conversion then debits and credits the member's   *)
(* own points, and is compensated at the partner when that fails.          *)
(*                                                                         *)
(* Every access to the database is a transaction of its own, which may end *)
(* in an error, written or not; every call of the partner may be answered, *)
(* refused, lost, or land after the request has given up; and the process  *)
(* may die between any two of them.                                        *)
(***************************************************************************)
EXTENDS Naturals, FiniteSets

CONSTANTS
  Sessions,       \* HTTP requests being served at a time
  Keys,           \* the idempotency keys: <<operation, reference>>
  CanReverse,     \* whether the adapter has reverseTransaction
  MaxCrashes,     \* bound: deaths of the process
  MaxReversals    \* bound: reversals asked for by hand

Kinds == {"earn", "redeem", "convert"}

ASSUME CoalitionAssumption ==
  /\ \A k \in Keys : k[1] \in Kinds
  /\ CanReverse \in BOOLEAN
  /\ MaxCrashes \in Nat /\ MaxReversals \in Nat

VARIABLES
  linked,     \* whether the member has a CoalitionAccount
  txs,        \* the CoalitionTransactions, by key
  work,       \* what each session is doing
  applied,    \* external: the transactions the partner has executed
  late,       \* external: calls nobody waits for that have not arrived
  sent,       \* how often the partner was called for each key
  local,      \* the wallet's debits and credits of the conversions
  reversals,  \* how often a reversal was asked for by hand
  crashes,    \* the deaths of the process so far
  unrecorded  \* history: the transactions whose end nobody is left to record

vars == <<linked, txs, work, applied, late, sent, local, reversals, crashes, unrecorded>>
provider == <<applied, late, sent>>

Tx == [status : {"NONE", "PENDING", "CONFIRMED", "FAILED", "REVERSED"}, external : BOOLEAN]

Stages == {"link", "create", "call", "waiting", "confirm", "debit", "credit",
           "compensate", "fail", "reverse", "reversed"}

Idle == [stage |-> "idle"]

Attempts == 3

Work == {Idle} \cup [stage : Stages, key : Keys, attempt : 1 .. Attempts, landed : BOOLEAN]

TypeOK ==
  /\ linked \in BOOLEAN
  /\ txs \in [Keys -> Tx]
  /\ work \in [Sessions -> Work]
  /\ applied \subseteq Keys /\ late \subseteq Keys
  /\ sent \in [Keys -> Nat]
  /\ local \in [debits : SUBSET Keys, credits : SUBSET Keys]
  /\ reversals \in 0 .. MaxReversals /\ crashes \in 0 .. MaxCrashes
  /\ unrecorded \subseteq Keys

Init ==
  /\ linked \in BOOLEAN
  /\ txs = [k \in Keys |-> [status |-> "NONE", external |-> FALSE]]
  /\ work = [p \in Sessions |-> Idle]
  /\ applied = {} /\ late = {}
  /\ sent = [k \in Keys |-> 0]
  /\ local = [debits |-> {}, credits |-> {}]
  /\ reversals = 0 /\ crashes = 0
  /\ unrecorded = {}

-----------------------------------------------------------------------------
(***************************************************************************)
(* The request.                                                            *)
(***************************************************************************)

At(p, stage) == work[p].stage = stage

Goes(p, stage) == work' = [work EXCEPT ![p].stage = stage]

Ends(p) == work' = [work EXCEPT ![p] = Idle]

Recorded(k) == txs[k].status # "NONE"

\* findTxByLocalRef: the reference, whatever the operation was.
Known(ref) == {k \in Keys : k[2] = ref /\ Recorded(k)}

\* A reference that is known is answered with its row.
Check(p, k) ==
  /\ work[p] = Idle
  /\ Known(k[2]) = {}
  /\ k[1] = "convert" => linked
  /\ work' = [work EXCEPT ![p] =
       [stage |-> IF linked THEN "create" ELSE "link", key |-> k, attempt |-> 1, landed |-> FALSE]]
  /\ UNCHANGED <<linked, txs, provider, local, reversals, crashes, unrecorded>>

\* A second account for the same external member is refused.
LinkAccount(p) ==
  /\ At(p, "link")
  /\ \/ ~linked /\ linked' = TRUE /\ Goes(p, "create")
     \/ linked' \in {linked, TRUE} /\ Ends(p)
  /\ UNCHANGED <<txs, provider, local, reversals, crashes, unrecorded>>

\* The account goes only while no transaction refers to it.
Unlink ==
  /\ linked /\ \A k \in Keys : ~Recorded(k)
  /\ linked' = FALSE
  /\ UNCHANGED <<txs, work, provider, local, reversals, crashes, unrecorded>>

\* Nothing catches an error of the write: the request ends, with what the
\* database holds of the transaction left to nobody.
LosesTx(p) ==
  /\ Ends(p)
  /\ unrecorded' = unrecorded \cup {work[p].key}

\* Mutant: the key of a transaction is not unique.
CreatableAgain(k) == linked

\* The key is unique, and the account has to exist.
Creatable(k) == linked /\ ~Recorded(k)

\* The row is refused, or the error comes before it is written or after.
CreateTx(p) ==
  LET k == work[p].key IN
  /\ At(p, "create")
  /\ \/ Ends(p) /\ UNCHANGED <<txs, unrecorded>>
     \/ /\ Creatable(k)
        /\ txs' = [txs EXCEPT ![k].status = "PENDING"]
        /\ \/ Goes(p, "call") /\ UNCHANGED unrecorded
           \/ LosesTx(p)
  /\ UNCHANGED <<linked, provider, local, reversals, crashes>>

-----------------------------------------------------------------------------
(***************************************************************************)
(* callWithRetry.                                                          *)
(***************************************************************************)

\* The breaker lets the call through.
Call(p) ==
  LET k == work[p].key IN
  /\ At(p, "call")
  /\ sent' = [sent EXCEPT ![k] = @ + 1]
  /\ work' = [work EXCEPT ![p].stage = "waiting", ![p].landed = FALSE]
  /\ UNCHANGED <<linked, txs, applied, late, local, reversals, crashes, unrecorded>>

\* An open breaker, an operation the adapter lacks: no attempt is made.
Blocked(p) ==
  /\ At(p, "call")
  /\ Goes(p, "fail")
  /\ UNCHANGED <<linked, txs, provider, local, reversals, crashes, unrecorded>>

\* The partner executes a reference once and answers it again.
Land(p) ==
  /\ At(p, "waiting") /\ ~work[p].landed
  /\ applied' = applied \cup {work[p].key}
  /\ work' = [work EXCEPT ![p].landed = TRUE]
  /\ UNCHANGED <<linked, txs, late, sent, local, reversals, crashes, unrecorded>>

Answer(p) ==
  /\ At(p, "waiting") /\ work[p].landed
  /\ Goes(p, "confirm")
  /\ UNCHANGED <<linked, txs, provider, local, reversals, crashes, unrecorded>>

\* A business error is not tried again.
Refuse(p) ==
  /\ At(p, "waiting") /\ work[p].key \notin applied
  /\ Goes(p, "fail")
  /\ UNCHANGED <<linked, txs, provider, local, reversals, crashes, unrecorded>>

\* A call that has not arrived may do so later.
LeftBehind(p) ==
  late' = IF work[p].landed THEN late ELSE late \cup {work[p].key}

\* Mutant: the last attempt is tried again.
TriedOnceMore(p) ==
  IF work[p].attempt > Attempts THEN [work[p] EXCEPT !.stage = "fail"]
  ELSE [work[p] EXCEPT !.stage = "call", !.attempt = @ + 1]

TriedAgain(p) ==
  IF work[p].attempt = Attempts THEN [work[p] EXCEPT !.stage = "fail"]
  ELSE [work[p] EXCEPT !.stage = "call", !.attempt = @ + 1]

\* A transient error: the network, a 5xx, an answer that is lost.
Lose(p) ==
  /\ At(p, "waiting")
  /\ LeftBehind(p)
  /\ work' = [work EXCEPT ![p] = TriedAgain(p)]
  /\ UNCHANGED <<linked, txs, applied, sent, local, reversals, crashes, unrecorded>>

\* The breaker's own timeout is no transient error.
TimeOut(p) ==
  /\ At(p, "waiting")
  /\ LeftBehind(p)
  /\ Goes(p, "fail")
  /\ UNCHANGED <<linked, txs, applied, sent, local, reversals, crashes, unrecorded>>

LandLate(k) ==
  /\ k \in late
  /\ late' = late \ {k}
  /\ applied' = applied \cup {k}
  /\ UNCHANGED <<linked, txs, work, sent, local, reversals, crashes, unrecorded>>

-----------------------------------------------------------------------------
(***************************************************************************)
(* What comes of it.                                                       *)
(***************************************************************************)

\* Mutant: the confirmation is written after the calls that are caught.
ConfirmUncaught(p) ==
  LET k == work[p].key IN
  /\ At(p, "confirm")
  /\ \/ /\ txs' = [txs EXCEPT ![k] = [status |-> "CONFIRMED", external |-> TRUE]]
        /\ IF k[1] = "convert" THEN Goes(p, "debit") ELSE Ends(p)
     \/ Ends(p) /\ UNCHANGED txs
  /\ UNCHANGED <<linked, provider, local, reversals, crashes, unrecorded>>

\* updateTxSuccess, and the update of the account; a conversion goes on with the
\* member's own points.  An error of either is caught like one of the call, and
\* leaves the row confirmed or as it was.
Confirm(p) ==
  LET k == work[p].key
      confirmed == [txs EXCEPT ![k] = [status |-> "CONFIRMED", external |-> TRUE]] IN
  /\ At(p, "confirm")
  /\ \/ txs' = confirmed /\ IF k[1] = "convert" THEN Goes(p, "debit") ELSE Ends(p)
     \/ txs' \in {txs, confirmed} /\ Goes(p, "fail")
  /\ UNCHANGED <<linked, provider, local, reversals, crashes, unrecorded>>

Debit(p) ==
  /\ At(p, "debit")
  /\ local' = [local EXCEPT !.debits = @ \cup {work[p].key}]
  /\ Goes(p, "credit")
  /\ UNCHANGED <<linked, txs, provider, reversals, crashes, unrecorded>>

Credit(p) ==
  /\ At(p, "credit")
  /\ local' = [local EXCEPT !.credits = @ \cup {work[p].key}]
  /\ Ends(p)
  /\ UNCHANGED <<linked, txs, provider, reversals, crashes, unrecorded>>

\* Mutant: the conversion goes on when the debit fails.
AfterLocalErrorNext(p) == IF At(p, "debit") THEN "credit" ELSE "compensate"

AfterLocalError(p) == "compensate"

\* Too few points, nothing to credit after rounding, the database, before or
\* after it has written: what was done stays.
LocalFails(p) ==
  /\ \/ At(p, "debit") /\ local' \in {local, [local EXCEPT !.debits = @ \cup {work[p].key}]}
     \/ At(p, "credit") /\ local' \in {local, [local EXCEPT !.credits = @ \cup {work[p].key}]}
  /\ Goes(p, AfterLocalError(p))
  /\ UNCHANGED <<linked, txs, provider, reversals, crashes, unrecorded>>

\* The compensation is reversed at the partner or not, and recorded so, if it
\* can be; the error it ends with is caught once more, and recorded over it.
Compensate(p) ==
  LET k == work[p].key IN
  /\ At(p, "compensate")
  /\ \/ CanReverse /\ txs' = [txs EXCEPT ![k].status = "REVERSED"]
     \/ txs' = [txs EXCEPT ![k].status = "FAILED"]
     \/ UNCHANGED txs
  /\ Goes(p, "fail")
  /\ UNCHANGED <<linked, provider, local, reversals, crashes, unrecorded>>

\* updateTxFailed: the status, and not what the partner has answered.  It is in
\* the catch, so that its own error ends the request with the row as it was.
Fail(p) ==
  /\ At(p, "fail")
  /\ \/ /\ txs' = [txs EXCEPT ![work[p].key].status = "FAILED"]
        /\ Ends(p) /\ UNCHANGED unrecorded
     \/ LosesTx(p) /\ UNCHANGED txs
  /\ UNCHANGED <<linked, provider, local, reversals, crashes>>

\* reverseCoalitionTransaction: the row is read, the partner called, and the
\* row written.
ReadReversal(p, k) ==
  /\ work[p] = Idle
  /\ CanReverse /\ reversals < MaxReversals
  /\ txs[k].external /\ txs[k].status # "REVERSED"
  /\ reversals' = reversals + 1
  /\ work' = [work EXCEPT ![p] = [stage |-> "reverse", key |-> k, attempt |-> 1, landed |-> FALSE]]
  /\ UNCHANGED <<linked, txs, provider, local, crashes, unrecorded>>

CallReversal(p) ==
  /\ At(p, "reverse")
  /\ Goes(p, "reversed") \/ Ends(p)
  /\ UNCHANGED <<linked, txs, provider, local, reversals, crashes, unrecorded>>

RecordReversal(p) ==
  /\ At(p, "reversed")
  /\ txs' \in {txs, [txs EXCEPT ![work[p].key].status = "REVERSED"]}
  /\ Ends(p)
  /\ UNCHANGED <<linked, provider, local, reversals, crashes, unrecorded>>

\* Nothing takes up what the process was doing when it starts again.
Crash ==
  /\ crashes < MaxCrashes
  /\ crashes' = crashes + 1
  /\ late' = late \cup {work[p].key : p \in {q \in Sessions : At(q, "waiting") /\ ~work[q].landed}}
  /\ work' = [p \in Sessions |-> Idle]
  /\ unrecorded' = unrecorded \cup {k \in Keys : txs[k].status = "PENDING"}
  /\ UNCHANGED <<linked, txs, applied, sent, local, reversals>>

-----------------------------------------------------------------------------

Progress(p) ==
  \/ LinkAccount(p) \/ CreateTx(p)
  \/ Call(p) \/ Blocked(p) \/ Land(p) \/ Answer(p) \/ Refuse(p) \/ Lose(p) \/ TimeOut(p)
  \/ Confirm(p) \/ Debit(p) \/ Credit(p) \/ LocalFails(p) \/ Compensate(p) \/ Fail(p)
  \/ CallReversal(p) \/ RecordReversal(p)

Next ==
  \/ \E p \in Sessions :
       \/ Progress(p)
       \/ \E k \in Keys : Check(p, k) \/ ReadReversal(p, k)
  \/ \E k \in Keys : LandLate(k)
  \/ Unlink \/ Crash

\* The process goes on with every request, and a call has a timeout.
Spec == Init /\ [][Next]_vars /\ \A p \in Sessions : WF_vars(Progress(p))

-----------------------------------------------------------------------------
(***************************************************************************)
(* Properties.                                                             *)
(***************************************************************************)

(* The partner is called for one request only, three times at most: however  *)
(* often and however close together a reference is sent, after its call has  *)
(* failed and after the process has died in the middle of it.                *)
SentByOneRequest == \A k \in Keys : sent[k] <= Attempts

(* The member's own points move after the partner's: a debit only for a      *)
(* conversion the partner has executed, a credit only for one that was       *)
(* debited; and nothing is CONFIRMED that the partner has not executed.      *)
LocalFollows ==
  \A k \in Keys :
    /\ k \in local.credits => k \in local.debits
    /\ k \in local.debits \/ txs[k].external => k \in applied

(* No transaction stays PENDING, whatever becomes of the calls and though    *)
(* the confirmation cannot be written, unless the process died with it, or   *)
(* the write that would have ended it, or the answer to its creation, was    *)
(* lost: nothing takes those up.                                             *)
Settles ==
  \A k \in Keys :
    txs[k].status = "PENDING" ~> (txs[k].status # "PENDING" \/ k \in unrecorded)
=============================================================================
