-------------------------------- MODULE Banks --------------------------------
(***************************************************************************)
(* The bank of a point type, its cycles and the timer that closes them     *)
(* (apps/api/src/lib/wallets.ts, lib/bank-cycle-scheduler.ts and           *)
(* routes/credits.ts).                                                     *)
(*                                                                         *)
(* Every posting and every change of a cycle locks the bank's row first,   *)
(* closes a cycle whose time is over, and commits: it is one action, an    *)
(* operator from the bank before to the bank after it.  The timer belongs  *)
(* to the API's process and is armed again whenever a cycle changes.       *)
(***************************************************************************)
EXTENDS Integers, FiniteSets, FiniteSetsExt, Functions, Sequences

CONSTANTS
  Sessions,             \* HTTP requests being served at a time
  Rosters,              \* which operations each session serves, one for a behaviour
  Requests, Type, Size, \* what is posted: its key, its type and its points
  Windows,              \* <<startsAt, endsAt>> of the cycles that are asked for
  Horizon,              \* bound: the last moment
  MaxCycles,            \* bound: the cycles opened
  MaxFaults             \* bound: restarts of the process and failed closings

BankOperations == {"ISSUANCE", "AUTO_ISSUANCE", "RETURN", "open", "patch", "clear"}

ASSUME BanksAssumption ==
  /\ IsFiniteSet(Requests)
  /\ Type \in [Requests -> {"ISSUANCE", "AUTO_ISSUANCE", "RETURN"}]
  /\ Size \in [Requests -> Nat \ {0}]
  /\ Windows \subseteq Nat \X Nat
  /\ Horizon \in Nat /\ MaxCycles \in Nat /\ MaxFaults \in Nat

VARIABLES
  routes,     \* the operations each session serves
  clock,      \* the time
  bank,       \* PointBank.balance, its cycles in the order they were opened, and
              \* the PointBankTransactions, by idempotency key
  timer,      \* the scheduler: armed, the refresh in progress, one overtaken
  faults      \* the faults so far

bankVars == <<routes, clock, bank, timer, faults>>

-----------------------------------------------------------------------------
(***************************************************************************)
(* The bank.                                                               *)
(***************************************************************************)

Cycle == [starts : Nat, ends : Nat, clears : BOOLEAN, status : {"OPEN", "CLEARED"},
          opening : Nat, allocated : Nat, closing : Nat]

ReturnTypes == {"RETURN", "PROJECT_RETURN"}
Types == {"ISSUANCE", "AUTO_ISSUANCE", "PROJECT_FUNDING", "GIVE_ALLOCATION",
          "CYCLE_CLEAR"} \cup ReturnTypes

Entry == [type : Types, amount : Int, cycle : Nat]

EmptyBank == [balance |-> 0, cycles |-> << >>, entries |-> << >>]

Posted(b, k) == k \in DOMAIN b.entries

\* appendBankTransaction, with the new balance.  Cycle 0 is none.
Post(b, k, type, amount, c) ==
  [b EXCEPT !.balance = @ + amount,
            !.entries = [j \in DOMAIN b.entries \cup {k} |->
              IF j = k THEN [type |-> type, amount |-> amount, cycle |-> c] ELSE b.entries[j]]]

CyclesWhere(b, P(_)) == {i \in DOMAIN b.cycles : P(b.cycles[i])}

\* Mutant: a cycle is not over yet at the moment it ends.
OverLater(c) == c.status = "OPEN" /\ c.clears /\ c.ends < clock

\* The cycle has to be closed: its time is over and it clears the bank.
Over(c) == c.status = "OPEN" /\ c.clears /\ c.ends <= clock

OpenCycles(b) == CyclesWhere(b, LAMBDA c : c.status = "OPEN")

First(S) == IF S = {} THEN 0 ELSE Min(S)

ActiveCycle(b) ==
  First(CyclesWhere(b, LAMBDA c : c.status = "OPEN" /\ c.starts <= clock /\ clock <= c.ends))

\* Funding belongs to an open cycle, also to one that starts later.
FundingCycle(b) == First(CyclesWhere(b, LAMBDA c : c.status = "OPEN" /\ c.ends > clock))

Closed(c, closing) == [c EXCEPT !.status = "CLEARED", !.closing = closing]

\* clearCycleBank: what is left is posted as cleared, once per cycle.
Emptied(b, i) ==
  IF b.balance <= 0 THEN b ELSE Post(b, <<"clear", i>>, "CYCLE_CLEAR", -b.balance, i)

\* closeExpiredBankCycle: first thing of every posting, and what the timer does.
CloseExpired(b) ==
  LET i == First(CyclesWhere(b, Over)) IN
  IF i = 0 THEN b
  ELSE [Emptied(b, i) EXCEPT !.cycles[i] = Closed(@, 0)]

\* Mutant: a debit does not close the cycle that is over.
CanDebitAnyway(b, n) == b.balance >= n

CanDebit(b, n) == CloseExpired(b).balance >= n

MoreAllocated(c, n) == [c EXCEPT !.allocated = c.allocated + n]

LessAllocated(c, n) == [c EXCEPT !.allocated = IF c.allocated >= n THEN c.allocated - n ELSE 0]

\* Mutant: a debit is not counted as allocated.
DebitedUncounted(b, k, type, n) ==
  LET e == CloseExpired(b) IN Post(e, k, type, -n, ActiveCycle(e))

\* debitBank, which the active cycle counts as allocated.
Debited(b, k, type, n) ==
  LET e == CloseExpired(b)
      c == ActiveCycle(e)
      p == Post(e, k, type, -n, c)
  IN IF c = 0 THEN p ELSE [p EXCEPT !.cycles[c] = MoreAllocated(@, n)]

\* creditBank: an issuance goes to the funding cycle; a return makes up for what
\* the active cycle has allocated, as far as it goes.
Credited(b, k, type, n) ==
  LET e == CloseExpired(b)
      c == IF type = "ISSUANCE" THEN FundingCycle(e) ELSE ActiveCycle(e)
      p == Post(e, k, type, n, c)
  IN IF type \notin ReturnTypes \/ c = 0 THEN p
     ELSE [p EXCEPT !.cycles[c] = LessAllocated(@, n)]

CanCredit(b, type) == type # "ISSUANCE" \/ FundingCycle(CloseExpired(b)) # 0

\* netBankCycleAllocated: the allocation of a cycle, from its entries.
NetAllocated(b, i) ==
  LET of == {k \in DOMAIN b.entries :
               /\ b.entries[k].cycle = i
               /\ \/ b.entries[k].amount < 0 /\ b.entries[k].type # "CYCLE_CLEAR"
                  \/ b.entries[k].amount > 0 /\ b.entries[k].type \in ReturnTypes}
      net == -SumFunctionOnSet([k \in DOMAIN b.entries |-> b.entries[k].amount], of)
  IN IF net < 0 THEN 0 ELSE net

-----------------------------------------------------------------------------
(***************************************************************************)
(* The scheduler.  A refresh closes the cycles that are over and arms the  *)
(* timer again; one whose generation is over closes them and stops.        *)
(***************************************************************************)

Timer == [armed : BOOLEAN, refresh : {"none", "closing", "reading"}, overtaken : BOOLEAN]

Armed == [armed |-> TRUE, refresh |-> "none", overtaken |-> FALSE]

\* scheduleBankCycleExpiry: a new generation, due at once.
Rescheduled == [Armed EXCEPT !.overtaken = timer.overtaken \/ timer.refresh = "closing"]

\* The timer also fires when nothing is over, and is armed again: left out.
Fire ==
  /\ timer.armed /\ CyclesWhere(bank, Over) # {}
  /\ timer' = [timer EXCEPT !.armed = FALSE, !.refresh = "closing"]
  /\ UNCHANGED <<routes, clock, bank, faults>>

CloseCycles ==
  /\ timer.refresh = "closing"
  /\ bank' = CloseExpired(bank)
  /\ timer' = [timer EXCEPT !.refresh = "reading"]
  /\ UNCHANGED <<routes, clock, faults>>

\* Mutant: the timer is not armed again after an error.
CloseFailsForGood ==
  /\ timer.refresh = "closing" /\ faults < MaxFaults
  /\ faults' = faults + 1
  /\ timer' = [timer EXCEPT !.refresh = "none"]
  /\ UNCHANGED <<routes, clock, bank>>

\* An error is reported, and the timer armed again.
CloseFails ==
  /\ timer.refresh = "closing" /\ faults < MaxFaults
  /\ faults' = faults + 1
  /\ timer' = [timer EXCEPT !.refresh = "none", !.armed = TRUE]
  /\ UNCHANGED <<routes, clock, bank>>

\* The next end is read, and the timer armed for it.
Rearm ==
  /\ timer.refresh = "reading"
  /\ timer' = [timer EXCEPT !.refresh = "none", !.armed = TRUE]
  /\ UNCHANGED <<routes, clock, bank, faults>>

FinishOvertaken ==
  /\ timer.overtaken
  /\ bank' = CloseExpired(bank)
  /\ timer' = [timer EXCEPT !.overtaken = FALSE]
  /\ UNCHANGED <<routes, clock, faults>>

\* The process stops, and arms the timer when it starts again.
Restart ==
  /\ faults < MaxFaults
  /\ faults' = faults + 1
  /\ timer' = Armed
  /\ UNCHANGED <<routes, clock, bank>>

-----------------------------------------------------------------------------
(***************************************************************************)
(* Requests.                                                               *)
(***************************************************************************)

Offers(p, op) == op \in routes[p]

\* A key that is posted is answered from its entry.
PostRequest(p, k) ==
  /\ Offers(p, Type[k])
  /\ ~Posted(bank, k)
  /\ bank' = IF Type[k] = "AUTO_ISSUANCE"
             THEN Debited(bank, k, Type[k], Size[k])
             ELSE Credited(bank, k, Type[k], Size[k])
  /\ IF Type[k] = "AUTO_ISSUANCE" THEN CanDebit(bank, Size[k]) ELSE CanCredit(bank, Type[k])
  /\ UNCHANGED <<routes, clock, timer, faults>>

OpenCycle(p, w, clears) ==
  /\ Offers(p, "open")
  /\ w[1] < w[2] /\ w[2] > clock
  /\ LET b == CloseExpired(bank) IN
     /\ OpenCycles(b) = {}
     /\ Len(b.cycles) < MaxCycles
     /\ bank' = [b EXCEPT !.cycles = Append(@,
          [starts |-> w[1], ends |-> w[2], clears |-> clears, status |-> "OPEN",
           opening |-> b.balance, allocated |-> 0, closing |-> 0])]
  /\ timer' = Rescheduled
  /\ UNCHANGED <<routes, clock, faults>>

\* The dates that change have to lie ahead; clearing is switched on before the end.
PatchCycle(p, i, w, clears) ==
  LET c == bank.cycles[i] IN
  /\ Offers(p, "patch")
  /\ c.status = "OPEN" /\ ~Over(c)
  /\ w[1] # c.starts => w[1] > clock
  /\ w[2] # c.ends => w[2] > clock
  /\ w[1] < w[2]
  /\ clears /\ ~c.clears => w[2] > clock
  /\ bank' = [bank EXCEPT !.cycles[i] =
       [@ EXCEPT !.starts = w[1], !.ends = w[2], !.clears = clears]]
  /\ timer' = Rescheduled
  /\ UNCHANGED <<routes, clock, faults>>

\* The administrator's clear: the allocation is recomputed from the entries.
ClearCycle(p, i) ==
  LET c == bank.cycles[i] IN
  /\ Offers(p, "clear")
  /\ c.status = "OPEN"
  /\ bank' = [(IF c.clears THEN Emptied(bank, i) ELSE bank) EXCEPT !.cycles[i] =
       [Closed(@, IF c.clears THEN 0 ELSE bank.balance) EXCEPT
          !.allocated = NetAllocated(bank, i)]]
  /\ timer' = Rescheduled
  /\ UNCHANGED <<routes, clock, faults>>

Tick ==
  /\ clock < Horizon
  /\ clock' = clock + 1
  /\ UNCHANGED <<routes, bank, timer, faults>>

-----------------------------------------------------------------------------

BankTypeOK ==
  /\ routes \in Rosters
  /\ clock \in 0 .. Horizon
  /\ bank.balance \in Nat
  /\ bank.cycles \in Seq(Cycle)
  /\ \A k \in DOMAIN bank.entries : bank.entries[k] \in Entry
  /\ timer \in Timer
  /\ faults \in 0 .. MaxFaults

BankInit ==
  /\ routes \in Rosters
  /\ clock = 0
  /\ bank = EmptyBank
  /\ timer = Armed
  /\ faults = 0

SchedulerStep == Fire \/ CloseCycles \/ CloseFails \/ Rearm \/ FinishOvertaken \/ Restart

BankRequest(p) ==
  \/ \E k \in Requests : PostRequest(p, k)
  \/ \E w \in Windows, clears \in BOOLEAN :
       \/ OpenCycle(p, w, clears)
       \/ \E i \in DOMAIN bank.cycles : PatchCycle(p, i, w, clears)
  \/ \E i \in DOMAIN bank.cycles : ClearCycle(p, i)

BankStep == SchedulerStep \/ Tick \/ \E p \in Sessions : BankRequest(p)

\* An armed timer fires, and a refresh goes on.
SchedulerFairness ==
  WF_bankVars(Fire) /\ WF_bankVars(CloseCycles \/ CloseFails) /\ WF_bankVars(Rearm)

-----------------------------------------------------------------------------
(***************************************************************************)
(* Properties.                                                             *)
(***************************************************************************)

(* The allocation a cycle counts never falls short of the one its entries    *)
(* show.  It may be more: a return beyond the count is cut off at zero, and  *)
(* the automatic closing, unlike the administrator's, does not recompute it. *)
AllocationCovered ==
  \A i \in DOMAIN bank.cycles : bank.cycles[i].allocated >= NetAllocated(bank, i)

Ended(b, i) == b.cycles[i].ends <= clock /\ b.cycles[i].clears

(* No point is debited from the funds of a cycle that is over: the debit     *)
(* closes that cycle first and finds an empty bank, also at the very moment  *)
(* the cycle ends and while the timer has not closed it.                     *)
NothingFromOver ==
  [][\A k \in DOMAIN bank'.entries :
       ~Posted(bank, k) /\ bank'.entries[k].amount < 0
         => \A i \in DOMAIN bank.cycles : Ended(bank, i) => bank'.cycles[i].status # "OPEN"]_bankVars

(* A cycle that clears the bank is closed once its time is over, although    *)
(* the timer is armed again while a closing is under way, although a closing *)
(* fails and although the process restarts.                                  *)
OverCyclesClose ==
  \A i \in 1 .. MaxCycles :
    LET Waits == i \in DOMAIN bank.cycles /\ bank.cycles[i].status = "OPEN" /\ Ended(bank, i) IN
    Waits ~> ~Waits
=============================================================================
