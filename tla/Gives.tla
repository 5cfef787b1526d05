-------------------------------- MODULE Gives --------------------------------
(***************************************************************************)
(* Gives out of an allowance (apps/api/src/lib/wallets.ts): a member gives *)
(* points to colleagues out of the allowance of the cycle, which the bank  *)
(* pays for, up to a limit per recipient, and loses it when he leaves.     *)
(*                                                                         *)
(* A give is one READ COMMITTED transaction: it reads the giver and his    *)
(* allowance, unlocked, and then takes the allowance's row and the bank's, *)
(* in this order, and holds both until it commits.                         *)
(***************************************************************************)
EXTENDS Banks

CONSTANTS
  Gives, To, Points,    \* the gives that are asked for: recipient and points
  AllowanceAmount,      \* what a cycle of the allowance adds
  CycleLength,          \* and how long it lasts
  PairLimit,            \* the most one recipient gets within PairPeriod
  PairPeriod

GiveOperations == {"give", "leave"}

ASSUME GivesAssumption ==
  /\ IsFiniteSet(Gives)
  /\ Points \in [Gives -> Nat \ {0}]
  /\ AllowanceAmount \in Nat /\ CycleLength \in Nat \ {0}
  /\ PairLimit \in Nat /\ PairPeriod \in Nat

VARIABLES
  allowances,  \* the giver's PointAllowances, in the order they were created
  given,       \* the gives that are posted, by key: their row and their time
  giver,       \* Member.status of the giver
  giving       \* the give each session has in progress

giveVars == <<allowances, given, giver, giving>>

Allowance == [starts : Nat, ends : Nat, allocated : Nat, remaining : Int]

NoGive == [stage |-> "none"]

\* row is the allowance that was read, 0 one that this give creates.
Give == {NoGive} \cup [stage : {"found", "posting"}, key : Gives, row : Nat, own : Allowance]

GiveTypeOK ==
  /\ allowances \in Seq(Allowance)
  /\ DOMAIN given \subseteq Gives
  /\ \A k \in DOMAIN given : given[k] \in [row : DOMAIN allowances, at : 0 .. Horizon]
  /\ giver \in {"ACTIVE", "INACTIVE"}
  /\ giving \in [Sessions -> Give]

GiveInit ==
  /\ allowances = << >>
  /\ given = << >>
  /\ giver = "ACTIVE"
  /\ giving = [p \in Sessions |-> NoGive]

-----------------------------------------------------------------------------

\* The rows that no other of them beats: the latest start, or the latest end.
Latest(S, Date(_)) == {i \in S : \A j \in S : Date(allowances[j]) <= Date(allowances[i])}

Current == Latest({i \in DOMAIN allowances : allowances[i].starts <= clock /\ clock < allowances[i].ends},
                  LAMBDA a : a.starts)

\* What the last cycle left is carried over, as it was when it was read.
CarriedOver ==
  LET last == Latest(DOMAIN allowances, LAMBDA a : a.ends) IN
  IF last = {} THEN {0} ELSE {allowances[i].remaining : i \in last}

NewAllowance(carry) ==
  [starts |-> clock, ends |-> clock + CycleLength,
   allocated |-> AllowanceAmount + carry, remaining |-> AllowanceAmount + carry]

\* activeAllowance: without a current one, the give creates its own.
FindAllowance(p, k) ==
  /\ Offers(p, "give")
  /\ giving[p] = NoGive
  /\ k \notin DOMAIN given
  /\ giver = "ACTIVE"
  /\ \/ \E i \in Current :
          giving' = [giving EXCEPT ![p] =
            [stage |-> "found", key |-> k, row |-> i, own |-> allowances[i]]]
     \/ /\ Current = {}
        /\ \E c \in CarriedOver :
             giving' = [giving EXCEPT ![p] =
               [stage |-> "found", key |-> k, row |-> 0, own |-> NewAllowance(c)]]
  /\ UNCHANGED <<bankVars, allowances, given, giver>>

Posting == {p \in Sessions : giving[p].stage = "posting"}

\* Mutant: a give locks its allowance, and not the bank.
BankLockedNot == FALSE

\* A give in progress holds the bank's row.
BankLocked == Posting # {}

RowLocked(i) == \E p \in Posting : giving[p].row = i

\* Mutant: what remains is what the unlocked read found.
EnoughAsRead(g) == g.own.remaining >= Points[g.key]

EnoughLeft(g) ==
  (IF g.row = 0 THEN g.own ELSE allowances[g.row]).remaining >= Points[g.key]

\* The points that r was given since then; a row of an allowance tells how many.
PairTotal(r, since) ==
  SumFunctionOnSet(Points, {k \in DOMAIN given : To[k] = r /\ given[k].at >= since})

GiveKey(k) == <<"give", k>>

\* The allowance and the bank are debited, and the pair's total is read.
PostGive(p) ==
  LET g == giving[p] IN
  /\ g.stage = "found"
  /\ ~RowLocked(g.row) \/ g.row = 0
  /\ EnoughLeft(g)
  /\ ~BankLocked
  /\ ~Posted(bank, GiveKey(g.key))
  /\ CanDebit(bank, Points[g.key])
  /\ PairTotal(To[g.key], clock - PairPeriod) + Points[g.key] <= PairLimit
  /\ bank' = Debited(bank, GiveKey(g.key), "GIVE_ALLOCATION", Points[g.key])
  /\ giving' = [giving EXCEPT ![p].stage = "posting"]
  /\ UNCHANGED <<routes, clock, timer, faults, allowances, given, giver>>

\* The commit, which others see and which unlocks the rows.
CommitGive(p) ==
  LET g == giving[p]
      rows == IF g.row = 0 THEN Append(allowances, g.own) ELSE allowances
      i == IF g.row = 0 THEN Len(rows) ELSE g.row
  IN
  /\ g.stage = "posting"
  /\ allowances' = [rows EXCEPT ![i].remaining = @ - Points[g.key]]
  /\ given' = [k \in DOMAIN given \cup {g.key} |->
       IF k = g.key THEN [row |-> i, at |-> clock] ELSE given[k]]
  /\ giving' = [giving EXCEPT ![p] = NoGive]
  /\ UNCHANGED <<bankVars, giver>>

\* Too little is left, in the allowance, in the bank or for the recipient, or
\* the same give was posted meanwhile: everything is rolled back.
RefuseGive(p) ==
  LET g == giving[p] IN
  /\ g.stage = "found"
  /\ ~BankLocked /\ (g.row # 0 => ~RowLocked(g.row))
  /\ \/ ~EnoughLeft(g)
     \/ Posted(bank, GiveKey(g.key))
     \/ ~CanDebit(bank, Points[g.key])
     \/ PairTotal(To[g.key], clock - PairPeriod) + Points[g.key] > PairLimit
  /\ giving' = [giving EXCEPT ![p] = NoGive]
  /\ UNCHANGED <<bankVars, allowances, given, giver>>

\* clearMember: the allowances that are not over are emptied.
Leave(p) ==
  /\ Offers(p, "leave")
  /\ giver = "ACTIVE"
  /\ \A i \in DOMAIN allowances : allowances[i].ends > clock => ~RowLocked(i)
  /\ allowances' = [i \in DOMAIN allowances |->
       IF allowances[i].ends > clock THEN [allowances[i] EXCEPT !.remaining = 0]
       ELSE allowances[i]]
  /\ giver' = "INACTIVE"
  /\ UNCHANGED <<bankVars, given, giving>>

GiveStep ==
  \E p \in Sessions :
    \/ \E k \in Gives : FindAllowance(p, k)
    \/ PostGive(p) \/ CommitGive(p) \/ RefuseGive(p) \/ Leave(p)

-----------------------------------------------------------------------------
(***************************************************************************)
(* Properties.                                                             *)
(***************************************************************************)

(* Within any period of the pair limit no recipient gets more than the       *)
(* limit, also from two gives at once that each create an allowance of their *)
(* own: the bank's row makes the second one wait, and read the first one's   *)
(* points.  A type without a bank has nothing that does.                     *)
PairLimitKept ==
  \A r \in {To[k] : k \in Gives}, from \in 0 .. Horizon :
    SumFunctionOnSet(Points,
      {k \in DOMAIN given : To[k] = r /\ given[k].at \in from .. from + PairPeriod})
      <= PairLimit

(* No allowance is spent beyond what was allocated, by gives that found the  *)
(* same one, beside a leaver's clearing, and whatever was carried over; and  *)
(* the bank paid for every give that was posted.                             *)
SpentWithinAllowance ==
  /\ \A i \in DOMAIN allowances :
       /\ allowances[i].remaining >= 0
       /\ SumFunctionOnSet(Points, {k \in DOMAIN given : given[k].row = i})
            + allowances[i].remaining <= allowances[i].allocated
  /\ \A k \in DOMAIN given : Posted(bank, GiveKey(k))
=============================================================================
