------------------------------- MODULE Outcomes -------------------------------
(***************************************************************************)
(* What a member is promised of a voucher or a reward redemption: points   *)
(* are held when it is opened, and it ends once, either paid or void with  *)
(* the points and the item given back.                                     *)
(***************************************************************************)
EXTENDS Naturals

CONSTANTS Vouchers, Rewards, Points, Stock, Open0

VARIABLES outcome, points, stock

Subjects == Vouchers \cup Rewards

Item(s) == IF s \in Rewards THEN 1 ELSE 0

Init ==
  /\ outcome = [s \in Subjects |-> IF s \in Open0 THEN "open" ELSE "none"]
  /\ points = Points
  /\ stock = Stock

Open(s) ==
  /\ outcome[s] = "none" /\ points > 0 /\ stock >= Item(s)
  /\ outcome' = [outcome EXCEPT ![s] = "open"]
  /\ points' = points - 1
  /\ stock' = stock - Item(s)

Pay(s) ==
  /\ outcome[s] = "open"
  /\ outcome' = [outcome EXCEPT ![s] = "paid"]
  /\ UNCHANGED <<points, stock>>

Void(s) ==
  /\ outcome[s] = "open"
  /\ outcome' = [outcome EXCEPT ![s] = "void"]
  /\ points' = points + 1
  /\ stock' = stock + Item(s)

Next == \E s \in Subjects : Open(s) \/ Pay(s) \/ Void(s)

Spec == Init /\ [][Next]_<<outcome, points, stock>>
=============================================================================
