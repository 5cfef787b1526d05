---------------------------- MODULE MCSettlements ----------------------------
(* Instances of Settlements for TLC. *)
EXTENDS Settlements, TLC

CONSTANTS d1, d2, clerk, a, b, c, v, l, r, g

\* Both of the first step's assignees, then one of the two of the second.
TwoSteps == <<[assignees |-> {a, b}, mode |-> "ALL", count |-> 1],
              [assignees |-> {b, c}, mode |-> "ANY", count |-> 1]>>

\* Two sessions of approvers that also cancel the voucher, and one of a clerk.
MCRoutes == [p \in Sessions |->
  IF p = clerk
  THEN ({"exchange", "cancel", "reject"} \X {v})
       \cup ({"approve", "complete", "cancel", "reject"} \X {l})
       \cup ({"redeem", "REJECT", "fulfil", "cancelRedemption"} \X {r})
       \cup ({"redeem", "fulfil", "cancelRedemption"} \X {g})
  ELSE ({"APPROVE", "REJECT", "cancel"} \X {v}) \cup {<<"APPROVE", r>>}]

ClerksRoutes == [p \in Sessions |-> {"complete", "cancel"} \X Legacy]
MembersRoutes == [p \in Sessions |-> {"exchange"} \X Vouchers]

Symmetric == Permutations({d1, d2})
=============================================================================
