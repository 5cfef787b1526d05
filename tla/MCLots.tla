------------------------------- MODULE MCLots -------------------------------
(* Instances of Lots for TLC. *)
EXTENDS Lots, TLC

CONSTANTS job, admin, user, g1, g2, s1, r1

MCAmount == g1 :> 2 @@ g2 :> 1
MCExpiry == g1 :> 1 @@ g2 :> 2
MCCost == s1 :> 1

\* An administrator's forced runs beside the member's debits and refunds, and
\* beside a second reset; a departure scheduled and taken back; one at once.
MCRosters ==
  {[p \in Sessions |-> IF p = admin THEN r[1] ELSE r[2]] :
     r \in {<<{"force", "reset"}, {"earn", "spend", "refund"}>>,
             <<{"force", "reset"}, {"earn", "reset"}>>,
             <<{"schedule"}, {"earn", "spend", "cancel"}>>,
             <<{"expire", "clear", "rehire"}, {"earn", "spend"}>>}}
=============================================================================
