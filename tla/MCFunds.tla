------------------------------- MODULE MCFunds -------------------------------
(* Instances of Funds for TLC. *)
EXTENDS Funds, TLC

CONSTANTS finance, manager, fund, auto, back, small, large

MCType == fund :> "ISSUANCE" @@ auto :> "AUTO_ISSUANCE" @@ back :> "RETURN"
MCSize == fund :> 3 @@ auto :> 1 @@ back :> 1

MCTo == small :> "an" @@ large :> "an"
MCPoints == small :> 1 @@ large :> 2

\* Finance beside the manager; two windows of the manager; finance alone; a
\* member who gives on two devices and leaves.
MCRosters ==
  {[p \in Sessions |-> IF p = finance THEN r[1] ELSE r[2]] :
     r \in {<<{"ISSUANCE", "open"}, {"plan", "activate", "issue", "close"}>>,
             <<{"ISSUANCE", "open", "issue", "close"}, {"plan", "activate", "issue", "close"}>>,
             <<{"ISSUANCE", "AUTO_ISSUANCE", "RETURN", "open", "patch", "clear"}, {}>>,
             <<{"ISSUANCE", "open", "give"}, {"give", "leave"}>>}}

MCWindows == {<<0, 1>>, <<0, 2>>, <<1, 2>>}
=============================================================================
