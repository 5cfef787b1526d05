----------------------------- MODULE MCGiftCards -----------------------------
(* Instances of GiftCards for TLC. *)
EXTENDS GiftCards, TLC

CONSTANTS p1, p2, one, all, back, cancel

MCOp == one :> "redeem" @@ all :> "redeem" @@ back :> "refund" @@ cancel :> "cancel"
MCAmount == one :> 1 @@ all :> 2 @@ back :> 2 @@ cancel :> 2
=============================================================================
