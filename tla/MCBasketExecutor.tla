--------------------------- MODULE MCBasketExecutor ---------------------------
(* Instances of BasketExecutor for TLC: one prediction, and two of one day. *)
EXTENDS BasketExecutor

CONSTANTS x, y
Both == {x, y}
OneDay == <<1>>
OneBasket == <<<<x>>>>
SameDay == <<1, 1>>
TwoLegs == <<<<x, y>>, <<y, x>>>>
=============================================================================
