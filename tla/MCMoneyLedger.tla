--------------------------- MODULE MCMoneyLedger ----------------------------
(* An instance of MoneyLedger for TLC. *)
EXTENDS MoneyLedger, TLC

CONSTANTS p1, p2, s1, s2

(* The daemon makes spend s1, a command of the owner makes s2. *)
TwoHomes == s1 :> p1 @@ s2 :> p2
=============================================================================
