---------------------------- MODULE MCCreditLedger ----------------------------
(* Instances of CreditLedger for TLC. *)
EXTENDS CreditLedger, TLC

CONSTANTS a1, a2, g1, g2

\* Two steps of different price; a grant covers one of them, or both.
Prices == a1 :> 1 @@ a2 :> 2
Grants == {2, -1}
===============================================================================
