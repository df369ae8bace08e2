------------------------------ MODULE MCCashRail ------------------------------
(***************************************************************************)
(* Instances of CashRail for TLC.                                          *)
(***************************************************************************)
EXTENDS CashRail, MCCashLegs

CONSTANTS w1, w2, u1, u2

\* Two senders of two units each, which the anchor may or may not accept.
OneEach == (w1 :> u1) @@ (w2 :> u2)
Twos == (w1 :> 2) @@ (w2 :> 2)
TwoOrThree == {[min |-> 1, max |-> 5], [min |-> 3, max |-> 5]}
=============================================================================
