------------------------------- MODULE CashRail -------------------------------
(***************************************************************************)
(* The money of the cash rail on its way to the anchor: each transfer's    *)
(* EURe become USDC and are locked or burned (CashLegs), and the anchor is *)
(* asked for its cash and paid out of the Stellar account (Treasury).      *)
(*                                                                         *)
(* The account is paid into on its own (a mint or a purchase is no later   *)
(* leg's business which withdrawal it is for), so the two halves meet in   *)
(* no variable, and a behaviour is about one of them.                      *)
(***************************************************************************)
EXTENDS CashLegs, Treasury

VARIABLE half

railVars == <<vars, treasuryVars, half>>

RailTypeOK == half \in {"legs", "treasury"} /\ TypeOK /\ TreasuryTypeOK

RailInit ==
    /\ half \in {"legs", "treasury"}
    /\ Init /\ (half = "treasury" => world = CHOOSE w \in Worlds : TRUE)
    /\ TreasuryInit /\ (half = "legs" => ~refreshing /\ sep12)

RailNext ==
    /\ UNCHANGED half
    /\ \/ half = "legs" /\ Next /\ UNCHANGED treasuryVars
       \/ half = "treasury" /\ TreasuryNext /\ UNCHANGED vars

RailSpec == RailInit /\ [][RailNext]_railVars
=============================================================================
