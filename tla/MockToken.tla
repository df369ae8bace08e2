-------------------------------- MODULE MockToken --------------------------------
(***************************************************************************)
(* contracts/src/MockToken.sol: the ERC-20 that stands for EURe and USDC.  *)
(* A call that reverts is no step, so every requirement is a guard.  The   *)
(* supply is fixed here: mint and burn belong to the token's issuer, and   *)
(* the rails that use them say what they do.                               *)
(***************************************************************************)
EXTENDS Integers

CONSTANTS
    Holders,      \* the addresses that may hold the token
    MaxUint       \* type(uint256).max: an allowance that is never used up

VARIABLES
    balanceOf,    \* of each holder
    allowance     \* of each owner, to each spender

TokenTypeOK == /\ balanceOf \in [Holders -> Nat]
               /\ allowance \in [Holders -> [Holders -> 0..MaxUint]]

\* First taken, then given, so that a payment to oneself changes nothing.
Moved(from, to, amount) ==
    [[balanceOf EXCEPT ![from] = @ - amount] EXCEPT ![to] = @ + amount]

Transfer(from, to, amount) ==
    /\ balanceOf[from] >= amount
    /\ balanceOf' = Moved(from, to, amount)
    /\ UNCHANGED allowance

TransferFrom(spender, from, to, amount) ==
    /\ allowance[from][spender] >= amount /\ balanceOf[from] >= amount
    /\ balanceOf' = Moved(from, to, amount)
    /\ allowance' = IF allowance[from][spender] = MaxUint THEN allowance
                    ELSE [allowance EXCEPT ![from][spender] = @ - amount]

Approve(holder, spender, amount) ==
    /\ allowance' = [allowance EXCEPT ![holder][spender] = amount]
    /\ UNCHANGED balanceOf
=============================================================================
