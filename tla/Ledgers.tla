--------------------------------- MODULE Ledgers ---------------------------------
(* The two tokens the contracts and the rails move: USDC and EURe.            *)
EXTENDS Integers

CONSTANTS Holders, MaxUint      \* see MockToken

VARIABLES usdc, usdcAllowance, eure, eureAllowance

ledgers == <<eure, eureAllowance, usdc, usdcAllowance>>

Usdc == INSTANCE MockToken WITH balanceOf <- usdc, allowance <- usdcAllowance
Eure == INSTANCE MockToken WITH balanceOf <- eure, allowance <- eureAllowance
=============================================================================
