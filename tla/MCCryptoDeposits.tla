--------------------------- MODULE MCCryptoDeposits ---------------------------
(***************************************************************************)
(* Instances of CryptoDeposits for TLC.                                    *)
(***************************************************************************)
EXTENDS CryptoDeposits, TLC

CONSTANTS a, b
\* a goes to the Safe in EURe, b to the page in USDC.
TwoTokens == (a :> "EURE") @@ (b :> "USDC")

\* With a forwarder or without; and one whose owner changes it at any time.
ThreeWorlds == [forwarder : BOOLEAN, meets : {FALSE}] \cup [forwarder : {TRUE}, meets : {TRUE}]
=============================================================================
