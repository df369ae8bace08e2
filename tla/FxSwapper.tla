-------------------------------- MODULE FxSwapper --------------------------------
(***************************************************************************)
(* contracts/src/FxSwapper.sol: swaps between EURe and USDC out of its own *)
(* inventory at a rate its owner sets.  Actions are the contract's         *)
(* functions, each atomic, a revert being no step; Governance composes     *)
(* them with the contracts around.                                         *)
(***************************************************************************)
EXTENDS Ledgers

CONSTANTS
    SwapperAddr,     \* this contract
    Scale            \* units of tokenIn that the rate is for (1e18 in the code)

VARIABLES
    swapperOwner, guardian, paused, isTrader,
    rate                                           \* units of USDC for Scale of EURe

swapperVars == <<swapperOwner, guardian, paused, isTrader, rate>>

SwapperTypeOK ==
    /\ Eure!TokenTypeOK
    /\ swapperOwner \in Holders /\ guardian \in Holders
    /\ paused \in BOOLEAN /\ isTrader \subseteq Holders
    /\ rate \in Nat \ {0}

\* The constructor and the deployment script's calls after it.
SwapperInit(owner, halts, trader, seed) ==
    /\ swapperOwner = owner /\ guardian = halts
    /\ paused = FALSE /\ isTrader = {trader}
    /\ rate = seed

QuoteOut(amountIn) == (amountIn * rate) \div Scale

QuoteReverseOut(amountIn) == (amountIn * Scale) \div rate

SwapExactIn(who, amountIn, minOut, to) ==
    /\ who \in isTrader /\ ~paused
    /\ QuoteOut(amountIn) >= minOut
    /\ Eure!TransferFrom(SwapperAddr, who, SwapperAddr, amountIn)
    /\ Usdc!Transfer(SwapperAddr, to, QuoteOut(amountIn))
    /\ UNCHANGED swapperVars

SwapReverseExactIn(who, amountIn, minOut, to) ==
    /\ ~paused
    /\ who \in isTrader /\ QuoteReverseOut(amountIn) >= minOut
    /\ Usdc!TransferFrom(SwapperAddr, who, SwapperAddr, amountIn)
    /\ Eure!Transfer(SwapperAddr, to, QuoteReverseOut(amountIn))
    /\ UNCHANGED swapperVars

\* The emergency stop: at once, by the guardian or the owner.
Pause(who) ==
    /\ who \in {guardian, swapperOwner}
    /\ paused' = TRUE
    /\ UNCHANGED <<ledgers, swapperOwner, guardian, isTrader, rate>>

\* What only the owner may do.  Mutant: the guardian, too, restarts the swapper.
SetPausedByGuardian(who, value) ==
    /\ who \in {guardian, swapperOwner} /\ paused' = value
    /\ UNCHANGED <<ledgers, swapperOwner, guardian, isTrader, rate>>

SetPaused(who, value) ==
    /\ who = swapperOwner /\ paused' = value
    /\ UNCHANGED <<ledgers, swapperOwner, guardian, isTrader, rate>>

SetGuardian(who, account) ==
    /\ who = swapperOwner /\ guardian' = account
    /\ UNCHANGED <<ledgers, swapperOwner, paused, isTrader, rate>>

SetRate(who, value) ==
    /\ who = swapperOwner /\ value > 0 /\ rate' = value
    /\ UNCHANGED <<ledgers, swapperOwner, guardian, paused, isTrader>>

SetTrader(who, account, enabled) ==
    /\ who = swapperOwner
    /\ isTrader' = IF enabled THEN isTrader \cup {account} ELSE isTrader \ {account}
    /\ UNCHANGED <<ledgers, swapperOwner, guardian, paused, rate>>

TransferSwapperOwnership(who, account) ==
    /\ who = swapperOwner /\ swapperOwner' = account
    /\ UNCHANGED <<ledgers, guardian, paused, isTrader, rate>>

WithdrawUsdc(who, to, amount) ==
    /\ who = swapperOwner
    /\ Usdc!Transfer(SwapperAddr, to, amount)
    /\ UNCHANGED <<eure, eureAllowance, swapperVars>>

WithdrawEure(who, to, amount) ==
    /\ who = swapperOwner
    /\ Eure!Transfer(SwapperAddr, to, amount)
    /\ UNCHANGED <<usdc, usdcAllowance, swapperVars>>
=============================================================================
