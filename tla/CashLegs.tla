------------------------------- MODULE CashLegs -------------------------------
(***************************************************************************)
(* What happens to a cash transfer's USDC: filled (Liquidity), then locked *)
(* in the escrow or burned through CCTP (bridge/cctp.ts), then promised to *)
(* the anchor (executeCashTransfer in orchestrator.ts).                    *)
(*                                                                         *)
(* Several transfers are at their legs at once.  What becomes of one that  *)
(* fails, of crashes, and of a receipt that is lost is the subject of      *)
(* TransferOrchestrator; here it just ends, "failed", or "review" where    *)
(* the code parks it for a person.                                         *)
(***************************************************************************)
EXTENDS Liquidity

CONSTANT BurnerFunds    \* USDC the burner's account holds for all transfers

VARIABLES
    bridgeAllowance,    \* chain: USDC the escrow may take from the orchestrator
    locked,             \* chain: what the escrow holds for each transfer
    burnerAllowance,    \* chain: USDC the messenger may take from the burner
    burner,             \* chain: the burner's USDC
    burned, minted,     \* chain: of each transfer, on either side
    onRecord,           \* store: transfers whose txs hold "cctp.burn"
    asked               \* the USDC the anchor was asked to withdraw

bridging == <<bridgeAllowance, locked, burnerAllowance, burner, burned, minted, onRecord, asked>>
vars == <<world, market, pc, fills, bridging>>

BridgePc == {"bridge", "lock", "burner.approve", "burner.visible", "burn",
             "burn.receipt", "iris", "mint", "payout"}

TypeOK ==
    /\ LiquidityTypeOK
    /\ pc \in [Transfers -> FillPc \cup BridgePc \cup Ended]
    /\ {bridgeAllowance, burnerAllowance, burner} \subseteq Nat
    /\ locked \in [Transfers -> Nat] /\ burned \in [Transfers -> Nat]
    /\ minted \subseteq Transfers /\ onRecord \subseteq Transfers
    /\ asked \in [Transfers -> Nat]

Init ==
    /\ LiquidityInit
    /\ bridgeAllowance = 0 /\ burnerAllowance = 0 /\ burner = BurnerFunds
    /\ locked = [t \in Transfers |-> 0] /\ burned = [t \in Transfers |-> 0]
    /\ minted = {} /\ onRecord = {}
    /\ asked = [t \in Transfers |-> 0]

-----------------------------------------------------------------------------
(* The escrow, where CCTP is only planned.                                 *)

ApproveBridge(t) ==
    /\ pc[t] = "bridge" /\ ~world.live
    /\ bridgeAllowance' = amountOut[t]
    /\ Await(t, "lock")
    /\ UNCHANGED <<world, market, fills, locked, burnerAllowance, burner, burned, minted,
                   onRecord, asked>>

LockForPayout(t) ==
    /\ pc[t] = "lock"
    /\ amountOut[t] <= bridgeAllowance /\ amountOut[t] <= pool
    /\ bridgeAllowance' = bridgeAllowance - amountOut[t]
    /\ pool' = pool - amountOut[t]
    /\ locked' = [locked EXCEPT ![t] = amountOut[t]]
    /\ Await(t, "payout")
    /\ UNCHANGED <<world, market, plan, before, amountOut, usdcOut, allowance, filled,
                   burnerAllowance, burner, burned, minted, onRecord, asked>>

(* CCTP.  The burner is an account of its own, and again one for all.      *)

\* anchorPayoutReadiness: a recipient that cannot hold USDC gets no burn.
Ready(t) ==
    /\ pc[t] = "bridge" /\ world.live
    /\ \E ready \in BOOLEAN : IF ready THEN Await(t, "burner.approve") ELSE Fail(t)
    /\ UNCHANGED <<world, market, fills, bridging>>

ApproveMessenger(t) ==
    /\ pc[t] = "burner.approve"
    /\ burnerAllowance' = amountOut[t]
    /\ Await(t, "burner.visible")
    /\ UNCHANGED <<world, market, fills, bridgeAllowance, locked, burner, burned, minted,
                   onRecord, asked>>

\* Twenty reads of the allowance, and a burn only if one of them shows it.
SeesAllowance(t) ==
    /\ pc[t] = "burner.visible"
    /\ \/ burnerAllowance >= amountOut[t] /\ Await(t, "burn")
       \/ Fail(t)
    /\ UNCHANGED <<world, market, fills, bridging>>

\* Sent, and on chain: one that lands only after the wait for its receipt is over
\* leaves the transfer where one that landed before leaves it.
Burn(t) ==
    /\ pc[t] = "burn"
    /\ amountOut[t] <= burnerAllowance /\ amountOut[t] <= burner
    /\ burnerAllowance' = burnerAllowance - amountOut[t]
    /\ burner' = burner - amountOut[t]
    /\ burned' = [burned EXCEPT ![t] = amountOut[t]]
    /\ Await(t, "burn.receipt")
    /\ UNCHANGED <<world, market, fills, bridgeAllowance, locked, minted, onRecord, asked>>

BurnConfirmed(t) ==
    /\ pc[t] = "burn.receipt"
    /\ Await(t, "iris")
    /\ UNCHANGED <<world, market, fills, bridging>>

\* The wait for the burn's receipt throws: a plain error, and nothing on record.
BurnUnheard(t) ==
    /\ pc[t] = "burn.receipt"
    /\ Await(t, "unheard")
    /\ UNCHANGED <<world, market, fills, bridging>>

\* A call before the burn is on chain throws, or a transaction reverts.
BridgeThrows(t) ==
    /\ \/ pc[t] \in {"lock", "burner.approve", "burn"}
       \/ pc[t] = "bridge" /\ ~world.live
    /\ Fail(t)
    /\ UNCHANGED <<world, market, fills, bridging>>

Attested(t) ==
    /\ pc[t] = "iris"
    /\ Await(t, "mint")
    /\ UNCHANGED <<world, market, fills, bridging>>

Recorded(t) == onRecord' = onRecord \cup {t}

\* The mint is final, and the plan is recorded with its burn.
Mint(t) ==
    /\ pc[t] = "mint"
    /\ minted' = minted \cup {t}
    /\ Recorded(t)
    /\ Await(t, "payout")
    /\ UNCHANGED <<world, market, fills, bridgeAllowance, locked, burnerAllowance, burner,
                   burned, asked>>

\* Mutant: an error without the plan.
BridgeErrorWithoutPlan(t) ==
    /\ pc[t] \in {"iris", "mint"}
    /\ minted' \in {minted} \cup (IF pc[t] = "mint" THEN {minted \cup {t}} ELSE {})
    /\ Fail(t)
    /\ UNCHANGED <<world, market, fills, bridgeAllowance, locked, burnerAllowance, burner,
                   burned, onRecord, asked>>

\* CctpBridgeError: no attestation in time, or the mint fails, or seems to.
BridgeError(t) ==
    /\ pc[t] \in {"iris", "mint"}
    /\ minted' \in {minted} \cup (IF pc[t] = "mint" THEN {minted \cup {t}} ELSE {})
    /\ Recorded(t)
    /\ Await(t, "review")
    /\ UNCHANGED <<world, market, fills, bridgeAllowance, locked, burnerAllowance, burner,
                   burned, asked>>

\* BRIDGED; createCashPickupViaAnchor with transfer.usdcOut, or the anchor refuses.
AskAnchor(t) ==
    /\ pc[t] = "payout"
    /\ \/ asked' = [asked EXCEPT ![t] = usdcOut[t]] /\ Await(t, "done")
       \/ Fail(t) /\ UNCHANGED asked
    /\ UNCHANGED <<world, market, fills, bridgeAllowance, locked, burnerAllowance, burner,
                   burned, minted, onRecord>>

Next ==
    \/ FillNext /\ UNCHANGED bridging
    \/ \E t \in Transfers :
          \/ ApproveBridge(t) \/ LockForPayout(t) \/ Ready(t) \/ ApproveMessenger(t)
          \/ SeesAllowance(t) \/ Burn(t) \/ BurnConfirmed(t) \/ BurnUnheard(t)
          \/ BridgeThrows(t) \/ Attested(t) \/ Mint(t) \/ BridgeError(t) \/ AskAnchor(t)

Spec == Init /\ [][Next]_vars

-----------------------------------------------------------------------------
(* Correctness.                                                            *)

\* SWAPPED was stored, and usdcOut with it.
HasSwapped(t) == usdcOut[t] > 0

(***************************************************************************)
(* A transfer that is recorded as swapped was filled, at no less than the  *)
(* floor of its plan; and where the venue is a pool or an aggregator, at   *)
(* no less than the independent mid allowed, whoever moved the price in    *)
(* between.  Fills through LI.FI, whose receipts nobody reads, only while  *)
(* no other transfer's USDC can stand in for them.                         *)
(***************************************************************************)
FloorHolds ==
    \A t \in Transfers : HasSwapped(t) /\ (plan[t].venue = "lifi" => world.alone) =>
        /\ filled[t] >= plan[t].minOut
        /\ plan[t].venue \in Checked =>
              filled[t] >= AmountIn[t] * (plan[t].mid - Deviation) - Slippage

(***************************************************************************)
(* "Measured, not assumed": what a measured fill hands to the next leg is  *)
(* what it delivered, and not another transfer's USDC, as long as no other *)
(* transfer is at its legs.                                                *)
(***************************************************************************)
SettledFromOwnFill ==
    world.alone => \A t \in Transfers :
        plan[t].venue \in Checked => amountOut[t] <= filled[t]

(***************************************************************************)
(* Whatever becomes of the attestation and the mint, a burn whose receipt  *)
(* the handler was given is on the transfer's record once the handler is   *)
(* through with it: that is what keeps the transfer from a refund and      *)
(* tells a person what to resume.  A burn on chain whose receipt the wait  *)
(* did not return is the exception ("unheard"; cctp.ts:212 is outside the  *)
(* try): it is on no record, and its transfer fails as if nothing burned.  *)
(***************************************************************************)
BurnIsOnRecord ==
    \A t \in Transfers :
        burned[t] > 0 /\ pc[t] \in (Ended \ {"unheard"}) \cup {"payout"} => t \in onRecord

(***************************************************************************)
(* The anchor is asked for what the bridge leg holds: "usdcOut is what the *)
(* bridge leg actually holds".                                             *)
(***************************************************************************)
AskedIsHeld ==
    \A t \in Transfers : asked[t] <= IF world.live THEN burned[t] ELSE locked[t]
=============================================================================
