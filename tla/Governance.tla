-------------------------------- MODULE Governance --------------------------------
(***************************************************************************)
(* The contracts as the deployment script leaves them: BridgeEscrow and    *)
(* FxSwapper owned by the AdminTimelock, over the USDC and EURe ledgers.   *)
(* The people are the timelock's owners; one of them is the relayer key    *)
(* with the orchestrator and trader roles, one the guardian.  A            *)
(* transaction of any of them is one step.                                 *)
(*                                                                         *)
(* An executed operation calls its target with the timelock as sender.  If *)
(* the target reverts, so does execute(), and the operation stays open.    *)
(***************************************************************************)
EXTENDS BridgeEscrow, FxSwapper, Sums

CONSTANTS
    Accounts, Ids, Managed, Calls,      \* see AdminTimelock
    InitialOwners, InitialThreshold, InitialDelay, MaxWord, MaxTime,
    TimelockAddr,
    Relayer, Guardian,      \* of the accounts
    Movers,                 \* the accounts that have tokens to pay or to approve
    Seed,                   \* the rate the swapper is deployed with
    Rates, Amounts,         \* rates that may be set, amounts that may be moved
    UsdcSupply, EureSupply  \* what the script and the users bring in, by holder

VARIABLES owners, threshold, delay, ownerEpoch, status, call, eta, confirmations, vote, now,
          standing          \* see AdminTimelock

timelockVars == <<owners, threshold, delay, ownerEpoch, status, call, eta, confirmations, vote,
                  now, standing>>
vars == <<timelockVars, escrowVars, swapperVars, ledgers>>

Timelock == INSTANCE AdminTimelock

ManagedCalls ==
    [fn : {"setRate"}, arg : Rates] \cup [fn : {"setPaused"}, arg : BOOLEAN]
      \cup [fn : {"setTrader", "setOrchestrator"}, who : Accounts, enabled : BOOLEAN]
      \cup [fn : {"setGuardian", "ownSwapper", "ownEscrow"}, who : Holders]
      \cup [fn : {"withdrawUsdc", "withdrawEure", "payOut"}, who : Holders, arg : Amounts]

ASSUME GovernanceAssumption ==
    /\ Managed \subseteq ManagedCalls /\ Calls \subseteq Timelock!AllCalls
    /\ {Relayer, Guardian} \cup Movers \subseteq Accounts
    /\ Accounts \cup {EscrowAddr, SwapperAddr, TimelockAddr} \subseteq Holders
    /\ EscrowAddr # SwapperAddr /\ EscrowAddr # TimelockAddr /\ SwapperAddr # TimelockAddr
    /\ {EscrowAddr, SwapperAddr, TimelockAddr} \cap Accounts = {}
    /\ Rates \subseteq Nat /\ Seed \in Nat \ {0} /\ Amounts \subseteq Nat
    /\ UsdcSupply \in [Holders -> Nat] /\ EureSupply \in [Holders -> Nat]
    /\ Scale \in Nat \ {0} /\ MaxUint \in Nat

TypeOK == EscrowTypeOK /\ SwapperTypeOK /\ Timelock!TypeOK

Init ==
    /\ Timelock!Init
    /\ EscrowInit(TimelockAddr, Relayer)
    /\ SwapperInit(TimelockAddr, Guardian, Relayer, Seed)
    /\ usdc = UsdcSupply /\ eure = EureSupply
    /\ usdcAllowance = [a \in Holders |-> [s \in Holders |-> 0]]
    /\ eureAllowance = [a \in Holders |-> [s \in Holders |-> 0]]

-----------------------------------------------------------------------------
(* The tokens in their holders' hands.                                     *)

PayUsdc(from, to, amount) ==
    /\ Usdc!Transfer(from, to, amount)
    /\ UNCHANGED <<eure, eureAllowance, timelockVars, escrowVars, swapperVars>>

ApproveUsdc(who, spender, amount) ==
    /\ Usdc!Approve(who, spender, amount)
    /\ UNCHANGED <<eure, eureAllowance, timelockVars, escrowVars, swapperVars>>

ApproveEure(who, spender, amount) ==
    /\ Eure!Approve(who, spender, amount)
    /\ UNCHANGED <<usdc, usdcAllowance, timelockVars, escrowVars, swapperVars>>

(* The contracts, called by a person.                                      *)

EscrowCall(who) ==
    /\ \E t \in Transfers :
          \/ \E amount \in Amounts : LockForPayout(who, t, amount)
          \/ Settle(who, t)
          \/ \E to \in Holders : Release(who, t, to)
    /\ UNCHANGED <<eure, eureAllowance, timelockVars, swapperVars>>

SwapperCall(who) ==
    /\ \/ \E amountIn \in Amounts :
             \/ SwapExactIn(who, amountIn, 0, who)
             \/ SwapReverseExactIn(who, amountIn, 0, who)
       \/ Pause(who)
    /\ UNCHANGED <<timelockVars, escrowVars>>

(* What is reserved to the owners of the contracts, tried by anybody: the  *)
(* timelock when it executes an operation, or a person.                    *)

OwnersCall(who, c) ==
    \/ /\ \/ c.fn = "setRate" /\ SetRate(who, c.arg)
          \/ c.fn = "setPaused" /\ SetPaused(who, c.arg)
          \/ c.fn = "setTrader" /\ SetTrader(who, c.who, c.enabled)
          \/ c.fn = "setGuardian" /\ SetGuardian(who, c.who)
          \/ c.fn = "ownSwapper" /\ TransferSwapperOwnership(who, c.who)
          \/ c.fn = "withdrawUsdc" /\ WithdrawUsdc(who, c.who, c.arg)
          \/ c.fn = "withdrawEure" /\ WithdrawEure(who, c.who, c.arg)
       /\ UNCHANGED escrowVars
    \/ /\ \/ c.fn = "setOrchestrator" /\ SetOrchestrator(who, c.who, c.enabled)
          \/ c.fn = "ownEscrow" /\ TransferEscrowOwnership(who, c.who)
          \/ c.fn = "payOut" /\ Usdc!Transfer(who, c.who, c.arg) /\ UNCHANGED escrowVars
       /\ UNCHANGED <<eure, eureAllowance, swapperVars>>

TimelockCall(who) ==
    \E id \in Ids :
       \/ /\ (\E c \in Calls : Timelock!Queue(who, id, c))
                \/ Timelock!Confirm(who, id) \/ Timelock!Cancel(who, id)
          /\ UNCHANGED <<escrowVars, swapperVars, ledgers>>
       \/ /\ Timelock!Execute(who, id)
          /\ IF call[id].fn = "managed" THEN OwnersCall(TimelockAddr, call[id].arg)
                                        ELSE UNCHANGED <<escrowVars, swapperVars, ledgers>>

Tick == Timelock!Tick /\ UNCHANGED <<escrowVars, swapperVars, ledgers>>

Next ==
    \/ \E who \in Accounts :
          \/ EscrowCall(who) \/ SwapperCall(who) \/ TimelockCall(who)
          \/ \E c \in Managed : OwnersCall(who, c) /\ UNCHANGED timelockVars
    \/ \E who \in Movers, amount \in Amounts :
          \/ PayUsdc(who, EscrowAddr, amount) \/ PayUsdc(who, SwapperAddr, amount)
          \/ ApproveUsdc(who, EscrowAddr, amount) \/ ApproveUsdc(who, SwapperAddr, amount)
          \/ ApproveEure(who, SwapperAddr, amount)
    \/ Tick

Spec == Init /\ [][Next]_vars

-----------------------------------------------------------------------------
(* Correctness.                                                            *)

(***************************************************************************)
(* What is locked is there: the escrow's USDC cover the sum of all open    *)
(* locks, which is what totalLocked says, so every lock can be ended, in   *)
(* any order, without the checked subtraction or the token reverting       *)
(* (lockForPayout, settle, release).                                       *)
(***************************************************************************)
LocksAreCovered ==
    /\ totalLocked = Total(lockedAmount)
    /\ totalLocked <= usdc[EscrowAddr]
    /\ \A t \in Transfers : statusOf[t] = "LOCKED" <=> lockedAmount[t] > 0

(***************************************************************************)
(* The escrow keeps the promise its callers count on, whoever holds or     *)
(* loses the orchestrator role and the ownership in the meantime.          *)
(***************************************************************************)
Promise == INSTANCE EscrowPromise WITH
    Pot <- EscrowAddr, phase <- statusOf, share <- lockedAmount, depositor <- refundTo,
    holdings <- usdc

EscrowKeepsItsPromise == Promise!Spec

\* The step executes an operation that a threshold of owners confirmed and
\* that has waited out its delay.
ByTimelock ==
    \E id \in Ids : /\ status[id] = "open" /\ status'[id] = "executed"
                    /\ Timelock!LiveConfirmations(id) >= threshold /\ now >= eta[id]

(***************************************************************************)
(* No single key changes what the protocol runs on: rates, roles, guardian *)
(* and owners change, and a paused swapper restarts, only by an operation  *)
(* of the timelock, as long as that is the owner (README.md:125).          *)
(***************************************************************************)
NoSingleKeyGoverns ==
    [][/\ swapperOwner = TimelockAddr =>
             \/ <<rate, isTrader, guardian, swapperOwner>>' = <<rate, isTrader, guardian, swapperOwner>>
                  /\ (paused => paused')
             \/ ByTimelock
       /\ escrowOwner = TimelockAddr =>
             <<isOrchestrator, escrowOwner>>' = <<isOrchestrator, escrowOwner>> \/ ByTimelock]_vars

(***************************************************************************)
(* Trading never costs the swapper anything at its own rate: rounding is   *)
(* in its favour both ways, so what it holds, valued at the rate, falls    *)
(* only when the timelock withdraws or changes the rate (quoteOut,         *)
(* quoteReverseOut, the two swaps, withdraw).                              *)
(***************************************************************************)
Worth == eure[SwapperAddr] * rate + usdc[SwapperAddr] * Scale

SwapsCostNothing ==
    [][swapperOwner = TimelockAddr => Worth' >= Worth \/ ByTimelock]_vars
=============================================================================
