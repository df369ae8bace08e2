------------------------------- MODULE BridgeEscrow -------------------------------
(***************************************************************************)
(* contracts/src/BridgeEscrow.sol: USDC locked per transfer until the      *)
(* payout settles or is given back.  The module has the contract's         *)
(* functions; Governance composes it with the contracts around it.         *)
(*                                                                         *)
(* A transaction is atomic: a function is one action, and one that reverts *)
(* (a require, the token's, or the checked subtraction of Solidity 0.8) is *)
(* no step.  BridgeOut and the other events change no state.               *)
(***************************************************************************)
EXTENDS Ledgers

CONSTANTS
    Transfers,       \* transfer ids
    EscrowAddr       \* this contract

VARIABLES
    escrowOwner,
    isOrchestrator,            \* the addresses with the role
    statusOf, lockedAmount,    \* of each transfer
    refundTo,                  \* of each transfer: who locked it, or NoOne
    totalLocked

escrowVars == <<escrowOwner, isOrchestrator, statusOf, lockedAmount, refundTo, totalLocked>>

NoOne == "0x0"

EscrowTypeOK ==
    /\ Usdc!TokenTypeOK
    /\ escrowOwner \in Holders
    /\ isOrchestrator \subseteq Holders
    /\ statusOf \in [Transfers -> {"NONE", "LOCKED", "SETTLED", "RELEASED"}]
    /\ lockedAmount \in [Transfers -> Nat]
    /\ refundTo \in [Transfers -> Holders \cup {NoOne}]
    /\ totalLocked \in Nat

\* As the constructor leaves it, and the deployment script's two calls after it.
EscrowInit(owner, orchestrator) ==
    /\ escrowOwner = owner
    /\ isOrchestrator = {orchestrator}
    /\ statusOf = [t \in Transfers |-> "NONE"]
    /\ lockedAmount = [t \in Transfers |-> 0]
    /\ refundTo = [t \in Transfers |-> NoOne]
    /\ totalLocked = 0

LockForPayout(who, t, amount) ==
    /\ statusOf[t] = "NONE"
    /\ who \in isOrchestrator /\ amount > 0
    /\ Usdc!TransferFrom(EscrowAddr, who, EscrowAddr, amount)
    /\ lockedAmount' = [lockedAmount EXCEPT ![t] = amount]
    /\ refundTo' = [refundTo EXCEPT ![t] = who]
    /\ statusOf' = [statusOf EXCEPT ![t] = "LOCKED"]
    /\ totalLocked' = totalLocked + amount
    /\ UNCHANGED <<escrowOwner, isOrchestrator>>

\* Mutant: the lock ends and stays on the books.
EndLockKeepsAmount(t, end, to) ==
    /\ statusOf[t] = "LOCKED" /\ lockedAmount[t] > 0
    /\ statusOf' = [statusOf EXCEPT ![t] = end]
    /\ Usdc!Transfer(EscrowAddr, to, lockedAmount[t])
    /\ UNCHANGED <<escrowOwner, isOrchestrator, refundTo, lockedAmount, totalLocked>>

\* What settle and release share: the lock ends and its amount goes to somebody.
EndLock(t, end, to) ==
    /\ statusOf[t] = "LOCKED" /\ lockedAmount[t] > 0
    /\ totalLocked >= lockedAmount[t]
    /\ lockedAmount' = [lockedAmount EXCEPT ![t] = 0]
    /\ totalLocked' = totalLocked - lockedAmount[t]
    /\ statusOf' = [statusOf EXCEPT ![t] = end]
    /\ Usdc!Transfer(EscrowAddr, to, lockedAmount[t])
    /\ UNCHANGED <<escrowOwner, isOrchestrator, refundTo>>

Settle(who, t) == who \in isOrchestrator /\ EndLock(t, "SETTLED", escrowOwner)

\* Mutant: what is released goes wherever the caller says.
ReleaseAnywhere(who, t, to) == who \in isOrchestrator /\ EndLock(t, "RELEASED", to)

Release(who, t, to) ==
    who \in isOrchestrator /\ to = refundTo[t] /\ EndLock(t, "RELEASED", to)

SetOrchestrator(who, account, enabled) ==
    /\ who = escrowOwner
    /\ isOrchestrator' = IF enabled THEN isOrchestrator \cup {account}
                                    ELSE isOrchestrator \ {account}
    /\ UNCHANGED <<usdc, usdcAllowance, escrowOwner, statusOf, lockedAmount, refundTo,
                   totalLocked>>

\* The zero address, which the function refuses, is not among the Holders.
TransferEscrowOwnership(who, account) ==
    /\ who = escrowOwner
    /\ escrowOwner' = account
    /\ UNCHANGED <<usdc, usdcAllowance, isOrchestrator, statusOf, lockedAmount, refundTo,
                   totalLocked>>
=============================================================================
