---------------------------- MODULE TransferOrchestrator ----------------------------
(***************************************************************************)
(* The cash rail of services/api/src/orchestrator.ts, from the device's    *)
(* authorization to the recipient's pickup, with everything that can work  *)
(* on a transfer at the same time:                                         *)
(*                                                                         *)
(*   - the /authorize handler, which claims the authorization and runs     *)
(*     executeTransfer (debit, swap, bridge, pickup);                      *)
(*   - failAndCompensate / compensateTransfer, run by that handler when a  *)
(*     leg throws;                                                         *)
(*   - sweepStrandedTransfers, run at startup and every five minutes;      *)
(*   - settlePickup, run when the recipient collects.                      *)
(*                                                                         *)
(* The API is one Node process: a handler runs without interruption from   *)
(* one await to the next.  A worker is one such activity in flight; pc is  *)
(* the await it is suspended at and job the transfer it works on.  A leg   *)
(* that writes to a chain is two steps: the transaction takes effect (pc   *)
(* x becomes xSent) and, later, its receipt arrives and the handler runs   *)
(* on, records the step and persists.  Between the two anything may        *)
(* happen, a crash included.  store.ts persists synchronously inside       *)
(* updateTransfer, and every step that decides what recovery does is       *)
(* pushed in the turn of the update that persists it, so what survives a   *)
(* crash is state, authorizedAt, steps, refund and pickup, and what is     *)
(* lost is pc, job and back.                                               *)
(*                                                                         *)
(* Money is counted in units: a transfer debits Send = Conv + Fee EURe,    *)
(* swaps Conv of them for Conv units of USDC, and bridges as many: locks   *)
(* them in the escrow, or has the CCTP burner burn its own.  EURe and USDC *)
(* of all transfers are POOLED at the orchestrator's one address;          *)
(* Float is what it held before (earlier fees).  A reverse swap delivers   *)
(* any amount of RevOut, for the rate moves between the two swaps.         *)
(*                                                                         *)
(* Left out: the failpoints, which are test hooks; the checks whether this *)
(* transfer was debited before (debitInputFunds, failAndCompensate), which *)
(* no transfer that was just claimed can fail; the last MANUAL_REVIEW of   *)
(* compensateTransfer, for a fundingSource no handler sets.  What the      *)
(* anchor does to a pickup is another module's.                            *)
(***************************************************************************)
EXTENDS Integers, FiniteSets

CONSTANTS
    Transfers,          \* transfer ids, one user and one Safe each
    Workers,            \* bound: handlers and sweep ticks in flight at once
    None,               \* "no job"
    Fee, Conv,          \* EURe units: kept by the orchestrator / swapped
    RevOut,             \* what reversing the swap of Conv may deliver
    Float,              \* EURe the orchestrator held at the start
    Deployments,        \* the configurations config.ts may read, see below
    Worlds,             \* the environments considered, see below
    MaxFaults,          \* bound: legs that throw for an outside reason
    MaxCrashes          \* bound: process crashes

ASSUME MoneyAssumption ==
    /\ Fee \in Nat \ {0} /\ Conv \in Nat \ {0} /\ Float \in Nat
    /\ RevOut \subseteq Nat \ {0}
ASSUME WorkerAssumption == None \notin Transfers
ASSUME DeploymentAssumption ==
    \* LIQUIDITY.PROVIDER, CCTP.live, anchorModeEnabled(), SECURITY.allowMockFallback
    /\ Deployments \subseteq [venue : {"fx-swapper", "dex"}, cctpLive : BOOLEAN,
                              anchorMode : BOOLEAN, allowMockFallback : BOOLEAN]
(***************************************************************************)
(* What the code leaves to its environment:                                *)
(*   slowLegs          the awaits that may outlast STALE_MS (10 minutes),  *)
(*                     so that a sweep takes a running transfer for one    *)
(*                     stranded by a crash;                                *)
(*   sweepMeetsFailure may a sweep tick arrive while a handler is still    *)
(*                     compensating the FAILED transfer it finds?          *)
(*   lostReceipts      may a transaction land and its wait still throw?    *)
(***************************************************************************)
ASSUME WorldAssumption ==
    Worlds \subseteq [slowLegs : SUBSET STRING, sweepMeetsFailure : BOOLEAN,
                      lostReceipts : BOOLEAN]
ASSUME BoundAssumption == MaxFaults \in Nat /\ MaxCrashes \in Nat

VARIABLES
    deploy,        \* this deployment's configuration; never changes
    world,         \* the environment it runs in; never changes
    state,         \* transfer.state
    authorizedAt,  \* is transfer.auth.authorizedAt set?
    steps,         \* the steps of transfer.txs that recovery looks for
    refund,        \* transfer.refund.amountEur, or NotRefunded
    pickup,        \* transfer.pickup.status, or "none"
    pc,            \* the await each worker is suspended at
    job,           \* the transfer each worker works on
    back,          \* EURe a worker's reverse swap delivered
    safe,          \* on chain: EURe in the user's Safe
    orchEure,      \* on chain: EURe at the orchestrator's address
    orchUsdc,      \* on chain: USDC at the orchestrator's address
    escrow,        \* on chain: BridgeEscrow.statusOf
    burned,        \* on chain: transfers whose USDC was burned by CCTP
    faults, crashes

records == <<state, authorizedAt, steps, refund, pickup>>
control == <<pc, job, back>>
chain   == <<safe, orchEure, orchUsdc, escrow, burned>>
bounds  == <<faults, crashes>>
vars    == <<deploy, world, records, control, chain, bounds>>

-----------------------------------------------------------------------------
Send == Conv + Fee
Start == 2 * Send      \* what each Safe holds at first: enough to debit twice
NotRefunded == -1

States == {"CREATED", "DEBITED", "SWAPPED", "BRIDGED", "PAYOUT_DETAILS_PENDING",
           "PAYOUT_READY", "PAID", "FAILED", "REFUNDED", "MANUAL_REVIEW"}

\* The awaits of executeTransfer, of compensateTransfer and of settlePickup.
ExecPc == {"debit", "debitSent", "swap", "swapSent", "bridge", "lockSent",
           "burnSent", "attest", "pickup"}
ReversePc == {"reverse", "reverseSent", "fee", "feeSent"}
CompPc == {"release", "releaseSent", "return", "returnSent"} \cup ReversePc
SettlePc == {"settle", "settleSent"}

\* An await after which the transaction it waits for may already be on chain.
Sent == {"debitSent", "swapSent", "lockSent", "burnSent", "releaseSent",
         "reverseSent", "feeSent", "returnSent", "settleSent"}

SwapStep == IF deploy.venue = "fx-swapper" THEN "liquidity.fx-swapper.eure-usdc"
                                    ELSE "liquidity.dex.eure-usdc"
Steps == {"safe.transfer(orchestrator)", "liquidity.fx-swapper.eure-usdc",
          "liquidity.dex.eure-usdc", "bridge.lockForPayout", "bridge.settle",
          "cctp.burn"}

TypeOK ==
    /\ deploy \in Deployments /\ world \in Worlds
    /\ state \in [Transfers -> States]
    /\ authorizedAt \in [Transfers -> BOOLEAN]
    /\ steps \in [Transfers -> SUBSET Steps]
    /\ refund \in [Transfers -> Nat \cup {NotRefunded}]
    /\ pickup \in [Transfers -> {"none", "READY", "PAID"}]
    /\ pc \in [Workers -> {"idle"} \cup ExecPc \cup CompPc \cup SettlePc]
    /\ job \in [Workers -> Transfers \cup {None}]
    /\ \A w \in Workers : job[w] = None <=> pc[w] = "idle"
    /\ back \in [Workers -> Nat]
    /\ safe \in [Transfers -> Int]
    /\ orchEure \in Nat /\ orchUsdc \in Nat
    /\ escrow \in [Transfers -> {"NONE", "LOCKED", "SETTLED", "RELEASED"}]
    /\ burned \in SUBSET Transfers
    /\ faults \in 0..MaxFaults /\ crashes \in 0..MaxCrashes

Init ==
    /\ deploy \in Deployments /\ world \in Worlds
    /\ state = [t \in Transfers |-> "CREATED"]
    /\ authorizedAt = [t \in Transfers |-> FALSE]
    /\ steps = [t \in Transfers |-> {}]
    /\ refund = [t \in Transfers |-> NotRefunded]
    /\ pickup = [t \in Transfers |-> "none"]
    /\ pc = [w \in Workers |-> "idle"]
    /\ job = [w \in Workers |-> None]
    /\ back = [w \in Workers |-> 0]
    /\ safe = [t \in Transfers |-> Start]
    /\ orchEure = Float /\ orchUsdc = 0
    /\ escrow = [t \in Transfers |-> "NONE"]
    /\ burned = {}
    /\ faults = 0 /\ crashes = 0

-----------------------------------------------------------------------------
(* What a handler does between two awaits.                                 *)

Begin(w, t, label) == /\ pc' = [pc EXCEPT ![w] = label]
                      /\ job' = [job EXCEPT ![w] = t]
                      /\ UNCHANGED back

Await(w, label) == pc' = [pc EXCEPT ![w] = label] /\ UNCHANGED <<job, back>>

Return(w) == /\ pc' = [pc EXCEPT ![w] = "idle"]
             /\ job' = [job EXCEPT ![w] = None]
             /\ back' = [back EXCEPT ![w] = 0]

\* updateTransfer(t, {state: s, txs: ... + new})
Record(t, s, new) == /\ state' = [state EXCEPT ![t] = s]
                     /\ steps' = [steps EXCEPT ![t] = @ \cup new]
                     /\ UNCHANGED authorizedAt

(***************************************************************************)
(* compensateTransfer up to its first await, for a transfer that is FAILED *)
(* and whose recorded steps are s.  Nothing is claimed: what keeps a       *)
(* second compensation out is the refund record, which is written only     *)
(* when the first one has finished.  (Its early return on REFUNDED and     *)
(* PAID cannot be taken: every caller has just seen or set FAILED.)        *)
(***************************************************************************)
InputFundsMoved(s) == "safe.transfer(orchestrator)" \in s
\* Mutant: the swap step goes by a name recovery does not look for.
SwapUnrecognised(s) == FALSE
Swapped(s) == "liquidity.fx-swapper.eure-usdc" \in s
\* Mutant: the lock step goes by a name nobody looks for.
LockUnrecognised(s) == FALSE
HoldsEscrow(s) == "bridge.lockForPayout" \in s /\ "bridge.settle" \notin s

AfterRelease(s) == IF Swapped(s) THEN "reverse" ELSE "return"
FirstLeg(s) == IF HoldsEscrow(s) THEN "release" ELSE AfterRelease(s)

CompensateTransfer(w, t, s) ==
    \/ refund[t] # NotRefunded /\ Return(w) /\ UNCHANGED refund
    \/ /\ refund[t] = NotRefunded
       /\ ~InputFundsMoved(s)
       /\ refund' = [refund EXCEPT ![t] = 0]
       /\ Return(w)
    \/ /\ refund[t] = NotRefunded
       /\ InputFundsMoved(s)
       /\ Begin(w, t, FirstLeg(s))
       /\ UNCHANGED refund

\* Mutant: a submitted burn is compensated like any other failure.
FailAfterBurnCompensates(w, t, new) ==
    /\ Record(t, "FAILED", new)
    /\ CompensateTransfer(w, t, steps[t] \cup new)

\* failAndCompensate; new is what the failing leg pushed before it threw.
FailAndCompensate(w, t, new) ==
    LET s == steps[t] \cup new IN
    \/ /\ "cctp.burn" \in s
       /\ Record(t, "MANUAL_REVIEW", new)
       /\ Return(w)
       /\ UNCHANGED refund
    \/ /\ "cctp.burn" \notin s
       /\ Record(t, "FAILED", new)
       /\ CompensateTransfer(w, t, s)

-----------------------------------------------------------------------------
(* executeTransfer.                                                        *)

\* Mutant: the state is checked but the authorization is not claimed.
AuthorizeUnclaimed(w, t) ==
    /\ pc[w] = "idle"
    /\ state[t] = "CREATED"
    /\ authorizedAt' = [authorizedAt EXCEPT ![t] = TRUE]
    /\ Begin(w, t, "debit")
    /\ UNCHANGED <<deploy, world, state, steps, refund, pickup, chain, bounds>>

\* POST /authorize: the claim and the start of the execution are one turn.
Authorize(w, t) ==
    /\ pc[w] = "idle"
    /\ state[t] = "CREATED" /\ ~authorizedAt[t]
    /\ authorizedAt' = [authorizedAt EXCEPT ![t] = TRUE]
    /\ Begin(w, t, "debit")
    /\ UNCHANGED <<deploy, world, state, steps, refund, pickup, chain, bounds>>

\* debitInputFunds: the co-signer moves the EURe, then the step is recorded.
Debit(w) ==
    LET t == job[w] IN
    /\ pc[w] = "debit"
    /\ safe' = [safe EXCEPT ![t] = @ - Send]
    /\ orchEure' = orchEure + Send
    /\ Await(w, "debitSent")
    /\ UNCHANGED <<deploy, world, records, orchUsdc, escrow, burned, bounds>>

DebitRecorded(w) ==
    /\ pc[w] = "debitSent"
    /\ Record(job[w], "DEBITED", {"safe.transfer(orchestrator)"})
    /\ Await(w, "swap")
    /\ UNCHANGED <<deploy, world, refund, pickup, chain, bounds>>

\* assertQuoteRateBinding, the approval and the swap itself.
Swap(w) ==
    /\ pc[w] = "swap"
    /\ orchEure >= Conv
    /\ orchEure' = orchEure - Conv
    /\ orchUsdc' = orchUsdc + Conv
    /\ Await(w, "swapSent")
    /\ UNCHANGED <<deploy, world, records, safe, escrow, burned, bounds>>

SwapRecorded(w) ==
    /\ pc[w] = "swapSent"
    /\ Record(job[w], "SWAPPED", {SwapStep})
    /\ Await(w, "bridge")
    /\ UNCHANGED <<deploy, world, refund, pickup, chain, bounds>>

\* The dry-run bridge: approve and BridgeEscrow.lockForPayout.
Lock(w) ==
    LET t == job[w] IN
    /\ pc[w] = "bridge" /\ ~deploy.cctpLive
    /\ orchUsdc >= Conv /\ escrow[t] = "NONE"
    /\ orchUsdc' = orchUsdc - Conv
    /\ escrow' = [escrow EXCEPT ![t] = "LOCKED"]
    /\ Await(w, "lockSent")
    /\ UNCHANGED <<deploy, world, records, safe, orchEure, burned, bounds>>

\* The live bridge: the CCTP burn, then Iris is polled and the mint submitted.
\* The burn is of CCTP_BURNER_KEY's own USDC, not of what the swap delivered.
Burn(w) ==
    /\ pc[w] = "bridge" /\ deploy.cctpLive
    /\ burned' = burned \cup {job[w]}
    /\ Await(w, "burnSent")
    /\ UNCHANGED <<deploy, world, records, safe, orchEure, orchUsdc, escrow, bounds>>

BurnConfirmed(w) ==
    /\ pc[w] = "burnSent"
    /\ Await(w, "attest")
    /\ UNCHANGED <<deploy, world, records, chain, bounds>>

\* The bridge leg is recorded.  Without an anchor the mock pickup is created
\* in the same turn, so the transfer goes straight on to PAYOUT_READY.
BridgeRecorded(w) ==
    LET t == job[w]
        leg == IF pc[w] = "lockSent" THEN "bridge.lockForPayout" ELSE "cctp.burn" IN
    /\ pc[w] \in {"lockSent", "attest"}
    /\ \/ /\ deploy.anchorMode
          /\ Record(t, "BRIDGED", {leg})
          /\ Await(w, "pickup")
          /\ UNCHANGED pickup
       \/ /\ ~deploy.anchorMode
          /\ Record(t, "PAYOUT_READY", {leg})
          /\ pickup' = [pickup EXCEPT ![t] = "READY"]
          /\ Return(w)
    /\ UNCHANGED <<deploy, world, refund, chain, bounds>>

\* createCashPickupViaAnchor answered; the payout is the anchor's from here.
PickupCreated(w) ==
    /\ pc[w] = "pickup"
    /\ Record(job[w], "PAYOUT_DETAILS_PENDING", {})
    /\ pickup' = [pickup EXCEPT ![job[w]] = "READY"]
    /\ Return(w)
    /\ UNCHANGED <<deploy, world, refund, chain, bounds>>

-----------------------------------------------------------------------------
(* Failures of a leg.  Either the chain refuses the transaction, or the    *)
(* call throws for an outside reason (RPC error, refused quote, rate       *)
(* moved): before the transaction took effect, or, in a world with         *)
(* lost receipts, after it did (waitForTransactionReceipt times out).      *)

Reverts(w) ==
    LET t == job[w] IN
    \/ pc[w] = "swap" /\ orchEure < Conv
    \/ pc[w] = "bridge" /\ ~deploy.cctpLive /\ (orchUsdc < Conv \/ escrow[t] # "NONE")
    \/ pc[w] \in {"release", "settle"} /\ escrow[t] # "LOCKED"
    \/ pc[w] = "reverse" /\ orchUsdc < Conv
    \/ pc[w] = "return" /\ orchEure < Send

Throws(w) ==
    \/ Reverts(w) /\ UNCHANGED bounds
    \/ /\ pc[w] \in Sent => world.lostReceipts
       /\ faults < MaxFaults
       /\ faults' = faults + 1
       /\ UNCHANGED crashes

\* A leg of executeTransfer throws.  A CctpBridgeError carries the plan, so a
\* failure after the confirmed burn records the burn.
ExecLegFails(w) ==
    /\ pc[w] \in ExecPc \ {"pickup"}
    /\ Throws(w)
    /\ FailAndCompensate(w, job[w], IF pc[w] = "attest" THEN {"cctp.burn"} ELSE {})
    /\ UNCHANGED <<deploy, world, pickup, chain>>

\* The anchor refuses the pickup: fail closed, or fall back to the mock.
AnchorRefuses(w) ==
    LET t == job[w] IN
    /\ pc[w] = "pickup"
    /\ Throws(w)
    /\ \/ /\ ~deploy.allowMockFallback
          /\ FailAndCompensate(w, t, {})
          /\ UNCHANGED pickup
       \/ /\ deploy.allowMockFallback
          /\ Record(t, "PAYOUT_READY", {})
          /\ pickup' = [pickup EXCEPT ![t] = "READY"]
          /\ Return(w)
          /\ UNCHANGED refund
    /\ UNCHANGED <<deploy, world, chain>>

-----------------------------------------------------------------------------
(* compensateTransfer from its first await on.                             *)

Release(w) ==
    LET t == job[w] IN
    /\ pc[w] = "release" /\ escrow[t] = "LOCKED"
    /\ escrow' = [escrow EXCEPT ![t] = "RELEASED"]
    /\ orchUsdc' = orchUsdc + Conv
    /\ Await(w, "releaseSent")
    /\ UNCHANGED <<deploy, world, records, safe, orchEure, burned, bounds>>

Released(w) ==
    /\ pc[w] = "releaseSent"
    /\ Await(w, AfterRelease(steps[job[w]]))
    /\ UNCHANGED <<deploy, world, records, chain, bounds>>

\* updateTransfer(t, {state: "REFUNDED", refund: {amountEur: amount}})
Refunded(w, t, amount) ==
    /\ state' = [state EXCEPT ![t] = "REFUNDED"]
    /\ refund' = [refund EXCEPT ![t] = amount]
    /\ Return(w)
    /\ UNCHANGED <<authorizedAt, steps, pickup>>

\* The USDC is swapped back and delivered to the Safe.
ReverseSwap(w) ==
    LET t == job[w] IN
    /\ pc[w] = "reverse" /\ orchUsdc >= Conv
    /\ orchUsdc' = orchUsdc - Conv
    /\ \E out \in RevOut :
          /\ safe' = [safe EXCEPT ![t] = @ + out]
          /\ back' = [back EXCEPT ![w] = out]
    /\ pc' = [pc EXCEPT ![w] = "reverseSent"]
    /\ UNCHANGED <<deploy, world, records, job, orchEure, escrow, burned, bounds>>

\* Mutant: the fee is handed back whatever the swap delivered.
FeeBackUnclamped(out) == Fee
\* Math.min(fee, Math.max(0, safeMovedEur(t) - eurBack))
FeeBack(out) == IF out >= Send THEN 0
                ELSE IF Send - out > Fee THEN Fee ELSE Send - out

ReverseSwapped(w) ==
    /\ pc[w] = "reverseSent"
    /\ \/ /\ FeeBack(back[w]) > 0
          /\ Await(w, "fee")
          /\ UNCHANGED records
       \/ /\ FeeBack(back[w]) = 0
          /\ Refunded(w, job[w], back[w])
    /\ UNCHANGED <<deploy, world, chain, bounds>>

\* returnEureToSafe(feeBack): out of the pooled EURe.
ReturnFee(w) ==
    LET t == job[w] IN
    /\ pc[w] = "fee" /\ orchEure >= FeeBack(back[w])
    /\ orchEure' = orchEure - FeeBack(back[w])
    /\ safe' = [safe EXCEPT ![t] = @ + FeeBack(back[w])]
    /\ Await(w, "feeSent")
    /\ UNCHANGED <<deploy, world, records, orchUsdc, escrow, burned, bounds>>

\* Mutant: the refund is recorded as what was sent, not as what came back.
FeeReturnedUnmeasured(w) ==
    /\ pc[w] = "feeSent"
    /\ Refunded(w, job[w], Send)
    /\ UNCHANGED <<deploy, world, chain, bounds>>

FeeReturned(w) ==
    /\ pc[w] = "feeSent"
    /\ Refunded(w, job[w], back[w] + FeeBack(back[w]))
    /\ UNCHANGED <<deploy, world, chain, bounds>>

\* returnEureToSafe(sendEur): out of the pooled EURe.
ReturnEure(w) ==
    LET t == job[w] IN
    /\ pc[w] = "return" /\ orchEure >= Send
    /\ orchEure' = orchEure - Send
    /\ safe' = [safe EXCEPT ![t] = @ + Send]
    /\ Await(w, "returnSent")
    /\ UNCHANGED <<deploy, world, records, orchUsdc, escrow, burned, bounds>>

EureReturned(w) ==
    /\ pc[w] = "returnSent"
    /\ Refunded(w, job[w], Send)
    /\ UNCHANGED <<deploy, world, chain, bounds>>

\* The release or the return throws: the transfer stays as it is, for the sweep.
CompLegFails(w) ==
    /\ pc[w] \in CompPc \ ReversePc
    /\ Throws(w)
    /\ Return(w)
    /\ UNCHANGED <<deploy, world, records, chain>>

\* Anything in the reverse swap throws: MANUAL_REVIEW, without a refund record.
ReverseFails(w) ==
    /\ pc[w] \in ReversePc
    /\ \/ Throws(w)
       \/ pc[w] = "fee" /\ orchEure < FeeBack(back[w]) /\ UNCHANGED bounds
    /\ Record(job[w], "MANUAL_REVIEW", {})
    /\ Return(w)
    /\ UNCHANGED <<deploy, world, refund, pickup, chain>>

-----------------------------------------------------------------------------
(* sweepStrandedTransfers, for one transfer it reaches.  It asks nobody    *)
(* whether a handler is still working on the transfer: a FAILED one it     *)
(* takes at any age, one in mid-flight when updatedAt is STALE_MS old,     *)
(* which a running leg is only if it is one of the slow ones.              *)

LooksStranded(t) == \A v \in Workers : job[v] = t => pc[v] \in world.slowLegs

\* Mutant: the sweep skips exactly the failures that moved money.
SweepSkipsMovedFunds(w, t) ==
    /\ pc[w] = "idle"
    /\ world.sweepMeetsFailure \/ LooksStranded(t)
    /\ state[t] = "FAILED" /\ refund[t] = NotRefunded /\ ~InputFundsMoved(steps[t])
    /\ Begin(w, t, FirstLeg(steps[t]))
    /\ UNCHANGED <<deploy, world, records, chain, bounds>>

SweepFailed(w, t) ==
    /\ pc[w] = "idle"
    /\ world.sweepMeetsFailure \/ LooksStranded(t)
    /\ state[t] = "FAILED" /\ refund[t] = NotRefunded /\ InputFundsMoved(steps[t])
    /\ Begin(w, t, FirstLeg(steps[t]))
    /\ UNCHANGED <<deploy, world, records, chain, bounds>>

SweepStranded(w, t) ==
    /\ pc[w] = "idle" /\ LooksStranded(t)
    /\ state[t] \in {"DEBITED", "SWAPPED", "BRIDGED"}
    /\ Record(t, "FAILED", {})
    /\ CompensateTransfer(w, t, steps[t])
    /\ UNCHANGED <<deploy, world, pickup, chain, bounds>>

-----------------------------------------------------------------------------
(* settlePickup.                                                           *)

MarkPaid(t) == pickup' = [pickup EXCEPT ![t] = "PAID"]

\* Mutant: a pickup is settled whatever state the transfer is in.
SettlePickupUnchecked(w, t) ==
    /\ pc[w] = "idle" /\ state[t] # "CREATED"
    /\ \/ /\ HoldsEscrow(steps[t])
          /\ Begin(w, t, "settle")
          /\ UNCHANGED records
       \/ /\ ~HoldsEscrow(steps[t])
          /\ Record(t, "PAID", {})
          /\ MarkPaid(t)
          /\ UNCHANGED <<refund, control>>
    /\ UNCHANGED <<deploy, world, chain, bounds>>

SettlePickup(w, t) ==
    /\ pc[w] = "idle" /\ state[t] = "PAYOUT_READY"
    /\ \/ /\ HoldsEscrow(steps[t])
          /\ Begin(w, t, "settle")
          /\ UNCHANGED records
       \/ /\ ~HoldsEscrow(steps[t])
          /\ Record(t, "PAID", {})
          /\ MarkPaid(t)
          /\ UNCHANGED <<refund, control>>
    /\ UNCHANGED <<deploy, world, chain, bounds>>

Settle(w) ==
    LET t == job[w] IN
    /\ pc[w] = "settle" /\ escrow[t] = "LOCKED"
    /\ escrow' = [escrow EXCEPT ![t] = "SETTLED"]
    /\ Await(w, "settleSent")
    /\ UNCHANGED <<deploy, world, records, safe, orchEure, orchUsdc, burned, bounds>>

Settled(w) ==
    /\ pc[w] = "settleSent"
    /\ Record(job[w], "PAID", {"bridge.settle"})
    /\ MarkPaid(job[w])
    /\ Return(w)
    /\ UNCHANGED <<deploy, world, refund, chain, bounds>>

SettleFails(w) ==
    /\ pc[w] \in SettlePc
    /\ Throws(w)
    /\ Return(w)
    /\ UNCHANGED <<deploy, world, records, chain>>

-----------------------------------------------------------------------------
\* The process dies and restarts: every handler in flight is forgotten.
Crash ==
    /\ crashes < MaxCrashes
    /\ \E w \in Workers : pc[w] # "idle"
    /\ crashes' = crashes + 1
    /\ pc' = [w \in Workers |-> "idle"]
    /\ job' = [w \in Workers |-> None]
    /\ back' = [w \in Workers |-> 0]
    /\ UNCHANGED <<deploy, world, records, chain, faults>>

Execute(w) ==
    \/ Debit(w) \/ DebitRecorded(w) \/ Swap(w) \/ SwapRecorded(w)
    \/ Lock(w) \/ Burn(w) \/ BurnConfirmed(w) \/ BridgeRecorded(w) \/ PickupCreated(w)

Compensate(w) ==
    \/ Release(w) \/ Released(w) \/ ReverseSwap(w) \/ ReverseSwapped(w)
    \/ ReturnFee(w) \/ FeeReturned(w) \/ ReturnEure(w) \/ EureReturned(w)

Fails(w) ==
    ExecLegFails(w) \/ AnchorRefuses(w) \/ CompLegFails(w) \/ ReverseFails(w) \/ SettleFails(w)

Sweep(w, t) == SweepFailed(w, t) \/ SweepStranded(w, t)

Resume(w) == Execute(w) \/ Compensate(w) \/ Settle(w) \/ Settled(w) \/ Fails(w)

Next ==
    \/ \E w \in Workers : Resume(w)
    \/ \E w \in Workers, t \in Transfers :
          Authorize(w, t) \/ Sweep(w, t) \/ SettlePickup(w, t)
    \/ Crash

Spec == Init /\ [][Next]_vars

(***************************************************************************)
(* Fairness.  Every await ends: the RPC client and fetch have timeouts, so *)
(* a suspended handler runs on.  The sweep is on a timer that fires for as *)
(* long as the process lives, and it reaches every transfer it finds.      *)
(* Nobody promises that a device authorizes or a recipient collects.       *)
(***************************************************************************)
Fairness ==
    /\ \A w \in Workers : WF_vars(Resume(w))
    /\ \A t \in Transfers : SF_vars(\E w \in Workers : Sweep(w, t))

FairSpec == Spec /\ Fairness

-----------------------------------------------------------------------------
(* Correctness.                                                            *)

\* The environment the code counts on: no leg outlasts STALE_MS and no sweep
\* tick falls into a running compensation.
Timely == world.slowLegs = {} /\ ~world.sweepMeetsFailure

(***************************************************************************)
(* A refund record tells the truth: once nobody works on the transfer, the *)
(* Safe is short of exactly what was debited less what the record says was *)
(* returned (compensateTransfer; "nothing was debited" is 0).              *)
(***************************************************************************)
RefundRecordIsTrue ==
    \A t \in Transfers :
        (\A w \in Workers : job[w] # t) /\ refund[t] # NotRefunded =>
            safe[t] = Start - (IF InputFundsMoved(steps[t]) THEN Send ELSE 0) + refund[t]

(***************************************************************************)
(* A refund never makes the sender richer: the Safe ends at or below what  *)
(* it held before the debit, unless the reverse swap itself delivered more *)
(* than was sent.  Two refunds of one debit break it (compensateTransfer,  *)
(* sweepStrandedTransfers).                                                *)
(***************************************************************************)
RefundedAtMostOnce ==
    \A t \in Transfers :
        \/ safe[t] <= Start
        \/ \E out \in RevOut : safe[t] = Start - Send + out

(***************************************************************************)
(* The pool covers every claim on it.  While no handler is between a       *)
(* transaction and its record, the orchestrator's pooled EURe and USDC     *)
(* cover what its open transfers' records say it holds for them, so that   *)
(* no refund (returnEureToSafe, the reverse swap) spends another sender's  *)
(* money.                                                                  *)
(***************************************************************************)
HasSwapped(s) == s \cap {"liquidity.fx-swapper.eure-usdc", "liquidity.dex.eure-usdc"} # {}
HasBridged(s) == s \cap {"bridge.lockForPayout", "cctp.burn"} # {}

Holding == {t \in Transfers :
                /\ InputFundsMoved(steps[t]) /\ refund[t] = NotRefunded
                /\ state[t] \notin {"PAYOUT_READY", "PAID", "MANUAL_REVIEW"}}
StillEure == {t \in Holding : ~HasSwapped(steps[t])}
StillUsdc == {t \in Holding : HasSwapped(steps[t]) /\ ~HasBridged(steps[t])}

PoolCoversEveryClaim ==
    (\A w \in Workers : pc[w] = "idle") =>
        /\ orchEure >= Float + Send * Cardinality(StillEure)
                              + Fee * Cardinality(Holding \ StillEure)
        /\ orchUsdc >= Conv * Cardinality(StillUsdc)

(***************************************************************************)
(* USDC that was burned is gone: the sender is not refunded from the pool  *)
(* for a transfer whose burn is on chain (failAndCompensate's cctp.burn    *)
(* branch).                                                                *)
(***************************************************************************)
BurnedIsNotRefunded == \A t \in burned : safe[t] = Start - Send

(***************************************************************************)
(* One authorization spends once, whatever is submitted, retried, swept or *)
(* restarted: the Safe never loses more than one debit                     *)
(* (claimAuthorization before the first await).                            *)
(***************************************************************************)
NeverDebitedTwice == \A t \in Transfers : safe[t] >= Start - Send

(***************************************************************************)
(* A recipient is marked paid only against committed USDC: the escrow was  *)
(* settled on chain or the CCTP burn is on chain, even with a compensation *)
(* releasing the same escrow at the same time (settlePickup).              *)
(***************************************************************************)
PaidIsBacked ==
    \A t \in Transfers : pickup[t] = "PAID" => escrow[t] = "SETTLED" \/ t \in burned

(***************************************************************************)
(* Refund or payout, never both: when the recipient was paid, the sender   *)
(* was debited and has got nothing back.  Crashes and lost receipts do not *)
(* change that as long as sweeps keep away from running handlers           *)
(* (compensateTransfer against settlePickup).                              *)
(***************************************************************************)
RefundXorPayout ==
    Timely => \A t \in Transfers : pickup[t] = "PAID" => safe[t] = Start - Send

(***************************************************************************)
(* A closed transfer stays closed: no handler that was suspended, no sweep *)
(* and no restart moves a transfer out of PAID or REFUNDED (updateTransfer *)
(* overwrites whatever state it finds).                                    *)
(***************************************************************************)
ClosedStaysClosed ==
    [][Timely => \A t \in Transfers :
          state[t] \in {"PAID", "REFUNDED"} => state'[t] = state[t]]_vars

(***************************************************************************)
(* An authorized transfer does not stay in mid-flight: it comes to rest    *)
(* paid, waiting for the recipient or the anchor, refunded, under review,  *)
(* or failed with nothing owed (executeTransfer, sweepStrandedTransfers).  *)
(***************************************************************************)
Resolved(t) == \/ state[t] \in {"PAYOUT_DETAILS_PENDING", "PAYOUT_READY", "PAID",
                                "REFUNDED", "MANUAL_REVIEW"}
               \/ state[t] = "FAILED" /\ refund[t] # NotRefunded

EveryTransferResolves == \A t \in Transfers : authorizedAt[t] ~> Resolved(t)
=============================================================================
