------------------------------ MODULE AnchorPayout ------------------------------
(***************************************************************************)
(* The last mile of the cash rail with a SEP-24 anchor: what happens to a  *)
(* transfer from PAYOUT_DETAILS_PENDING on, where TransferOrchestrator     *)
(* leaves it.  The recipient gives the anchor their details, the API pays  *)
(* the anchor on Stellar and, when the anchor reports the cash collected,  *)
(* settles the escrow (refreshPayout in orchestrator.ts,                   *)
(* fundAndRefreshAnchorPickup in adapters/moneygram.ts,                    *)
(* sendSep24WithdrawalPayment in stellar/anchor.ts).                       *)
(*                                                                         *)
(* Who drives it: the sender's browser (refresh-payout), a sweep every 30  *)
(* seconds for two of the states, and nobody else.  Per transfer one       *)
(* refresh is in flight at a time, as long as the process lives.           *)
(*                                                                         *)
(* The pickup of adapters/moneygram.ts and transfer.pickup are written in  *)
(* the same turn, and the second replaces the first after a restart, so    *)
(* they are one here.  The anchor and the Stellar ledger are external: the *)
(* anchor may move on between any two reads.  A compensation is one step   *)
(* (TransferOrchestrator has its legs), no sweep takes a transfer a        *)
(* handler still works on, "expired" stands for "error" too, and           *)
(* /api/simulate/pickup is left out: it exists in simulations only.        *)
(***************************************************************************)
EXTENDS Integers

CONSTANTS
    Transfers,          \* transfers with an anchor withdrawal
    Workers,            \* bound: refreshes and sweeps in flight at once
    None,
    MaxFaults,          \* bound: calls that throw
    MaxCrashes          \* bound: process crashes

ASSUME WorkerAssumption == None \notin Transfers
ASSUME BoundAssumption == MaxFaults \in Nat /\ MaxCrashes \in Nat

VARIABLES
    cctpLive,      \* CCTP.live: the USDC was burned, not locked; never changes
    state,         \* transfer.state
    hash,          \* is pickup.anchorPaymentHash set?
    seen,          \* pickup.anchorStatus
    collected,     \* is pickup.status "PAID"?
    settled,       \* is "bridge.settle" among transfer.txs?
    pc, job,       \* the await each worker is suspended at, and its transfer
    anchor,        \* external: the status the anchor would report
    account,       \* external: has the anchor named its account?
    payments,      \* on Stellar: payments that reached the anchor
    escrow,        \* on chain: BridgeEscrow.statusOf
    refunded,      \* on chain: was the sender refunded?
    lost,          \* history: payments whose response a crash swallowed
    faults, crashes

pickup   == <<hash, seen, collected>>
control  == <<pc, job>>
external == <<anchor, account>>
money    == <<payments, escrow, refunded>>
bounds   == <<faults, crashes>>
vars == <<cctpLive, state, pickup, settled, control, external, money, lost, bounds>>

-----------------------------------------------------------------------------
\* Mutant: a transfer ready for pickup is not refreshed.
WaitingButReady == {"PAYOUT_DETAILS_PENDING", "PAYOUT_FUNDING_PENDING", "PAYOUT_FUNDED"}

\* The states refreshPayout has something to do in.
Waiting == {"PAYOUT_DETAILS_PENDING", "PAYOUT_FUNDING_PENDING", "PAYOUT_FUNDED",
            "PAYOUT_READY"}
States == Waiting \cup {"PAID", "FAILED", "REFUNDED", "MANUAL_REVIEW"}

Ended == {"expired", "refunded"}
Statuses == {"incomplete", "pending_user_transfer_start",
             "pending_user_transfer_complete", "completed"} \cup Ended

\* The awaits of refreshPayout.
RefreshPc == {"read", "prepare", "submit", "submitted", "poll", "settle", "settleSent"}

TypeOK ==
    /\ cctpLive \in BOOLEAN
    /\ state \in [Transfers -> States]
    /\ hash \in [Transfers -> BOOLEAN] /\ collected \in [Transfers -> BOOLEAN]
    /\ settled \in [Transfers -> BOOLEAN]
    /\ seen \in [Transfers -> Statuses] /\ anchor \in [Transfers -> Statuses]
    /\ pc \in [Workers -> {"idle", "refund"} \cup RefreshPc]
    /\ job \in [Workers -> Transfers \cup {None}]
    /\ \A w \in Workers : job[w] = None <=> pc[w] = "idle"
    /\ account \in [Transfers -> BOOLEAN] /\ refunded \in [Transfers -> BOOLEAN]
    /\ escrow \in [Transfers -> {"NONE", "LOCKED", "SETTLED", "RELEASED"}]
    /\ payments \in [Transfers -> Nat] /\ lost \in [Transfers -> Nat]
    /\ faults \in 0..MaxFaults /\ crashes \in 0..MaxCrashes

\* The withdrawal has just been opened (createCashPickupViaAnchor).
Init ==
    /\ cctpLive \in BOOLEAN
    /\ state = [t \in Transfers |-> "PAYOUT_DETAILS_PENDING"]
    /\ hash = [t \in Transfers |-> FALSE]
    /\ collected = [t \in Transfers |-> FALSE]
    /\ settled = [t \in Transfers |-> FALSE]
    /\ seen = [t \in Transfers |-> "incomplete"]
    /\ anchor = [t \in Transfers |-> "incomplete"]
    /\ account = [t \in Transfers |-> FALSE]
    /\ pc = [w \in Workers |-> "idle"]
    /\ job = [w \in Workers |-> None]
    /\ payments = [t \in Transfers |-> 0]
    /\ escrow = [t \in Transfers |-> IF cctpLive THEN "NONE" ELSE "LOCKED"]
    /\ refunded = [t \in Transfers |-> FALSE]
    /\ lost = [t \in Transfers |-> 0]
    /\ faults = 0 /\ crashes = 0

-----------------------------------------------------------------------------
Begin(w, t, label) == /\ pc' = [pc EXCEPT ![w] = label]
                      /\ job' = [job EXCEPT ![w] = t]

Await(w, label) == pc' = [pc EXCEPT ![w] = label] /\ UNCHANGED job

Return(w) == /\ pc' = [pc EXCEPT ![w] = "idle"]
             /\ job' = [job EXCEPT ![w] = None]

SetState(t, s) == state' = [state EXCEPT ![t] = s]

HoldsEscrow(t) == ~cctpLive /\ ~settled[t]

CashPayoutState(status, paid) ==
    CASE status = "completed" -> "PAID"
      [] status = "pending_user_transfer_complete" -> "PAYOUT_READY"
      [] OTHER ->
            IF paid THEN "PAYOUT_FUNDED"
            ELSE IF status = "pending_user_transfer_start" THEN "PAYOUT_FUNDING_PENDING"
            ELSE "PAYOUT_DETAILS_PENDING"

\* settlePickup: t is set to s on the way, unless there is nothing to settle.
SettlePickup(w, t, s) ==
    \/ HoldsEscrow(t) /\ SetState(t, s) /\ Begin(w, t, "settle")
    \/ ~HoldsEscrow(t) /\ SetState(t, "PAID") /\ Return(w)

\* Mutant: cash that is ready at the counter counts as collected.
FinishWhenReady(w, t, status) ==
    /\ seen' = [seen EXCEPT ![t] = status]
    /\ \/ /\ status \in {"pending_user_transfer_complete", "completed"}
          /\ collected' = [collected EXCEPT ![t] = TRUE]
          /\ SettlePickup(w, t, "PAYOUT_FUNDED")
       \/ /\ status \notin {"pending_user_transfer_complete", "completed"}
          /\ SetState(t, CashPayoutState(status, hash[t]))
          /\ Return(w)
          /\ UNCHANGED collected

\* fundAndRefreshAnchorPickup returns a pickup whose last status is status, and
\* refreshPayoutUnlocked runs on with it.
Finish(w, t, status) ==
    /\ seen' = [seen EXCEPT ![t] = status]
    /\ \/ /\ status = "completed"
          /\ collected' = [collected EXCEPT ![t] = TRUE]
          /\ SettlePickup(w, t, "PAYOUT_FUNDED")
       \/ /\ status # "completed"
          /\ SetState(t, CashPayoutState(status, hash[t]))
          /\ Return(w)
          /\ UNCHANGED collected

\* Mutant: an anchor payment that may have gone out is treated as not made.
GiveUpForgetsPayment(w, t, uncertain) ==
    \/ cctpLive /\ SetState(t, "MANUAL_REVIEW") /\ Return(w)
    \/ ~cctpLive /\ SetState(t, "FAILED") /\ Begin(w, t, "refund")

\* The catch of refreshPayoutUnlocked, and failAndCompensate.
GiveUp(w, t, uncertain) ==
    \/ /\ uncertain \/ hash[t] \/ cctpLive
       /\ SetState(t, "MANUAL_REVIEW")
       /\ Return(w)
    \/ /\ ~uncertain /\ ~hash[t] /\ ~cctpLive
       /\ SetState(t, "FAILED")
       /\ Begin(w, t, "refund")

-----------------------------------------------------------------------------
(* refreshPayout.                                                          *)

\* Mutant: nobody asks whether a refresh of the transfer is in flight.
UnlockedAnyway(t) == TRUE
\* refreshPayoutLocks: a second caller waits for the first one's answer.
Unlocked(t) == \A v \in Workers : job[v] = t => pc[v] \notin RefreshPc

RefreshPayout(w, t) ==
    /\ pc[w] = "idle" /\ state[t] \in Waiting /\ Unlocked(t)
    /\ \/ /\ state[t] = "PAYOUT_FUNDED" /\ collected[t]
          /\ SettlePickup(w, t, state[t])
       \/ /\ ~(state[t] = "PAYOUT_FUNDED" /\ collected[t])
          /\ Begin(w, t, "read")
          /\ UNCHANGED state
    /\ UNCHANGED <<cctpLive, pickup, settled, external, money, lost, bounds>>

\* refreshAnchorPickup, and what is decided on its answer.
Read(w) ==
    LET t == job[w] IN
    /\ pc[w] = "read"
    /\ \/ /\ anchor[t] = "completed" \/ (anchor[t] \in Ended /\ hash[t])
          /\ Finish(w, t, anchor[t])
       \/ /\ anchor[t] \in Ended /\ ~hash[t]
          /\ seen' = [seen EXCEPT ![t] = anchor[t]]
          /\ GiveUp(w, t, FALSE)
          /\ UNCHANGED collected
       \/ /\ anchor[t] \notin Ended \cup {"completed"}
          /\ seen' = [seen EXCEPT ![t] = anchor[t]]
          /\ Await(w, IF hash[t] THEN "poll" ELSE "prepare")
          /\ UNCHANGED <<state, collected>>
    /\ UNCHANGED <<cctpLive, hash, settled, external, money, lost, bounds>>

\* sendSep24WithdrawalPayment up to the submission: the transaction is read
\* again, for the account to pay and not for its status.
Prepare(w) ==
    LET t == job[w] IN
    /\ pc[w] = "prepare"
    /\ \/ account[t] /\ Await(w, "submit") /\ UNCHANGED <<state, pickup>>
       \/ ~account[t] /\ Finish(w, t, seen[t]) /\ UNCHANGED hash
    /\ UNCHANGED <<cctpLive, settled, external, money, lost, bounds>>

\* The payment lands on the ledger.
Submit(w) ==
    /\ pc[w] = "submit"
    /\ payments' = [payments EXCEPT ![job[w]] = @ + 1]
    /\ Await(w, "submitted")
    /\ UNCHANGED <<cctpLive, state, pickup, settled, external, escrow, refunded, lost, bounds>>

\* onPaymentSubmitted: the hash is persisted in the turn it arrives.
Submitted(w) ==
    /\ pc[w] = "submitted"
    /\ hash' = [hash EXCEPT ![job[w]] = TRUE]
    /\ Await(w, "poll")
    /\ UNCHANGED <<cctpLive, state, seen, collected, settled, external, money, lost, bounds>>

\* The last read of the poll loop; a browser's refresh (timeoutMs 0) reads none.
Poll(w) ==
    /\ pc[w] = "poll"
    /\ Finish(w, job[w], anchor[job[w]]) \/ Finish(w, job[w], seen[job[w]])
    /\ UNCHANGED <<cctpLive, hash, settled, external, money, lost, bounds>>

Settle(w) ==
    /\ pc[w] = "settle" /\ escrow[job[w]] = "LOCKED"
    /\ escrow' = [escrow EXCEPT ![job[w]] = "SETTLED"]
    /\ Await(w, "settleSent")
    /\ UNCHANGED <<cctpLive, state, pickup, settled, external, payments, refunded, lost, bounds>>

Settled(w) ==
    /\ pc[w] = "settleSent"
    /\ SetState(job[w], "PAID")
    /\ settled' = [settled EXCEPT ![job[w]] = TRUE]
    /\ Return(w)
    /\ UNCHANGED <<cctpLive, pickup, external, money, lost, bounds>>

-----------------------------------------------------------------------------
(* A call throws.                                                          *)

Fault == faults < MaxFaults /\ faults' = faults + 1 /\ UNCHANGED crashes

\* Past the submission the error is an AnchorPaymentUncertainError.
RefreshFails(w) ==
    /\ pc[w] \in RefreshPc \ {"settle", "settleSent"}
    /\ Fault
    /\ GiveUp(w, job[w], pc[w] \in {"submit", "submitted"})
    /\ UNCHANGED <<cctpLive, pickup, settled, external, money, lost>>

\* settlePickup is returned, not awaited, so no catch sees it fail: the transfer
\* stays as it is.  So it does when the escrow was settled before.
SettleFails(w) ==
    /\ pc[w] \in {"settle", "settleSent"}
    /\ Fault \/ (pc[w] = "settle" /\ escrow[job[w]] # "LOCKED" /\ UNCHANGED bounds)
    /\ Return(w)
    /\ UNCHANGED <<cctpLive, state, pickup, settled, external, money, lost>>

\* compensateTransfer succeeds, or fails before or after it released the escrow.
Refund(w) ==
    LET t == job[w] IN
    /\ pc[w] = "refund" /\ escrow[t] = "LOCKED"
    /\ escrow' = [escrow EXCEPT ![t] = "RELEASED"]
    /\ refunded' = [refunded EXCEPT ![t] = TRUE]
    /\ SetState(t, "REFUNDED")
    /\ Return(w)
    /\ UNCHANGED <<cctpLive, pickup, settled, external, payments, lost, bounds>>

RefundFails(w) ==
    LET t == job[w] IN
    /\ pc[w] = "refund" /\ Fault
    /\ \/ UNCHANGED <<state, escrow>>
       \/ /\ escrow[t] = "LOCKED"
          /\ escrow' = [escrow EXCEPT ![t] = "RELEASED"]
          /\ SetState(t, "MANUAL_REVIEW")
    /\ Return(w)
    /\ UNCHANGED <<cctpLive, pickup, settled, external, payments, refunded, lost>>

SweepFailed(w, t) ==
    /\ pc[w] = "idle" /\ state[t] = "FAILED"
    /\ \A v \in Workers : job[v] # t
    /\ Begin(w, t, "refund")
    /\ UNCHANGED <<cctpLive, state, pickup, settled, external, money, lost, bounds>>

SweepAnchorPayout(w, t) ==
    state[t] \in {"PAYOUT_FUNDING_PENDING", "PAYOUT_FUNDED"} /\ RefreshPayout(w, t)

\* A payment landed and its hash has not come back yet.
InFlight(t) == \E w \in Workers : job[w] = t /\ pc[w] = "submitted"

Crash ==
    /\ crashes < MaxCrashes
    /\ crashes' = crashes + 1
    /\ lost' = [t \in Transfers |-> lost[t] + (IF InFlight(t) THEN 1 ELSE 0)]
    /\ pc' = [w \in Workers |-> "idle"]
    /\ job' = [w \in Workers |-> None]
    /\ UNCHANGED <<cctpLive, state, pickup, settled, external, money, faults>>

-----------------------------------------------------------------------------
(* The anchor.                                                             *)

\* The recipient completed the interactive flow; the account follows.
AnchorAsks(t) ==
    /\ anchor[t] = "incomplete"
    /\ anchor' = [anchor EXCEPT ![t] = "pending_user_transfer_start"]
    /\ account' \in {account, [account EXCEPT ![t] = TRUE]}

AnchorNamesAccount(t) ==
    /\ anchor[t] = "pending_user_transfer_start" /\ ~account[t]
    /\ account' = [account EXCEPT ![t] = TRUE]
    /\ UNCHANGED anchor

AnchorReceives(t) ==
    /\ anchor[t] = "pending_user_transfer_start" /\ payments[t] > 0
    /\ anchor' = [anchor EXCEPT ![t] = "pending_user_transfer_complete"]
    /\ UNCHANGED account

AnchorCompletes(t) ==
    /\ anchor[t] = "pending_user_transfer_complete"
    /\ anchor' = [anchor EXCEPT ![t] = "completed"]
    /\ UNCHANGED account

AnchorGivesUp(t) ==
    /\ \/ /\ anchor[t] \in {"incomplete", "pending_user_transfer_start"}
          /\ payments[t] = 0
          /\ anchor' = [anchor EXCEPT ![t] = "expired"]
       \/ /\ anchor[t] = "pending_user_transfer_complete"
          /\ anchor' = [anchor EXCEPT ![t] = "refunded"]
    /\ UNCHANGED account

AnchorMoves(t) ==
    /\ \/ AnchorAsks(t) \/ AnchorNamesAccount(t) \/ AnchorReceives(t)
       \/ AnchorCompletes(t) \/ AnchorGivesUp(t)
    /\ UNCHANGED <<cctpLive, state, pickup, settled, control, money, lost, bounds>>

-----------------------------------------------------------------------------
Resume(w) ==
    \/ Read(w) \/ Prepare(w) \/ Submit(w) \/ Submitted(w) \/ Poll(w)
    \/ Settle(w) \/ Settled(w) \/ Refund(w)
    \/ RefreshFails(w) \/ SettleFails(w) \/ RefundFails(w)

Next ==
    \/ \E w \in Workers : Resume(w)
    \/ \E w \in Workers, t \in Transfers :
          RefreshPayout(w, t) \/ SweepFailed(w, t) \/ SweepAnchorPayout(w, t)
    \/ \E t \in Transfers : AnchorMoves(t)
    \/ Crash

Spec == Init /\ [][Next]_vars

(***************************************************************************)
(* Fairness.  Every await ends (HTTP timeouts, the poll's deadline), and   *)
(* the timers fire for as long as the process lives.  Whether a browser    *)
(* polls is the sender's business: Attended says that somebody does.  The  *)
(* anchor owes nothing.                                                    *)
(***************************************************************************)
Timers ==
    /\ \A w \in Workers : WF_vars(Resume(w))
    /\ \A t \in Transfers :
          /\ SF_vars(\E w \in Workers : SweepFailed(w, t))
          /\ SF_vars(\E w \in Workers : SweepAnchorPayout(w, t))

Attended == \A t \in Transfers : SF_vars(\E w \in Workers : RefreshPayout(w, t))

AttendedSpec == Spec /\ Timers /\ Attended

-----------------------------------------------------------------------------
(* Correctness.                                                            *)

(***************************************************************************)
(* The anchor is paid at most once, however many browsers and sweeps       *)
(* refresh the transfer, but for a payment whose response died with the    *)
(* process: nothing on disk tells that one was made (onPaymentSubmitted).  *)
(***************************************************************************)
PaidAtMostOnce == \A t \in Transfers : payments[t] <= 1 + lost[t]

(***************************************************************************)
(* A failure that may have moved money never refunds the sender: a refund  *)
(* and a payment to the anchor exclude each other, but for the payments    *)
(* the process died on (the catch of refreshPayoutUnlocked).               *)
(***************************************************************************)
RefundXorPayment == \A t \in Transfers : refunded[t] => payments[t] <= lost[t]

(***************************************************************************)
(* PAID is never claimed early: the anchor reported the cash collected,    *)
(* and what stood for it on chain was settled or burned (settlePickup).    *)
(***************************************************************************)
PaidIsCollected ==
    \A t \in Transfers : state[t] = "PAID" =>
        anchor[t] = "completed" /\ (cctpLive \/ escrow[t] = "SETTLED")

(***************************************************************************)
(* Cash that was collected closes the transfer, while somebody polls: it   *)
(* ends PAID, refunded or under review.  One case is left open: the escrow *)
(* was settled and the record of it lost, and then every later attempt     *)
(* reverts (settlePickup).                                                 *)
(***************************************************************************)
SettledUnrecorded(t) == escrow[t] = "SETTLED" /\ ~settled[t]

CollectedCashCloses ==
    \A t \in Transfers :
        anchor[t] = "completed" ~>
            state[t] \in {"PAID", "REFUNDED", "MANUAL_REVIEW"} \/ SettledUnrecorded(t)
=============================================================================
