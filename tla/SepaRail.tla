------------------------------ MODULE SepaRail ------------------------------
(***************************************************************************)
(* The bank rail: Monerium turns bank money into EURe and back.            *)
(*                                                                         *)
(*   in    a bank transfer becomes an issue order.  The app mirrors every  *)
(*         processed issue order once, told of it by a webhook or finding  *)
(*         it in a poll (adapters/monerium-sandbox.ts, the handler of      *)
(*         POST /api/webhooks/monerium).  Where Monerium issues the real   *)
(*         EURe mirroring only records; on a local chain it mints.         *)
(*   out   executeSepaTransfer moves the fee to the orchestrator, places a *)
(*         redeem order for the rest, which Monerium burns from the Safe   *)
(*         itself, and lets the poll find out how the order ended.         *)
(*                                                                         *)
(* A worker is a handler, a poll tick or a sweep in flight, pc the await   *)
(* it is suspended at, job what it works on and todo what its loops still  *)
(* have to visit.  Ticks come from setInterval and do not wait for each    *)
(* other.  The sweep is TransferOrchestrator's; here it keeps away from    *)
(* running handlers, as it does when no await outlasts ten minutes.        *)
(***************************************************************************)
EXTENDS Integers, FiniteSets

CONSTANTS
    Orders,        \* issue orders Monerium may make for our users
    Profiles,      \* Monerium profiles; /orders answers for one at a time
    ProfileOf,     \* the profile of each order
    Transfers,     \* SEPA transfers, authorized by their sender
    Workers,       \* bound: activities in flight at once
    None,          \* "no job"
    Worlds,        \* the environments considered, see below
    MaxFaults,     \* bound: calls that fail for an outside reason
    MaxCrashes     \* bound: process crashes

(***************************************************************************)
(*   native       Monerium issues the EURe of this chain (moneriumEure)    *)
(*   mock         SECURITY.allowMockFallback                               *)
(*   overlap      may two mirrors be in flight at the same time?           *)
(*   lostAnswers  may a call take effect and its answer still be lost?     *)
(***************************************************************************)
ASSUME SepaAssumption ==
    /\ ProfileOf \in [Orders -> Profiles]
    /\ Worlds \subseteq [native : BOOLEAN, mock : BOOLEAN,
                         overlap : BOOLEAN, lostAnswers : BOOLEAN]
    /\ None \notin Orders \cup Profiles \cup Transfers
    /\ Orders \cap Profiles = {} /\ Orders \cap Transfers = {}
    /\ Profiles \cap Transfers = {}
    /\ MaxFaults \in Nat /\ MaxCrashes \in Nat

VARIABLES
    world,       \* the environment; never changes
    order,       \* Monerium: the state of each issue order
    redeem,      \* Monerium: the state of each transfer's redeem order
    processed,   \* store.processedMoneriumOrders
    webhooks,    \* store.processedMoneriumWebhooks, one delivery id per order
    state,       \* transfer.state
    feeStep,     \* does transfer.txs hold "safe.transfer(fee)"?
    minted,      \* chain: how often an order was minted into the Safe
    feeTaken,    \* chain: fees the Safe is short of for a transfer
    pc, job, todo,
    unheard,     \* history: redeem orders that were placed and not recorded
    faults, crashes

monerium == <<order, redeem>>
store    == <<processed, webhooks, state, feeStep>>
chain    == <<minted, feeTaken>>
control  == <<pc, job, todo>>
bounds   == <<faults, crashes>>
vars     == <<world, monerium, store, chain, control, unheard, bounds>>

-----------------------------------------------------------------------------
Things == Orders \cup Profiles \cup Transfers
MirrorPc == {"read", "credit", "credited"}
TickPc == {"orders", "tick.credit", "tick.credited", "redeems"}
HandlerPc == {"fee", "feeSent", "redeem", "redeemSent"}
CompPc == {"return", "returnSent"}

TypeOK ==
    /\ world \in Worlds
    /\ order \in [Orders -> {"absent", "pending", "processed"}]
    /\ redeem \in [Transfers -> {"none", "placed", "processed", "rejected"}]
    /\ processed \subseteq Orders /\ webhooks \subseteq Orders
    /\ state \in [Transfers -> {"CREATED", "AUTHORIZED", "DEBITED", "PAYOUT_SUBMITTED",
                                "PAID", "FAILED", "REFUNDED"}]
    /\ feeStep \subseteq Transfers
    /\ minted \in [Orders -> Nat] /\ feeTaken \in [Transfers -> Int]
    /\ pc \in [Workers -> {"idle"} \cup MirrorPc \cup TickPc \cup HandlerPc \cup CompPc]
    /\ job \in [Workers -> Things \cup {None}]
    /\ todo \in [Workers -> SUBSET Things]
    /\ unheard \subseteq Transfers
    /\ faults \in 0..MaxFaults /\ crashes \in 0..MaxCrashes

\* AUTHORIZED stands for a CREATED transfer whose authorizedAt is set.
Init ==
    /\ world \in Worlds
    /\ order = [o \in Orders |-> "absent"]
    /\ redeem = [t \in Transfers |-> "none"]
    /\ processed = {} /\ webhooks = {}
    /\ state = [t \in Transfers |-> "CREATED"]
    /\ feeStep = {}
    /\ minted = [o \in Orders |-> 0]
    /\ feeTaken = [t \in Transfers |-> 0]
    /\ pc = [w \in Workers |-> "idle"]
    /\ job = [w \in Workers |-> None]
    /\ todo = [w \in Workers |-> {}]
    /\ unheard = {} /\ faults = 0 /\ crashes = 0

-----------------------------------------------------------------------------
\* Worker w goes on to the await p about x, with `rest` left in its loops.
Await(w, p, x, rest) ==
    /\ pc' = [pc EXCEPT ![w] = p]
    /\ job' = [job EXCEPT ![w] = x]
    /\ todo' = [todo EXCEPT ![w] = rest]

Return(w) == Await(w, "idle", None, {})

Fault == faults < MaxFaults /\ faults' = faults + 1 /\ UNCHANGED crashes

\* Is another worker between reading about an order and marking it?
Mirroring == \E w \in Workers : pc[w] \in MirrorPc \cup (TickPc \ {"redeems"})
MayMirror == world.overlap \/ ~Mirroring

(* Monerium.  An order it rejects is one that stays pending here.          *)

OrderMoves(o) ==
    /\ \/ order[o] = "absent" /\ order' = [order EXCEPT ![o] = "pending"]
       \/ order[o] = "pending" /\ order' = [order EXCEPT ![o] = "processed"]
    /\ UNCHANGED <<world, redeem, store, chain, control, unheard, bounds>>

RedeemDecided(t) ==
    /\ redeem[t] = "placed"
    /\ \E s \in {"processed", "rejected"} : redeem' = [redeem EXCEPT ![t] = s]
    /\ UNCHANGED <<world, order, store, chain, control, unheard, bounds>>

-----------------------------------------------------------------------------
(* Mirroring.                                                              *)

\* Mutant: only the webhook asks whether an order was mirrored before.
MirrorsAgain(o) == order[o] = "processed"
\* mirrorOrder up to its first await: does this order get credited?
Mirrors(o) == order[o] = "processed" /\ o \notin processed

\* A delivery of Monerium about order o reaches the webhook; a delivery id
\* that is spent is answered without another look.
Webhook(w, o) ==
    /\ pc[w] = "idle" /\ MayMirror
    /\ order[o] # "absent" /\ o \notin webhooks
    /\ \/ /\ o \in processed                       \* "duplicate"
          /\ webhooks' = webhooks \cup {o}
          /\ UNCHANGED control
       \/ /\ o \notin processed
          /\ Await(w, "read", o, {})
          /\ UNCHANGED webhooks
    /\ UNCHANGED <<world, monerium, processed, state, feeStep, chain, unheard, bounds>>

\* mirrorOrderById has the order: credited next, or ignored, and an order
\* ignored because it is still pending spends its delivery as well.
OrderRead(w) ==
    /\ pc[w] = "read"
    /\ IF Mirrors(job[w])
       THEN Await(w, "credit", job[w], {}) /\ UNCHANGED webhooks
       ELSE Return(w) /\ webhooks' = webhooks \cup {job[w]}
    /\ UNCHANGED <<world, monerium, processed, state, feeStep, chain, unheard, bounds>>

\* "unavailable": 503, and the delivery id stays good.
OrderUnavailable(w) ==
    /\ pc[w] = "read"
    /\ Fault /\ Return(w)
    /\ UNCHANGED <<world, monerium, store, chain, unheard>>

\* simulateSepaDeposit's mint takes effect; creditDepositFromSafe does nothing.
Credit(w) ==
    /\ pc[w] \in {"credit", "tick.credit"}
    /\ minted' = IF world.native THEN minted ELSE [minted EXCEPT ![job[w]] = @ + 1]
    /\ Await(w, IF pc[w] = "credit" THEN "credited" ELSE "tick.credited", job[w], todo[w])
    /\ UNCHANGED <<world, monerium, store, feeTaken, unheard, bounds>>

\* Mutant: the order is marked whether or not it could be credited.
CreditThrowsMarked(w) ==
    /\ pc[w] \in {"credit", "tick.credit"}
    /\ processed' = processed \cup {job[w]}
    /\ Fault /\ Return(w)
    /\ UNCHANGED <<world, monerium, webhooks, state, feeStep, chain, unheard>>

\* The mint throws, or its receipt is lost: a webhook answers 500 and keeps its
\* id, a tick ends where it is, without a look at the redeem orders.  (Where
\* the EURe is native, moneriumEure gives null when Monerium cannot be reached,
\* and the mint that is then tried is refused.)
CreditThrows(w) ==
    /\ \/ pc[w] \in {"credit", "tick.credit"}
       \/ pc[w] \in {"credited", "tick.credited"} /\ world.lostAnswers /\ ~world.native
    /\ Fault /\ Return(w)
    /\ UNCHANGED <<world, monerium, store, chain, unheard>>

\* pollRedeemOrdersOnce begins: which transfers wait is read once.
WaitingForRedeem == {t \in Transfers : state[t] = "PAYOUT_SUBMITTED"}

\* The tick goes on: to another profile, to the redeem orders or to its end.
NextInTick(w, rest) ==
    \/ \E o \in rest \cap Orders : Await(w, "tick.credit", o, rest \ {o})
    \/ /\ rest \cap Orders = {}
       /\ \E p \in rest \cap Profiles : Await(w, "orders", p, rest \ {p})
    \/ /\ rest \cap (Orders \cup Profiles) = {}
       /\ \E t \in WaitingForRedeem : Await(w, "redeems", t, WaitingForRedeem \ {t})
    \/ rest \cap (Orders \cup Profiles) = {} /\ WaitingForRedeem = {} /\ Return(w)

\* The rest of a list, without what mirrorOrder would return false for.
Unmirrored(rest, marked) == rest \ marked

Credited(w) ==
    /\ pc[w] \in {"credited", "tick.credited"}
    /\ processed' = processed \cup {job[w]}
    /\ \/ /\ pc[w] = "credited"                    \* the webhook's answer
          /\ webhooks' = webhooks \cup {job[w]}
          /\ Return(w)
       \/ /\ pc[w] = "tick.credited"
          /\ NextInTick(w, Unmirrored(todo[w], processed'))
          /\ UNCHANGED webhooks
    /\ UNCHANGED <<world, monerium, state, feeStep, chain, unheard, bounds>>

\* A tick of the poller begins with the first profile.
Tick(w) ==
    /\ pc[w] = "idle" /\ MayMirror
    /\ \E p \in Profiles : Await(w, "orders", p, Profiles \ {p})
    /\ UNCHANGED <<world, monerium, store, chain, unheard, bounds>>

\* A profile's orders arrive.
OrdersRead(w) ==
    /\ pc[w] = "orders"
    /\ NextInTick(w, todo[w] \cup {o \in Orders : ProfileOf[o] = job[w] /\ Mirrors(o)})
    /\ UNCHANGED <<world, monerium, store, chain, unheard, bounds>>

\* A dead profile does not blind the poll to the others.
ProfileDead(w) ==
    /\ pc[w] = "orders"
    /\ Fault /\ NextInTick(w, todo[w])
    /\ UNCHANGED <<world, monerium, store, chain, unheard>>

-----------------------------------------------------------------------------
(* Redeeming.                                                              *)

\* POST /authorize hands the transfer to executeSepaTransfer.
Authorize(w, t) ==
    /\ pc[w] = "idle" /\ state[t] = "CREATED"
    /\ state' = [state EXCEPT ![t] = "AUTHORIZED"]
    /\ Await(w, "fee", t, {})
    /\ UNCHANGED <<world, monerium, processed, webhooks, feeStep, chain, unheard, bounds>>

\* debitSafeFundedSepaFee: the fee leaves the Safe, then that is recorded.
Fee(w) ==
    /\ pc[w] = "fee"
    /\ feeTaken' = [feeTaken EXCEPT ![job[w]] = @ + 1]
    /\ Await(w, "feeSent", job[w], {})
    /\ UNCHANGED <<world, monerium, store, minted, unheard, bounds>>

FeeRecorded(w) ==
    /\ pc[w] = "feeSent"
    /\ state' = [state EXCEPT ![job[w]] = "DEBITED"]
    /\ feeStep' = feeStep \cup {job[w]}
    /\ Await(w, "redeem", job[w], {})
    /\ UNCHANGED <<world, monerium, processed, webhooks, chain, unheard, bounds>>

\* placeOrder reaches Monerium, and its answer the handler.
Redeem(w) ==
    /\ pc[w] = "redeem"
    /\ redeem' = [redeem EXCEPT ![job[w]] = "placed"]
    /\ Await(w, "redeemSent", job[w], {})
    /\ UNCHANGED <<world, order, store, chain, unheard, bounds>>

RedeemRecorded(w) ==
    /\ pc[w] = "redeemSent"
    /\ state' = [state EXCEPT ![job[w]] = "PAYOUT_SUBMITTED"]
    /\ Return(w)
    /\ UNCHANGED <<world, monerium, processed, webhooks, feeStep, chain, unheard, bounds>>

\* compensateTransfer up to its first await: the fee is all that moved, so
\* only the fee goes back; without it FAILED is the whole story.
Compensate(w, t) ==
    IF t \in feeStep THEN Await(w, "return", t, {}) ELSE Return(w)

\* The debit throws before it took effect.
FeeThrows(w) ==
    /\ pc[w] = "fee"
    /\ state' = [state EXCEPT ![job[w]] = "FAILED"]
    /\ Fault /\ Compensate(w, job[w])
    /\ UNCHANGED <<world, monerium, processed, webhooks, feeStep, chain, unheard>>

\* redeemToIban throws: simulated where that is allowed, failed otherwise.
\* Nobody can tell whether the order was placed.
RedeemThrows(w) ==
    /\ \/ pc[w] = "redeem"
       \/ pc[w] = "redeemSent" /\ world.lostAnswers
    /\ Fault
    /\ unheard' = IF pc[w] = "redeemSent" THEN unheard \cup {job[w]} ELSE unheard
    /\ \/ /\ world.mock
          /\ state' = [state EXCEPT ![job[w]] = "PAID"]
          /\ Return(w)
       \/ /\ ~world.mock
          /\ state' = [state EXCEPT ![job[w]] = "FAILED"]
          /\ Compensate(w, job[w])
    /\ UNCHANGED <<world, monerium, processed, webhooks, feeStep, chain>>

\* returnEureToSafe takes effect, and is recorded.
Give(w) ==
    /\ pc[w] = "return"
    /\ feeTaken' = [feeTaken EXCEPT ![job[w]] = @ - 1]
    /\ Await(w, "returnSent", job[w], {})
    /\ UNCHANGED <<world, monerium, store, minted, unheard, bounds>>

Given(w) ==
    /\ pc[w] = "returnSent"
    /\ state' = [state EXCEPT ![job[w]] = "REFUNDED"]
    /\ Return(w)
    /\ UNCHANGED <<world, monerium, processed, webhooks, feeStep, chain, unheard, bounds>>

\* The refund throws before it took effect; the next sweep tries again.
GiveThrows(w) ==
    /\ pc[w] = "return"
    /\ Fault /\ Return(w)
    /\ UNCHANGED <<world, monerium, store, chain, unheard>>

\* Mutant: an order nobody could ask about counts as failed.
RedeemOutcomeGuessed(t, asked) ==
    IF asked /\ redeem[t] = "processed" THEN "PAID"
    ELSE IF ~asked \/ redeem[t] = "rejected" THEN "FAILED" ELSE state[t]

\* Mutant: a rejected order is one that is still under way.
RedeemOutcomeUnlessRejected(t, asked) ==
    IF asked /\ redeem[t] = "processed" THEN "PAID" ELSE state[t]

\* pollRedeemOrdersOnce on the answer about one order; no answer, no change.
RedeemOutcome(t, asked) ==
    IF asked /\ redeem[t] = "processed" THEN "PAID"
    ELSE IF asked /\ redeem[t] = "rejected" THEN "FAILED" ELSE state[t]

RedeemPolled(w) ==
    /\ pc[w] = "redeems"
    /\ \/ /\ state' = [state EXCEPT ![job[w]] = RedeemOutcome(job[w], TRUE)]
          /\ UNCHANGED bounds
       \/ /\ state' = [state EXCEPT ![job[w]] = RedeemOutcome(job[w], FALSE)]
          /\ Fault
    /\ \/ \E t \in todo[w] : Await(w, "redeems", t, todo[w] \ {t})
       \/ todo[w] = {} /\ Return(w)
    /\ UNCHANGED <<world, monerium, processed, webhooks, feeStep, chain, unheard>>

\* sweepStrandedTransfers on this transfer.
Sweep(w, t) ==
    /\ pc[w] = "idle"
    /\ \A v \in Workers : pc[v] \in HandlerPc \cup CompPc => job[v] # t
    /\ state[t] \in {"FAILED", "DEBITED"} /\ t \in feeStep
    /\ state' = [state EXCEPT ![t] = "FAILED"]
    /\ Compensate(w, t)
    /\ UNCHANGED <<world, monerium, processed, webhooks, feeStep, chain, unheard, bounds>>

\* The process dies: whoever was about to record a redeem order never does.
Crash ==
    /\ crashes < MaxCrashes
    /\ crashes' = crashes + 1
    /\ unheard' = unheard \cup {job[w] : w \in {v \in Workers : pc[v] = "redeemSent"}}
    /\ pc' = [w \in Workers |-> "idle"]
    /\ job' = [w \in Workers |-> None]
    /\ todo' = [w \in Workers |-> {}]
    /\ UNCHANGED <<world, monerium, store, chain, faults>>

-----------------------------------------------------------------------------
MoneriumMoves == (\E o \in Orders : OrderMoves(o)) \/ (\E t \in Transfers : RedeemDecided(t))

Resume(w) == \/ OrderRead(w) \/ OrderUnavailable(w) \/ Credit(w) \/ CreditThrows(w)
             \/ Credited(w) \/ OrdersRead(w) \/ ProfileDead(w) \/ Fee(w) \/ FeeRecorded(w)
             \/ Redeem(w) \/ RedeemRecorded(w) \/ FeeThrows(w) \/ RedeemThrows(w)
             \/ Give(w) \/ Given(w) \/ GiveThrows(w) \/ RedeemPolled(w)

Next == \/ MoneriumMoves \/ Crash
        \/ \E w \in Workers :
             \/ Resume(w) \/ Tick(w)
             \/ \E o \in Orders : Webhook(w, o)
             \/ \E t \in Transfers : Authorize(w, t) \/ Sweep(w, t)

(***************************************************************************)
(* A suspended activity resumes, since every wait ends in an answer or a   *)
(* throw; setInterval keeps ticking and the sweep keeps sweeping, though   *)
(* at some instants a worker may be busy, hence SF.  Monerium decides an   *)
(* order that was placed (assumed of it).  Nothing else is assumed: in     *)
(* particular no webhook has to be delivered.                              *)
(***************************************************************************)
Fairness == /\ \A w \in Workers : WF_vars(Resume(w))
            /\ SF_vars(\E w \in Workers : Tick(w))
            /\ \A t \in Transfers : /\ SF_vars(\E w \in Workers : Sweep(w, t))
                                    /\ WF_vars(RedeemDecided(t))

Spec == Init /\ [][Next]_vars /\ Fairness

-----------------------------------------------------------------------------
(***************************************************************************)
(* Asking about an order again, by webhook, redelivery or poll, never      *)
(* credits it again ("markOrderProcessed makes a repeat a no-op"), where   *)
(* the check and the mark of one order are not separated: mirrors one      *)
(* after the other, no receipt lost and no crash.                          *)
(***************************************************************************)
CreditedOnce ==
    ~world.overlap /\ ~world.lostAnswers /\ crashes = 0 => \A o \in Orders : minted[o] <= 1

(***************************************************************************)
(* A sender whose fee was given back has no redeem order that was or may   *)
(* still be paid out, but for orders whose placing the process never got   *)
(* to hear of.                                                             *)
(***************************************************************************)
RefundXorPayout ==
    \A t \in Transfers :
        state[t] = "REFUNDED" /\ t \notin unheard => redeem[t] \in {"none", "rejected"}

(***************************************************************************)
(* Every bank transfer that Monerium processed is credited and marked in   *)
(* the end, though a delivery may have been spent while the order was      *)
(* pending, another one lost, and polls and credits may have failed.       *)
(***************************************************************************)
EveryOrderArrives ==
    \A o \in Orders : order[o] = "processed" ~>
        o \in processed /\ (world.native \/ minted[o] >= 1)

(***************************************************************************)
(* A payout that was submitted ends PAID or with the fee given back.       *)
(***************************************************************************)
EveryPayoutEnds ==
    \A t \in Transfers :
        state[t] = "PAYOUT_SUBMITTED" ~> state[t] \in {"PAID", "REFUNDED"}
=============================================================================
