------------------------ MODULE TransferOrchestratorProofs ------------------------
(***************************************************************************)
(* Theorems about TransferOrchestrator, for every set of transfers and     *)
(* workers, every deployment and every bound.                              *)
(***************************************************************************)
EXTENDS TransferOrchestrator, FiniteSetTheorems, TLAPS

(***************************************************************************)
(* Every variable keeps its type; the balances at the orchestrator's       *)
(* address never go negative, and a worker has a transfer exactly while it *)
(* is suspended at an await.                                               *)
(***************************************************************************)
LEMMA TypeInit == Init => TypeOK
  BY MoneyAssumption, BoundAssumption
  DEF Init, TypeOK, States, NotRefunded, Start, Send

\* The execution keeps the types: it spends USDC and EURe only where there is some.
LEMMA TypeExecute ==
  ASSUME TypeOK, NEW w \in Workers, Execute(w)
  PROVE  TypeOK'
<1> USE MoneyAssumption, WorkerAssumption
    DEF TypeOK, records, control, chain, bounds, Await, Record, Return, Send,
        States, ExecPc, CompPc, ReversePc, SettlePc, Steps
<1>1. CASE Debit(w)           BY <1>1 DEF Debit
<1>2. CASE DebitRecorded(w)   BY <1>2 DEF DebitRecorded
<1>3. CASE Swap(w)            BY <1>3 DEF Swap
<1>4. CASE SwapRecorded(w)    BY <1>4 DEF SwapRecorded, SwapStep
<1>5. CASE Lock(w)            BY <1>5 DEF Lock
<1>6. CASE Burn(w)            BY <1>6 DEF Burn
<1>7. CASE BurnConfirmed(w)   BY <1>7 DEF BurnConfirmed
<1>8. CASE BridgeRecorded(w)  BY <1>8 DEF BridgeRecorded
<1>9. CASE PickupCreated(w)   BY <1>9 DEF PickupCreated
<1>10. QED
  BY <1>1, <1>2, <1>3, <1>4, <1>5, <1>6, <1>7, <1>8, <1>9 DEF Execute

\* So does a compensation.
LEMMA TypeCompensate ==
  ASSUME TypeOK, NEW w \in Workers, Compensate(w)
  PROVE  TypeOK'
<1> USE MoneyAssumption, WorkerAssumption
    DEF TypeOK, records, control, chain, bounds, Await, Return, Refunded, Send,
        FeeBack, States, ExecPc, CompPc, ReversePc, SettlePc, Steps
<1>1. CASE Release(w)         BY <1>1 DEF Release
<1>2. CASE Released(w)        BY <1>2 DEF Released, AfterRelease
<1>3. CASE ReverseSwap(w)     BY <1>3 DEF ReverseSwap
<1>4. CASE ReverseSwapped(w)  BY <1>4 DEF ReverseSwapped
<1>5. CASE ReturnFee(w)       BY <1>5 DEF ReturnFee
<1>6. CASE FeeReturned(w)     BY <1>6 DEF FeeReturned
<1>7. CASE ReturnEure(w)      BY <1>7 DEF ReturnEure
<1>8. CASE EureReturned(w)    BY <1>8 DEF EureReturned
<1>9. QED
  BY <1>1, <1>2, <1>3, <1>4, <1>5, <1>6, <1>7, <1>8 DEF Compensate

\* The part of a compensation that runs before its first await.
LEMMA TypeCompensateTransfer ==
  ASSUME TypeOK, NEW w \in Workers, NEW t \in Transfers, NEW s,
         CompensateTransfer(w, t, s)
  PROVE  /\ refund' \in [Transfers -> Nat \cup {NotRefunded}]
         /\ pc' \in [Workers -> {"idle"} \cup ExecPc \cup CompPc \cup SettlePc]
         /\ job' \in [Workers -> Transfers \cup {None}]
         /\ \A v \in Workers : job'[v] = None <=> pc'[v] = "idle"
         /\ back' \in [Workers -> Nat]
  BY WorkerAssumption
  DEF TypeOK, CompensateTransfer, Begin, Return, FirstLeg, AfterRelease, CompPc, ReversePc

\* The same for a leg that throws, whether or not it is compensated at once.
LEMMA TypeFailAndCompensate ==
  ASSUME TypeOK, NEW w \in Workers, NEW t \in Transfers, NEW new \in SUBSET Steps,
         FailAndCompensate(w, t, new)
  PROVE  /\ state' \in [Transfers -> States]
         /\ steps' \in [Transfers -> SUBSET Steps]
         /\ UNCHANGED authorizedAt
         /\ refund' \in [Transfers -> Nat \cup {NotRefunded}]
         /\ pc' \in [Workers -> {"idle"} \cup ExecPc \cup CompPc \cup SettlePc]
         /\ job' \in [Workers -> Transfers \cup {None}]
         /\ \A v \in Workers : job'[v] = None <=> pc'[v] = "idle"
         /\ back' \in [Workers -> Nat]
<1>1. CASE "cctp.burn" \in steps[t] \cup new
  BY <1>1, WorkerAssumption DEF TypeOK, FailAndCompensate, Record, Return, States
<1>2. CASE "cctp.burn" \notin steps[t] \cup new
  <2>1. Record(t, "FAILED", new) /\ CompensateTransfer(w, t, steps[t] \cup new)
    BY <1>2 DEF FailAndCompensate
  <2>2. QED
    BY <2>1, TypeCompensateTransfer DEF TypeOK, Record, States
<1>3. QED
  BY <1>1, <1>2

\* Every failing leg keeps the types.
LEMMA TypeFails ==
  ASSUME TypeOK, NEW w \in Workers, Fails(w)
  PROVE  TypeOK'
<1> DEFINE J == job[w]
<1>1. /\ UNCHANGED <<deploy, world>>
      /\ faults' \in 0..MaxFaults /\ crashes' \in 0..MaxCrashes
  BY BoundAssumption
  DEF TypeOK, Fails, ExecLegFails, AnchorRefuses, CompLegFails, ReverseFails,
      SettleFails, Throws, bounds
<1>2. J \in Transfers
  BY DEF TypeOK, Fails, ExecLegFails, AnchorRefuses, CompLegFails, ReverseFails,
         SettleFails, ExecPc, CompPc, ReversePc, SettlePc
<1>3. CASE ExecLegFails(w)
  <2> DEFINE new == IF pc[w] = "attest" THEN {"cctp.burn"} ELSE {}
  <2>1. FailAndCompensate(w, J, new) /\ UNCHANGED <<pickup, chain>>
    BY <1>3 DEF ExecLegFails
  <2>2. new \in SUBSET Steps
    BY DEF Steps
  <2>3. QED
    BY <1>1, <1>2, <2>1, <2>2, TypeFailAndCompensate DEF TypeOK, chain
<1>4. CASE AnchorRefuses(w)
  <2>1. CASE deploy.allowMockFallback
    BY <1>1, <1>2, <1>4, <2>1, WorkerAssumption
    DEF AnchorRefuses, TypeOK, Record, Return, chain, States
  <2>2. CASE ~deploy.allowMockFallback
    <3>1. FailAndCompensate(w, J, {}) /\ UNCHANGED <<pickup, chain>>
      BY <1>4, <2>2 DEF AnchorRefuses
    <3>2. QED
      BY <1>1, <1>2, <3>1, TypeFailAndCompensate DEF TypeOK, chain
  <2>3. QED
    BY <2>1, <2>2
<1>5. CASE CompLegFails(w)
  BY <1>1, <1>2, <1>5, WorkerAssumption
  DEF CompLegFails, TypeOK, Return, records, chain
<1>6. CASE ReverseFails(w)
  BY <1>1, <1>2, <1>6, WorkerAssumption
  DEF ReverseFails, TypeOK, Record, Return, chain, States
<1>7. CASE SettleFails(w)
  BY <1>1, <1>2, <1>7, WorkerAssumption
  DEF SettleFails, TypeOK, Return, records, chain
<1>8. QED
  BY <1>3, <1>4, <1>5, <1>6, <1>7 DEF Fails

\* So does everything that puts an idle worker on a transfer.
LEMMA TypeStart ==
  ASSUME TypeOK, NEW w \in Workers, NEW t \in Transfers,
         Authorize(w, t) \/ Sweep(w, t) \/ SettlePickup(w, t)
  PROVE  TypeOK'
<1> USE WorkerAssumption
<1>1. CASE Authorize(w, t)
  BY <1>1 DEF Authorize, TypeOK, Begin, ExecPc, chain, bounds
<1>2. CASE SweepFailed(w, t)
  BY <1>2 DEF SweepFailed, TypeOK, Begin, FirstLeg, AfterRelease, CompPc, ReversePc,
              records, chain, bounds
<1>3. CASE SweepStranded(w, t)
  <2>1. /\ Record(t, "FAILED", {}) /\ CompensateTransfer(w, t, steps[t])
        /\ UNCHANGED <<deploy, world, pickup, chain, bounds>>
    BY <1>3 DEF SweepStranded
  <2>2. QED
    BY <2>1, TypeCompensateTransfer DEF TypeOK, Record, States, chain, bounds
<1>4. CASE SettlePickup(w, t)
  BY <1>4 DEF SettlePickup, TypeOK, Begin, Record, MarkPaid, SettlePc, States,
              records, control, chain, bounds
<1>5. QED
  BY <1>1, <1>2, <1>3, <1>4 DEF Sweep

\* And the settlement of a pickup.
LEMMA TypeSettle ==
  ASSUME TypeOK, NEW w \in Workers, Settle(w) \/ Settled(w)
  PROVE  TypeOK'
  BY WorkerAssumption
  DEF Settle, Settled, TypeOK, Await, Record, Return, MarkPaid, SettlePc, States, Steps,
      records, chain, bounds

\* Every step of the system keeps the types.
LEMMA TypeStep == TypeOK /\ [Next]_vars => TypeOK'
<1> SUFFICES ASSUME TypeOK, [Next]_vars PROVE TypeOK'
  OBVIOUS
<1>1. CASE Crash
  BY <1>1, WorkerAssumption, BoundAssumption DEF Crash, TypeOK, records, chain
<1>2. CASE UNCHANGED vars
  BY <1>2 DEF vars, records, control, chain, bounds, TypeOK
<1>3. ASSUME NEW w \in Workers, Resume(w)
      PROVE  TypeOK'
  BY <1>3, TypeExecute, TypeCompensate, TypeSettle, TypeFails DEF Resume
<1>4. ASSUME NEW w \in Workers, NEW t \in Transfers,
             Authorize(w, t) \/ Sweep(w, t) \/ SettlePickup(w, t)
      PROVE  TypeOK'
  BY <1>4, TypeStart
<1>5. QED
  BY <1>1, <1>2, <1>3, <1>4 DEF Next

\* TypeOK always holds: no balance of the orchestrator goes negative, and a worker
\* has a transfer exactly while it is suspended at an await.
THEOREM TypeCorrect == Spec => []TypeOK
<1>1. QED
  BY TypeInit, TypeStep, PTL DEF Spec

-----------------------------------------------------------------------------
(***************************************************************************)
(* One authorization spends once.  The claim is what makes it so: until a  *)
(* transfer is claimed nobody works on it and its Safe is whole, and the   *)
(* handler that claimed it is alone with it until the debit is on chain.   *)
(***************************************************************************)
DebitInv ==
    /\ \A t \in Transfers : safe[t] >= Start - Send
    /\ \A t \in Transfers : ~authorizedAt[t] =>
          /\ state[t] = "CREATED" /\ safe[t] >= Start
          /\ \A w \in Workers : job[w] # t
    /\ \A w \in Workers : pc[w] = "debit" =>
          /\ state[job[w]] = "CREATED" /\ safe[job[w]] >= Start
          /\ \A v \in Workers : job[v] = job[w] => v = w

\* Nobody has been debited at first.
LEMMA DebitInit == Init => DebitInv
  BY MoneyAssumption, WorkerAssumption DEF Init, DebitInv, Start, Send

\* What a compensation does to its worker before the first await.
GoesOn(w, t) ==
    \E label \in {"idle", "release", "reverse", "return"}, j \in {t, None} :
       /\ pc' = [pc EXCEPT ![w] = label] /\ job' = [job EXCEPT ![w] = j]
       /\ label = "idle" <=> j = None

\* compensateTransfer only ends its worker or sends it to its first leg.
LEMMA CompensateTransferControl ==
  ASSUME TypeOK, NEW w \in Workers, NEW t \in Transfers, NEW s,
         CompensateTransfer(w, t, s)
  PROVE  GoesOn(w, t)
<1>1. CASE Return(w)
  BY <1>1 DEF GoesOn, Return
<1>2. CASE Begin(w, t, FirstLeg(s))
  BY <1>2, WorkerAssumption DEF GoesOn, Begin, FirstLeg, AfterRelease
<1>3. QED
  BY <1>1, <1>2 DEF CompensateTransfer

\* failAndCompensate does no more than that to the worker, and leaves CREATED.
LEMMA FailAndCompensateControl ==
  ASSUME TypeOK, NEW w \in Workers, NEW t \in Transfers, NEW new,
         FailAndCompensate(w, t, new)
  PROVE  /\ \E s \in {"FAILED", "MANUAL_REVIEW"} :
               Record(t, s, new) /\ (s = "FAILED" \/ pc'[w] = "idle")
         /\ GoesOn(w, t)
<1>1. CASE Return(w) /\ Record(t, "MANUAL_REVIEW", new)
  BY <1>1 DEF GoesOn, Return, TypeOK
<1>2. CASE Record(t, "FAILED", new) /\ CompensateTransfer(w, t, steps[t] \cup new)
  BY <1>2, CompensateTransferControl
<1>3. QED
  BY <1>1, <1>2 DEF FailAndCompensate

\* No step debits a Safe that was debited before.
LEMMA DebitStep == TypeOK /\ DebitInv /\ [Next]_vars => DebitInv'
<1> SUFFICES ASSUME TypeOK, DebitInv, [Next]_vars PROVE DebitInv'
  OBVIOUS
<1> USE MoneyAssumption, WorkerAssumption
    DEF TypeOK, DebitInv, Send, Start, records, control, chain, bounds
<1>1. ASSUME NEW w \in Workers, Execute(w)
      PROVE  DebitInv'
  <2> USE DEF Await, Record, Return
  <2>1. CASE Debit(w)           BY <2>1 DEF Debit
  <2>2. CASE DebitRecorded(w)   BY <2>2 DEF DebitRecorded
  <2>3. CASE Swap(w)            BY <2>3 DEF Swap
  <2>4. CASE SwapRecorded(w)    BY <2>4 DEF SwapRecorded
  <2>5. CASE Lock(w)            BY <2>5 DEF Lock
  <2>6. CASE Burn(w)            BY <2>6 DEF Burn
  <2>7. CASE BurnConfirmed(w)   BY <2>7 DEF BurnConfirmed
  <2>8. CASE BridgeRecorded(w)  BY <2>8 DEF BridgeRecorded
  <2>9. CASE PickupCreated(w)   BY <2>9 DEF PickupCreated
  <2>10. QED
    BY <1>1, <2>1, <2>2, <2>3, <2>4, <2>5, <2>6, <2>7, <2>8, <2>9 DEF Execute
<1>2. ASSUME NEW w \in Workers, Compensate(w)
      PROVE  DebitInv'
  <2> USE DEF Await, Return, Refunded
  <2>1. CASE Release(w)         BY <2>1 DEF Release
  <2>2. CASE Released(w)        BY <2>2 DEF Released, AfterRelease
  <2>3. CASE ReverseSwap(w)     BY <2>3 DEF ReverseSwap
  <2>4. CASE ReverseSwapped(w)  BY <2>4 DEF ReverseSwapped
  <2>5. CASE ReturnFee(w)       BY <2>5 DEF ReturnFee, FeeBack
  <2>6. CASE FeeReturned(w)     BY <2>6 DEF FeeReturned
  <2>7. CASE ReturnEure(w)      BY <2>7 DEF ReturnEure
  <2>8. CASE EureReturned(w)    BY <2>8 DEF EureReturned
  <2>9. QED
    BY <1>2, <2>1, <2>2, <2>3, <2>4, <2>5, <2>6, <2>7, <2>8 DEF Compensate
<1>3. ASSUME NEW w \in Workers, Fails(w)
      PROVE  DebitInv'
  <2>1. CASE ExecLegFails(w)
    <3>1. PICK new : FailAndCompensate(w, job[w], new)
      BY <2>1 DEF ExecLegFails
    <3>2. /\ pc[w] \in ExecPc \ {"pickup"} /\ job[w] \in Transfers
          /\ UNCHANGED <<pickup, safe>>
      BY <2>1 DEF ExecLegFails, ExecPc
    <3>3. PICK s \in {"FAILED", "MANUAL_REVIEW"} : Record(job[w], s, new)
      BY <3>1, <3>2, FailAndCompensateControl
    <3>4. PICK label \in {"idle", "release", "reverse", "return"}, j \in {job[w], None} :
           /\ pc' = [pc EXCEPT ![w] = label] /\ job' = [job EXCEPT ![w] = j]
           /\ label = "idle" <=> j = None
      BY <3>1, <3>2, FailAndCompensateControl DEF GoesOn
    <3>5. QED
      BY <3>2, <3>3, <3>4 DEF Record, ExecPc
  <2>2. CASE AnchorRefuses(w)
    <3>1. pc[w] = "pickup" /\ job[w] \in Transfers /\ UNCHANGED safe
      BY <2>2 DEF AnchorRefuses
    <3>2. CASE deploy.allowMockFallback
      BY <2>2, <3>1, <3>2 DEF AnchorRefuses, Record, Return
    <3>3. CASE ~deploy.allowMockFallback
      <4>1. FailAndCompensate(w, job[w], {}) /\ UNCHANGED pickup
        BY <2>2, <3>3 DEF AnchorRefuses
      <4>2. PICK s \in {"FAILED", "MANUAL_REVIEW"} : Record(job[w], s, {})
        BY <3>1, <4>1, FailAndCompensateControl
      <4>3. PICK label \in {"idle", "release", "reverse", "return"}, j \in {job[w], None} :
             /\ pc' = [pc EXCEPT ![w] = label] /\ job' = [job EXCEPT ![w] = j]
             /\ label = "idle" <=> j = None
        BY <3>1, <4>1, FailAndCompensateControl DEF GoesOn
      <4>4. QED
        BY <3>1, <4>1, <4>2, <4>3 DEF Record
    <3>4. QED
      BY <3>2, <3>3
  <2>3. CASE CompLegFails(w)    BY <2>3 DEF CompLegFails, Return
  <2>4. CASE ReverseFails(w)    BY <2>4 DEF ReverseFails, Record, Return, ReversePc
  <2>5. CASE SettleFails(w)     BY <2>5 DEF SettleFails, Return
  <2>6. QED
    BY <1>3, <2>1, <2>2, <2>3, <2>4, <2>5 DEF Fails
<1>4. ASSUME NEW w \in Workers, NEW t \in Transfers,
             Authorize(w, t) \/ Sweep(w, t) \/ SettlePickup(w, t)
      PROVE  DebitInv'
  <2>1. CASE Authorize(w, t)    BY <2>1 DEF Authorize, Begin
  <2>2. CASE SweepFailed(w, t)  BY <2>2 DEF SweepFailed, Begin, FirstLeg, AfterRelease
  <2>3. CASE SweepStranded(w, t)
    <3>1. /\ state[t] \in {"DEBITED", "SWAPPED", "BRIDGED"}
          /\ state' = [state EXCEPT ![t] = "FAILED"] /\ UNCHANGED <<authorizedAt, safe>>
      BY <2>3 DEF SweepStranded, Record
    <3>2. PICK label \in {"idle", "release", "reverse", "return"}, j \in {t, None} :
             pc' = [pc EXCEPT ![w] = label] /\ job' = [job EXCEPT ![w] = j]
      BY <2>3, CompensateTransferControl DEF SweepStranded, GoesOn
    <3>3. authorizedAt[t]
      BY <3>1
    <3>4. QED
      BY <3>1, <3>2, <3>3
  <2>4. CASE SettlePickup(w, t) BY <2>4 DEF SettlePickup, Begin, Record
  <2>5. QED
    BY <1>4, <2>1, <2>2, <2>3, <2>4 DEF Sweep
<1>5. ASSUME NEW w \in Workers, Settle(w) \/ Settled(w)
      PROVE  DebitInv'
  BY <1>5 DEF Settle, Settled, Await, Record, Return
<1>6. CASE Crash                BY <1>6 DEF Crash
<1>7. CASE UNCHANGED vars       BY <1>7 DEF vars
<1>8. QED
  BY <1>1, <1>2, <1>3, <1>4, <1>5, <1>6, <1>7 DEF Next, Resume

\* NeverDebitedTwice always holds: whatever is submitted, retried, swept, crashed or
\* restarted, one authorization moves at most one debit out of the Safe.
THEOREM DebitedOnce == Spec => []NeverDebitedTwice
<1>1. DebitInv => NeverDebitedTwice
  BY DEF DebitInv, NeverDebitedTwice
<1>2. QED
  BY <1>1, TypeInit, TypeStep, DebitInit, DebitStep, PTL DEF Spec

(***************************************************************************)
(* A recipient is paid only against committed USDC: what the records say   *)
(* about the bridge leg is on chain, and SETTLED is for ever.              *)
(***************************************************************************)
\* The bridge leg of either kind has been recorded.
Bridged(s) == "bridge.lockForPayout" \in s \/ "cctp.burn" \in s

\* Every record of the bridge leg, and every worker past it, has the chain behind it.
BackingInv ==
    /\ \A t \in Transfers :
          /\ "cctp.burn" \in steps[t] => t \in burned
          /\ "bridge.settle" \in steps[t] => escrow[t] = "SETTLED"
          /\ state[t] = "PAYOUT_READY" => Bridged(steps[t])
          /\ pickup[t] = "PAID" => escrow[t] = "SETTLED" \/ t \in burned
    /\ \A w \in Workers :
          /\ pc[w] \in {"burnSent", "attest"} => job[w] \in burned
          /\ pc[w] = "pickup" => Bridged(steps[job[w]])
          /\ pc[w] = "settleSent" => escrow[job[w]] = "SETTLED"

\* At first there is no record to back.
LEMMA BackingInit == Init => BackingInv
  BY DEF Init, BackingInv

\* No step records a bridge leg or a payout that is not on chain.
LEMMA BackingStep == TypeOK /\ BackingInv /\ [Next]_vars => BackingInv'
<1> SUFFICES ASSUME TypeOK, BackingInv, [Next]_vars PROVE BackingInv'
  OBVIOUS
<1> USE MoneyAssumption, WorkerAssumption
    DEF TypeOK, BackingInv, Bridged, records, control, chain, bounds
<1>1. ASSUME NEW w \in Workers, Execute(w)
      PROVE  BackingInv'
  <2> USE DEF Await, Record, Return
  <2>1. CASE Debit(w)           BY <2>1 DEF Debit
  <2>2. CASE DebitRecorded(w)   BY <2>2 DEF DebitRecorded
  <2>3. CASE Swap(w)            BY <2>3 DEF Swap
  <2>4. CASE SwapRecorded(w)    BY <2>4 DEF SwapRecorded, SwapStep
  <2>5. CASE Lock(w)            BY <2>5 DEF Lock
  <2>6. CASE Burn(w)            BY <2>6 DEF Burn
  <2>7. CASE BurnConfirmed(w)   BY <2>7 DEF BurnConfirmed
  <2>8. CASE BridgeRecorded(w)  BY <2>8 DEF BridgeRecorded
  <2>9. CASE PickupCreated(w)   BY <2>9 DEF PickupCreated
  <2>10. QED
    BY <1>1, <2>1, <2>2, <2>3, <2>4, <2>5, <2>6, <2>7, <2>8, <2>9 DEF Execute
<1>2. ASSUME NEW w \in Workers, Compensate(w)
      PROVE  BackingInv'
  <2> USE DEF Await, Return, Refunded
  <2>1. CASE Release(w)         BY <2>1 DEF Release
  <2>2. CASE Released(w)        BY <2>2 DEF Released, AfterRelease
  <2>3. CASE ReverseSwap(w)     BY <2>3 DEF ReverseSwap
  <2>4. CASE ReverseSwapped(w)  BY <2>4 DEF ReverseSwapped
  <2>5. CASE ReturnFee(w)       BY <2>5 DEF ReturnFee
  <2>6. CASE FeeReturned(w)     BY <2>6 DEF FeeReturned
  <2>7. CASE ReturnEure(w)      BY <2>7 DEF ReturnEure
  <2>8. CASE EureReturned(w)    BY <2>8 DEF EureReturned
  <2>9. QED
    BY <1>2, <2>1, <2>2, <2>3, <2>4, <2>5, <2>6, <2>7, <2>8 DEF Compensate
<1>3. ASSUME NEW w \in Workers, Fails(w)
      PROVE  BackingInv'
  <2>1. CASE ExecLegFails(w)
    <3> DEFINE new == IF pc[w] = "attest" THEN {"cctp.burn"} ELSE {}
    <3>1. /\ FailAndCompensate(w, job[w], new) /\ job[w] \in Transfers
          /\ UNCHANGED <<pickup, chain>>
      BY <2>1 DEF ExecLegFails, ExecPc
    <3>2. new \subseteq {"cctp.burn"} /\ (new # {} => job[w] \in burned)
      OBVIOUS
    <3>3. PICK s \in {"FAILED", "MANUAL_REVIEW"} : Record(job[w], s, new)
      BY <3>1, FailAndCompensateControl
    <3>4. PICK label \in {"idle", "release", "reverse", "return"}, j \in {job[w], None} :
             pc' = [pc EXCEPT ![w] = label] /\ job' = [job EXCEPT ![w] = j]
      BY <3>1, FailAndCompensateControl DEF GoesOn
    <3> HIDE DEF new
    <3>5. /\ state' = [state EXCEPT ![job[w]] = s]
          /\ steps' = [steps EXCEPT ![job[w]] = @ \cup new]
      BY <3>3 DEF Record
    <3>6. \A t \in Transfers : steps[t] \subseteq steps'[t]
      BY <3>5
    <3>7. \A t \in Transfers :
             /\ "cctp.burn" \in steps'[t] => t \in burned'
             /\ "bridge.settle" \in steps'[t] => escrow'[t] = "SETTLED"
             /\ state'[t] = "PAYOUT_READY" => Bridged(steps'[t])
             /\ pickup'[t] = "PAID" => escrow'[t] = "SETTLED" \/ t \in burned'
      BY <3>1, <3>2, <3>3, <3>5
    <3>8. \A v \in Workers :
             /\ pc'[v] \in {"burnSent", "attest"} => job'[v] \in burned'
             /\ pc'[v] = "pickup" => Bridged(steps'[job'[v]])
             /\ pc'[v] = "settleSent" => escrow'[job'[v]] = "SETTLED"
      BY <3>1, <3>4, <3>6
    <3>9. QED
      BY <3>7, <3>8
  <2>2. CASE AnchorRefuses(w)
    <3>1. job[w] \in Transfers /\ Bridged(steps[job[w]]) /\ UNCHANGED chain
      BY <2>2 DEF AnchorRefuses
    <3>2. CASE deploy.allowMockFallback
      BY <2>2, <3>1, <3>2 DEF AnchorRefuses, Record, Return
    <3>3. CASE ~deploy.allowMockFallback
      <4>1. FailAndCompensate(w, job[w], {}) /\ UNCHANGED pickup
        BY <2>2, <3>3 DEF AnchorRefuses
      <4>2. PICK s \in {"FAILED", "MANUAL_REVIEW"} : Record(job[w], s, {})
        BY <3>1, <4>1, FailAndCompensateControl
      <4>3. GoesOn(w, job[w])
      BY <3>1, <4>1, FailAndCompensateControl
      <4>4. QED
        BY <3>1, <4>1, <4>2, <4>3 DEF Record, GoesOn
    <3>4. QED
      BY <3>2, <3>3
  <2>3. CASE CompLegFails(w)    BY <2>3 DEF CompLegFails, Return
  <2>4. CASE ReverseFails(w)    BY <2>4 DEF ReverseFails, Record, Return, ReversePc
  <2>5. CASE SettleFails(w)     BY <2>5 DEF SettleFails, Return
  <2>6. QED
    BY <1>3, <2>1, <2>2, <2>3, <2>4, <2>5 DEF Fails
<1>4. ASSUME NEW w \in Workers, NEW t \in Transfers,
             Authorize(w, t) \/ Sweep(w, t) \/ SettlePickup(w, t)
      PROVE  BackingInv'
  <2>1. CASE Authorize(w, t)    BY <2>1 DEF Authorize, Begin
  <2>2. CASE SweepFailed(w, t)  BY <2>2 DEF SweepFailed, Begin, FirstLeg, AfterRelease
  <2>3. CASE SweepStranded(w, t)
    <3>1. /\ pc[w] = "idle" /\ job[w] = None
          /\ state' = [state EXCEPT ![t] = "FAILED"]
          /\ steps' = [steps EXCEPT ![t] = @ \cup {}]
          /\ UNCHANGED <<escrow, burned, pickup>>
      BY <2>3 DEF SweepStranded, Record
    <3>2. PICK label \in {"idle", "release", "reverse", "return"}, j \in {t, None} :
             pc' = [pc EXCEPT ![w] = label] /\ job' = [job EXCEPT ![w] = j]
      BY <2>3, CompensateTransferControl DEF SweepStranded, GoesOn
    <3>3. steps' = steps
      BY <3>1
    <3>4. QED
      BY <3>1, <3>2, <3>3
  <2>4. CASE SettlePickup(w, t)
    BY <2>4 DEF SettlePickup, Begin, Record, MarkPaid, HoldsEscrow
  <2>5. QED
    BY <1>4, <2>1, <2>2, <2>3, <2>4 DEF Sweep
<1>5. CASE \E w \in Workers : Settle(w) \/ Settled(w)
  BY <1>5 DEF Settle, Settled, Await, Record, Return, MarkPaid
<1>6. CASE Crash                BY <1>6 DEF Crash
<1>7. CASE UNCHANGED vars       BY <1>7 DEF vars
<1>8. QED
  BY <1>1, <1>2, <1>3, <1>4, <1>5, <1>6, <1>7 DEF Next, Resume

\* PaidIsBacked always holds: whoever is marked paid has a settled escrow or a burn
\* behind the payout, in every environment.
THEOREM PaidOnlyIfBacked == Spec => []PaidIsBacked
<1>1. BackingInv => PaidIsBacked
  BY DEF BackingInv, PaidIsBacked
<1>2. QED
  BY <1>1, TypeInit, TypeStep, BackingInit, BackingStep, PTL DEF Spec

(***************************************************************************)
(* Refund or payout, never both.  In a timely world a transfer that has    *)
(* not come to rest has one worker, and the await it is suspended at       *)
(* determines the transfer's state; a state on the way to the payout       *)
(* determines the Safe.                                                    *)
(***************************************************************************)
\* The await a worker is suspended at tells the state of its transfer.
AtHome(w) ==
    LET s == state[job[w]] IN
    /\ pc[w] \in {"debit", "debitSent"} => s = "CREATED"
    /\ pc[w] \in {"swap", "swapSent"} => s = "DEBITED"
    /\ pc[w] \in {"bridge", "lockSent", "burnSent", "attest"} => s = "SWAPPED"
    /\ pc[w] = "pickup" => s = "BRIDGED"
    /\ pc[w] \in CompPc => s = "FAILED"
    /\ pc[w] \in SettlePc => s \in {"PAYOUT_READY", "PAID"}

\* The states in which the money has left the Safe and is not coming back yet.
OnTheWay == {"DEBITED", "SWAPPED", "BRIDGED", "PAYOUT_DETAILS_PENDING", "PAYOUT_READY",
             "PAID"}

ExclusionInv ==
    /\ \A w, v \in Workers : job[w] = job[v] /\ job[w] # None =>
          w = v \/ (pc[w] \in SettlePc /\ pc[v] \in SettlePc)
    /\ \A w \in Workers : AtHome(w)
    /\ \A w \in Workers : pc[w] # "idle" => authorizedAt[job[w]]
    /\ \A w \in Workers : pc[w] = "debit" => safe[job[w]] = Start
    /\ \A w \in Workers : pc[w] = "debitSent" => safe[job[w]] = Start - Send
    /\ \A t \in Transfers : ~authorizedAt[t] => state[t] = "CREATED" /\ safe[t] = Start
    /\ \A t \in Transfers : state[t] \in OnTheWay => safe[t] = Start - Send
    /\ \A t \in Transfers : pickup[t] = "PAID" => state[t] = "PAID"

\* All of this is claimed of timely worlds only.
PayoutInv == Timely => ExclusionInv

\* At first there are no workers, and every Safe is whole.
LEMMA PayoutInit == Init => PayoutInv
  BY WorkerAssumption
  DEF Init, PayoutInv, ExclusionInv, AtHome, OnTheWay, CompPc, ReversePc, SettlePc

\* In a timely world no step takes a transfer away from the worker it has.
LEMMA ExclusionStep ==
  ASSUME TypeOK, Timely, ExclusionInv, [Next]_vars
  PROVE  ExclusionInv'
<1> USE MoneyAssumption, WorkerAssumption
    DEF TypeOK, ExclusionInv, Timely, Send, Start, AtHome, OnTheWay, CompPc, ReversePc,
        SettlePc, records, control, chain, bounds
<1>1. ASSUME NEW w \in Workers, Execute(w)
      PROVE  ExclusionInv'
  <2> USE DEF Await, Record, Return
  <2>1. CASE Debit(w)           BY <2>1 DEF Debit
  <2>2. CASE DebitRecorded(w)   BY <2>2 DEF DebitRecorded
  <2>3. CASE Swap(w)            BY <2>3 DEF Swap
  <2>4. CASE SwapRecorded(w)    BY <2>4 DEF SwapRecorded, SwapStep
  <2>5. CASE Lock(w)            BY <2>5 DEF Lock
  <2>6. CASE Burn(w)            BY <2>6 DEF Burn
  <2>7. CASE BurnConfirmed(w)   BY <2>7 DEF BurnConfirmed
  <2>8. CASE BridgeRecorded(w)
    <3>1. /\ pc[w] \in {"lockSent", "attest"} /\ job[w] \in Transfers
          /\ state[job[w]] = "SWAPPED" /\ authorizedAt[job[w]]
          /\ \A v \in Workers : v # w => job[v] # job[w]
      BY <2>8 DEF BridgeRecorded
    <3>2. \/ /\ state' = [state EXCEPT ![job[w]] = "BRIDGED"]
             /\ pc' = [pc EXCEPT ![w] = "pickup"] /\ UNCHANGED job
          \/ /\ state' = [state EXCEPT ![job[w]] = "PAYOUT_READY"]
             /\ pc' = [pc EXCEPT ![w] = "idle"] /\ job' = [job EXCEPT ![w] = None]
      BY <2>8 DEF BridgeRecorded
    <3>3. /\ \A t \in Transfers : pickup'[t] = "PAID" => pickup[t] = "PAID"
          /\ UNCHANGED <<authorizedAt, safe>>
      BY <2>8 DEF BridgeRecorded
    <3>4. ASSUME NEW u \in Workers PROVE AtHome(u)'
      BY <3>1, <3>2
    <3>5. \A u, v \in Workers : job'[u] = job'[v] /\ job'[u] # None => u = v
                                 \/ (pc'[u] \in SettlePc /\ pc'[v] \in SettlePc)
      BY <3>1, <3>2
    <3>6. \A t \in Transfers : pickup'[t] = "PAID" => state'[t] = "PAID"
      BY <3>1, <3>2, <3>3
    <3>7. \A u \in Workers :
             /\ pc'[u] # "idle" => authorizedAt'[job'[u]]
             /\ pc'[u] = "debit" => safe'[job'[u]] = Start
             /\ pc'[u] = "debitSent" => safe'[job'[u]] = Start - Send
      BY <3>1, <3>2, <3>3
    <3>8. \A t \in Transfers :
             /\ ~authorizedAt'[t] => state'[t] = "CREATED" /\ safe'[t] = Start
             /\ state'[t] \in OnTheWay => safe'[t] = Start - Send
      BY <3>1, <3>2, <3>3
    <3>9. QED
      BY <3>4, <3>5, <3>6, <3>7, <3>8
  <2>9. CASE PickupCreated(w)   BY <2>9 DEF PickupCreated
  <2>10. QED
    BY <1>1, <2>1, <2>2, <2>3, <2>4, <2>5, <2>6, <2>7, <2>8, <2>9 DEF Execute
<1>2. ASSUME NEW w \in Workers, Compensate(w)
      PROVE  ExclusionInv'
  <2> USE DEF Await, Return, Refunded
  <2>1. CASE Release(w)         BY <2>1 DEF Release
  <2>2. CASE Released(w)        BY <2>2 DEF Released, AfterRelease
  <2>3. CASE ReverseSwap(w)     BY <2>3 DEF ReverseSwap
  <2>4. CASE ReverseSwapped(w)  BY <2>4 DEF ReverseSwapped
  <2>5. CASE ReturnFee(w)       BY <2>5 DEF ReturnFee
  <2>6. CASE FeeReturned(w)     BY <2>6 DEF FeeReturned
  <2>7. CASE ReturnEure(w)      BY <2>7 DEF ReturnEure
  <2>8. CASE EureReturned(w)    BY <2>8 DEF EureReturned
  <2>9. QED
    BY <1>2, <2>1, <2>2, <2>3, <2>4, <2>5, <2>6, <2>7, <2>8 DEF Compensate
<1>3. ASSUME NEW w \in Workers, Fails(w)
      PROVE  ExclusionInv'
  <2>1. CASE ExecLegFails(w)
    <3>1. PICK new : FailAndCompensate(w, job[w], new)
      BY <2>1 DEF ExecLegFails
    <3>2. /\ pc[w] \in ExecPc \ {"pickup"} /\ job[w] \in Transfers
          /\ UNCHANGED <<pickup, safe>>
      BY <2>1 DEF ExecLegFails, ExecPc
    <3>3. PICK s \in {"FAILED", "MANUAL_REVIEW"} :
             Record(job[w], s, new) /\ (s = "FAILED" \/ pc'[w] = "idle")
      BY <3>1, <3>2, FailAndCompensateControl
    <3>4. PICK label \in {"idle", "release", "reverse", "return"}, j \in {job[w], None} :
           /\ pc' = [pc EXCEPT ![w] = label] /\ job' = [job EXCEPT ![w] = j]
           /\ label = "idle" <=> j = None
      BY <3>1, <3>2, FailAndCompensateControl DEF GoesOn
    <3>5. \A v \in Workers : v # w => job[v] # job[w]
      BY <3>2 DEF ExecPc
    <3>6. ASSUME NEW u \in Workers PROVE AtHome(u)'
      BY <3>2, <3>3, <3>4, <3>5 DEF Record
    <3>7. \A u, v \in Workers : job'[u] = job'[v] /\ job'[u] # None => u = v
                                 \/ (pc'[u] \in SettlePc /\ pc'[v] \in SettlePc)
      BY <3>2, <3>4, <3>5
    <3>8. \A t \in Transfers : pickup'[t] = "PAID" => state'[t] = "PAID"
      BY <3>2, <3>3 DEF Record, ExecPc
    <3>9. QED
      BY <3>2, <3>3, <3>4, <3>6, <3>7, <3>8 DEF Record
  <2>2. CASE AnchorRefuses(w)
    <3>1. pc[w] = "pickup" /\ job[w] \in Transfers /\ UNCHANGED safe
      BY <2>2 DEF AnchorRefuses
    <3>2. CASE deploy.allowMockFallback
      <4>1. /\ state' = [state EXCEPT ![job[w]] = "PAYOUT_READY"]
            /\ pickup' = [pickup EXCEPT ![job[w]] = "READY"]
            /\ pc' = [pc EXCEPT ![w] = "idle"] /\ job' = [job EXCEPT ![w] = None]
            /\ UNCHANGED <<authorizedAt, safe>>
        BY <2>2, <3>1, <3>2 DEF AnchorRefuses, Record, Return
      <4>2. ASSUME NEW u \in Workers PROVE AtHome(u)'
        BY <3>1, <4>1
      <4>3. QED
        BY <3>1, <4>1, <4>2
    <3>3. CASE ~deploy.allowMockFallback
      <4>1. FailAndCompensate(w, job[w], {}) /\ UNCHANGED pickup
        BY <2>2, <3>3 DEF AnchorRefuses
      <4>2. PICK s \in {"FAILED", "MANUAL_REVIEW"} :
               Record(job[w], s, {}) /\ (s = "FAILED" \/ pc'[w] = "idle")
        BY <3>1, <4>1, FailAndCompensateControl
      <4>3. PICK label \in {"idle", "release", "reverse", "return"}, j \in {job[w], None} :
             /\ pc' = [pc EXCEPT ![w] = label] /\ job' = [job EXCEPT ![w] = j]
             /\ label = "idle" <=> j = None
        BY <3>1, <4>1, FailAndCompensateControl DEF GoesOn
      <4>4. \A v \in Workers : v # w => job[v] # job[w]
        BY <3>1
      <4>5. ASSUME NEW u \in Workers PROVE AtHome(u)'
        BY <3>1, <4>2, <4>3, <4>4 DEF Record
      <4>6. \A u, v \in Workers : job'[u] = job'[v] /\ job'[u] # None => u = v
                                   \/ (pc'[u] \in SettlePc /\ pc'[v] \in SettlePc)
        BY <3>1, <4>3, <4>4
      <4>7. \A t \in Transfers : pickup'[t] = "PAID" => state'[t] = "PAID"
        BY <3>1, <4>1, <4>2 DEF Record
      <4>8. QED
        BY <3>1, <4>1, <4>2, <4>3, <4>5, <4>6, <4>7 DEF Record
    <3>4. QED
      BY <3>2, <3>3
  <2>3. CASE CompLegFails(w)    BY <2>3 DEF CompLegFails, Return
  <2>4. CASE ReverseFails(w)    BY <2>4 DEF ReverseFails, Record, Return, ReversePc
  <2>5. CASE SettleFails(w)     BY <2>5 DEF SettleFails, Return
  <2>6. QED
    BY <1>3, <2>1, <2>2, <2>3, <2>4, <2>5 DEF Fails
<1>4. ASSUME NEW w \in Workers, NEW t \in Transfers,
             Authorize(w, t) \/ Sweep(w, t) \/ SettlePickup(w, t)
      PROVE  ExclusionInv'
  <2>1. CASE Authorize(w, t)
    <3>1. \A v \in Workers : job[v] # t
      BY <2>1 DEF Authorize
    <3>2. /\ job' = [job EXCEPT ![w] = t] /\ pc' = [pc EXCEPT ![w] = "debit"]
          /\ authorizedAt' = [authorizedAt EXCEPT ![t] = TRUE]
          /\ state[t] = "CREATED" /\ safe[t] = Start
          /\ UNCHANGED <<state, safe, pickup>>
      BY <2>1 DEF Authorize, Begin
    <3>3. ASSUME NEW u \in Workers PROVE AtHome(u)'
      <4>1. CASE u = w BY <3>2, <4>1
      <4>2. CASE u # w BY <3>2, <4>2
      <4>3. QED BY <4>1, <4>2
    <3>4. QED
      BY <3>1, <3>2, <3>3
  <2>2. CASE SweepFailed(w, t)
    <3>1. \A v \in Workers : job[v] # t
      BY <2>2 DEF SweepFailed, LooksStranded
    <3>2. FirstLeg(steps[t]) \in {"release", "reverse", "return"}
      BY DEF FirstLeg, AfterRelease
    <3>3. QED
      BY <2>2, <3>1, <3>2 DEF SweepFailed, Begin
  <2>3. CASE SweepStranded(w, t)
    <3>1. \A v \in Workers : job[v] # t
      BY <2>3 DEF SweepStranded, LooksStranded
    <3>2. QED
      <4>1. GoesOn(w, t)
        BY <2>3, CompensateTransferControl DEF SweepStranded
      <4>2. /\ pc[w] = "idle" /\ state[t] \in {"DEBITED", "SWAPPED", "BRIDGED"}
            /\ state' = [state EXCEPT ![t] = "FAILED"]
            /\ UNCHANGED <<authorizedAt, safe, pickup>>
        BY <2>3 DEF SweepStranded, Record
      <4>3. QED
        BY <3>1, <4>1, <4>2 DEF GoesOn
  <2>4. CASE SettlePickup(w, t)
    <3>1. CASE HoldsEscrow(steps[t])
      <4>1. /\ pc[w] = "idle" /\ state[t] = "PAYOUT_READY"
            /\ pc' = [pc EXCEPT ![w] = "settle"] /\ job' = [job EXCEPT ![w] = t]
            /\ UNCHANGED <<state, authorizedAt, safe, pickup>>
        BY <2>4, <3>1 DEF SettlePickup, Begin
      <4>2. \A v \in Workers : job[v] = t => pc[v] \in SettlePc
        BY <4>1 DEF ExecPc
      <4>3. QED
        BY <4>1, <4>2
    <3>2. CASE ~HoldsEscrow(steps[t])
      BY <2>4, <3>2 DEF SettlePickup, Record, MarkPaid
    <3>3. QED
      BY <3>1, <3>2
  <2>5. QED
    BY <1>4, <2>1, <2>2, <2>3, <2>4 DEF Sweep
<1>5. CASE \E w \in Workers : Settle(w) \/ Settled(w)
  <2>1. CASE \E w \in Workers : Settle(w)
    BY <2>1 DEF Settle, Await
  <2>2. CASE \E w \in Workers : Settled(w)
    BY <2>2 DEF Settled, Record, Return, MarkPaid
  <2>3. QED
    BY <1>5, <2>1, <2>2
<1>6. CASE Crash                BY <1>6 DEF Crash
<1>7. CASE UNCHANGED vars       BY <1>7 DEF vars
<1>8. QED
  BY <1>1, <1>2, <1>3, <1>4, <1>5, <1>6, <1>7 DEF Next, Resume

\* A timely world stays timely.
LEMMA WorldFixed == [Next]_vars => UNCHANGED world
  BY DEF Next, vars, Resume, Execute, Compensate, Fails, Sweep, Crash, Authorize,
         Debit, DebitRecorded, Swap, SwapRecorded, Lock, Burn, BurnConfirmed,
         BridgeRecorded, PickupCreated, Release, Released, ReverseSwap,
         ReverseSwapped, ReturnFee, FeeReturned, ReturnEure, EureReturned,
         ExecLegFails, AnchorRefuses, CompLegFails, ReverseFails, SettleFails,
         SweepFailed, SweepStranded, SettlePickup, Settle, Settled

\* So PayoutInv is inductive.
LEMMA PayoutStep == TypeOK /\ PayoutInv /\ [Next]_vars => PayoutInv'
  BY ExclusionStep, WorldFixed DEF PayoutInv, Timely

\* RefundXorPayout always holds: in a timely world, crashes and lost receipts
\* included, a transfer whose recipient was paid has not been refunded.
THEOREM NeverRefundedAndPaid == Spec => []RefundXorPayout
<1>1. PayoutInv => RefundXorPayout
  BY DEF PayoutInv, ExclusionInv, RefundXorPayout, OnTheWay
<1>2. QED
  BY <1>1, TypeInit, TypeStep, PayoutInit, PayoutStep, PTL DEF Spec

(***************************************************************************)
(* A closed transfer stays closed.  In a timely world the await a worker   *)
(* resumes from determines the state it will overwrite (AtHome), and none  *)
(* of them is PAID or REFUNDED, but for a second settlement of a PAID one. *)
(***************************************************************************)
LEMMA ClosedStep ==
  ASSUME TypeOK, Timely, ExclusionInv, [Next]_vars,
         NEW t \in Transfers, state[t] \in {"PAID", "REFUNDED"}
  PROVE  state'[t] = state[t]
<1> USE WorkerAssumption DEF TypeOK, records, chain
<1>1. \A w \in Workers : AtHome(w)
  BY DEF ExclusionInv
<1>2. ASSUME NEW w \in Workers, Execute(w)
      PROVE  state'[t] = state[t]
  BY <1>1, <1>2
  DEF AtHome, Execute, Record, Debit, DebitRecorded, Swap, SwapRecorded, Lock, Burn,
      BurnConfirmed, BridgeRecorded, PickupCreated
<1>3. ASSUME NEW w \in Workers, Compensate(w)
      PROVE  state'[t] = state[t]
  BY <1>1, <1>3
  DEF AtHome, CompPc, ReversePc, Compensate, Refunded, Release, Released, ReverseSwap,
      ReverseSwapped, ReturnFee, FeeReturned, ReturnEure, EureReturned
<1>4. ASSUME NEW w \in Workers, Fails(w)
      PROVE  state'[t] = state[t]
  <2>1. CASE ExecLegFails(w)
    <3>1. job[w] \in Transfers /\ job[w] # t
      BY <1>1, <2>1 DEF AtHome, ExecLegFails, ExecPc
    <3>2. PICK new : FailAndCompensate(w, job[w], new)
      BY <2>1 DEF ExecLegFails
    <3>3. QED
      BY <3>1, <3>2, FailAndCompensateControl DEF Record
  <2>2. CASE AnchorRefuses(w)
    <3>1. job[w] \in Transfers /\ job[w] # t
      BY <1>1, <2>2 DEF AtHome, AnchorRefuses
    <3>2. CASE deploy.allowMockFallback
      BY <2>2, <3>1, <3>2 DEF AnchorRefuses, Record
    <3>3. CASE ~deploy.allowMockFallback
      BY <2>2, <3>1, <3>3, FailAndCompensateControl DEF AnchorRefuses, Record
    <3>4. QED
      BY <3>2, <3>3
  <2>3. CASE CompLegFails(w) \/ SettleFails(w)
    BY <2>3 DEF CompLegFails, SettleFails
  <2>4. CASE ReverseFails(w)
    BY <1>1, <2>4 DEF AtHome, ReverseFails, Record, CompPc, ReversePc
  <2>5. QED
    BY <1>4, <2>1, <2>2, <2>3, <2>4 DEF Fails
<1>5. CASE \E w \in Workers, u \in Transfers :
              Authorize(w, u) \/ Sweep(w, u) \/ SettlePickup(w, u)
  BY <1>5 DEF Authorize, Sweep, SweepFailed, SweepStranded, SettlePickup, Record
<1>6. CASE \E w \in Workers : Settle(w) \/ Settled(w)
  BY <1>1, <1>6 DEF AtHome, SettlePc, Settle, Settled, Record
<1>7. CASE Crash \/ UNCHANGED vars
  BY <1>7 DEF Crash, vars
<1>8. QED
  BY <1>2, <1>3, <1>4, <1>5, <1>6, <1>7 DEF Next, Resume

\* ClosedStaysClosed: in a timely world no step leaves PAID or REFUNDED.
THEOREM ClosedForGood == Spec => ClosedStaysClosed
<1>1. TypeOK /\ PayoutInv /\ [Next]_vars =>
        [Timely => \A t \in Transfers :
            state[t] \in {"PAID", "REFUNDED"} => state'[t] = state[t]]_vars
  BY ClosedStep DEF PayoutInv
<1>2. QED
  BY <1>1, TypeInit, TypeStep, PayoutInit, PayoutStep, PTL DEF Spec, ClosedStaysClosed
-----------------------------------------------------------------------------
(***************************************************************************)
(* What the money does in a calm world: handlers and sweeps keep apart, a  *)
(* receipt that was waited for arrives, and the process has not died.      *)
(* There the records and the one worker of a transfer tell what its Safe   *)
(* holds, so a compensation returns what is owed, once, and never what     *)
(* was burned.                                                             *)
(***************************************************************************)
Calm == Timely /\ ~world.lostReceipts /\ crashes = 0

\* Nobody works on t.
AtRest(t) == \A w \in Workers : job[w] # t

\* What a reverse swap and the part of the fee that makes up for it return.
Returned(out) == out + FeeBack(out)

\* The recorded state of a transfer tells what was recorded as moved and returned,
\* and, while nobody works on it, what its Safe holds.
RecordInv(t) ==
    /\ state[t] = "CREATED" => steps[t] = {} /\ safe[t] <= Start
    /\ state[t] \in OnTheWay => InputFundsMoved(steps[t])
    /\ state[t] \notin {"FAILED", "REFUNDED"} => refund[t] = NotRefunded
    /\ state[t] = "FAILED" =>
          \/ /\ InputFundsMoved(steps[t]) /\ refund[t] = NotRefunded
             /\ AtRest(t) => safe[t] = Start - Send
          \/ /\ ~InputFundsMoved(steps[t]) /\ refund[t] = 0
             /\ AtRest(t) /\ safe[t] = Start
    /\ state[t] = "MANUAL_REVIEW" =>
          \/ safe[t] = Start - Send
          \/ \E out \in RevOut : safe[t] = Start - Send + out
    /\ state[t] = "REFUNDED" =>
          /\ InputFundsMoved(steps[t]) /\ safe[t] = Start - Send + refund[t]
          /\ refund[t] = Send \/ \E out \in RevOut : refund[t] = Returned(out)

\* A transfer in mid-flight is not stranded: the handler that moved it there is alive.
AttendedInv(t) ==
    state[t] \in {"DEBITED", "SWAPPED", "BRIDGED"} => \E w \in Workers : job[w] = t

\* USDC is burned on the way to the payout, and what was burned is never FAILED.
BurnInv(t) ==
    t \in burned =>
        /\ state[t] \notin {"CREATED", "DEBITED", "FAILED", "REFUNDED"}
        /\ state[t] = "BRIDGED" => "cctp.burn" \in steps[t]
        /\ state[t] = "MANUAL_REVIEW" => safe[t] = Start - Send
        /\ \A w \in Workers : job[w] = t => pc[w] \notin {"bridge", "lockSent"}

\* The await of a compensation tells how much it has delivered.
CompensationInv(w) ==
    LET t == job[w] IN
    /\ pc[w] \in CompPc => InputFundsMoved(steps[t]) /\ refund[t] = NotRefunded
    /\ pc[w] \in {"release", "releaseSent", "reverse", "return"} => safe[t] = Start - Send
    /\ pc[w] \in {"reverseSent", "fee", "feeSent"} => back[w] \in RevOut
    /\ pc[w] \in {"reverseSent", "fee"} => safe[t] = Start - Send + back[w]
    /\ pc[w] = "feeSent" => safe[t] = Start - Send + Returned(back[w])
    /\ pc[w] = "returnSent" => safe[t] = Start

CalmInv ==
    /\ \A t \in Transfers : RecordInv(t) /\ AttendedInv(t) /\ BurnInv(t)
    /\ \A w \in Workers : CompensationInv(w)

\* At first no money has moved.
LEMMA CalmInit == Init => CalmInv
<1> SUFFICES ASSUME Init PROVE CalmInv
  OBVIOUS
<1>1. ASSUME NEW t \in Transfers
      PROVE  RecordInv(t) /\ AttendedInv(t) /\ BurnInv(t)
  BY MoneyAssumption
  DEF Init, RecordInv, AttendedInv, BurnInv, OnTheWay, InputFundsMoved, Start, Send
<1>2. ASSUME NEW w \in Workers
      PROVE  CompensationInv(w)
  BY <1>2 DEF Init, CompensationInv, CompPc, ReversePc
<1>3. QED
  BY <1>1, <1>2 DEF CalmInv

(***************************************************************************)
(* Every step but a crash is one worker's on one transfer.                 *)
(***************************************************************************)
\* The step touches no transfer but t and no worker but w, and who else works on t
\* is settling it.
Local(w, t) ==
    /\ \A u \in Transfers \ {t} :
          /\ state'[u] = state[u] /\ steps'[u] = steps[u] /\ refund'[u] = refund[u]
          /\ safe'[u] = safe[u] /\ (u \in burned' <=> u \in burned)
          /\ escrow'[u] = escrow[u]
    /\ \A v \in Workers \ {w} :
          pc'[v] = pc[v] /\ job'[v] = job[v] /\ back'[v] = back[v]
    /\ job[w] \in {t, None} /\ job'[w] \in {t, None}
    /\ \A v \in Workers \ {w} : job[v] = t => pc[v] \in SettlePc

\* What a local step must leave of CalmInv for its transfer and its worker.
Kept(w, t) ==
    RecordInv(t)' /\ AttendedInv(t)' /\ BurnInv(t)' /\ CompensationInv(w)'

\* It keeps it then for the others.
LEMMA LocalStep ==
  ASSUME TypeOK, CalmInv, NEW w \in Workers, NEW t \in Transfers,
         Local(w, t), Kept(w, t)
  PROVE  CalmInv'
<1>1. ASSUME NEW u \in Transfers, u # t
      PROVE  RecordInv(u)' /\ AttendedInv(u)' /\ BurnInv(u)'
  <2>1. RecordInv(u) /\ AttendedInv(u) /\ BurnInv(u)
    BY DEF CalmInv
  <2>2. \A v \in Workers : (job'[v] = u <=> job[v] = u) /\ (job[v] = u => pc'[v] = pc[v])
    BY <1>1, WorkerAssumption DEF Local, TypeOK
  <2>3. AtRest(u)' <=> AtRest(u)
    BY <2>2 DEF AtRest
  <2>4. /\ state'[u] = state[u] /\ steps'[u] = steps[u] /\ refund'[u] = refund[u]
        /\ safe'[u] = safe[u] /\ (u \in burned' <=> u \in burned)
    BY <1>1 DEF Local
  <2>5. RecordInv(u)'
    BY <2>1, <2>3, <2>4 DEF RecordInv
  <2>6. AttendedInv(u)'
    BY <2>1, <2>2, <2>4 DEF AttendedInv
  <2>7. BurnInv(u)'
    BY <2>1, <2>2, <2>4 DEF BurnInv
  <2>8. QED
    BY <2>5, <2>6, <2>7
<1>2. ASSUME NEW v \in Workers, v # w
      PROVE  CompensationInv(v)'
  <2>1. CompensationInv(v)
    BY DEF CalmInv
  <2>2. pc'[v] = pc[v] /\ job'[v] = job[v] /\ back'[v] = back[v]
    BY <1>2 DEF Local
  <2>3. CASE job[v] = t
    BY <1>2, <2>2, <2>3 DEF Local, SettlePc, CompensationInv, CompPc, ReversePc
  <2>4. CASE job[v] = None
    BY <2>2, <2>4 DEF TypeOK, CompensationInv, CompPc, ReversePc
  <2>5. CASE job[v] \in Transfers \ {t}
    BY <2>1, <2>2, <2>5 DEF Local, CompensationInv
  <2>6. QED
    BY <2>3, <2>4, <2>5 DEF TypeOK
<1>3. QED
  BY <1>1, <1>2 DEF Kept, CalmInv

\* A worker that is not settling is alone with its transfer.
LEMMA Alone ==
  ASSUME ExclusionInv, NEW w \in Workers, NEW t \in Transfers, job[w] = t,
         pc[w] \notin SettlePc, NEW v \in Workers, v # w
  PROVE  job[v] # t
  BY WorkerAssumption DEF ExclusionInv

\* The execution moves the money on, and its worker with it.
LEMMA CalmExecute ==
  ASSUME TypeOK, ExclusionInv, CalmInv,
         NEW w \in Workers, NEW t \in Transfers, job[w] = t, Execute(w)
  PROVE  Local(w, t) /\ Kept(w, t)
<1> USE MoneyAssumption, WorkerAssumption
<1>1. pc[w] \in ExecPc
  BY DEF Execute, ExecPc, Debit, DebitRecorded, Swap, SwapRecorded, Lock, Burn,
         BurnConfirmed, BridgeRecorded, PickupCreated
<1>2. \A v \in Workers \ {w} : job[v] # t
  BY <1>1, Alone DEF ExecPc, SettlePc
<1>3. RecordInv(t) /\ AttendedInv(t) /\ BurnInv(t)
  BY DEF CalmInv
<1>4. /\ AtHome(w) /\ (pc[w] = "debit" => safe[t] = Start)
      /\ (state[t] \in OnTheWay => safe[t] = Start - Send)
  BY DEF ExclusionInv
<1>5. Local(w, t)
  BY <1>2
  DEF Local, TypeOK, Execute, Debit, DebitRecorded, Swap, SwapRecorded, Lock, Burn,
      BurnConfirmed, BridgeRecorded, PickupCreated, records, chain, bounds, Await,
      Record, Return
<1>6. /\ job' = [job EXCEPT ![w] = job'[w]] /\ job'[w] \in {t, None}
      /\ \A v \in Workers : job'[v] = t => v = w
  BY <1>2 DEF TypeOK, Execute, Debit, DebitRecorded, Swap, SwapRecorded, Lock, Burn,
      BurnConfirmed, BridgeRecorded, PickupCreated, records, chain, bounds, Await,
      Record, Return
<1>7. Kept(w, t)
  <2> USE <1>1, <1>2, <1>3, <1>4, <1>6
      DEF TypeOK, Kept, RecordInv, AttendedInv, BurnInv, CompensationInv, AtRest, AtHome,
          OnTheWay, InputFundsMoved, CompPc, ReversePc, Start, Send,
          records, chain, Await, Record, Return
  <2>1. CASE Debit(w)           BY <2>1 DEF Debit
  <2>2. CASE DebitRecorded(w)   BY <2>2 DEF DebitRecorded
  <2>3. CASE Swap(w)            BY <2>3 DEF Swap
  <2>4. CASE SwapRecorded(w)    BY <2>4 DEF SwapRecorded, SwapStep
  <2>5. CASE Lock(w)            BY <2>5 DEF Lock
  <2>6. CASE Burn(w)            BY <2>6 DEF Burn
  <2>7. CASE BurnConfirmed(w)   BY <2>7 DEF BurnConfirmed
  <2>8. CASE BridgeRecorded(w)  BY <2>8 DEF BridgeRecorded
  <2>9. CASE PickupCreated(w)   BY <2>9 DEF PickupCreated
  <2>10. QED
    BY <2>1, <2>2, <2>3, <2>4, <2>5, <2>6, <2>7, <2>8, <2>9 DEF Execute
<1>8. QED
  BY <1>5, <1>7

\* A compensation delivers what it records.
LEMMA CalmCompensate ==
  ASSUME TypeOK, ExclusionInv, CalmInv,
         NEW w \in Workers, NEW t \in Transfers, job[w] = t, Compensate(w)
  PROVE  Local(w, t) /\ Kept(w, t)
<1> USE MoneyAssumption, WorkerAssumption
<1>1. pc[w] \in CompPc
  BY DEF Compensate, CompPc, ReversePc, Release, Released, ReverseSwap, ReverseSwapped,
         ReturnFee, FeeReturned, ReturnEure, EureReturned
<1>2. \A v \in Workers \ {w} : job[v] # t
  BY <1>1, Alone DEF CompPc, ReversePc, SettlePc
<1>3. RecordInv(t) /\ BurnInv(t) /\ CompensationInv(w)
  BY DEF CalmInv
<1>4. state[t] = "FAILED"
  BY <1>1 DEF ExclusionInv, AtHome
<1>5. Local(w, t)
  BY <1>2
  DEF Local, TypeOK, Compensate, Release, Released, ReverseSwap, ReverseSwapped,
      ReturnFee, FeeReturned, ReturnEure, EureReturned, records, chain, bounds, Await,
      Refunded, Return
<1>6. \A v \in Workers : job'[v] = t => v = w
  BY <1>2, <1>5 DEF Local
<1>7. /\ InputFundsMoved(steps[t]) /\ refund[t] = NotRefunded
      /\ t \notin burned /\ UNCHANGED <<burned, steps>>
  BY <1>1, <1>3, <1>4
  DEF CompensationInv, BurnInv, Compensate, Release, Released, ReverseSwap,
      ReverseSwapped, ReturnFee, FeeReturned, ReturnEure, EureReturned, Refunded,
      records, chain
<1>8. Kept(w, t)
  <2> USE <1>1, <1>2, <1>3, <1>4, <1>6, <1>7
      DEF TypeOK, Kept, RecordInv, AttendedInv, BurnInv, CompensationInv, AtRest,
          OnTheWay, CompPc, ReversePc, records, chain, Await, Return
  <2>1. CASE Release(w)         BY <2>1 DEF Release
  <2>2. CASE Released(w)        BY <2>2 DEF Released, AfterRelease
  <2>3. CASE ReverseSwap(w)     BY <2>3 DEF ReverseSwap
  <2>4. CASE ReverseSwapped(w)  BY <2>4 DEF ReverseSwapped, Refunded, Returned
  <2>5. CASE ReturnFee(w)       BY <2>5 DEF ReturnFee, Returned, FeeBack, Send, Start
  <2>6. CASE FeeReturned(w)     BY <2>6 DEF FeeReturned, Refunded, Returned
  <2>7. CASE ReturnEure(w)      BY <2>7 DEF ReturnEure, Start, Send
  <2>8. CASE EureReturned(w)    BY <2>8 DEF EureReturned, Refunded, Start, Send
  <2>9. QED
    BY <2>1, <2>2, <2>3, <2>4, <2>5, <2>6, <2>7, <2>8 DEF Compensate
<1>9. QED
  BY <1>5, <1>8

\* A leg that throws leaves its transfer owed what it has moved, or closes it.
LEMMA CalmFailAndCompensate ==
  ASSUME TypeOK, Calm, ExclusionInv, CalmInv,
         NEW w \in Workers, NEW t \in Transfers, job[w] = t, pc[w] \in ExecPc \ Sent,
         NEW new \in SUBSET Steps,
         new = IF pc[w] = "attest" THEN {"cctp.burn"} ELSE {},
         FailAndCompensate(w, t, new), UNCHANGED <<pickup, chain>>
  PROVE  Local(w, t) /\ Kept(w, t)
<1> USE MoneyAssumption, WorkerAssumption
<1>1. \A v \in Workers \ {w} : job[v] # t
  BY Alone DEF ExecPc, SettlePc
<1>2. RecordInv(t) /\ BurnInv(t)
  BY DEF CalmInv
<1>3. /\ AtHome(w) /\ (pc[w] = "debit" => safe[t] = Start)
      /\ (state[t] \in OnTheWay => safe[t] = Start - Send)
  BY DEF ExclusionInv
<1>4. UNCHANGED <<safe, burned, escrow>>
  BY DEF chain
<1>5. /\ steps' = [steps EXCEPT ![t] = @ \cup new]
      /\ InputFundsMoved(steps'[t]) <=> InputFundsMoved(steps[t])
  BY DEF FailAndCompensate, Record, TypeOK, InputFundsMoved
<1>6. /\ refund[t] = NotRefunded
      /\ InputFundsMoved(steps[t]) => safe[t] = Start - Send
      /\ ~InputFundsMoved(steps[t]) => safe[t] = Start
  <2>1. state[t] \in OnTheWay \/ (state[t] = "CREATED" /\ pc[w] = "debit")
    BY <1>3 DEF AtHome, ExecPc, Sent, OnTheWay
  <2>2. QED
    BY <1>2, <1>3, <2>1 DEF RecordInv, InputFundsMoved, OnTheWay
<1>7. CASE "cctp.burn" \in steps[t] \cup new
  <2>1. /\ state' = [state EXCEPT ![t] = "MANUAL_REVIEW"] /\ UNCHANGED refund
        /\ pc' = [pc EXCEPT ![w] = "idle"] /\ job' = [job EXCEPT ![w] = None]
        /\ back' = [back EXCEPT ![w] = 0]
    BY <1>7 DEF FailAndCompensate, Record, Return
  <2>2. safe[t] = Start - Send
    <3>1. state[t] # "CREATED"
      BY <1>2, <1>3, <1>7 DEF AtHome, RecordInv
    <3>2. QED
      BY <1>2, <1>3, <1>6, <3>1 DEF AtHome, OnTheWay, RecordInv, ExecPc
  <2>3. Local(w, t)
    BY <1>1, <1>4, <1>5, <2>1 DEF Local, TypeOK
  <2>4. Kept(w, t)
    BY <1>1, <1>4, <1>6, <2>1, <2>2
    DEF Kept, RecordInv, AttendedInv, BurnInv, CompensationInv, TypeOK, CompPc,
        ReversePc, OnTheWay
  <2>5. QED
    BY <2>3, <2>4
<1>8. CASE "cctp.burn" \notin steps[t] \cup new
  <2>1. state' = [state EXCEPT ![t] = "FAILED"] /\ new = {} /\ steps' = steps
    BY <1>5, <1>8 DEF FailAndCompensate, Record, TypeOK
  <2>2. CompensateTransfer(w, t, steps[t])
    BY <1>8, <2>1 DEF FailAndCompensate
  <2>3. t \notin burned
    BY <1>2, <1>3, <1>8, <2>1 DEF BurnInv, AtHome, ExecPc, Sent
  <2>4. CASE ~InputFundsMoved(steps[t])
    <3>1. /\ refund' = [refund EXCEPT ![t] = 0]
          /\ pc' = [pc EXCEPT ![w] = "idle"] /\ job' = [job EXCEPT ![w] = None]
          /\ back' = [back EXCEPT ![w] = 0]
      BY <1>6, <2>2, <2>4 DEF CompensateTransfer, Return
    <3>2. Local(w, t)
      BY <1>1, <1>4, <2>1, <3>1 DEF Local, TypeOK
    <3>3. Kept(w, t)
      BY <1>1, <1>4, <1>6, <2>1, <2>3, <2>4, <3>1
      DEF Kept, RecordInv, AttendedInv, BurnInv, CompensationInv, TypeOK, CompPc,
          ReversePc, OnTheWay, AtRest
    <3>4. QED
      BY <3>2, <3>3
  <2>5. CASE InputFundsMoved(steps[t])
    <3>1. PICK label \in {"release", "reverse", "return"} :
             /\ pc' = [pc EXCEPT ![w] = label] /\ job' = [job EXCEPT ![w] = t]
             /\ UNCHANGED <<back, refund>>
      BY <1>6, <2>2, <2>5 DEF CompensateTransfer, Begin, FirstLeg, AfterRelease
    <3>2. Local(w, t)
      BY <1>1, <1>4, <2>1, <3>1 DEF Local, TypeOK
    <3>3. Kept(w, t)
      BY <1>1, <1>4, <1>6, <2>1, <2>3, <2>5, <3>1
      DEF Kept, RecordInv, AttendedInv, BurnInv, CompensationInv, TypeOK, CompPc,
          ReversePc, OnTheWay, AtRest
    <3>4. QED
      BY <3>2, <3>3
  <2>6. QED
    BY <2>4, <2>5
<1>9. QED
  BY <1>7, <1>8

\* Whatever throws in a calm world throws before the transaction.
LEMMA CalmThrows ==
  ASSUME Calm, NEW w \in Workers, Throws(w)
  PROVE  pc[w] \notin Sent
  BY DEF Calm, Throws, Reverts, Sent

\* So every failing leg keeps the money accounted for.
LEMMA CalmFails ==
  ASSUME TypeOK, Calm, ExclusionInv, CalmInv,
         NEW w \in Workers, NEW t \in Transfers, job[w] = t, Fails(w)
  PROVE  Local(w, t) /\ Kept(w, t)
<1> USE MoneyAssumption, WorkerAssumption
<1>1. RecordInv(t) /\ AttendedInv(t) /\ BurnInv(t) /\ CompensationInv(w) /\ AtHome(w)
  BY DEF CalmInv, ExclusionInv
<1>2. CASE ExecLegFails(w)
  <2>1. pc[w] \in ExecPc \ Sent
    BY <1>2, CalmThrows DEF ExecLegFails
  <2>2. QED
    BY <1>2, <2>1, CalmFailAndCompensate DEF ExecLegFails, Steps
<1>3. CASE AnchorRefuses(w)
  <2>1. pc[w] = "pickup" /\ \A v \in Workers \ {w} : job[v] # t
    BY <1>3, Alone DEF AnchorRefuses, SettlePc
  <2>2. CASE deploy.allowMockFallback
    <3>1. /\ Record(t, "PAYOUT_READY", {}) /\ Return(w)
          /\ UNCHANGED <<refund, safe, burned, escrow>>
      BY <1>3, <2>2 DEF AnchorRefuses, chain
    <3>2. Local(w, t)
      BY <2>1, <3>1 DEF Local, TypeOK, Record, Return
    <3>3. Kept(w, t)
      BY <1>1, <2>1, <3>1
      DEF Kept, RecordInv, AttendedInv, BurnInv, CompensationInv, TypeOK, CompPc,
          ReversePc, OnTheWay, AtRest, AtHome, Record, Return
    <3>4. QED
      BY <3>2, <3>3
  <2>3. CASE ~deploy.allowMockFallback
    <3>1. FailAndCompensate(w, t, {}) /\ UNCHANGED <<pickup, chain>>
      BY <1>3, <2>3 DEF AnchorRefuses
    <3>2. QED
      BY <2>1, <3>1, CalmFailAndCompensate DEF ExecPc, Sent
  <2>4. QED
    BY <2>2, <2>3
<1>4. CASE CompLegFails(w)
  <2>1. pc[w] \in {"release", "return"}
    BY <1>4, CalmThrows DEF CompLegFails, CompPc, ReversePc, Sent
  <2>2. \A v \in Workers \ {w} : job[v] # t
    BY <2>1, Alone DEF SettlePc
  <2>3. Return(w) /\ UNCHANGED <<state, steps, refund, safe, burned, escrow>>
    BY <1>4 DEF CompLegFails, records, chain
  <2>4. Local(w, t)
    BY <2>2, <2>3 DEF Local, TypeOK, Return
  <2>5. Kept(w, t)
    BY <1>1, <2>1, <2>2, <2>3
    DEF Kept, RecordInv, AttendedInv, BurnInv, CompensationInv, TypeOK, CompPc,
        ReversePc, OnTheWay, AtRest, AtHome, Return
  <2>6. QED
    BY <2>4, <2>5
<1>5. CASE ReverseFails(w)
  <2>1. pc[w] \in {"reverse", "fee"}
    BY <1>5, CalmThrows DEF ReverseFails, ReversePc, Sent
  <2>2. \A v \in Workers \ {w} : job[v] # t
    BY <2>1, Alone DEF SettlePc
  <2>3. /\ Record(t, "MANUAL_REVIEW", {}) /\ Return(w)
        /\ UNCHANGED <<refund, safe, burned, escrow>>
    BY <1>5 DEF ReverseFails, chain
  <2>4. Local(w, t)
    BY <2>2, <2>3 DEF Local, TypeOK, Record, Return
  <2>5. Kept(w, t)
    BY <1>1, <2>1, <2>2, <2>3
    DEF Kept, RecordInv, AttendedInv, BurnInv, CompensationInv, TypeOK, CompPc,
        ReversePc, OnTheWay, AtRest, AtHome, Record, Return
  <2>6. QED
    BY <2>4, <2>5
<1>6. CASE SettleFails(w)
  <2>1. pc[w] \in SettlePc /\ Return(w) /\ UNCHANGED <<state, steps, refund, safe, burned, escrow>>
    BY <1>6 DEF SettleFails, records, chain
  <2>2. state[t] \in {"PAYOUT_READY", "PAID"}
    BY <1>1, <2>1 DEF AtHome
  <2>3. \A v \in Workers \ {w} : job[v] = t => pc[v] \in SettlePc
    BY <2>1 DEF ExclusionInv
  <2>4. Local(w, t)
    BY <2>1, <2>3 DEF Local, TypeOK, Return
  <2>5. Kept(w, t)
    BY <1>1, <2>1, <2>2, <2>3
    DEF Kept, RecordInv, AttendedInv, BurnInv, CompensationInv, TypeOK, CompPc,
        ReversePc, SettlePc, OnTheWay, AtRest, Return
  <2>6. QED
    BY <2>4, <2>5
<1>7. QED
  BY <1>2, <1>3, <1>4, <1>5, <1>6 DEF Fails

\* In a calm world a worker that starts on a transfer finds it as its record says,
\* and no sweep finds one stranded in mid-flight.
LEMMA CalmStart ==
  ASSUME TypeOK, Calm, ExclusionInv, CalmInv, NEW w \in Workers, NEW t \in Transfers,
         Authorize(w, t) \/ Sweep(w, t) \/ SettlePickup(w, t)
  PROVE  Local(w, t) /\ Kept(w, t)
<1> USE MoneyAssumption, WorkerAssumption
<1>1. RecordInv(t) /\ AttendedInv(t) /\ BurnInv(t)
  BY DEF CalmInv
<1>2. pc[w] = "idle" /\ job[w] = None /\ UNCHANGED <<safe, burned, escrow>>
  BY DEF TypeOK, Authorize, Sweep, SweepFailed, SweepStranded, SettlePickup, chain
<1>3. CASE Authorize(w, t)
  <2>1. \A v \in Workers : job[v] # t
    BY <1>3 DEF Authorize, ExclusionInv, TypeOK
  <2>2. state[t] = "CREATED" /\ Begin(w, t, "debit") /\ UNCHANGED <<state, steps, refund>>
    BY <1>3 DEF Authorize
  <2>3. Local(w, t)
    BY <1>2, <2>1, <2>2 DEF Local, TypeOK, Begin
  <2>4. Kept(w, t)
    BY <1>1, <1>2, <2>1, <2>2
    DEF Kept, RecordInv, AttendedInv, BurnInv, CompensationInv, TypeOK, CompPc,
        ReversePc, OnTheWay, Begin
  <2>5. QED
    BY <2>3, <2>4
<1>4. CASE Sweep(w, t)
  <2>1. \A v \in Workers : job[v] # t
    BY <1>4 DEF Sweep, SweepFailed, SweepStranded, LooksStranded, Calm, Timely
  <2>2. SweepFailed(w, t)
    BY <1>1, <1>4, <2>1 DEF Sweep, SweepStranded, AttendedInv
  <2>3. PICK label \in {"release", "reverse", "return"} : Begin(w, t, label)
    BY <2>2 DEF SweepFailed, FirstLeg, AfterRelease
  <2>4. /\ state[t] = "FAILED" /\ InputFundsMoved(steps[t]) /\ refund[t] = NotRefunded
        /\ UNCHANGED <<state, steps, refund>>
    BY <2>2 DEF SweepFailed, records
  <2>5. safe[t] = Start - Send
    BY <1>1, <2>1, <2>4 DEF RecordInv, AtRest
  <2>6. Local(w, t)
    BY <1>2, <2>1, <2>3, <2>4 DEF Local, TypeOK, Begin
  <2>7. Kept(w, t)
    BY <1>1, <1>2, <2>1, <2>3, <2>4, <2>5
    DEF Kept, RecordInv, AttendedInv, BurnInv, CompensationInv, TypeOK, CompPc,
        ReversePc, OnTheWay, Begin
  <2>8. QED
    BY <2>6, <2>7
<1>5. CASE SettlePickup(w, t)
  <2>1. state[t] = "PAYOUT_READY"
    BY <1>5 DEF SettlePickup
  <2>2. \A v \in Workers : job[v] = t => pc[v] \in SettlePc
    BY <2>1 DEF ExclusionInv, AtHome, TypeOK, ExecPc
  <2>3. CASE HoldsEscrow(steps[t])
    <3>1. Begin(w, t, "settle") /\ UNCHANGED <<state, steps, refund>>
      BY <1>5, <2>3 DEF SettlePickup, records
    <3>2. Local(w, t)
      BY <1>2, <2>2, <3>1 DEF Local, TypeOK, Begin
    <3>3. Kept(w, t)
      BY <1>1, <1>2, <2>1, <2>2, <3>1
      DEF Kept, RecordInv, AttendedInv, BurnInv, CompensationInv, TypeOK, CompPc,
          ReversePc, SettlePc, OnTheWay, Begin
    <3>4. QED
      BY <3>2, <3>3
  <2>4. CASE ~HoldsEscrow(steps[t])
    <3>1. Record(t, "PAID", {}) /\ UNCHANGED <<refund, pc, job, back>>
      BY <1>5, <2>4 DEF SettlePickup, control
    <3>2. Local(w, t)
      BY <1>2, <2>2, <3>1 DEF Local, TypeOK, Record
    <3>3. Kept(w, t)
      BY <1>1, <1>2, <2>1, <2>2, <3>1
      DEF Kept, RecordInv, AttendedInv, BurnInv, CompensationInv, TypeOK, CompPc,
          ReversePc, SettlePc, OnTheWay, Record
    <3>4. QED
      BY <3>2, <3>3
  <2>5. QED
    BY <2>3, <2>4
<1>6. QED
  BY <1>3, <1>4, <1>5

\* A settlement leaves the Safe alone.
LEMMA CalmSettle ==
  ASSUME TypeOK, ExclusionInv, CalmInv,
         NEW w \in Workers, NEW t \in Transfers, job[w] = t, Settle(w) \/ Settled(w)
  PROVE  Local(w, t) /\ Kept(w, t)
<1> USE MoneyAssumption, WorkerAssumption
<1>1. RecordInv(t) /\ AttendedInv(t) /\ BurnInv(t)
  BY DEF CalmInv
<1>2. pc[w] \in SettlePc /\ UNCHANGED <<safe, burned, refund>>
  BY DEF Settle, Settled, SettlePc, records, chain
<1>3. state[t] \in {"PAYOUT_READY", "PAID"}
  BY <1>2 DEF ExclusionInv, AtHome
<1>4. \A v \in Workers : job[v] = t => pc[v] \in SettlePc
  BY <1>2 DEF ExclusionInv
<1>5. Local(w, t)
  BY <1>2, <1>4
  DEF Local, TypeOK, Settle, Settled, Await, Record, Return, records, chain
<1>6. Kept(w, t)
  BY <1>1, <1>2, <1>3, <1>4
  DEF Kept, RecordInv, AttendedInv, BurnInv, CompensationInv, TypeOK, CompPc,
      ReversePc, SettlePc, OnTheWay, InputFundsMoved, Settle, Settled, Await, Record,
      Return, records
<1>7. QED
  BY <1>5, <1>6

\* A step that does not end the calm keeps the money accounted for.
LEMMA CalmStep ==
  ASSUME TypeOK, Calm, ExclusionInv, CalmInv, [Next]_vars, crashes' = 0
  PROVE  CalmInv'
<1>1. CASE Crash
  BY <1>1 DEF Crash, Calm
<1>2. CASE UNCHANGED vars
  BY <1>2
  DEF vars, records, control, chain, bounds, CalmInv, RecordInv, AttendedInv, BurnInv,
      CompensationInv, AtRest
<1>3. ASSUME NEW w \in Workers, Resume(w)
      PROVE  CalmInv'
  <2>1. pc[w] # "idle"
    BY <1>3
    DEF Resume, Execute, Compensate, Fails, Debit, DebitRecorded, Swap, SwapRecorded,
        Lock, Burn, BurnConfirmed, BridgeRecorded, PickupCreated, Release, Released,
        ReverseSwap, ReverseSwapped, ReturnFee, FeeReturned, ReturnEure, EureReturned,
        ExecLegFails, AnchorRefuses, CompLegFails, ReverseFails, SettleFails, Settle,
        Settled, ExecPc, CompPc, ReversePc, SettlePc
  <2>2. PICK t \in Transfers : job[w] = t
    BY <2>1 DEF TypeOK
  <2>3. Local(w, t) /\ Kept(w, t)
    BY <1>3, <2>2, CalmExecute, CalmCompensate, CalmFails, CalmSettle DEF Resume
  <2>4. QED
    BY <2>3, LocalStep
<1>4. ASSUME NEW w \in Workers, NEW t \in Transfers,
             Authorize(w, t) \/ Sweep(w, t) \/ SettlePickup(w, t)
      PROVE  CalmInv'
  BY <1>4, CalmStart, LocalStep
<1>5. QED
  BY <1>1, <1>2, <1>3, <1>4 DEF Next

\* A calm that is over does not come back.
LEMMA CalmBefore == TypeOK /\ [Next]_vars /\ Calm' => Calm
<1> SUFFICES ASSUME TypeOK, [Next]_vars, Calm' PROVE Calm
  OBVIOUS
<1>1. crashes' = crashes \/ Crash
  <2>1. ASSUME NEW w \in Workers, Resume(w)
        PROVE  crashes' = crashes
    <3>1. CASE Execute(w)
      BY <3>1
      DEF Execute, bounds, Debit, DebitRecorded, Swap, SwapRecorded, Lock, Burn,
          BurnConfirmed, BridgeRecorded, PickupCreated
    <3>2. CASE Compensate(w)
      BY <3>2
      DEF Compensate, bounds, Release, Released, ReverseSwap, ReverseSwapped, ReturnFee,
          FeeReturned, ReturnEure, EureReturned
    <3>3. CASE Settle(w) \/ Settled(w)
      BY <3>3 DEF bounds, Settle, Settled
    <3>4. CASE Fails(w)
      <4>1. Throws(w) \/ UNCHANGED bounds
        BY <3>4
        DEF Fails, ExecLegFails, AnchorRefuses, CompLegFails, ReverseFails, SettleFails
      <4>2. QED
        BY <4>1 DEF Throws, bounds
    <3>5. QED
      BY <2>1, <3>1, <3>2, <3>3, <3>4 DEF Resume
  <2>2. ASSUME NEW w \in Workers, NEW t \in Transfers,
               Authorize(w, t) \/ Sweep(w, t) \/ SettlePickup(w, t)
        PROVE  crashes' = crashes
    BY <2>2 DEF Authorize, Sweep, SweepFailed, SweepStranded, SettlePickup, bounds
  <2>3. QED
    BY <2>1, <2>2 DEF Next, vars, bounds
<1>2. crashes = 0
  BY <1>1, BoundAssumption DEF Calm, TypeOK, Crash
<1>3. QED
  BY <1>2, WorldFixed DEF Calm, Timely

\* So the invariant of the calm is inductive.
LEMMA CalmInvStep ==
  TypeOK /\ PayoutInv /\ (Calm => CalmInv) /\ [Next]_vars => (Calm => CalmInv)'
<1> SUFFICES ASSUME TypeOK, PayoutInv, Calm => CalmInv, [Next]_vars, Calm'
             PROVE  CalmInv'
  OBVIOUS
<1>1. Calm /\ CalmInv /\ ExclusionInv /\ crashes' = 0
  BY CalmBefore DEF Calm, PayoutInv
<1>2. QED
  BY <1>1, CalmStep

\* RefundRecordIsTrue holds in a calm world: when a compensation is over, the Safe is
\* short of what was debited less what the record says came back.
THEOREM RefundIsRecorded == Spec => [](Calm => RefundRecordIsTrue)
<1>1. CalmInv => RefundRecordIsTrue
  BY MoneyAssumption DEF CalmInv, RecordInv, AtRest, RefundRecordIsTrue, Send, Start
<1>2. QED
  BY <1>1, TypeInit, TypeStep, PayoutInit, PayoutStep, CalmInit, CalmInvStep, PTL DEF Spec

\* A Safe in a calm world is whole, short of a debit, or has got one refund.
LEMMA OneRefund ==
  ASSUME TypeOK, ExclusionInv, CalmInv, NEW t \in Transfers
  PROVE  safe[t] <= Start \/ \E out \in RevOut : safe[t] = Start - Send + out
<1> USE MoneyAssumption, WorkerAssumption
<1>1. RecordInv(t) /\ (state[t] \in OnTheWay => safe[t] = Start - Send)
  BY DEF CalmInv, ExclusionInv
<1>2. safe[t] \in Int /\ Start = 2 * Send /\ Send \in Nat
  BY DEF TypeOK, Start, Send
<1>3. ASSUME NEW out \in RevOut, safe[t] = Start - Send + Returned(out)
      PROVE  safe[t] <= Start \/ safe[t] = Start - Send + out
  BY <1>2, <1>3 DEF Returned, FeeBack
<1>4. CASE state[t] # "FAILED"
  <2>1. CASE state[t] = "REFUNDED"
    <3>1. safe[t] = Start - Send + refund[t]
      BY <1>1, <2>1 DEF RecordInv
    <3>2. refund[t] = Send \/ \E out \in RevOut : refund[t] = Returned(out)
      BY <1>1, <2>1 DEF RecordInv
    <3>3. QED
      BY <1>2, <1>3, <3>1, <3>2
  <2>2. CASE state[t] = "CREATED"
    BY <1>1, <2>2 DEF RecordInv
  <2>3. CASE state[t] = "MANUAL_REVIEW"
    BY <1>1, <1>2, <2>3 DEF RecordInv
  <2>4. CASE state[t] \in OnTheWay
    BY <1>1, <1>2, <2>4
  <2>5. QED
    BY <1>4, <2>1, <2>2, <2>3, <2>4 DEF OnTheWay, TypeOK, States
<1>5. CASE state[t] = "FAILED"
  <2>1. CASE AtRest(t)
    BY <1>1, <1>2, <1>5, <2>1 DEF RecordInv
  <2>2. CASE ~AtRest(t)
    <3>1. PICK w \in Workers : job[w] = t
      BY <2>2 DEF AtRest
    <3>2. pc[w] \in CompPc
      BY <1>5, <3>1 DEF ExclusionInv, AtHome, TypeOK, ExecPc
    <3>3. CompensationInv(w)
      BY DEF CalmInv
    <3>4. CASE pc[w] = "feeSent"
      BY <1>3, <3>1, <3>3, <3>4 DEF CompensationInv
    <3>5. CASE pc[w] \in {"reverseSent", "fee"}
      BY <3>1, <3>3, <3>5 DEF CompensationInv
    <3>6. CASE pc[w] \in {"release", "releaseSent", "reverse", "return", "returnSent"}
      BY <1>2, <3>1, <3>3, <3>6 DEF CompensationInv
    <3>7. QED
      BY <3>2, <3>4, <3>5, <3>6 DEF CompPc, ReversePc
  <2>3. QED
    BY <2>1, <2>2
<1>6. QED
  BY <1>4, <1>5

\* RefundedAtMostOnce holds in a calm world: no sequence of failures and sweeps returns
\* more than one refund to a Safe.
THEOREM RefundedOnce == Spec => [](Calm => RefundedAtMostOnce)
<1>1. TypeOK /\ PayoutInv /\ Calm /\ CalmInv => RefundedAtMostOnce
  BY OneRefund DEF PayoutInv, Calm, RefundedAtMostOnce
<1>2. QED
  BY <1>1, TypeInit, TypeStep, PayoutInit, PayoutStep, CalmInit, CalmInvStep, PTL DEF Spec

\* BurnedIsNotRefunded holds in a calm world: while handlers and sweeps keep apart, no
\* sender is refunded from the pool for USDC that was burned.
THEOREM BurnedStaysGone == Spec => [](Calm => BurnedIsNotRefunded)
<1>1. TypeOK /\ PayoutInv /\ Calm /\ CalmInv => BurnedIsNotRefunded
  <2> SUFFICES ASSUME TypeOK, PayoutInv, Calm, CalmInv, NEW t \in burned
               PROVE  safe[t] = Start - Send
    BY DEF BurnedIsNotRefunded
  <2>1. t \in Transfers /\ BurnInv(t) /\ (state[t] \in OnTheWay => safe[t] = Start - Send)
    BY DEF TypeOK, CalmInv, PayoutInv, Calm, ExclusionInv
  <2>2. QED
    BY <2>1 DEF BurnInv, OnTheWay, TypeOK, States
<1>2. QED
  BY <1>1, TypeInit, TypeStep, PayoutInit, PayoutStep, CalmInit, CalmInvStep, PTL DEF Spec

-----------------------------------------------------------------------------
(***************************************************************************)
(* The pool covers every claim on it, in a calm world whose swaps are      *)
(* filled at the FxSwapper.  Whose money lies at the orchestrator's        *)
(* address is told by a transfer's record and its worker's await, also     *)
(* between a transaction and its record; each step moves as much of it as  *)
(* the claims it closes and opens.                                         *)
(***************************************************************************)
PoolCalm == Calm /\ deploy.venue = "fx-swapper"

\* A worker on t is suspended at one of these awaits.
At(t, labels) == \E w \in Workers : job[w] = t /\ pc[w] \in labels

\* The orchestrator holds the whole amount of t in EURe, its fee only, its USDC.
HoldsEure(t) ==
    \/ At(t, {"debitSent", "swap"})
    \/ /\ state[t] = "FAILED" /\ InputFundsMoved(steps[t]) /\ ~HasSwapped(steps[t])
       /\ ~At(t, {"returnSent"})
HoldsFee(t) ==
    \/ At(t, {"swapSent"})
    \/ state[t] \in {"SWAPPED", "BRIDGED", "PAYOUT_DETAILS_PENDING"}
    \/ state[t] = "FAILED" /\ HasSwapped(steps[t]) /\ ~At(t, {"feeSent"})
HoldsUsdc(t) ==
    \/ At(t, {"swapSent", "bridge"})
    \/ /\ state[t] = "FAILED" /\ HasSwapped(steps[t]) /\ ~HasBridged(steps[t])
       /\ ~At(t, {"reverseSent", "fee", "feeSent"})
    \/ state[t] = "FAILED" /\ HasBridged(steps[t]) /\ At(t, {"releaseSent", "reverse"})

WholeIn == {t \in Transfers : HoldsEure(t)}
FeeIn   == {t \in Transfers : HoldsFee(t)}
UsdcIn  == {t \in Transfers : HoldsUsdc(t)}

\* The recorded steps keep pace with the state, and a step that commits the USDC to
\* the payout is never that of a FAILED transfer.
StepsInv(t) ==
    /\ "liquidity.dex.eure-usdc" \notin steps[t]
    /\ "bridge.settle" \in steps[t] => state[t] = "PAID"
    /\ state[t] = "FAILED" => "cctp.burn" \notin steps[t]
    /\ state[t] = "DEBITED" => ~HasSwapped(steps[t]) /\ ~HasBridged(steps[t])
    /\ state[t] = "SWAPPED" => HasSwapped(steps[t]) /\ ~HasBridged(steps[t])
    /\ state[t] \in {"BRIDGED", "PAYOUT_DETAILS_PENDING"} =>
          HasSwapped(steps[t]) /\ HasBridged(steps[t])
    /\ state[t] = "FAILED" /\ HasBridged(steps[t]) => HasSwapped(steps[t])

\* A compensation undoes the legs that were recorded.
LegInv(w) ==
    LET s == steps[job[w]] IN
    /\ pc[w] \in {"release", "releaseSent"} => HasBridged(s)
    /\ pc[w] \in ReversePc => HasSwapped(s)
    /\ pc[w] \in {"return", "returnSent"} => ~HasSwapped(s)

PoolInv ==
    /\ \A t \in Transfers : StepsInv(t)
    /\ \A w \in Workers : LegInv(w)
    /\ IsFiniteSet(WholeIn) /\ IsFiniteSet(FeeIn) /\ IsFiniteSet(UsdcIn)
    /\ orchEure >= Float + Send * Cardinality(WholeIn) + Fee * Cardinality(FeeIn)
    /\ orchUsdc >= Conv * Cardinality(UsdcIn)

\* Adding or removing one element of a finite set changes its size by one.
LEMMA SizeMoves ==
  ASSUME NEW A, NEW B, NEW t, IsFiniteSet(A), A \ {t} = B \ {t}
  PROVE  /\ IsFiniteSet(B) /\ Cardinality(A) \in Nat /\ Cardinality(B) \in Nat
         /\ t \in A /\ t \in B => Cardinality(B) = Cardinality(A)
         /\ t \notin A /\ t \notin B => Cardinality(B) = Cardinality(A)
         /\ t \in A /\ t \notin B => Cardinality(B) = Cardinality(A) - 1
         /\ t \notin A /\ t \in B => Cardinality(B) = Cardinality(A) + 1
<1>1. CASE t \in A <=> t \in B
  <2>1. A = B
    BY <1>1
  <2>2. QED
    BY <1>1, <2>1, FS_CardinalityType
<1>2. CASE t \in A /\ t \notin B
  <2>1. B = A \ {t}
    BY <1>2
  <2>2. QED
    BY <1>2, <2>1, FS_RemoveElement, FS_CardinalityType
<1>3. CASE t \notin A /\ t \in B
  <2>1. B = A \cup {t}
    BY <1>3
  <2>2. QED
    BY <1>3, <2>1, FS_AddElement, FS_CardinalityType
<1>4. QED
  BY <1>1, <1>2, <1>3

\* The same, said of a multiple of the size.
LEMMA MultipleMoves ==
  ASSUME NEW A, NEW B, NEW t, IsFiniteSet(A), A \ {t} = B \ {t}, NEW k \in Nat
  PROVE  /\ IsFiniteSet(B) /\ k * Cardinality(A) \in Nat /\ k * Cardinality(B) \in Nat
         /\ k * Cardinality(B) + (IF t \in A THEN k ELSE 0)
              = k * Cardinality(A) + (IF t \in B THEN k ELSE 0)
<1> DEFINE a == Cardinality(A)
           b == Cardinality(B)
<1>1. /\ IsFiniteSet(B) /\ a \in Nat /\ b \in Nat
      /\ (t \in A <=> t \in B) => b = a
      /\ t \in A /\ t \notin B => b = a - 1
      /\ t \notin A /\ t \in B => b = a + 1
  BY SizeMoves
<1> HIDE DEF a, b
<1>2. k * a \in Nat /\ k * b \in Nat
  BY <1>1
<1>3. k * (a - 1) = k * a - k /\ k * (a + 1) = k * a + k
  BY <1>1
<1>4. k * b + (IF t \in A THEN k ELSE 0) = k * a + (IF t \in B THEN k ELSE 0)
  <2>1. CASE t \in A <=> t \in B     BY <1>1, <1>2, <2>1
  <2>2. CASE t \in A /\ t \notin B   BY <1>1, <1>2, <1>3, <2>2
  <2>3. CASE t \notin A /\ t \in B   BY <1>1, <1>2, <1>3, <2>3
  <2>4. QED                          BY <2>1, <2>2, <2>3
<1>5. QED
  BY <1>1, <1>2, <1>4 DEF a, b

\* A balance that covers the claims on it, and moves by no less than they, covers them.
LEMMA BalanceCovers ==
  ASSUME NEW a \in Nat, NEW b \in Nat, NEW c \in Nat, NEW d \in Nat,
         NEW x \in Nat, NEW y \in Nat,
         a >= c, b - a >= y - x, d + x = c + y
  PROVE  b >= d
  OBVIOUS

\* What the orchestrator owes on account of t, and what its balances move by.
Owed(t) == (IF HoldsEure(t) THEN Send ELSE 0) + (IF HoldsFee(t) THEN Fee ELSE 0)
OwedUsdc(t) == IF HoldsUsdc(t) THEN Conv ELSE 0

\* The step moves at least as much money as it opens claims.
Covered(t) ==
    /\ orchEure' - orchEure >= Owed(t)' - Owed(t)
    /\ orchUsdc' - orchUsdc >= OwedUsdc(t)' - OwedUsdc(t)

PoolKept(w, t) == StepsInv(t)' /\ LegInv(w)' /\ Covered(t)

\* The claims of other transfers do not change in a local step.
LEMMA ClaimsAreLocal ==
  ASSUME TypeOK, NEW w \in Workers, NEW t \in Transfers, Local(w, t),
         NEW u \in Transfers, u # t
  PROVE  /\ HoldsEure(u)' <=> HoldsEure(u)
         /\ HoldsFee(u)' <=> HoldsFee(u)
         /\ HoldsUsdc(u)' <=> HoldsUsdc(u)
<1>1. \A v \in Workers : (job'[v] = u <=> job[v] = u) /\ (job[v] = u => pc'[v] = pc[v])
  BY WorkerAssumption DEF Local, TypeOK
<1>2. ASSUME NEW L PROVE At(u, L)' <=> At(u, L)
  BY <1>1 DEF At
<1>3. state'[u] = state[u] /\ steps'[u] = steps[u]
  BY DEF Local
<1>4. QED
  BY <1>2, <1>3 DEF HoldsEure, HoldsFee, HoldsUsdc

\* So the pool still covers all claims when it covers the change of this one.
LEMMA PoolLocal ==
  ASSUME TypeOK, TypeOK', PoolInv, NEW w \in Workers, NEW t \in Transfers,
         Local(w, t), PoolKept(w, t)
  PROVE  PoolInv'
<1> USE MoneyAssumption
<1>1. ASSUME NEW u \in Transfers PROVE StepsInv(u)'
  <2>1. CASE u = t
    BY <2>1 DEF PoolKept
  <2>2. CASE u # t
    <3>1. state'[u] = state[u] /\ steps'[u] = steps[u] /\ StepsInv(u)
      BY <2>2 DEF Local, PoolInv
    <3>2. QED
      BY <3>1 DEF StepsInv
  <2>3. QED
    BY <2>1, <2>2
<1>2. ASSUME NEW v \in Workers PROVE LegInv(v)'
  <2>1. CASE v = w
    BY <2>1 DEF PoolKept
  <2>2. CASE v # w
    <3>1. pc'[v] = pc[v] /\ job'[v] = job[v] /\ LegInv(v)
      BY <2>2 DEF Local, PoolInv
    <3>2. CASE job[v] = t
      BY <2>2, <3>1, <3>2 DEF Local, SettlePc, LegInv, ReversePc
    <3>3. CASE job[v] = None
      BY <3>1, <3>3 DEF TypeOK, LegInv, ReversePc
    <3>4. CASE job[v] \in Transfers \ {t}
      BY <3>1, <3>4 DEF Local, LegInv
    <3>5. QED
      BY <3>2, <3>3, <3>4 DEF TypeOK
  <2>3. QED
    BY <2>1, <2>2
<1>3. /\ WholeIn \ {t} = WholeIn' \ {t}
      /\ FeeIn \ {t} = FeeIn' \ {t}
      /\ UsdcIn \ {t} = UsdcIn' \ {t}
  BY ClaimsAreLocal DEF WholeIn, FeeIn, UsdcIn
<1>4. /\ t \in WholeIn <=> HoldsEure(t)
      /\ t \in FeeIn <=> HoldsFee(t)
      /\ t \in UsdcIn <=> HoldsUsdc(t)
      /\ t \in WholeIn' <=> HoldsEure(t)'
      /\ t \in FeeIn' <=> HoldsFee(t)'
      /\ t \in UsdcIn' <=> HoldsUsdc(t)'
  BY DEF WholeIn, FeeIn, UsdcIn
<1>5. IsFiniteSet(WholeIn) /\ IsFiniteSet(FeeIn) /\ IsFiniteSet(UsdcIn)
  BY DEF PoolInv
<1>6. Send \in Nat /\ Fee \in Nat /\ Conv \in Nat
  BY DEF Send
<1>7. /\ IsFiniteSet(WholeIn') /\ Send * Cardinality(WholeIn) \in Nat
      /\ Send * Cardinality(WholeIn') \in Nat
      /\ Send * Cardinality(WholeIn') + (IF t \in WholeIn THEN Send ELSE 0)
           = Send * Cardinality(WholeIn) + (IF t \in WholeIn' THEN Send ELSE 0)
  BY <1>3, <1>5, <1>6, MultipleMoves
<1>8. /\ IsFiniteSet(FeeIn') /\ Fee * Cardinality(FeeIn) \in Nat
      /\ Fee * Cardinality(FeeIn') \in Nat
      /\ Fee * Cardinality(FeeIn') + (IF t \in FeeIn THEN Fee ELSE 0)
           = Fee * Cardinality(FeeIn) + (IF t \in FeeIn' THEN Fee ELSE 0)
  BY <1>3, <1>5, <1>6, MultipleMoves
<1>9. /\ IsFiniteSet(UsdcIn') /\ Conv * Cardinality(UsdcIn) \in Nat
      /\ Conv * Cardinality(UsdcIn') \in Nat
      /\ Conv * Cardinality(UsdcIn') + (IF t \in UsdcIn THEN Conv ELSE 0)
           = Conv * Cardinality(UsdcIn) + (IF t \in UsdcIn' THEN Conv ELSE 0)
  BY <1>3, <1>5, <1>6, MultipleMoves
<1>10. orchEure' >= Float + Send * Cardinality(WholeIn') + Fee * Cardinality(FeeIn')
  <2>1. orchEure >= Float + Send * Cardinality(WholeIn) + Fee * Cardinality(FeeIn)
    BY DEF PoolInv
  <2>2. orchEure' - orchEure >=
             ((IF t \in WholeIn' THEN Send ELSE 0) + (IF t \in FeeIn' THEN Fee ELSE 0))
             - ((IF t \in WholeIn THEN Send ELSE 0) + (IF t \in FeeIn THEN Fee ELSE 0))
    BY <1>4 DEF PoolKept, Covered, Owed
  <2>3. orchEure \in Nat /\ orchEure' \in Nat
    BY DEF TypeOK
  <2> DEFINE c == Float + Send * Cardinality(WholeIn) + Fee * Cardinality(FeeIn)
             d == Float + Send * Cardinality(WholeIn') + Fee * Cardinality(FeeIn')
             x == (IF t \in WholeIn THEN Send ELSE 0) + (IF t \in FeeIn THEN Fee ELSE 0)
             y == (IF t \in WholeIn' THEN Send ELSE 0) + (IF t \in FeeIn' THEN Fee ELSE 0)
  <2>4. c \in Nat /\ d \in Nat /\ x \in Nat /\ y \in Nat
    BY <1>6, <1>7, <1>8
  <2>5. d + x = c + y
    BY <1>6, <1>7, <1>8
  <2>6. orchEure >= c /\ orchEure' - orchEure >= y - x
    BY <2>1, <2>2
  <2> HIDE DEF c, d, x, y
  <2>7. orchEure' >= d
    BY <2>3, <2>4, <2>5, <2>6, BalanceCovers
  <2>8. QED
    BY <2>7 DEF d
<1>11. orchUsdc' >= Conv * Cardinality(UsdcIn')
  <2>1. orchUsdc >= Conv * Cardinality(UsdcIn)
    BY DEF PoolInv
  <2>2. orchUsdc' - orchUsdc >=
             (IF t \in UsdcIn' THEN Conv ELSE 0) - (IF t \in UsdcIn THEN Conv ELSE 0)
    BY <1>4 DEF PoolKept, Covered, OwedUsdc
  <2>3. orchUsdc \in Nat /\ orchUsdc' \in Nat
    BY DEF TypeOK
  <2> DEFINE c == Conv * Cardinality(UsdcIn)
             d == Conv * Cardinality(UsdcIn')
             x == IF t \in UsdcIn THEN Conv ELSE 0
             y == IF t \in UsdcIn' THEN Conv ELSE 0
  <2>4. c \in Nat /\ d \in Nat /\ x \in Nat /\ y \in Nat /\ d + x = c + y
    BY <1>6, <1>9
  <2>5. orchUsdc >= c /\ orchUsdc' - orchUsdc >= y - x
    BY <2>1, <2>2
  <2> HIDE DEF c, d, x, y
  <2>6. orchUsdc' >= d
    BY <2>3, <2>4, <2>5, BalanceCovers
  <2>7. QED
    BY <2>6 DEF d
<1>12. QED
  BY <1>1, <1>2, <1>7, <1>8, <1>9, <1>10, <1>11 DEF PoolInv

\* What is held for a transfer with state s and recorded steps st, whose worker is
\* suspended at l (or "idle", with no worker).
WholeAt(s, st, l) ==
    \/ l \in {"debitSent", "swap"}
    \/ s = "FAILED" /\ InputFundsMoved(st) /\ ~HasSwapped(st) /\ l # "returnSent"
FeeAt(s, st, l) ==
    \/ l = "swapSent"
    \/ s \in {"SWAPPED", "BRIDGED", "PAYOUT_DETAILS_PENDING"}
    \/ s = "FAILED" /\ HasSwapped(st) /\ l # "feeSent"
UsdcAt(s, st, l) ==
    \/ l \in {"swapSent", "bridge"}
    \/ /\ s = "FAILED" /\ HasSwapped(st) /\ ~HasBridged(st)
       /\ l \notin {"reverseSent", "fee", "feeSent"}
    \/ s = "FAILED" /\ HasBridged(st) /\ l \in {"releaseSent", "reverse"}

\* The step opens no more claims on t than it moves money.
Balanced(t, l, m) ==
    /\ orchEure' - orchEure >=
          ((IF WholeAt(state'[t], steps'[t], m) THEN Send ELSE 0)
             + (IF FeeAt(state'[t], steps'[t], m) THEN Fee ELSE 0))
          - ((IF WholeAt(state[t], steps[t], l) THEN Send ELSE 0)
             + (IF FeeAt(state[t], steps[t], l) THEN Fee ELSE 0))
    /\ orchUsdc' - orchUsdc >=
          (IF UsdcAt(state'[t], steps'[t], m) THEN Conv ELSE 0)
          - (IF UsdcAt(state[t], steps[t], l) THEN Conv ELSE 0)

Label(w, t) == IF job[w] = t THEN pc[w] ELSE "idle"

\* In a local step the worker's await alone tells what is held for its transfer.
LEMMA BalancedCovers ==
  ASSUME TypeOK, TypeOK', NEW w \in Workers, NEW t \in Transfers, Local(w, t),
         Balanced(t, Label(w, t), Label(w, t)')
  PROVE  Covered(t)
<1>1. \A v \in Workers \ {w} :
         /\ job[v] = t => pc[v] \in SettlePc
         /\ job'[v] = t => pc'[v] \in SettlePc
  BY DEF Local
<1>2. ASSUME NEW L, L \cap (SettlePc \cup {"idle"}) = {}
      PROVE  (At(t, L) <=> Label(w, t) \in L) /\ (At(t, L)' <=> Label(w, t)' \in L)
  BY <1>1, <1>2 DEF At, Label
<1>3. /\ HoldsEure(t) <=> WholeAt(state[t], steps[t], Label(w, t))
      /\ HoldsEure(t)' <=> WholeAt(state'[t], steps'[t], Label(w, t)')
  BY <1>2 DEF HoldsEure, WholeAt, SettlePc
<1>4. /\ HoldsFee(t) <=> FeeAt(state[t], steps[t], Label(w, t))
      /\ HoldsFee(t)' <=> FeeAt(state'[t], steps'[t], Label(w, t)')
  BY <1>2 DEF HoldsFee, FeeAt, SettlePc
<1>5. /\ HoldsUsdc(t) <=> UsdcAt(state[t], steps[t], Label(w, t))
      /\ HoldsUsdc(t)' <=> UsdcAt(state'[t], steps'[t], Label(w, t)')
  BY <1>2 DEF HoldsUsdc, UsdcAt, SettlePc
<1>6. QED
  BY <1>3, <1>4, <1>5, Zenon DEF Covered, Owed, OwedUsdc, Balanced

\* The execution moves the money from one claim to the next.
LEMMA PoolExecute ==
  ASSUME TypeOK, PoolCalm, ExclusionInv, CalmInv, PoolInv,
         NEW w \in Workers, NEW t \in Transfers, job[w] = t, Execute(w)
  PROVE  PoolKept(w, t)
<1> USE MoneyAssumption, WorkerAssumption
<1>1. TypeOK' /\ Local(w, t)
  BY TypeExecute, CalmExecute
<1>2. StepsInv(t) /\ AtHome(w) /\ (state[t] = "CREATED" => steps[t] = {})
  BY DEF PoolInv, ExclusionInv, CalmInv, RecordInv
<1>3. SwapStep = "liquidity.fx-swapper.eure-usdc"
  BY DEF SwapStep, PoolCalm
<1>4. StepsInv(t)' /\ LegInv(w)' /\ Balanced(t, Label(w, t), Label(w, t)')
  <2> USE <1>2, <1>3
      DEF TypeOK, StepsInv, LegInv, AtHome, Balanced, Label, WholeAt, FeeAt, UsdcAt,
          HasSwapped, HasBridged, InputFundsMoved, ReversePc, Send,
          records, chain, Await, Record, Return
  <2>1. CASE Debit(w)           BY <2>1 DEF Debit
  <2>2. CASE DebitRecorded(w)   BY <2>2 DEF DebitRecorded
  <2>3. CASE Swap(w)            BY <2>3 DEF Swap
  <2>4. CASE SwapRecorded(w)
    <3>1. /\ state[t] = "DEBITED" /\ state'[t] = "SWAPPED" /\ steps'[t] = steps[t] \cup {SwapStep}
          /\ Label(w, t) = "swapSent" /\ Label(w, t)' = "bridge" /\ pc'[w] = "bridge"
          /\ UNCHANGED <<orchEure, orchUsdc>>
      BY <2>4 DEF SwapRecorded
    <3>2. StepsInv(t)' /\ LegInv(w)'
      BY <3>1
    <3>3. Balanced(t, Label(w, t), Label(w, t)')
      BY <3>1
    <3>4. QED
      BY <3>2, <3>3, Zenon
  <2>5. CASE Lock(w)            BY <2>5 DEF Lock
  <2>6. CASE Burn(w)            BY <2>6 DEF Burn
  <2>7. CASE BurnConfirmed(w)   BY <2>7 DEF BurnConfirmed
  <2>8. CASE BridgeRecorded(w)
    <3>1. PICK leg \in {"bridge.lockForPayout", "cctp.burn"} : steps'[t] = steps[t] \cup {leg}
      BY <2>8 DEF BridgeRecorded
    <3>2. /\ state[t] = "SWAPPED" /\ state'[t] \in {"BRIDGED", "PAYOUT_READY"}
          /\ Label(w, t) \in {"lockSent", "attest"} /\ Label(w, t)' \in {"pickup", "idle"}
          /\ pc'[w] \in {"pickup", "idle"} /\ UNCHANGED <<orchEure, orchUsdc>>
      BY <2>8 DEF BridgeRecorded
    <3>3. StepsInv(t)' /\ LegInv(w)'
      BY <3>1, <3>2
    <3>4. Balanced(t, Label(w, t), Label(w, t)')
      BY <3>2
    <3>5. QED
      BY <3>3, <3>4, Zenon
  <2>9. CASE PickupCreated(w)   BY <2>9 DEF PickupCreated
  <2>10. QED
    BY <2>1, <2>2, <2>3, <2>4, <2>5, <2>6, <2>7, <2>8, <2>9 DEF Execute
<1>5. QED
  BY <1>1, <1>4, BalancedCovers DEF PoolKept

\* A compensation pays from the pool what it closes a claim on.
LEMMA PoolCompensate ==
  ASSUME TypeOK, PoolCalm, ExclusionInv, CalmInv, PoolInv,
         NEW w \in Workers, NEW t \in Transfers, job[w] = t, Compensate(w)
  PROVE  PoolKept(w, t)
<1> USE MoneyAssumption, WorkerAssumption
<1>1. TypeOK' /\ Local(w, t)
  BY TypeCompensate, CalmCompensate
<1>2. StepsInv(t) /\ LegInv(w) /\ AtHome(w) /\ CompensationInv(w)
  BY DEF PoolInv, ExclusionInv, CalmInv
<1>3. pc[w] \in CompPc
  BY DEF Compensate, CompPc, ReversePc, Release, Released, ReverseSwap, ReverseSwapped,
         ReturnFee, FeeReturned, ReturnEure, EureReturned
<1>4. state[t] = "FAILED" /\ InputFundsMoved(steps[t]) /\ UNCHANGED steps
  BY <1>2, <1>3
  DEF AtHome, CompensationInv, Compensate, Release, Released, ReverseSwap,
      ReverseSwapped, ReturnFee, FeeReturned, ReturnEure, EureReturned, Refunded, records
<1>5. Swapped(steps[t]) <=> HasSwapped(steps[t])
  BY <1>2 DEF StepsInv, HasSwapped, Swapped
<1>6. StepsInv(t)' /\ LegInv(w)' /\ Balanced(t, Label(w, t), Label(w, t)')
  <2> USE <1>2, <1>4, <1>5
      DEF TypeOK, StepsInv, LegInv, Balanced, Label, WholeAt, FeeAt, UsdcAt,
          ReversePc, Send, records, chain, Await, Return
  <2>1. CASE Release(w)         BY <2>1 DEF Release
  <2>2. CASE Released(w)        BY <2>2 DEF Released, AfterRelease
  <2>3. CASE ReverseSwap(w)     BY <2>3 DEF ReverseSwap
  <2>4. CASE ReverseSwapped(w)  BY <2>4 DEF ReverseSwapped, Refunded
  <2>5. CASE ReturnFee(w)       BY <2>5 DEF ReturnFee, FeeBack
  <2>6. CASE FeeReturned(w)     BY <2>6 DEF FeeReturned, Refunded
  <2>7. CASE ReturnEure(w)      BY <2>7 DEF ReturnEure
  <2>8. CASE EureReturned(w)    BY <2>8 DEF EureReturned, Refunded
  <2>9. QED
    BY <2>1, <2>2, <2>3, <2>4, <2>5, <2>6, <2>7, <2>8 DEF Compensate
<1>7. QED
  BY <1>1, <1>6, BalancedCovers DEF PoolKept

\* A leg that throws leaves the claims as they were, or gives them up to a review.
LEMMA PoolFailAndCompensate ==
  ASSUME TypeOK, TypeOK', PoolCalm, ExclusionInv, CalmInv, PoolInv,
         NEW w \in Workers, NEW t \in Transfers, job[w] = t, pc[w] \in ExecPc \ Sent,
         NEW new \in SUBSET Steps,
         new = IF pc[w] = "attest" THEN {"cctp.burn"} ELSE {},
         FailAndCompensate(w, t, new), UNCHANGED <<orchEure, orchUsdc>>
  PROVE  StepsInv(t)' /\ LegInv(w)' /\ Balanced(t, Label(w, t), Label(w, t)')
<1> USE MoneyAssumption, WorkerAssumption
<1>1. StepsInv(t) /\ AtHome(w) /\ RecordInv(t)
  BY DEF PoolInv, ExclusionInv, CalmInv
<1>2. Label(w, t) = pc[w]
  BY DEF Label
<1>3. refund[t] = NotRefunded /\ (state[t] \in OnTheWay \/ state[t] = "CREATED")
  BY <1>1 DEF AtHome, RecordInv, ExecPc, Sent, OnTheWay
<1>4. CASE "cctp.burn" \in steps[t] \cup new
  <2>1. /\ state'[t] = "MANUAL_REVIEW" /\ steps'[t] = steps[t] \cup new
        /\ pc'[w] = "idle" /\ job'[w] = None
    BY <1>4 DEF FailAndCompensate, Record, Return, TypeOK
  <2>2. StepsInv(t)'
    BY <1>1, <1>3, <2>1 DEF StepsInv, OnTheWay, AtHome, ExecPc
  <2>3. LegInv(w)'
    BY <2>1 DEF LegInv, ReversePc
  <2>4. Label(w, t)' = "idle"
    BY <2>1 DEF Label
  <2>5. Balanced(t, Label(w, t), Label(w, t)')
    BY <2>1, <2>4 DEF Balanced, WholeAt, FeeAt, UsdcAt, TypeOK, Send
  <2>6. QED
    BY <2>2, <2>3, <2>5
<1>5. CASE "cctp.burn" \notin steps[t] \cup new
  <2>1. new = {} /\ state'[t] = "FAILED" /\ steps'[t] = steps[t] /\ pc[w] # "attest"
    <3>1. pc[w] # "attest" /\ new = {}
      BY <1>5
    <3>2. Record(t, "FAILED", new)
      BY <1>5 DEF FailAndCompensate
    <3>3. QED
      BY <3>1, <3>2 DEF Record, TypeOK
  <2>2. CompensateTransfer(w, t, steps[t])
    BY <1>5, <2>1 DEF FailAndCompensate
  <2>3. pc[w] \in {"debit", "swap", "bridge", "pickup"}
    BY <2>1 DEF ExecPc, Sent
  <2>4. "bridge.settle" \notin steps[t]
    BY <1>1, <2>3 DEF StepsInv, AtHome
  <2>5. StepsInv(t)'
    BY <1>1, <1>5, <2>1, <2>3, <2>4 DEF StepsInv, AtHome, RecordInv, HasBridged, HasSwapped
  <2>6. /\ Swapped(steps[t]) <=> HasSwapped(steps[t])
        /\ HoldsEscrow(steps[t]) <=> HasBridged(steps[t])
    BY <1>1, <1>5, <2>4 DEF StepsInv, Swapped, HasSwapped, HoldsEscrow, HasBridged
  <2>7. CASE pc[w] = "debit"
    <3>1. steps[t] = {} /\ state[t] = "CREATED"
      BY <1>1, <2>7 DEF AtHome, RecordInv
    <3>2. pc'[w] = "idle" /\ job'[w] = None
      BY <1>3, <2>2, <3>1 DEF CompensateTransfer, InputFundsMoved, Return, TypeOK
    <3>3. LegInv(w)' /\ Label(w, t)' = "idle"
      BY <3>2 DEF LegInv, ReversePc, Label
    <3>4. Balanced(t, Label(w, t), Label(w, t)')
      BY <1>2, <2>1, <2>7, <3>1, <3>3
      DEF Balanced, WholeAt, FeeAt, UsdcAt, TypeOK, Send, InputFundsMoved, HasSwapped,
          HasBridged
    <3>5. QED
      BY <2>5, <3>3, <3>4
  <2>8. CASE pc[w] # "debit"
    <3>1. InputFundsMoved(steps[t])
      BY <1>1, <2>3, <2>8 DEF AtHome, RecordInv, OnTheWay
    <3>2. pc'[w] = FirstLeg(steps[t]) /\ job'[w] = t
      BY <1>3, <2>2, <3>1 DEF CompensateTransfer, Begin, TypeOK
    <3>3. Label(w, t)' = FirstLeg(steps[t])
      BY <3>2 DEF Label
    <3>4. FirstLeg(steps[t]) = IF HasBridged(steps[t]) THEN "release"
                               ELSE IF HasSwapped(steps[t]) THEN "reverse" ELSE "return"
      BY <2>6 DEF FirstLeg, AfterRelease
    <3>5. LegInv(w)'
      BY <1>1, <2>1, <2>5, <3>2, <3>4 DEF LegInv, ReversePc
    <3>6. Balanced(t, Label(w, t), Label(w, t)')
      BY <1>1, <1>2, <2>1, <2>3, <2>8, <3>1, <3>3, <3>4
      DEF Balanced, WholeAt, FeeAt, UsdcAt, TypeOK, Send, StepsInv, AtHome
    <3>7. QED
      BY <2>5, <3>5, <3>6
  <2>9. QED
    BY <2>7, <2>8
<1>6. QED
  BY <1>4, <1>5

\* No failing leg opens a claim.
LEMMA PoolFails ==
  ASSUME TypeOK, PoolCalm, ExclusionInv, CalmInv, PoolInv,
         NEW w \in Workers, NEW t \in Transfers, job[w] = t, Fails(w)
  PROVE  PoolKept(w, t)
<1> USE MoneyAssumption, WorkerAssumption
<1>1. TypeOK' /\ Local(w, t)
  BY TypeFails, CalmFails DEF PoolCalm
<1>2. StepsInv(t) /\ LegInv(w) /\ AtHome(w) /\ Label(w, t) = pc[w]
  BY DEF PoolInv, ExclusionInv, Label
<1>3. UNCHANGED <<orchEure, orchUsdc>>
  BY DEF Fails, ExecLegFails, AnchorRefuses, CompLegFails, ReverseFails, SettleFails, chain
<1>4. pc[w] \notin Sent
  <2>1. Throws(w) \/ pc[w] = "fee"
    BY DEF Fails, ExecLegFails, AnchorRefuses, CompLegFails, ReverseFails, SettleFails
  <2>2. QED
    BY <2>1, CalmThrows DEF PoolCalm, Sent
<1>5. StepsInv(t)' /\ LegInv(w)' /\ Balanced(t, Label(w, t), Label(w, t)')
  <2>1. CASE ExecLegFails(w)
    BY <1>1, <1>3, <1>4, <2>1, PoolFailAndCompensate DEF ExecLegFails, Steps
  <2>2. CASE AnchorRefuses(w) /\ ~deploy.allowMockFallback
    BY <1>1, <1>3, <2>2, PoolFailAndCompensate DEF AnchorRefuses, ExecPc, Sent
  <2>3. CASE AnchorRefuses(w) /\ deploy.allowMockFallback
    BY <1>2, <1>3, <2>3
    DEF AnchorRefuses, StepsInv, LegInv, AtHome, Balanced, Label, WholeAt, FeeAt, UsdcAt,
        TypeOK, ReversePc, Send, Record, Return
  <2>4. CASE CompLegFails(w)
    <3>1. /\ pc[w] \in {"release", "return"} /\ state[t] = "FAILED"
          /\ pc'[w] = "idle" /\ Label(w, t)' = "idle" /\ UNCHANGED <<state, steps>>
      BY <1>2, <1>4, <2>4
      DEF CompLegFails, CompPc, ReversePc, Sent, AtHome, Return, TypeOK, Label, records
    <3>2. StepsInv(t)' /\ LegInv(w)'
      BY <1>2, <3>1 DEF StepsInv, LegInv, ReversePc
    <3>3. Balanced(t, Label(w, t), Label(w, t)')
      BY <1>2, <1>3, <3>1 DEF Balanced, WholeAt, FeeAt, UsdcAt, TypeOK, Send
    <3>4. QED
      BY <3>2, <3>3
  <2>5. CASE ReverseFails(w)
    <3>1. /\ state[t] = "FAILED" /\ state'[t] = "MANUAL_REVIEW" /\ steps'[t] = steps[t]
          /\ pc'[w] = "idle" /\ Label(w, t)' = "idle"
      BY <1>2, <2>5
      DEF ReverseFails, CompPc, AtHome, Record, Return, TypeOK, Label
    <3>2. StepsInv(t)' /\ LegInv(w)'
      BY <1>2, <3>1 DEF StepsInv, LegInv, ReversePc
    <3>3. Balanced(t, Label(w, t), Label(w, t)')
      BY <1>3, <3>1 DEF Balanced, WholeAt, FeeAt, UsdcAt, TypeOK, Send
    <3>4. QED
      BY <3>2, <3>3
  <2>6. CASE SettleFails(w)
    <3>1. /\ pc[w] \in SettlePc /\ state[t] \in {"PAYOUT_READY", "PAID"}
          /\ pc'[w] = "idle" /\ Label(w, t)' = "idle" /\ UNCHANGED <<state, steps>>
      BY <1>2, <2>6 DEF SettleFails, AtHome, Return, TypeOK, Label, records
    <3>2. StepsInv(t)' /\ LegInv(w)'
      BY <1>2, <3>1 DEF StepsInv, LegInv, ReversePc
    <3>3. Balanced(t, Label(w, t), Label(w, t)')
      BY <1>2, <1>3, <3>1 DEF Balanced, WholeAt, FeeAt, UsdcAt, TypeOK, Send, SettlePc
    <3>4. QED
      BY <3>2, <3>3
  <2>7. QED
    BY <2>1, <2>2, <2>3, <2>4, <2>5, <2>6 DEF Fails
<1>6. QED
  BY <1>1, <1>5, BalancedCovers DEF PoolKept

\* Nor does a worker that starts.
LEMMA PoolStart ==
  ASSUME TypeOK, PoolCalm, ExclusionInv, CalmInv, PoolInv,
         NEW w \in Workers, NEW t \in Transfers,
         Authorize(w, t) \/ Sweep(w, t) \/ SettlePickup(w, t)
  PROVE  PoolKept(w, t)
<1> USE MoneyAssumption, WorkerAssumption
<1>1. TypeOK' /\ Local(w, t)
  BY TypeStart, CalmStart DEF PoolCalm
<1>2. StepsInv(t) /\ RecordInv(t) /\ AttendedInv(t)
  BY DEF PoolInv, CalmInv
<1>3. /\ pc[w] = "idle" /\ job[w] = None /\ Label(w, t) = "idle"
      /\ UNCHANGED <<orchEure, orchUsdc>>
  BY DEF TypeOK, Label, Authorize, Sweep, SweepFailed, SweepStranded, SettlePickup, chain
<1>4. StepsInv(t)' /\ LegInv(w)' /\ Balanced(t, Label(w, t), Label(w, t)')
  <2>1. CASE Authorize(w, t)
    <3>1. /\ state[t] = "CREATED" /\ UNCHANGED <<state, steps>>
          /\ pc'[w] = "debit" /\ Label(w, t)' = "debit"
      BY <2>1 DEF Authorize, Begin, TypeOK, Label
    <3>2. StepsInv(t)' /\ LegInv(w)'
      BY <1>2, <3>1 DEF StepsInv, LegInv, ReversePc
    <3>3. Balanced(t, Label(w, t), Label(w, t)')
      BY <1>3, <3>1 DEF Balanced, WholeAt, FeeAt, UsdcAt, TypeOK, Send
    <3>4. QED
      BY <3>2, <3>3
  <2>2. CASE Sweep(w, t)
    <3>1. \A v \in Workers : job[v] # t
      BY <2>2 DEF Sweep, SweepFailed, SweepStranded, LooksStranded, PoolCalm, Calm, Timely
    <3>2. SweepFailed(w, t)
      BY <1>2, <2>2, <3>1 DEF Sweep, SweepStranded, AttendedInv
    <3>3. /\ state[t] = "FAILED" /\ UNCHANGED <<state, steps>>
          /\ pc'[w] = FirstLeg(steps[t]) /\ job'[w] = t
          /\ Label(w, t)' = FirstLeg(steps[t])
      BY <3>2 DEF SweepFailed, Begin, TypeOK, Label, records
    <3>4. FirstLeg(steps[t]) = IF HasBridged(steps[t]) THEN "release"
                               ELSE IF HasSwapped(steps[t]) THEN "reverse" ELSE "return"
      BY <1>2, <3>3
      DEF FirstLeg, AfterRelease, StepsInv, Swapped, HasSwapped, HoldsEscrow, HasBridged
    <3>5. StepsInv(t)' /\ LegInv(w)'
      BY <1>2, <3>3, <3>4 DEF StepsInv, LegInv, ReversePc
    <3>6. Balanced(t, Label(w, t), Label(w, t)')
      BY <1>2, <1>3, <3>3, <3>4
      DEF Balanced, WholeAt, FeeAt, UsdcAt, TypeOK, Send, StepsInv
    <3>7. QED
      BY <3>5, <3>6
  <2>3. CASE SettlePickup(w, t)
    <3>1. /\ state[t] = "PAYOUT_READY" /\ state'[t] \in {"PAYOUT_READY", "PAID"}
          /\ steps'[t] = steps[t]
          /\ pc'[w] \in {"settle", "idle"} /\ Label(w, t)' \in {"settle", "idle"}
      BY <1>3, <2>3
      DEF SettlePickup, Begin, Record, TypeOK, Label, records, control
    <3>2. StepsInv(t)' /\ LegInv(w)'
      BY <1>2, <3>1 DEF StepsInv, LegInv, ReversePc
    <3>3. Balanced(t, Label(w, t), Label(w, t)')
      BY <1>3, <3>1 DEF Balanced, WholeAt, FeeAt, UsdcAt, TypeOK, Send
    <3>4. QED
      BY <3>2, <3>3
  <2>4. QED
    BY <2>1, <2>2, <2>3
<1>5. QED
  BY <1>1, <1>4, BalancedCovers DEF PoolKept

\* Nor a settlement.
LEMMA PoolSettle ==
  ASSUME TypeOK, PoolCalm, ExclusionInv, CalmInv, PoolInv,
         NEW w \in Workers, NEW t \in Transfers, job[w] = t, Settle(w) \/ Settled(w)
  PROVE  PoolKept(w, t)
<1> USE MoneyAssumption, WorkerAssumption
<1>1. TypeOK' /\ Local(w, t)
  BY TypeSettle, CalmSettle
<1>2. StepsInv(t) /\ AtHome(w)
  BY DEF PoolInv, ExclusionInv
<1>3. /\ state[t] \in {"PAYOUT_READY", "PAID"} /\ state'[t] \in {"PAYOUT_READY", "PAID"}
      /\ Label(w, t) \in SettlePc /\ Label(w, t)' \in {"settleSent", "idle"}
      /\ pc'[w] \in {"settleSent", "idle"} /\ UNCHANGED <<orchEure, orchUsdc>>
      /\ \/ steps'[t] = steps[t] /\ state'[t] = state[t]
         \/ steps'[t] = steps[t] \cup {"bridge.settle"} /\ state'[t] = "PAID"
  BY <1>2
  DEF Settle, Settled, AtHome, SettlePc, Label, TypeOK, Await, Record, Return, records,
      chain
<1>4. StepsInv(t)' /\ LegInv(w)'
  BY <1>2, <1>3 DEF StepsInv, LegInv, ReversePc
<1>5. Balanced(t, Label(w, t), Label(w, t)')
  BY <1>3 DEF Balanced, WholeAt, FeeAt, UsdcAt, TypeOK, Send, SettlePc
<1>6. QED
  BY <1>1, <1>4, <1>5, BalancedCovers DEF PoolKept

\* A step that does not end the calm leaves the pool covering every claim.
LEMMA PoolStep ==
  ASSUME TypeOK, TypeOK', PoolCalm, ExclusionInv, CalmInv, PoolInv, [Next]_vars,
         crashes' = 0
  PROVE  PoolInv'
<1>1. CASE Crash
  BY <1>1 DEF Crash, PoolCalm, Calm
<1>2. CASE UNCHANGED vars
  <2>1. UNCHANGED <<state, steps, pc, job, orchEure, orchUsdc>>
    BY <1>2 DEF vars, records, control, chain
  <2>2. ASSUME NEW t \in Transfers
        PROVE  /\ HoldsEure(t)' <=> HoldsEure(t)
               /\ HoldsFee(t)' <=> HoldsFee(t)
               /\ HoldsUsdc(t)' <=> HoldsUsdc(t)
    BY <2>1 DEF HoldsEure, HoldsFee, HoldsUsdc, At
  <2>3. WholeIn' = WholeIn /\ FeeIn' = FeeIn /\ UsdcIn' = UsdcIn
    BY <2>2 DEF WholeIn, FeeIn, UsdcIn
  <2>4. QED
    BY <2>1, <2>3 DEF PoolInv, StepsInv, LegInv
<1>3. ASSUME NEW w \in Workers, Resume(w)
      PROVE  PoolInv'
  <2>1. pc[w] # "idle"
    BY <1>3
    DEF Resume, Execute, Compensate, Fails, Debit, DebitRecorded, Swap, SwapRecorded,
        Lock, Burn, BurnConfirmed, BridgeRecorded, PickupCreated, Release, Released,
        ReverseSwap, ReverseSwapped, ReturnFee, FeeReturned, ReturnEure, EureReturned,
        ExecLegFails, AnchorRefuses, CompLegFails, ReverseFails, SettleFails, Settle,
        Settled, ExecPc, CompPc, ReversePc, SettlePc
  <2>2. PICK t \in Transfers : job[w] = t
    BY <2>1 DEF TypeOK
  <2>3. Local(w, t)
    BY <1>3, <2>2, CalmExecute, CalmCompensate, CalmFails, CalmSettle DEF Resume, PoolCalm
  <2>4. PoolKept(w, t)
    BY <1>3, <2>2, PoolExecute, PoolCompensate, PoolFails, PoolSettle DEF Resume
  <2>5. QED
    BY <2>3, <2>4, PoolLocal
<1>4. ASSUME NEW w \in Workers, NEW t \in Transfers,
             Authorize(w, t) \/ Sweep(w, t) \/ SettlePickup(w, t)
      PROVE  PoolInv'
  <2>1. Local(w, t)
    BY <1>4, CalmStart DEF PoolCalm
  <2>2. PoolKept(w, t)
    BY <1>4, PoolStart
  <2>3. QED
    BY <2>1, <2>2, PoolLocal
<1>5. QED
  BY <1>1, <1>2, <1>3, <1>4 DEF Next

\* At first nothing is held for anybody.
LEMMA PoolInit == Init => PoolInv
<1> SUFFICES ASSUME Init PROVE PoolInv
  OBVIOUS
<1>1. \A t \in Transfers : state[t] = "CREATED" /\ steps[t] = {}
  BY DEF Init
<1>2. \A w \in Workers : job[w] = None /\ pc[w] = "idle"
  BY DEF Init
<1>3. WholeIn = {} /\ FeeIn = {} /\ UsdcIn = {}
  BY <1>1, <1>2, WorkerAssumption
  DEF WholeIn, FeeIn, UsdcIn, HoldsEure, HoldsFee, HoldsUsdc, At
<1>4. /\ IsFiniteSet(WholeIn) /\ IsFiniteSet(FeeIn) /\ IsFiniteSet(UsdcIn)
      /\ Cardinality(WholeIn) = 0 /\ Cardinality(FeeIn) = 0 /\ Cardinality(UsdcIn) = 0
  BY <1>3, FS_EmptySet
<1>5. /\ orchEure >= Float + Send * Cardinality(WholeIn) + Fee * Cardinality(FeeIn)
      /\ orchUsdc >= Conv * Cardinality(UsdcIn)
  BY <1>4, MoneyAssumption DEF Init, Send
<1>6. \A t \in Transfers : StepsInv(t)
  BY <1>1 DEF StepsInv
<1>7. \A w \in Workers : LegInv(w)
  BY <1>2 DEF LegInv, ReversePc
<1>8. QED
  BY <1>4, <1>5, <1>6, <1>7 DEF PoolInv

\* The configuration is fixed, so where swaps are filled is.
LEMMA DeployFixed == [Next]_vars => UNCHANGED deploy
  BY DEF Next, vars, Resume, Execute, Compensate, Fails, Sweep, Crash, Authorize,
         Debit, DebitRecorded, Swap, SwapRecorded, Lock, Burn, BurnConfirmed,
         BridgeRecorded, PickupCreated, Release, Released, ReverseSwap,
         ReverseSwapped, ReturnFee, FeeReturned, ReturnEure, EureReturned,
         ExecLegFails, AnchorRefuses, CompLegFails, ReverseFails, SettleFails,
         SweepFailed, SweepStranded, SettlePickup, Settle, Settled

\* So the invariant of the pool is inductive while it is calm.
LEMMA PoolInvStep ==
  TypeOK /\ PayoutInv /\ (Calm => CalmInv) /\ (PoolCalm => PoolInv) /\ [Next]_vars
    => (PoolCalm => PoolInv)'
<1> SUFFICES ASSUME TypeOK, PayoutInv, Calm => CalmInv, PoolCalm => PoolInv, [Next]_vars,
                    PoolCalm'
             PROVE  PoolInv'
  OBVIOUS
<1>1. Calm /\ crashes' = 0
  BY CalmBefore DEF PoolCalm, Calm
<1>2. PoolCalm
  BY <1>1, DeployFixed DEF PoolCalm
<1>3. ExclusionInv /\ CalmInv /\ PoolInv /\ TypeOK'
  BY <1>1, <1>2, TypeStep DEF PayoutInv, Calm
<1>4. QED
  BY <1>1, <1>2, <1>3, PoolStep

\* A multiple of a smaller number is smaller.
LEMMA SmallerMultiple ==
  ASSUME NEW k \in Nat, NEW a \in Nat, NEW b \in Nat, a <= b
  PROVE  k * a <= k * b /\ k * a \in Nat /\ k * b \in Nat
<1>1. PICK d \in Nat : b = a + d
  BY b - a \in Nat, b = a + (b - a)
<1>2. k * b = k * a + k * d /\ k * d \in Nat /\ k * a \in Nat
  BY <1>1
<1>3. QED
  BY <1>2

\* While nobody works on a transfer, what its record claims is held for it.
LEMMA ClaimsAreHeld ==
  ASSUME TypeOK, ExclusionInv, CalmInv, PoolInv, \A w \in Workers : pc[w] = "idle"
  PROVE  StillEure \subseteq WholeIn /\ Holding \ StillEure \subseteq FeeIn
         /\ StillUsdc \subseteq UsdcIn
<1>1. \A w \in Workers : job[w] = None
  BY DEF TypeOK
<1>2. ASSUME NEW t \in Holding
      PROVE  /\ t \in Transfers
             /\ \/ state[t] = "PAYOUT_DETAILS_PENDING"
                \/ state[t] = "FAILED" /\ InputFundsMoved(steps[t])
  <2>1. /\ t \in Transfers /\ InputFundsMoved(steps[t]) /\ refund[t] = NotRefunded
        /\ state[t] \notin {"PAYOUT_READY", "PAID", "MANUAL_REVIEW"}
    BY DEF Holding
  <2>2. RecordInv(t) /\ AttendedInv(t) /\ state[t] \in States
    BY <2>1 DEF CalmInv, TypeOK
  <2>3. state[t] \notin {"CREATED", "DEBITED", "SWAPPED", "BRIDGED"}
    BY <1>1, <2>1, <2>2, WorkerAssumption DEF RecordInv, AttendedInv, InputFundsMoved
  <2>4. state[t] # "REFUNDED"
    BY <2>1, <2>2, MoneyAssumption
    DEF RecordInv, Returned, FeeBack, Send, NotRefunded
  <2>5. QED
    BY <2>1, <2>2, <2>3, <2>4 DEF States
<1>3. ASSUME NEW t \in Transfers, NEW L
      PROVE  ~At(t, L)
  BY <1>1, WorkerAssumption DEF At
<1>4. \A t \in Transfers : StepsInv(t)
  BY DEF PoolInv
<1>5. StillEure \subseteq WholeIn
  BY <1>2, <1>3, <1>4 DEF StillEure, WholeIn, HoldsEure, StepsInv
<1>6. Holding \ StillEure \subseteq FeeIn
  BY <1>2, <1>3, <1>4 DEF StillEure, FeeIn, HoldsFee, StepsInv
<1>7. StillUsdc \subseteq UsdcIn
  BY <1>2, <1>3, <1>4 DEF StillUsdc, UsdcIn, HoldsUsdc, StepsInv
<1>8. QED
  BY <1>5, <1>6, <1>7

\* PoolCoversEveryClaim holds in a calm world with the FxSwapper: refunds and swaps
\* never spend what the records say is held for another sender.
THEOREM PoolIsNeverShort == Spec => [](PoolCalm => PoolCoversEveryClaim)
<1>1. TypeOK /\ PayoutInv /\ (Calm => CalmInv) /\ PoolCalm /\ PoolInv => PoolCoversEveryClaim
  <2> SUFFICES ASSUME TypeOK, PayoutInv, Calm => CalmInv, PoolCalm, PoolInv,
                      \A w \in Workers : pc[w] = "idle"
               PROVE  /\ orchEure >= Float + Send * Cardinality(StillEure)
                                     + Fee * Cardinality(Holding \ StillEure)
                      /\ orchUsdc >= Conv * Cardinality(StillUsdc)
    BY DEF PoolCoversEveryClaim
  <2> USE MoneyAssumption
  <2>1. /\ StillEure \subseteq WholeIn /\ Holding \ StillEure \subseteq FeeIn
        /\ StillUsdc \subseteq UsdcIn
    BY ClaimsAreHeld DEF PoolCalm, Calm, PayoutInv
  <2>2. /\ IsFiniteSet(WholeIn) /\ IsFiniteSet(FeeIn) /\ IsFiniteSet(UsdcIn)
        /\ orchEure >= Float + Send * Cardinality(WholeIn) + Fee * Cardinality(FeeIn)
        /\ orchUsdc >= Conv * Cardinality(UsdcIn)
    BY DEF PoolInv
  <2>3. ASSUME NEW A, NEW B, A \subseteq B, IsFiniteSet(B), NEW k \in Nat
        PROVE  /\ k * Cardinality(A) <= k * Cardinality(B)
               /\ k * Cardinality(A) \in Nat /\ k * Cardinality(B) \in Nat
    <3>1. /\ IsFiniteSet(A) /\ Cardinality(A) <= Cardinality(B)
          /\ Cardinality(A) \in Nat /\ Cardinality(B) \in Nat
      BY <2>3, FS_Subset, FS_CardinalityType
    <3>2. QED
      BY <3>1, SmallerMultiple
  <2>4. Send \in Nat /\ Fee \in Nat /\ Conv \in Nat /\ Float \in Nat
        /\ orchEure \in Nat /\ orchUsdc \in Nat
    BY DEF Send, TypeOK
  <2>5. /\ Send * Cardinality(StillEure) <= Send * Cardinality(WholeIn)
        /\ Send * Cardinality(StillEure) \in Nat /\ Send * Cardinality(WholeIn) \in Nat
    BY <2>1, <2>2, <2>3, <2>4
  <2>6. /\ Fee * Cardinality(Holding \ StillEure) <= Fee * Cardinality(FeeIn)
        /\ Fee * Cardinality(Holding \ StillEure) \in Nat /\ Fee * Cardinality(FeeIn) \in Nat
    BY <2>1, <2>2, <2>3, <2>4
  <2>7. /\ Conv * Cardinality(StillUsdc) <= Conv * Cardinality(UsdcIn)
        /\ Conv * Cardinality(StillUsdc) \in Nat /\ Conv * Cardinality(UsdcIn) \in Nat
    BY <2>1, <2>2, <2>3, <2>4
  <2>8. QED
    BY <2>2, <2>4, <2>5, <2>6, <2>7
<1>2. QED
  BY <1>1, TypeInit, TypeStep, PayoutInit, PayoutStep, CalmInit, CalmInvStep,
     PoolInit, PoolInvStep, PTL DEF Spec
=============================================================================
