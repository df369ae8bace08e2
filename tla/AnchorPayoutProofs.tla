--------------------------- MODULE AnchorPayoutProofs ---------------------------
(***************************************************************************)
(* Theorems about AnchorPayout, for every set of transfers, any number of  *)
(* refreshes and sweeps in flight, faults and crashes.                     *)
(***************************************************************************)
EXTENDS AnchorPayout, TLAPS

(***************************************************************************)
(* The inductive invariant.  That nothing is paid twice rests on one       *)
(* worker per transfer, which is more than the lock gives by itself: the   *)
(* lock keeps two refreshes apart, and the states keep a refresh and a     *)
(* compensation apart.                                                     *)
(***************************************************************************)
OneWorker == \A v, w \in Workers : job[v] = job[w] /\ job[v] # None => v = w

\* A refresh is at work in a waiting state only, a compensation in FAILED.
AtWork ==
    \A w \in Workers :
        /\ pc[w] \in RefreshPc => state[job[w]] \in Waiting
        /\ pc[w] = "refund" => state[job[w]] = "FAILED"

\* Who is about to pay saw no hash, and what failed or was refunded has none.
Unpaid ==
    /\ \A w \in Workers :
          pc[w] \in {"prepare", "submit", "submitted"} => ~hash[job[w]]
    /\ \A t \in Transfers : state[t] \in {"FAILED", "REFUNDED"} => ~hash[t]

\* Without a hash, nothing was paid but what is in flight or was lost.
PaymentsHaveHashes ==
    \A t \in Transfers :
        ~hash[t] /\ state[t] \in Waiting \cup {"FAILED", "REFUNDED"} /\ ~InFlight(t) =>
            payments[t] <= lost[t]

RefundedState == \A t \in Transfers : refunded[t] => state[t] = "REFUNDED"

PayoutInv ==
    TypeOK /\ OneWorker /\ AtWork /\ Unpaid /\ PaymentsHaveHashes /\ PaidAtMostOnce
    /\ RefundedState

\* The anchor has just opened the withdrawal.
LEMMA InvInit == Init => PayoutInv
  BY WorkerAssumption, BoundAssumption
  DEF Init, PayoutInv, TypeOK, OneWorker, AtWork, Unpaid, PaymentsHaveHashes,
      PaidAtMostOnce, RefundedState, InFlight, States, Waiting, Statuses, Ended, RefreshPc

-----------------------------------------------------------------------------
\* settlePickup moves the transfer within the waiting states or to PAID, and its
\* worker to the settlement or to rest.
Ends(w, t) ==
    \E p \in {"settle", "idle"}, u \in Waiting \cup {"PAID"} :
        /\ p = "settle" => u \in Waiting
        /\ state' = [state EXCEPT ![t] = u]
        /\ pc' = [pc EXCEPT ![w] = p]
        /\ job' = [job EXCEPT ![w] = IF p = "idle" THEN None ELSE t]

\* settlePickup is of that form.
LEMMA SettlePickupEnds ==
  ASSUME NEW w, NEW t, NEW s \in Waiting, SettlePickup(w, t, s)
  PROVE  Ends(w, t)
  BY DEF Ends, SettlePickup, SetState, Begin, Return

\* So is the end of fundAndRefreshAnchorPickup.
LEMMA FinishEnds ==
  ASSUME NEW w, NEW t, NEW status, Finish(w, t, status)
  PROVE  Ends(w, t)
<1>1. CASE SettlePickup(w, t, "PAYOUT_FUNDED")
  BY <1>1, SettlePickupEnds DEF Waiting
<1>2. CASE status # "completed"
  <2>1. CashPayoutState(status, hash[t]) \in Waiting
    BY <1>2 DEF CashPayoutState, Waiting
  <2>2. /\ state' = [state EXCEPT ![t] = CashPayoutState(status, hash[t])]
        /\ pc' = [pc EXCEPT ![w] = "idle"] /\ job' = [job EXCEPT ![w] = None]
    BY <1>2 DEF Finish, SetState, Return
  <2>3. QED
    BY <2>1, <2>2 DEF Ends
<1>3. QED
  BY <1>1, <1>2 DEF Finish

(***************************************************************************)
(* A worker that holds t moves on, t stays in the waiting states or is     *)
(* PAID, and no money moves: every way a refresh ends well is of this      *)
(* form.                                                                   *)
(***************************************************************************)
LEMMA EndInv ==
  ASSUME PayoutInv, NEW w \in Workers, NEW t \in Transfers, Ends(w, t),
         state[t] \in Waiting, pc[w] # "submitted",
         \A v \in Workers : job[v] = t => v = w,
         seen' \in [Transfers -> Statuses], collected' \in [Transfers -> BOOLEAN],
         UNCHANGED <<cctpLive, hash, settled, external, money, lost, bounds>>
  PROVE  PayoutInv'
<1> USE DEF PayoutInv, TypeOK, external, money, bounds
<1>0. PICK p \in {"settle", "idle"}, u \in Waiting \cup {"PAID"} :
         /\ p = "settle" => u \in Waiting
         /\ state' = [state EXCEPT ![t] = u]
         /\ pc' = [pc EXCEPT ![w] = p]
         /\ job' = [job EXCEPT ![w] = IF p = "idle" THEN None ELSE t]
  BY DEF Ends
<1>1. TypeOK'
  BY <1>0, WorkerAssumption DEF States, RefreshPc
<1>2. OneWorker'
  BY <1>0 DEF OneWorker
<1>3. AtWork'
  BY <1>0, WorkerAssumption DEF AtWork, OneWorker, RefreshPc, Waiting
<1>4. Unpaid'
  BY <1>0, WorkerAssumption DEF Unpaid, Waiting, RefreshPc
<1>5. PaymentsHaveHashes'
  <2>1. \A x \in Transfers : InFlight(x) => InFlight(x)'
    BY <1>0 DEF InFlight
  <2>2. QED
    BY <1>0, <2>1 DEF PaymentsHaveHashes, Waiting
<1>6. PaidAtMostOnce' /\ RefundedState'
  BY <1>0 DEF PaidAtMostOnce, RefundedState, Waiting
<1>7. QED
  BY <1>1, <1>2, <1>3, <1>4, <1>5, <1>6

\* A refresh that gives up leaves the transfer under review, or refunds it when
\* certainly nothing was paid.
LEMMA GiveUpInv ==
  ASSUME PayoutInv, NEW w \in Workers, NEW t \in Transfers, NEW uncertain \in BOOLEAN,
         job[w] = t, pc[w] \in RefreshPc,
         pc[w] \in {"submit", "submitted"} => uncertain,
         GiveUp(w, t, uncertain),
         seen' \in [Transfers -> Statuses],
         faults' \in 0..MaxFaults, crashes' = crashes,
         UNCHANGED <<cctpLive, hash, collected, settled, external, money, lost>>
  PROVE  PayoutInv'
<1> USE DEF PayoutInv, TypeOK, external, money
<1>1. \A v \in Workers : job[v] = t => v = w
  BY WorkerAssumption DEF OneWorker
<1>2. state[t] \in Waiting
  BY DEF AtWork
<1>3. CASE /\ state' = [state EXCEPT ![t] = "MANUAL_REVIEW"]
           /\ pc' = [pc EXCEPT ![w] = "idle"] /\ job' = [job EXCEPT ![w] = None]
  <2>1. TypeOK'
    BY <1>3, WorkerAssumption DEF States, RefreshPc
  <2>2. OneWorker' /\ AtWork' /\ Unpaid'
    BY <1>1, <1>3, WorkerAssumption DEF OneWorker, AtWork, Unpaid, RefreshPc
  <2>3. PaymentsHaveHashes'
    <3>1. ASSUME NEW x \in Transfers, x # t, InFlight(x) PROVE InFlight(x)'
      BY <1>3, <3>1 DEF InFlight
    <3>2. QED
      BY <1>3, <3>1 DEF PaymentsHaveHashes, Waiting
  <2>4. PaidAtMostOnce' /\ RefundedState'
    BY <1>2, <1>3 DEF PaidAtMostOnce, RefundedState, Waiting
  <2>5. QED
    BY <2>1, <2>2, <2>3, <2>4
<1>4. CASE /\ ~hash[t] /\ pc[w] \notin {"submit", "submitted"}
           /\ state' = [state EXCEPT ![t] = "FAILED"]
           /\ pc' = [pc EXCEPT ![w] = "refund"] /\ job' = [job EXCEPT ![w] = t]
  <2>1. TypeOK'
    BY <1>4, WorkerAssumption DEF States, RefreshPc
  <2>2. OneWorker' /\ AtWork' /\ Unpaid'
    BY <1>1, <1>4, WorkerAssumption DEF OneWorker, AtWork, Unpaid, RefreshPc
  <2>3. PaymentsHaveHashes'
    <3>1. \A x \in Transfers : InFlight(x) => InFlight(x)'
      BY <1>4 DEF InFlight
    <3>2. QED
      BY <1>2, <1>4, <3>1 DEF PaymentsHaveHashes, Waiting
  <2>4. PaidAtMostOnce' /\ RefundedState'
    BY <1>2, <1>4 DEF PaidAtMostOnce, RefundedState, Waiting
  <2>5. QED
    BY <2>1, <2>2, <2>3, <2>4
<1>5. QED
  BY <1>3, <1>4 DEF GiveUp, SetState, Return, Begin

-----------------------------------------------------------------------------
\* A refresh begins: by the state no compensation holds the transfer, by the lock
\* no other refresh does.
LEMMA RefreshPayoutInv ==
  ASSUME PayoutInv, NEW w \in Workers, NEW t \in Transfers, RefreshPayout(w, t)
  PROVE  PayoutInv'
<1> USE DEF PayoutInv, TypeOK, external, money, bounds, pickup
<1>1. /\ pc[w] = "idle" /\ state[t] \in Waiting
      /\ \A v \in Workers : job[v] # t
  BY WorkerAssumption DEF RefreshPayout, Unlocked, AtWork, Waiting
<1>2. CASE SettlePickup(w, t, state[t])
  <2>1. Ends(w, t)
    BY <1>1, <1>2, SettlePickupEnds
  <2>2. QED
    BY <1>1, <2>1, EndInv DEF RefreshPayout
<1>3. CASE Begin(w, t, "read") /\ UNCHANGED state
  <2> USE <1>1, <1>3 DEF RefreshPayout, Begin
  <2>1. TypeOK'
    BY WorkerAssumption DEF RefreshPc
  <2>2. OneWorker' /\ AtWork' /\ Unpaid'
    BY DEF OneWorker, AtWork, Unpaid, RefreshPc
  <2>3. PaymentsHaveHashes'
    <3>1. \A x \in Transfers : InFlight(x) => InFlight(x)'
      BY DEF InFlight
    <3>2. QED
      BY <3>1 DEF PaymentsHaveHashes
  <2>4. PaidAtMostOnce' /\ RefundedState'
    BY DEF PaidAtMostOnce, RefundedState
  <2>5. QED
    BY <2>1, <2>2, <2>3, <2>4
<1>4. QED
  BY <1>2, <1>3 DEF RefreshPayout

\* A worker at a refresh has a transfer, waiting and its own.
LEMMA AtRefresh ==
  ASSUME PayoutInv, NEW w \in Workers, pc[w] \in RefreshPc
  PROVE  /\ job[w] \in Transfers /\ state[job[w]] \in Waiting
         /\ \A v \in Workers : job[v] = job[w] => v = w
  BY WorkerAssumption DEF PayoutInv, TypeOK, OneWorker, AtWork, RefreshPc

\* A refresh that ended well.
LEMMA FinishInv ==
  ASSUME PayoutInv, NEW w \in Workers, NEW t \in Transfers, job[w] = t,
         pc[w] \in {"read", "prepare", "poll"},
         NEW status \in Statuses, Finish(w, t, status),
         UNCHANGED <<cctpLive, hash, settled, external, money, lost, bounds>>
  PROVE  PayoutInv'
<1>1. pc[w] \in RefreshPc
  BY DEF RefreshPc
<1>2. state[t] \in Waiting /\ \A v \in Workers : job[v] = t => v = w
  BY <1>1, AtRefresh
<1>3. seen' \in [Transfers -> Statuses] /\ collected' \in [Transfers -> BOOLEAN]
  BY DEF Finish, PayoutInv, TypeOK
<1>4. Ends(w, t)
  BY FinishEnds
<1>5. QED
  BY <1>2, <1>3, <1>4, EndInv

\* The worker only goes to its next await.
LEMMA AwaitInv ==
  ASSUME PayoutInv, NEW w \in Workers, pc[w] \in {"read", "prepare"},
         NEW label \in {"prepare", "submit", "poll"}, Await(w, label),
         label \in {"prepare", "submit"} => ~hash[job[w]],
         seen' \in [Transfers -> Statuses],
         UNCHANGED <<cctpLive, state, hash, collected, settled, external, money, lost,
                     bounds>>
  PROVE  PayoutInv'
<1> USE DEF PayoutInv, TypeOK, external, money, bounds, Await
<1>1. TypeOK'
  BY DEF RefreshPc
<1>2. OneWorker' /\ AtWork' /\ Unpaid'
  BY DEF OneWorker, AtWork, Unpaid, RefreshPc
<1>3. PaymentsHaveHashes'
  <2>1. \A x \in Transfers : InFlight(x) => InFlight(x)'
    BY DEF InFlight
  <2>2. QED
    BY <2>1 DEF PaymentsHaveHashes
<1>4. PaidAtMostOnce' /\ RefundedState'
  BY DEF PaidAtMostOnce, RefundedState
<1>5. QED
  BY <1>1, <1>2, <1>3, <1>4

-----------------------------------------------------------------------------
(* One lemma per group of actions.                                         *)

\* The actions of a refresh up to the settlement, the payment aside.
LEMMA ReadingInv ==
  ASSUME PayoutInv, NEW w \in Workers, Read(w) \/ Prepare(w) \/ Poll(w)
  PROVE  PayoutInv'
<1>1. pc[w] \in {"read", "prepare", "poll"}
  BY DEF Read, Prepare, Poll
<1>2. job[w] \in Transfers /\ anchor[job[w]] \in Statuses /\ seen[job[w]] \in Statuses
  BY <1>1, AtRefresh DEF RefreshPc, PayoutInv, TypeOK
<1>3. CASE Read(w)
  <2>1. CASE Finish(w, job[w], anchor[job[w]])
    BY <1>2, <1>3, <2>1, FinishInv DEF Read
  <2>2. CASE /\ GiveUp(w, job[w], FALSE) /\ UNCHANGED collected
             /\ seen' = [seen EXCEPT ![job[w]] = anchor[job[w]]]
    <3>1. seen' \in [Transfers -> Statuses]
      BY <1>2, <2>2 DEF PayoutInv, TypeOK
    <3>2. /\ pc[w] = "read"
          /\ UNCHANGED <<cctpLive, hash, settled, external, money, lost, bounds>>
      BY <1>3 DEF Read
    <3>3. faults' \in 0..MaxFaults /\ crashes' = crashes
      BY <3>2 DEF PayoutInv, TypeOK, bounds
    <3>4. QED
      BY <1>2, <2>2, <3>1, <3>2, <3>3, GiveUpInv DEF RefreshPc
  <2>3. CASE /\ Await(w, IF hash[job[w]] THEN "poll" ELSE "prepare")
             /\ UNCHANGED <<state, collected>>
             /\ seen' = [seen EXCEPT ![job[w]] = anchor[job[w]]]
    <3>1. seen' \in [Transfers -> Statuses]
      BY <1>2, <2>3 DEF PayoutInv, TypeOK
    <3>2. QED
      BY <1>2, <1>3, <2>3, <3>1, AwaitInv DEF Read
  <2>4. QED
    BY <1>3, <2>1, <2>2, <2>3 DEF Read
<1>4. CASE Prepare(w)
  <2>1. CASE Await(w, "submit") /\ UNCHANGED <<state, pickup>>
    <3>1. ~hash[job[w]]
      BY <1>4 DEF Prepare, PayoutInv, Unpaid
    <3>2. QED
      BY <1>2, <1>4, <2>1, <3>1, AwaitInv DEF Prepare, pickup, PayoutInv, TypeOK
  <2>2. CASE Finish(w, job[w], seen[job[w]]) /\ UNCHANGED hash
    BY <1>2, <1>4, <2>2, FinishInv DEF Prepare
  <2>3. QED
    BY <1>4, <2>1, <2>2 DEF Prepare
<1>5. CASE Poll(w)
  BY <1>2, <1>5, FinishInv DEF Poll
<1>6. QED
  BY <1>3, <1>4, <1>5

\* The payment lands: this worker is the only one, so nothing was paid before but
\* what was lost.
LEMMA SubmitInv ==
  ASSUME PayoutInv, NEW w \in Workers, Submit(w)
  PROVE  PayoutInv'
<1> USE DEF PayoutInv, TypeOK, external, pickup, bounds, Submit, Await
<1>1. /\ job[w] \in Transfers /\ state[job[w]] \in Waiting
      /\ \A v \in Workers : job[v] = job[w] => v = w
  BY AtRefresh DEF RefreshPc
<1>2. payments[job[w]] <= lost[job[w]]
  BY <1>1 DEF PaymentsHaveHashes, InFlight, Unpaid
<1>3. TypeOK'
  BY <1>1 DEF RefreshPc
<1>4. OneWorker' /\ AtWork' /\ Unpaid'
  BY <1>1 DEF OneWorker, AtWork, Unpaid, RefreshPc
<1>5. PaymentsHaveHashes'
  <2>1. InFlight(job[w])'
    BY DEF InFlight
  <2>2. \A x \in Transfers : InFlight(x) => InFlight(x)'
    BY DEF InFlight
  <2>3. QED
    BY <1>1, <2>1, <2>2 DEF PaymentsHaveHashes
<1>6. PaidAtMostOnce' /\ RefundedState'
  BY <1>1, <1>2 DEF PaidAtMostOnce, RefundedState
<1>7. QED
  BY <1>3, <1>4, <1>5, <1>6

\* The hash is recorded.
LEMMA SubmittedInv ==
  ASSUME PayoutInv, NEW w \in Workers, Submitted(w)
  PROVE  PayoutInv'
<1> USE DEF PayoutInv, TypeOK, external, money, bounds, Submitted, Await
<1>1. /\ job[w] \in Transfers /\ state[job[w]] \in Waiting
      /\ \A v \in Workers : job[v] = job[w] => v = w
  BY AtRefresh DEF RefreshPc
<1>2. TypeOK'
  BY <1>1 DEF RefreshPc
<1>3. OneWorker' /\ AtWork'
  BY <1>1 DEF OneWorker, AtWork, RefreshPc
<1>4. Unpaid'
  BY <1>1, WorkerAssumption DEF Unpaid, RefreshPc, Waiting
<1>5. PaymentsHaveHashes'
  <2>1. ASSUME NEW x \in Transfers, x # job[w], InFlight(x) PROVE InFlight(x)'
    BY <2>1 DEF InFlight
  <2>2. QED
    BY <1>1, <2>1 DEF PaymentsHaveHashes
<1>6. PaidAtMostOnce' /\ RefundedState'
  BY <1>1 DEF PaidAtMostOnce, RefundedState
<1>7. QED
  BY <1>2, <1>3, <1>4, <1>5, <1>6

\* The settlement of the escrow, which ends in PAID or leaves the transfer as it is.
LEMMA SettleInv ==
  ASSUME PayoutInv, NEW w \in Workers, Settle(w) \/ Settled(w) \/ SettleFails(w)
  PROVE  PayoutInv'
<1> USE DEF PayoutInv, TypeOK, external, pickup, money, bounds, Fault, Await, Return,
            SetState
<1>1. /\ job[w] \in Transfers /\ state[job[w]] \in Waiting
      /\ \A v \in Workers : job[v] = job[w] => v = w
      /\ pc[w] \in {"settle", "settleSent"}
  BY AtRefresh DEF Settle, Settled, SettleFails, RefreshPc
<1>2. \A x \in Transfers : InFlight(x) => InFlight(x)'
  BY <1>1 DEF InFlight, Settle, Settled, SettleFails
<1>3. CASE Settle(w)
  <2> USE <1>1, <1>3 DEF Settle
  <2>1. TypeOK'
    BY DEF RefreshPc
  <2>2. OneWorker' /\ AtWork' /\ Unpaid'
    BY DEF OneWorker, AtWork, Unpaid, RefreshPc
  <2>3. PaymentsHaveHashes' /\ PaidAtMostOnce' /\ RefundedState'
    BY <1>2 DEF PaymentsHaveHashes, PaidAtMostOnce, RefundedState
  <2>4. QED
    BY <2>1, <2>2, <2>3
<1>4. CASE Settled(w)
  <2> USE <1>1, <1>4, WorkerAssumption DEF Settled
  <2>1. TypeOK'
    BY DEF RefreshPc, States
  <2>2. OneWorker' /\ AtWork' /\ Unpaid'
    BY DEF OneWorker, AtWork, Unpaid, RefreshPc
  <2>3. PaymentsHaveHashes' /\ PaidAtMostOnce' /\ RefundedState'
    BY <1>2 DEF PaymentsHaveHashes, PaidAtMostOnce, RefundedState, Waiting
  <2>4. QED
    BY <2>1, <2>2, <2>3
<1>5. CASE SettleFails(w)
  <2> USE <1>1, <1>5, WorkerAssumption DEF SettleFails
  <2>1. TypeOK'
    BY BoundAssumption DEF RefreshPc
  <2>2. OneWorker' /\ AtWork' /\ Unpaid'
    BY DEF OneWorker, AtWork, Unpaid, RefreshPc
  <2>3. PaymentsHaveHashes' /\ PaidAtMostOnce' /\ RefundedState'
    BY <1>2 DEF PaymentsHaveHashes, PaidAtMostOnce, RefundedState
  <2>4. QED
    BY <2>1, <2>2, <2>3
<1>6. QED
  BY <1>3, <1>4, <1>5

\* A call of a refresh throws.
LEMMA RefreshFailsInv ==
  ASSUME PayoutInv, NEW w \in Workers, RefreshFails(w)
  PROVE  PayoutInv'
<1>1. pc[w] \in RefreshPc
  BY DEF RefreshFails
<1>2. job[w] \in Transfers
  BY <1>1, AtRefresh
<1>3. faults' \in 0..MaxFaults /\ crashes' = crashes
  BY BoundAssumption DEF RefreshFails, Fault, PayoutInv, TypeOK
<1>4. /\ GiveUp(w, job[w], pc[w] \in {"submit", "submitted"})
      /\ (pc[w] \in {"submit", "submitted"}) \in BOOLEAN
      /\ UNCHANGED <<cctpLive, hash, collected, settled, external, money, lost>>
  BY DEF RefreshFails, pickup
<1>5. seen' \in [Transfers -> Statuses]
  BY DEF RefreshFails, pickup, PayoutInv, TypeOK
<1>6. QED
  BY <1>1, <1>2, <1>3, <1>4, <1>5, GiveUpInv

\* The compensation, and the sweep that begins one.
LEMMA RefundInv ==
  ASSUME PayoutInv, NEW w \in Workers,
         Refund(w) \/ RefundFails(w) \/ \E t \in Transfers : SweepFailed(w, t)
  PROVE  PayoutInv'
<1> USE DEF PayoutInv, TypeOK, external, pickup, money, bounds, Fault, Begin, Return,
            SetState
<1>1. CASE Refund(w) \/ RefundFails(w)
  <2>1. /\ job[w] \in Transfers /\ state[job[w]] = "FAILED"
        /\ \A v \in Workers : job[v] = job[w] => v = w
        /\ pc[w] = "refund"
    BY <1>1, WorkerAssumption DEF Refund, RefundFails, AtWork, OneWorker
  <2>2. /\ pc' = [pc EXCEPT ![w] = "idle"] /\ job' = [job EXCEPT ![w] = None]
        /\ UNCHANGED <<cctpLive, hash, seen, collected, settled, anchor, account,
                       payments, lost>>
        /\ \A x \in Transfers \ {job[w]} :
              state'[x] = state[x] /\ refunded'[x] = refunded[x]
        /\ \/ state'[job[w]] = "REFUNDED" /\ refunded'[job[w]] = TRUE
           \/ /\ state'[job[w]] \in {"FAILED", "MANUAL_REVIEW"}
              /\ refunded'[job[w]] = refunded[job[w]]
    BY <1>1, <2>1 DEF Refund, RefundFails
  <2>3. \A x \in Transfers : InFlight(x) => InFlight(x)'
    BY <2>1, <2>2 DEF InFlight
  <2>4. TypeOK'
    <3>1. state' \in [Transfers -> States] /\ refunded' \in [Transfers -> BOOLEAN]
      BY <1>1, <2>1 DEF Refund, RefundFails, States
    <3>2. /\ escrow' \in [Transfers -> {"NONE", "LOCKED", "SETTLED", "RELEASED"}]
          /\ faults' \in 0..MaxFaults /\ crashes' = crashes
      BY <1>1, <2>1, BoundAssumption DEF Refund, RefundFails
    <3>3. QED
      BY <2>1, <2>2, <3>1, <3>2, WorkerAssumption
  <2>5. OneWorker' /\ AtWork'
    BY <2>1, <2>2, WorkerAssumption DEF OneWorker, AtWork, RefreshPc
  <2>6. Unpaid'
    BY <2>1, <2>2, WorkerAssumption DEF Unpaid
  <2>7. PaymentsHaveHashes' /\ PaidAtMostOnce' /\ RefundedState'
    BY <2>1, <2>2, <2>3 DEF PaymentsHaveHashes, PaidAtMostOnce, RefundedState, Waiting
  <2>8. QED
    BY <2>4, <2>5, <2>6, <2>7
<1>2. ASSUME NEW t \in Transfers, SweepFailed(w, t) PROVE PayoutInv'
  <2> USE <1>2 DEF SweepFailed
  <2>1. TypeOK'
    BY WorkerAssumption DEF RefreshPc
  <2>2. OneWorker' /\ AtWork' /\ Unpaid'
    BY DEF OneWorker, AtWork, Unpaid, RefreshPc
  <2>3. \A x \in Transfers : InFlight(x) => InFlight(x)'
    BY DEF InFlight
  <2>4. PaymentsHaveHashes' /\ PaidAtMostOnce' /\ RefundedState'
    BY <2>3 DEF PaymentsHaveHashes, PaidAtMostOnce, RefundedState
  <2>5. QED
    BY <2>1, <2>2, <2>4
<1>3. QED
  BY <1>1, <1>2

\* The process dies: what was in flight is lost, and counted.
LEMMA CrashInv ==
  ASSUME PayoutInv, Crash
  PROVE  PayoutInv'
<1> USE DEF PayoutInv, TypeOK, external, pickup, money, Crash
<1>1. \A t \in Transfers : /\ lost'[t] \in Nat /\ lost'[t] >= lost[t]
                           /\ InFlight(t) => lost'[t] >= lost[t] + 1
  OBVIOUS
<1>2. TypeOK'
  BY BoundAssumption
<1>3. OneWorker' /\ AtWork' /\ Unpaid'
  BY DEF OneWorker, AtWork, Unpaid, RefreshPc
<1>4. PaymentsHaveHashes'
  BY <1>1 DEF PaymentsHaveHashes, PaidAtMostOnce
<1>5. PaidAtMostOnce' /\ RefundedState'
  BY <1>1 DEF PaidAtMostOnce, RefundedState
<1>6. QED
  BY <1>2, <1>3, <1>4, <1>5

\* The anchor moves, or nothing does.
LEMMA AnchorInv ==
  ASSUME PayoutInv, (\E t \in Transfers : AnchorMoves(t)) \/ UNCHANGED vars
  PROVE  PayoutInv'
<1>1. /\ UNCHANGED <<cctpLive, state, pickup, settled, control, money, lost, bounds>>
      /\ anchor' \in [Transfers -> Statuses] /\ account' \in [Transfers -> BOOLEAN]
  BY DEF AnchorMoves, AnchorAsks, AnchorNamesAccount, AnchorReceives, AnchorCompletes,
         AnchorGivesUp, PayoutInv, TypeOK, Statuses, Ended, vars, external
<1>2. QED
  BY <1>1 DEF PayoutInv, TypeOK, OneWorker, AtWork, Unpaid, PaymentsHaveHashes,
              PaidAtMostOnce, RefundedState, InFlight, pickup, control, money, bounds

-----------------------------------------------------------------------------
\* Every step preserves the invariant.
LEMMA InvNext == PayoutInv /\ [Next]_vars => PayoutInv'
<1> SUFFICES ASSUME PayoutInv, [Next]_vars PROVE PayoutInv'
  OBVIOUS
<1>1. ASSUME NEW w \in Workers, Resume(w) PROVE PayoutInv'
  BY <1>1, ReadingInv, SubmitInv, SubmittedInv, SettleInv, RefreshFailsInv, RefundInv
  DEF Resume
<1>2. ASSUME NEW w \in Workers, NEW t \in Transfers,
             RefreshPayout(w, t) \/ SweepFailed(w, t) \/ SweepAnchorPayout(w, t)
      PROVE  PayoutInv'
  BY <1>2, RefreshPayoutInv, RefundInv DEF SweepAnchorPayout
<1>3. CASE (\E t \in Transfers : AnchorMoves(t)) \/ UNCHANGED vars
  BY <1>3, AnchorInv
<1>4. CASE Crash
  BY <1>4, CrashInv
<1>5. QED
  BY <1>1, <1>2, <1>3, <1>4 DEF Next

\* The invariant holds always.
LEMMA Invariance == Spec => []PayoutInv
  BY InvInit, InvNext, PTL DEF Spec

(***************************************************************************)
(* Every variable keeps its type, whatever runs, fails or crashes.         *)
(***************************************************************************)
THEOREM TypeCorrect == Spec => []TypeOK
  BY Invariance, PTL DEF PayoutInv

(***************************************************************************)
(* The anchor is never paid twice, but for the payments a crash swallowed  *)
(* the hash of, however many browsers and sweeps refresh the transfer.     *)
(***************************************************************************)
THEOREM AnchorPaidOnce == Spec => []PaidAtMostOnce
  BY Invariance, PTL DEF PayoutInv

(***************************************************************************)
(* A sender whose transfer was refunded had nothing paid to the anchor     *)
(* that the process ever got to know of.                                   *)
(***************************************************************************)
THEOREM NeverRefundedAndPaid == Spec => []RefundXorPayment
<1>1. PayoutInv => RefundXorPayment
  <2> SUFFICES ASSUME PayoutInv, NEW t \in Transfers, refunded[t]
               PROVE  payments[t] <= lost[t]
    BY DEF RefundXorPayment
  <2>1. state[t] = "REFUNDED" /\ ~hash[t]
    BY DEF PayoutInv, RefundedState, Unpaid
  <2>2. ~InFlight(t)
    BY <2>1 DEF InFlight, PayoutInv, AtWork, RefreshPc, Waiting
  <2>3. QED
    BY <2>1, <2>2 DEF PayoutInv, PaymentsHaveHashes
<1>2. QED
  BY <1>1, Invariance, PTL

-----------------------------------------------------------------------------
(***************************************************************************)
(* That PAID is never claimed early has an invariant of its own: whatever  *)
(* the pickup says of the anchor is still so, and what the worker and the  *)
(* record say of the escrow as well.                                       *)
(***************************************************************************)
CollectInv ==
    /\ \A t \in Transfers :
          /\ seen[t] = "completed" \/ collected[t] => anchor[t] = "completed"
          /\ settled[t] => escrow[t] = "SETTLED"
    /\ \A w \in Workers :
          /\ pc[w] \in {"settle", "settleSent"} => anchor[job[w]] = "completed"
          /\ pc[w] = "settleSent" => escrow[job[w]] = "SETTLED"
    /\ PaidIsCollected

\* settlePickup on a transfer the anchor completed.
LEMMA SettlePickupCollected ==
  ASSUME PayoutInv, CollectInv, NEW w \in Workers, NEW t \in Transfers, NEW s \in Waiting,
         SettlePickup(w, t, s), anchor[t] = "completed",
         \A x \in Transfers : seen'[x] = "completed" \/ collected'[x] => anchor[x] = "completed",
         UNCHANGED <<cctpLive, settled, anchor, escrow>>
  PROVE  CollectInv'
<1> USE DEF CollectInv, PaidIsCollected, PayoutInv, TypeOK
<1>1. CASE HoldsEscrow(t)
  BY <1>1 DEF SettlePickup, SetState, Begin, Return, Waiting
<1>2. CASE ~HoldsEscrow(t)
  <2>1. cctpLive \/ escrow[t] = "SETTLED"
    BY <1>2 DEF HoldsEscrow
  <2>2. QED
    BY <1>2, <2>1 DEF SettlePickup, SetState, Begin, Return
<1>3. QED
  BY <1>1, <1>2

\* The end of a refresh with what the anchor said.
LEMMA FinishCollected ==
  ASSUME PayoutInv, CollectInv, NEW w \in Workers, NEW t \in Transfers, NEW status,
         Finish(w, t, status), status = "completed" => anchor[t] = "completed",
         UNCHANGED <<cctpLive, settled, anchor, escrow>>
  PROVE  CollectInv'
<1>1. \A x \in Transfers : seen'[x] = "completed" \/ collected'[x] => anchor[x] = "completed"
  BY DEF Finish, PayoutInv, TypeOK, CollectInv
<1>2. CASE status = "completed"
  BY <1>1, <1>2, SettlePickupCollected DEF Finish, Waiting
<1>3. CASE status # "completed"
  <2>1. CashPayoutState(status, hash[t]) # "PAID"
    BY <1>3 DEF CashPayoutState
  <2>2. QED
    BY <1>1, <1>3, <2>1
    DEF Finish, SetState, Return, CollectInv, PaidIsCollected, PayoutInv, TypeOK
<1>4. QED
  BY <1>2, <1>3

\* Every step preserves it.
LEMMA CollectNext ==
  ASSUME PayoutInv, CollectInv, [Next]_vars
  PROVE  CollectInv'
<1> USE DEF PayoutInv, TypeOK
<1>1. ASSUME NEW w \in Workers, Read(w) \/ Prepare(w) \/ Poll(w) PROVE CollectInv'
  <2>1. job[w] \in Transfers /\ UNCHANGED <<cctpLive, settled, anchor, escrow>>
    BY <1>1 DEF Read, Prepare, Poll, external, money
  <2>2. CASE \E status \in {anchor[job[w]], seen[job[w]]} : Finish(w, job[w], status)
    BY <2>1, <2>2, FinishCollected DEF CollectInv
  <2>3. CASE /\ seen' = seen \/ seen' = [seen EXCEPT ![job[w]] = anchor[job[w]]]
             /\ UNCHANGED collected
             /\ \/ GiveUp(w, job[w], FALSE)
                \/ UNCHANGED state /\ \E p \in {"prepare", "submit", "poll"} : Await(w, p)
    BY <2>1, <2>3
    DEF GiveUp, SetState, Return, Begin, Await, CollectInv, PaidIsCollected
  <2>4. QED
    BY <1>1, <2>2, <2>3 DEF Read, Prepare, Poll, pickup
<1>2. ASSUME NEW w \in Workers, Submit(w) \/ Submitted(w) PROVE CollectInv'
  BY <1>2 DEF Submit, Submitted, Await, CollectInv, PaidIsCollected, external, money, pickup
<1>3. ASSUME NEW w \in Workers, RefreshFails(w) PROVE CollectInv'
  BY <1>3 DEF RefreshFails, GiveUp, SetState, Return, Begin, CollectInv, PaidIsCollected,
              external, money, pickup
<1>4. ASSUME NEW w \in Workers, Settle(w) PROVE CollectInv'
  BY <1>4 DEF Settle, Await, CollectInv, PaidIsCollected, external, pickup
<1>5. ASSUME NEW w \in Workers, Settled(w) PROVE CollectInv'
  BY <1>5 DEF Settled, SetState, Return, CollectInv, PaidIsCollected, external, money, pickup
<1>6. ASSUME NEW w \in Workers, SettleFails(w) PROVE CollectInv'
  BY <1>6 DEF SettleFails, Return, CollectInv, PaidIsCollected, external, money, pickup
<1>7. ASSUME NEW w \in Workers, Refund(w) \/ RefundFails(w) PROVE CollectInv'
  <2>1. /\ job[w] \in Transfers /\ state[job[w]] = "FAILED"
        /\ \A v \in Workers : job[v] = job[w] => v = w
    BY <1>7, WorkerAssumption DEF Refund, RefundFails, AtWork, OneWorker
  <2>2. CASE UNCHANGED <<state, escrow>>
    BY <1>7, <2>2 DEF Refund, RefundFails, Return, CollectInv, PaidIsCollected, external,
                      money, pickup
  <2>3. CASE \E u \in {"REFUNDED", "MANUAL_REVIEW"} : SetState(job[w], u)
    <3>1. escrow[job[w]] = "LOCKED" /\ ~settled[job[w]]
      BY <1>7, <2>1, <2>3 DEF Refund, RefundFails, SetState, CollectInv
    <3>2. QED
      BY <1>7, <2>1, <2>3, <3>1
      DEF Refund, RefundFails, Return, SetState, CollectInv, PaidIsCollected, external, pickup
  <2>4. QED
    BY <1>7, <2>2, <2>3 DEF Refund, RefundFails
<1>8. ASSUME NEW w \in Workers, NEW t \in Transfers, SweepFailed(w, t) PROVE CollectInv'
  BY <1>8 DEF SweepFailed, Begin, CollectInv, PaidIsCollected, external, money, pickup
<1>9. ASSUME NEW w \in Workers, NEW t \in Transfers, RefreshPayout(w, t) PROVE CollectInv'
  <2>1. UNCHANGED <<cctpLive, settled, anchor, escrow, seen, collected>>
    BY <1>9 DEF RefreshPayout, external, money, pickup
  <2>2. CASE collected[t] /\ SettlePickup(w, t, state[t])
    <3>1. anchor[t] = "completed" /\ state[t] \in Waiting
      BY <1>9, <2>2 DEF CollectInv, RefreshPayout
    <3>2. \A x \in Transfers :
             seen'[x] = "completed" \/ collected'[x] => anchor[x] = "completed"
      BY <2>1 DEF CollectInv
    <3>3. QED
      BY <2>1, <2>2, <3>1, <3>2, SettlePickupCollected
  <2>3. CASE Begin(w, t, "read") /\ UNCHANGED state
    BY <2>1, <2>3 DEF Begin, CollectInv, PaidIsCollected
  <2>4. QED
    BY <1>9, <2>2, <2>3 DEF RefreshPayout
<1>10. CASE (\E t \in Transfers : AnchorMoves(t)) \/ UNCHANGED vars
  <2>1. /\ UNCHANGED <<cctpLive, state, pickup, settled, control, money>>
        /\ \A x \in Transfers : anchor[x] = "completed" => anchor'[x] = "completed"
    BY <1>10 DEF AnchorMoves, AnchorAsks, AnchorNamesAccount, AnchorReceives,
                 AnchorCompletes, AnchorGivesUp, vars, external
  <2>2. QED
    BY <2>1 DEF CollectInv, PaidIsCollected, pickup, control, money
<1>11. CASE Crash
  BY <1>11 DEF Crash, CollectInv, PaidIsCollected, external, money, pickup
<1>12. QED
  BY <1>1, <1>2, <1>3, <1>4, <1>5, <1>6, <1>7, <1>8, <1>9, <1>10, <1>11
  DEF Next, Resume, SweepAnchorPayout

(***************************************************************************)
(* PAID always means that the anchor reported the cash collected and that  *)
(* the USDC behind it was settled or burned.                               *)
(***************************************************************************)
THEOREM PaidMeansCollected == Spec => []PaidIsCollected
<1>1. Init => CollectInv
  BY DEF Init, CollectInv, PaidIsCollected
<1>2. PayoutInv /\ CollectInv /\ [Next]_vars => CollectInv'
  BY CollectNext
<1>3. CollectInv => PaidIsCollected
  BY DEF CollectInv
<1>4. QED
  BY <1>1, <1>2, <1>3, Invariance, PTL DEF Spec
=============================================================================
