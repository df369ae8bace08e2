----------------------------- MODULE GovernanceProofs -----------------------------
(***************************************************************************)
(* Theorems about Governance: the deployed contracts together, for any     *)
(* accounts, transfers, amounts, rates and operations.                     *)
(***************************************************************************)
EXTENDS Governance, FiniteSetTheorems, TLAPS

(***************************************************************************)
(* The inductive invariant: balances are what a ledger can hold, the rate  *)
(* is never zero, an open operation is a call that may be queued, a lock   *)
(* is somebody's, and what is locked is there.                             *)
(***************************************************************************)
LedgersHold ==
    /\ usdc \in [Holders -> Nat] /\ eure \in [Holders -> Nat]
    /\ rate \in Nat \ {0}

OperationsAreCalls ==
    /\ status \in [Ids -> {"unknown", "open", "executed", "cancelled"}]
    /\ call \in [Ids -> Calls \cup {[fn |-> "none"]}]
    /\ \A id \in Ids : status[id] # "unknown" => call[id] \in Calls

LocksAreSomebodys ==
    /\ escrowOwner \in Holders
    /\ statusOf \in [Transfers -> {"NONE", "LOCKED", "SETTLED", "RELEASED"}]
    /\ lockedAmount \in [Transfers -> Nat]
    /\ refundTo \in [Transfers -> Accounts \cup {NoOne}]
    /\ \A t \in Transfers : statusOf[t] = "LOCKED" => refundTo[t] \in Accounts

LocksAreThere ==
    /\ totalLocked \in Nat /\ totalLocked <= usdc[EscrowAddr]
    /\ \A t \in Transfers : statusOf[t] = "LOCKED" <=> lockedAmount[t] > 0

GovInv == LedgersHold /\ OperationsAreCalls /\ LocksAreSomebodys /\ LocksAreThere

Callers == Accounts \cup {TimelockAddr}

\* The contracts' addresses are different from each other and from every person's.
LEMMA Apart ==
  /\ EscrowAddr \in Holders /\ SwapperAddr \in Holders /\ EscrowAddr # SwapperAddr
  /\ \A who \in Callers : who \in Holders /\ who # EscrowAddr /\ who # SwapperAddr
  /\ \A who \in Accounts : who # TimelockAddr /\ who \in Callers
  BY GovernanceAssumption DEF Callers

(***************************************************************************)
(* What a transfer of either token does to a ledger: the sender pays, the  *)
(* receiver gets it, and nobody else loses anything.                       *)
(***************************************************************************)
Transferred(old, new, from, to, amount) ==
    /\ new \in [Holders -> Nat]
    /\ new[from] \in {old[from] - amount, old[from]}
    /\ to # from => new[from] = old[from] - amount
    /\ to # from => new[to] = old[to] + amount
    /\ \A h \in Holders \ {from} : new[h] >= old[h]

LEMMA Transferring ==
  ASSUME NEW old \in [Holders -> Nat], NEW from \in Holders, NEW to \in Holders,
         NEW amount \in Nat, old[from] >= amount
  PROVE  Transferred(old, [[old EXCEPT ![from] = @ - amount] EXCEPT ![to] = @ + amount],
                     from, to, amount)
<1> DEFINE paid == [old EXCEPT ![from] = @ - amount]
<1>1. /\ paid \in [Holders -> Nat] /\ paid[from] = old[from] - amount
      /\ \A h \in Holders \ {from} : paid[h] = old[h]
  OBVIOUS
<1> HIDE DEF paid
<1>2. Transferred(old, [paid EXCEPT ![to] = @ + amount], from, to, amount)
  BY <1>1 DEF Transferred
<1>3. QED
  BY <1>2 DEF paid

\* transfer and transferFrom of USDC.
LEMMA UsdcTransferred ==
  ASSUME LedgersHold, NEW from \in Holders, NEW to \in Holders, NEW amount \in Nat, NEW spender,
         Usdc!Transfer(from, to, amount) \/ Usdc!TransferFrom(spender, from, to, amount)
  PROVE  Transferred(usdc, usdc', from, to, amount)
  BY Transferring DEF LedgersHold, Usdc!Transfer, Usdc!TransferFrom, Usdc!Moved

\* transfer and transferFrom of EURe.
LEMMA EureTransferred ==
  ASSUME LedgersHold, NEW from \in Holders, NEW to \in Holders, NEW amount \in Nat, NEW spender,
         Eure!Transfer(from, to, amount) \/ Eure!TransferFrom(spender, from, to, amount)
  PROVE  Transferred(eure, eure', from, to, amount)
  BY Transferring DEF LedgersHold, Eure!Transfer, Eure!TransferFrom, Eure!Moved

(***************************************************************************)
(* Quoting.  Integer division rounds down.                                 *)
(***************************************************************************)
LEMMA RoundsDown ==
  ASSUME NEW x \in Nat, NEW s \in Nat \ {0}
  PROVE  (x \div s) \in Nat /\ (x \div s) * s <= x
  OBVIOUS

\* What is paid out is worth no more, at the rate, than what is paid in.
LEMMA Quotes ==
  ASSUME LedgersHold, NEW amountIn \in Nat
  PROVE  /\ QuoteOut(amountIn) \in Nat /\ QuoteOut(amountIn) * Scale <= amountIn * rate
         /\ QuoteReverseOut(amountIn) \in Nat
         /\ QuoteReverseOut(amountIn) * rate <= amountIn * Scale
<1>1. Scale \in Nat \ {0} /\ rate \in Nat \ {0}
  BY GovernanceAssumption DEF LedgersHold
<1>2. amountIn * rate \in Nat /\ amountIn * Scale \in Nat
  BY <1>1
<1>3. QED
  BY <1>1, <1>2, RoundsDown DEF QuoteOut, QuoteReverseOut

-----------------------------------------------------------------------------
(* Every step preserves the invariant.                                     *)

LEMMA InvInit == Init => GovInv
  BY GovernanceAssumption, Apart
  DEF Init, GovInv, LedgersHold, OperationsAreCalls, LocksAreSomebodys, LocksAreThere,
      EscrowInit, SwapperInit, Timelock!Init, Timelock!NoCall

\* lockForPayout, settle, release.
LEMMA EscrowInv ==
  ASSUME GovInv, NEW who \in Accounts, EscrowCall(who)
  PROVE  GovInv'
<1>1. PICK t \in Transfers : \/ \E amount \in Amounts : LockForPayout(who, t, amount)
                             \/ Settle(who, t)
                             \/ \E to \in Holders : Release(who, t, to)
  BY DEF EscrowCall
<1>2. UNCHANGED <<eure, eureAllowance, timelockVars, swapperVars>>
  BY DEF EscrowCall
<1>3. CASE \E amount \in Amounts : LockForPayout(who, t, amount)
  <2>1. PICK amount \in Amounts : LockForPayout(who, t, amount)
    BY <1>3
  <2>2. Transferred(usdc, usdc', who, EscrowAddr, amount) /\ amount \in Nat
    BY <2>1, UsdcTransferred, Apart, GovernanceAssumption DEF LockForPayout, GovInv
  <2>3. QED
    BY <1>2, <2>1, <2>2, Apart
    DEF GovInv, LedgersHold, OperationsAreCalls, LocksAreSomebodys, LocksAreThere,
        LockForPayout, Transferred, timelockVars, swapperVars
<1>4. ASSUME NEW end \in {"SETTLED", "RELEASED"}, NEW to \in Holders, EndLock(t, end, to)
      PROVE  GovInv'
  <2>1. Transferred(usdc, usdc', EscrowAddr, to, lockedAmount[t])
    BY <1>4, UsdcTransferred, Apart DEF EndLock, GovInv, LocksAreSomebodys
  <2>2. QED
    BY <1>2, <1>4, <2>1, Apart
    DEF GovInv, LedgersHold, OperationsAreCalls, LocksAreSomebodys, LocksAreThere,
        EndLock, Transferred, timelockVars, swapperVars
<1>5. QED
  BY <1>1, <1>3, <1>4 DEF Settle, Release, GovInv, LocksAreSomebodys

\* swapExactIn, swapReverseExactIn, pause.
LEMMA SwapperInv ==
  ASSUME GovInv, NEW who \in Accounts, SwapperCall(who)
  PROVE  GovInv'
<1> USE DEF GovInv, LedgersHold, OperationsAreCalls, LocksAreSomebodys, LocksAreThere,
            Transferred, timelockVars, escrowVars, swapperVars
<1>1. UNCHANGED <<timelockVars, escrowVars>>
  BY DEF SwapperCall
<1>2. ASSUME NEW amountIn \in Amounts, SwapExactIn(who, amountIn, 0, who)
      PROVE  GovInv'
  <2>1. amountIn \in Nat /\ QuoteOut(amountIn) \in Nat
    BY GovernanceAssumption, Quotes
  <2>2. Transferred(eure, eure', who, SwapperAddr, amountIn)
    BY <1>2, <2>1, EureTransferred, Apart DEF SwapExactIn
  <2>3. Transferred(usdc, usdc', SwapperAddr, who, QuoteOut(amountIn))
    BY <1>2, <2>1, UsdcTransferred, Apart DEF SwapExactIn
  <2>4. QED
    BY <1>1, <1>2, <2>2, <2>3, Apart DEF SwapExactIn
<1>3. ASSUME NEW amountIn \in Amounts, SwapReverseExactIn(who, amountIn, 0, who)
      PROVE  GovInv'
  <2>1. amountIn \in Nat /\ QuoteReverseOut(amountIn) \in Nat
    BY GovernanceAssumption, Quotes
  <2>2. Transferred(usdc, usdc', who, SwapperAddr, amountIn)
    BY <1>3, <2>1, UsdcTransferred, Apart DEF SwapReverseExactIn
  <2>3. Transferred(eure, eure', SwapperAddr, who, QuoteReverseOut(amountIn))
    BY <1>3, <2>1, EureTransferred, Apart DEF SwapReverseExactIn
  <2>4. QED
    BY <1>1, <1>3, <2>2, <2>3, Apart DEF SwapReverseExactIn
<1>4. CASE Pause(who)
  BY <1>1, <1>4 DEF Pause, ledgers
<1>5. QED
  BY <1>2, <1>3, <1>4 DEF SwapperCall

(***************************************************************************)
(* What an owner's call does to the part of the invariant that is not      *)
(* about operations.                                                       *)
(***************************************************************************)
LEMMA OwnersCallInv ==
  ASSUME GovInv, NEW who \in Callers, NEW c \in Managed, OwnersCall(who, c)
  PROVE  LedgersHold' /\ LocksAreSomebodys' /\ LocksAreThere'
<1> USE DEF GovInv, LedgersHold, LocksAreSomebodys, LocksAreThere, Transferred,
            escrowVars, swapperVars, ledgers
<1>1. c \in ManagedCalls
  BY GovernanceAssumption
<1>2. CASE c.fn \in {"setRate", "setPaused", "setTrader", "setGuardian", "ownSwapper"}
  <2>1. CASE c.fn = "setRate"
    <3>1. SetRate(who, c.arg) /\ UNCHANGED escrowVars
      BY <2>1 DEF OwnersCall
    <3>2. c.arg \in Nat
      BY <1>1, <2>1, GovernanceAssumption DEF ManagedCalls
    <3>3. QED
      BY <3>1, <3>2 DEF SetRate
  <2>2. CASE c.fn = "setPaused"
    BY <2>2 DEF OwnersCall, SetPaused
  <2>3. CASE c.fn = "setTrader"
    BY <2>3 DEF OwnersCall, SetTrader
  <2>4. CASE c.fn \in {"setGuardian", "ownSwapper"}
    BY <2>4 DEF OwnersCall, SetGuardian, TransferSwapperOwnership
  <2>5. QED
    BY <1>2, <2>1, <2>2, <2>3, <2>4
<1>3. CASE c.fn \in {"setOrchestrator", "ownEscrow"}
  BY <1>1, <1>3
  DEF OwnersCall, ManagedCalls, SetOrchestrator, TransferEscrowOwnership
<1>4. CASE c.fn \in {"withdrawUsdc", "withdrawEure", "payOut"}
  <2>1. c.who \in Holders /\ c.arg \in Nat
    BY <1>1, <1>4, GovernanceAssumption DEF ManagedCalls
  <2>2. CASE c.fn = "withdrawUsdc"
    <3>1. WithdrawUsdc(who, c.who, c.arg) /\ UNCHANGED escrowVars
      BY <2>2 DEF OwnersCall
    <3>2. Transferred(usdc, usdc', SwapperAddr, c.who, c.arg)
      BY <2>1, <3>1, UsdcTransferred, Apart DEF WithdrawUsdc
    <3>3. QED
      BY <3>1, <3>2, Apart DEF WithdrawUsdc
  <2>3. CASE c.fn = "withdrawEure"
    <3>1. WithdrawEure(who, c.who, c.arg) /\ UNCHANGED escrowVars
      BY <2>3 DEF OwnersCall
    <3>2. Transferred(eure, eure', SwapperAddr, c.who, c.arg)
      BY <2>1, <3>1, EureTransferred, Apart DEF WithdrawEure
    <3>3. QED
      BY <3>1, <3>2, Apart DEF WithdrawEure
  <2>4. CASE c.fn = "payOut"
    <3>1. /\ Usdc!Transfer(who, c.who, c.arg)
          /\ UNCHANGED <<escrowVars, eure, eureAllowance, swapperVars>>
      BY <2>4 DEF OwnersCall
    <3>2. Transferred(usdc, usdc', who, c.who, c.arg)
      BY <2>1, <3>1, UsdcTransferred, Apart
    <3>3. QED
      BY <3>1, <3>2, Apart
  <2>5. QED
    BY <1>4, <2>2, <2>3, <2>4
<1>5. QED
  BY <1>1, <1>2, <1>3, <1>4 DEF ManagedCalls

\* queue, confirm, cancel and execute, with the effect of what is executed.
LEMMA TimelockInv ==
  ASSUME GovInv, NEW who \in Accounts, TimelockCall(who)
  PROVE  GovInv'
<1>1. PICK id \in Ids :
        \/ /\ \/ \E c \in Calls : Timelock!Queue(who, id, c)
              \/ Timelock!Confirm(who, id) \/ Timelock!Cancel(who, id)
           /\ UNCHANGED <<escrowVars, swapperVars, ledgers>>
        \/ /\ Timelock!Execute(who, id)
           /\ IF call[id].fn = "managed" THEN OwnersCall(TimelockAddr, call[id].arg)
                                         ELSE UNCHANGED <<escrowVars, swapperVars, ledgers>>
  BY Zenon DEF TimelockCall
<1>2. OperationsAreCalls'
  BY <1>1 DEF GovInv, OperationsAreCalls, Timelock!Queue, Timelock!Confirm,
              Timelock!Cancel, Timelock!Execute, Timelock!operations
<1>3. CASE UNCHANGED <<escrowVars, swapperVars, ledgers>>
  BY <1>2, <1>3
  DEF GovInv, LedgersHold, LocksAreSomebodys, LocksAreThere, escrowVars, swapperVars, ledgers
<1>4. CASE OwnersCall(TimelockAddr, call[id].arg) /\ Timelock!Execute(who, id)
           /\ call[id].fn = "managed"
  <2>1. call[id].arg \in Managed
    BY <1>4, GovernanceAssumption
    DEF Timelock!Execute, GovInv, OperationsAreCalls, Timelock!AllCalls
  <2>2. TimelockAddr \in Callers
    BY DEF Callers
  <2>3. QED
    BY <1>2, <1>4, <2>1, <2>2, OwnersCallInv DEF GovInv
<1>5. QED
  BY <1>1, <1>3, <1>4

\* A payment to one of the contracts, or an approval.
LEMMA MoverInv ==
  ASSUME GovInv, NEW who \in Movers, NEW amount \in Amounts,
         \/ PayUsdc(who, EscrowAddr, amount) \/ PayUsdc(who, SwapperAddr, amount)
         \/ ApproveUsdc(who, EscrowAddr, amount) \/ ApproveUsdc(who, SwapperAddr, amount)
         \/ ApproveEure(who, SwapperAddr, amount)
  PROVE  GovInv'
<1> USE DEF GovInv, LedgersHold, OperationsAreCalls, LocksAreSomebodys, LocksAreThere,
            Transferred, timelockVars, escrowVars, swapperVars
<1>1. who \in Accounts /\ amount \in Nat
  BY GovernanceAssumption
<1>2. ASSUME NEW to \in {EscrowAddr, SwapperAddr}, PayUsdc(who, to, amount)
      PROVE  GovInv'
  <2>1. Transferred(usdc, usdc', who, to, amount)
    BY <1>1, <1>2, UsdcTransferred, Apart DEF PayUsdc
  <2>2. QED
    BY <1>1, <1>2, <2>1, Apart DEF PayUsdc
<1>3. ASSUME NEW to, ApproveUsdc(who, to, amount) \/ ApproveEure(who, to, amount)
      PROVE  GovInv'
  BY <1>3 DEF ApproveUsdc, ApproveEure, Usdc!Approve, Eure!Approve
<1>4. QED
  BY <1>2, <1>3

LEMMA InvStep == GovInv /\ [Next]_vars => GovInv'
<1> SUFFICES ASSUME GovInv, [Next]_vars PROVE GovInv'
  OBVIOUS
<1>1. ASSUME NEW who \in Accounts, NEW c \in Managed,
             OwnersCall(who, c), UNCHANGED timelockVars
      PROVE  GovInv'
  BY <1>1, OwnersCallInv, Apart DEF GovInv, OperationsAreCalls, timelockVars
<1>2. CASE Tick
  BY <1>2
  DEF Tick, Timelock!Tick, Timelock!operations, GovInv, LedgersHold, OperationsAreCalls,
      LocksAreSomebodys, LocksAreThere, escrowVars, swapperVars, ledgers
<1>3. CASE UNCHANGED vars
  BY <1>3
  DEF GovInv, LedgersHold, OperationsAreCalls, LocksAreSomebodys, LocksAreThere, vars,
      timelockVars, escrowVars, swapperVars, ledgers
<1>4. QED
  BY <1>1, <1>2, <1>3, EscrowInv, SwapperInv, TimelockInv, MoverInv DEF Next

LEMMA GovInvariant == Spec => []GovInv
  BY InvInit, InvStep, PTL DEF Spec

-----------------------------------------------------------------------------
(* The escrow.                                                             *)

\* The units of one x, and what replacing them does to a sum.
LEMMA UnitsOfOne ==
  ASSUME NEW x, NEW n \in Nat
  PROVE  IsFiniteSet({x} \X (1..n)) /\ Cardinality({x} \X (1..n)) = n
<1>1. IsFiniteSet({x}) /\ Cardinality({x}) = 1
  BY FS_Singleton
<1>2. IsFiniteSet(1..n) /\ Cardinality(1..n) = n
  BY FS_Interval
<1>3. /\ IsFiniteSet({x} \X (1..n))
      /\ Cardinality({x} \X (1..n)) = Cardinality({x}) * Cardinality(1..n)
  BY <1>1, <1>2, FS_Product
<1>4. QED
  BY <1>1, <1>2, <1>3

LEMMA TotalChanges ==
  ASSUME NEW S, NEW f \in [S -> Nat], NEW x \in S, NEW n \in Nat, IsFiniteSet(Units(f))
  PROVE  LET g == [f EXCEPT ![x] = n]
         IN  IsFiniteSet(Units(g)) /\ Total(g) = Total(f) - f[x] + n
<1> DEFINE g == [f EXCEPT ![x] = n]
           rest == UNION {{y} \X (1..f[y]) : y \in S \ {x}}
           old == {x} \X (1..f[x])
           new == {x} \X (1..n)
<1>1. Units(f) = rest \cup old
  BY DEF Units
<1>2. Units(g) = rest \cup new
  <2>1. DOMAIN g = S /\ g[x] = n /\ \A y \in S \ {x} : g[y] = f[y]
    OBVIOUS
  <2>2. QED
    BY <2>1 DEF Units
<1>3. rest \cap old = {} /\ rest \cap new = {}
  OBVIOUS
<1>4. IsFiniteSet(rest)
  BY <1>1, FS_Subset
<1>5. /\ IsFiniteSet(old) /\ Cardinality(old) = f[x]
      /\ IsFiniteSet(new) /\ Cardinality(new) = n
  BY UnitsOfOne
<1> HIDE DEF g, rest, old, new
<1>6. /\ IsFiniteSet(Units(g))
      /\ Cardinality(Units(f)) = Cardinality(rest) + f[x]
      /\ Cardinality(Units(g)) = Cardinality(rest) + n
  <2>1. Cardinality({}) = 0 /\ Cardinality(rest) \in Nat
    BY <1>4, FS_EmptySet, FS_CardinalityType
  <2>2. /\ IsFiniteSet(rest \cup old) /\ IsFiniteSet(rest \cup new)
        /\ Cardinality(rest \cup old) = Cardinality(rest) + Cardinality(old) - Cardinality({})
        /\ Cardinality(rest \cup new) = Cardinality(rest) + Cardinality(new) - Cardinality({})
    BY <1>3, <1>4, <1>5, FS_Union
  <2>3. QED
    BY <1>1, <1>2, <1>5, <2>1, <2>2
<1>7. Cardinality(rest) \in Nat
  BY <1>4, FS_CardinalityType
<1>8. QED
  BY <1>6, <1>7 DEF Total, g

\* totalLocked is the sum of the open locks.  Only finitely many of them are open,
\* however many transfers there may be.
OnTheBooks == IsFiniteSet(Units(lockedAmount)) /\ totalLocked = Total(lockedAmount)

LEMMA BooksInit == Init => OnTheBooks
<1> SUFFICES ASSUME Init PROVE OnTheBooks
  OBVIOUS
<1>1. lockedAmount = [t \in Transfers |-> 0] /\ totalLocked = 0
  BY DEF Init, EscrowInit
<1>2. Units(lockedAmount) = {}
  BY <1>1 DEF Units
<1>3. QED
  BY <1>1, <1>2, FS_EmptySet DEF OnTheBooks, Total

LEMMA BooksStep == GovInv /\ OnTheBooks /\ [Next]_vars => OnTheBooks'
<1> SUFFICES ASSUME GovInv, OnTheBooks, [Next]_vars PROVE OnTheBooks'
  OBVIOUS
<1>1. CASE UNCHANGED <<lockedAmount, totalLocked>>
  BY <1>1 DEF OnTheBooks, Total, Units
<1>2. ASSUME NEW who \in Accounts, EscrowCall(who)
      PROVE  OnTheBooks'
  <2>1. PICK t \in Transfers : \/ \E amount \in Amounts : LockForPayout(who, t, amount)
                               \/ Settle(who, t)
                               \/ \E to \in Holders : Release(who, t, to)
    BY <1>2 DEF EscrowCall
  <2>2. /\ lockedAmount \in [Transfers -> Nat] /\ totalLocked \in Nat
        /\ statusOf[t] = "LOCKED" <=> lockedAmount[t] > 0
    BY DEF GovInv, LocksAreSomebodys, LocksAreThere
  <2>3. PICK n \in Nat : /\ lockedAmount' = [lockedAmount EXCEPT ![t] = n]
                         /\ totalLocked' = totalLocked - lockedAmount[t] + n
    <3>1. ASSUME NEW amount \in Amounts, LockForPayout(who, t, amount)
          PROVE  /\ amount \in Nat /\ lockedAmount' = [lockedAmount EXCEPT ![t] = amount]
                 /\ totalLocked' = totalLocked - lockedAmount[t] + amount
      <4>1. amount \in Nat /\ lockedAmount[t] = 0
        BY <2>2, <3>1, GovernanceAssumption DEF LockForPayout
      <4>2. QED
        BY <2>2, <3>1, <4>1 DEF LockForPayout
    <3>2. ASSUME Settle(who, t) \/ \E to \in Holders : Release(who, t, to)
          PROVE  /\ lockedAmount' = [lockedAmount EXCEPT ![t] = 0]
                 /\ totalLocked' = totalLocked - lockedAmount[t] + 0
      <4>1. /\ lockedAmount' = [lockedAmount EXCEPT ![t] = 0]
            /\ totalLocked' = totalLocked - lockedAmount[t]
        BY <3>2 DEF Settle, Release, EndLock
      <4>2. QED
        BY <2>2, <4>1
    <3>3. QED
      BY <2>1, <3>1, <3>2
  <2>4. IsFiniteSet(Units(lockedAmount)) /\ totalLocked = Total(lockedAmount)
    BY DEF OnTheBooks
  <2>5. /\ IsFiniteSet(Units([lockedAmount EXCEPT ![t] = n]))
        /\ Total([lockedAmount EXCEPT ![t] = n]) = Total(lockedAmount) - lockedAmount[t] + n
    BY <2>2, <2>3, <2>4, TotalChanges
  <2>6. QED
    BY <2>3, <2>4, <2>5 DEF OnTheBooks
<1>3. ASSUME NEW who, NEW c, OwnersCall(who, c)
      PROVE  UNCHANGED <<lockedAmount, totalLocked>>
  BY <1>3 DEF OwnersCall, SetOrchestrator, TransferEscrowOwnership, escrowVars
<1>4. ASSUME NEW who \in Accounts, TimelockCall(who)
      PROVE  UNCHANGED <<lockedAmount, totalLocked>>
  <2>1. UNCHANGED escrowVars \/ \E id \in Ids : OwnersCall(TimelockAddr, call[id].arg)
    BY <1>4, Zenon DEF TimelockCall
  <2>2. QED
    BY <1>3, <2>1 DEF escrowVars
<1>5. ASSUME NEW who, NEW to, NEW amount,
             \/ SwapperCall(who) \/ Tick \/ UNCHANGED vars
             \/ PayUsdc(who, to, amount) \/ ApproveUsdc(who, to, amount)
             \/ ApproveEure(who, to, amount)
      PROVE  UNCHANGED <<lockedAmount, totalLocked>>
  <2>1. UNCHANGED escrowVars
    BY <1>5, Zenon DEF SwapperCall, Tick, PayUsdc, ApproveUsdc, ApproveEure, vars
  <2>2. QED
    BY <2>1 DEF escrowVars
<1>6. QED
  BY <1>1, <1>2, <1>3, <1>4, <1>5, Zenon DEF Next

\* LocksAreCovered always holds: totalLocked is the sum of the open locks and the
\* escrow's USDC cover it, for any transfers, amounts and callers.
THEOREM EscrowIsSolvent == Spec => []LocksAreCovered
<1>1. GovInv /\ OnTheBooks => LocksAreCovered
  BY DEF GovInv, LocksAreThere, OnTheBooks, LocksAreCovered
<1>2. QED
  BY <1>1, InvInit, InvStep, BooksInit, BooksStep, PTL DEF Spec

\* A call of the escrow by a person locks, pays on or gives back.
LEMMA EscrowPromised ==
  ASSUME GovInv, NEW who \in Accounts, EscrowCall(who)
  PROVE  Promise!Next
<1> USE DEF GovInv, LedgersHold, LocksAreSomebodys, Transferred
<1>1. PICK t \in Transfers : \/ \E amount \in Amounts : LockForPayout(who, t, amount)
                             \/ Settle(who, t)
                             \/ \E to \in Holders : Release(who, t, to)
  BY DEF EscrowCall
<1>2. CASE \E amount \in Amounts : LockForPayout(who, t, amount)
  <2>1. PICK amount \in Amounts : LockForPayout(who, t, amount)
    BY <1>2
  <2>2. Transferred(usdc, usdc', who, EscrowAddr, amount) /\ amount \in Nat
    BY <2>1, UsdcTransferred, Apart, GovernanceAssumption DEF LockForPayout
  <2>3. refundTo'[t] = who /\ lockedAmount'[t] = amount
    BY <2>1 DEF LockForPayout
  <2>4. /\ usdc'[EscrowAddr] = usdc[EscrowAddr] + amount
        /\ usdc'[who] = usdc[who] - amount /\ amount > 0
    BY <2>1, <2>2, Apart DEF LockForPayout
  <2>5. amount = usdc'[EscrowAddr] - usdc[EscrowAddr]
    BY <2>2, <2>4, Apart
  <2>6. /\ statusOf[t] = "NONE" /\ statusOf' = [statusOf EXCEPT ![t] = "LOCKED"]
        /\ lockedAmount' = [lockedAmount EXCEPT ![t] = amount]
        /\ refundTo' = [refundTo EXCEPT ![t] = who]
    BY <2>1 DEF LockForPayout
  <2>7. usdc'[EscrowAddr] \in Nat /\ usdc[EscrowAddr] \in Nat /\ usdc'[EscrowAddr] > usdc[EscrowAddr]
    BY <2>2, <2>4, Apart
  <2>8. Promise!Lock(t)
    BY ONLY <2>3, <2>4, <2>5, <2>6, <2>7 DEF Promise!Lock
  <2>9. QED
    BY <2>8 DEF Promise!Next
<1>3. CASE Settle(who, t)
  <2>1. Transferred(usdc, usdc', EscrowAddr, escrowOwner, lockedAmount[t])
    BY <1>3, UsdcTransferred, Apart DEF Settle, EndLock
  <2>2. Promise!PayOn(t)
    BY <1>3, <2>1, Apart DEF Settle, EndLock, Promise!PayOn, Promise!End
  <2>3. QED
    BY <2>2 DEF Promise!Next
<1>4. ASSUME NEW to \in Holders, Release(who, t, to)
      PROVE  Promise!Next
  <2>1. lockedAmount[t] \in Nat /\ Usdc!Transfer(EscrowAddr, to, lockedAmount[t])
    BY <1>4 DEF Release, EndLock
  <2>2. Transferred(usdc, usdc', EscrowAddr, to, lockedAmount[t])
    BY <2>1, UsdcTransferred, Apart
  <2>3. to = refundTo[t] /\ to # EscrowAddr
    BY <1>4, Apart DEF Release, EndLock
  <2>4. Promise!GiveBack(t)
    BY <1>4, <2>2, <2>3, Apart DEF Release, EndLock, Promise!GiveBack, Promise!End
  <2>5. QED
    BY <2>4 DEF Promise!Next
<1>5. QED
  BY <1>1, <1>2, <1>3, <1>4

(***************************************************************************)
(* What no other step does: touch a lock, or take from the escrow.         *)
(***************************************************************************)
LEMMA OwnersCallElsewhere ==
  ASSUME GovInv, NEW who \in Callers, NEW c \in Managed, OwnersCall(who, c)
  PROVE  Promise!Elsewhere
<1> USE DEF GovInv, LedgersHold, Transferred, escrowVars, Promise!Elsewhere
<1>1. UNCHANGED <<statusOf, lockedAmount, refundTo>>
  BY DEF OwnersCall, SetOrchestrator, TransferEscrowOwnership
<1>2. CASE c.fn \in {"withdrawUsdc", "payOut"}
  <2>1. c.who \in Holders /\ c.arg \in Nat
    BY <1>2, GovernanceAssumption DEF ManagedCalls
  <2>2. PICK from \in {SwapperAddr, who} : Usdc!Transfer(from, c.who, c.arg)
    BY <1>2 DEF OwnersCall, WithdrawUsdc
  <2>3. Transferred(usdc, usdc', from, c.who, c.arg)
    BY <2>1, <2>2, UsdcTransferred, Apart
  <2>4. QED
    BY <1>1, <2>3, Apart
<1>3. CASE c.fn \notin {"withdrawUsdc", "payOut"}
  <2>1. usdc' = usdc
    BY <1>3
    DEF OwnersCall, SetRate, SetPaused, SetTrader, SetGuardian, TransferSwapperOwnership,
        WithdrawEure, SetOrchestrator, TransferEscrowOwnership, ledgers
  <2>2. QED
    BY <1>1, <2>1, Apart
<1>4. QED
  BY <1>2, <1>3

LEMMA PromiseStep == GovInv /\ [Next]_vars => [Promise!Next]_Promise!promiseVars
<1> SUFFICES ASSUME GovInv, [Next]_vars
             PROVE  Promise!Next \/ UNCHANGED <<statusOf, lockedAmount, refundTo, usdc>>
  BY DEF Promise!promiseVars
<1> USE DEF GovInv, LedgersHold, Transferred, escrowVars, Promise!Elsewhere
<1>1. ASSUME NEW who \in Accounts, SwapperCall(who)
      PROVE  Promise!Elsewhere
  <2>1. ASSUME NEW amountIn \in Amounts, SwapExactIn(who, amountIn, 0, who)
        PROVE  usdc'[EscrowAddr] >= usdc[EscrowAddr]
    <3>1. amountIn \in Nat /\ QuoteOut(amountIn) \in Nat
      BY GovernanceAssumption, Quotes
    <3>2. Transferred(usdc, usdc', SwapperAddr, who, QuoteOut(amountIn))
      BY <2>1, <3>1, UsdcTransferred, Apart DEF SwapExactIn
    <3>3. QED
      BY <3>2, Apart
  <2>2. ASSUME NEW amountIn \in Amounts, SwapReverseExactIn(who, amountIn, 0, who)
        PROVE  usdc'[EscrowAddr] >= usdc[EscrowAddr]
    <3>1. Transferred(usdc, usdc', who, SwapperAddr, amountIn)
      BY <2>2, UsdcTransferred, Apart, GovernanceAssumption DEF SwapReverseExactIn
    <3>2. QED
      BY <3>1, Apart
  <2>3. CASE Pause(who)
    BY <1>1, <2>3, Apart DEF SwapperCall, Pause, ledgers
  <2>4. QED
    BY <1>1, <2>1, <2>2, <2>3 DEF SwapperCall
<1>2. ASSUME NEW who \in Accounts, TimelockCall(who)
      PROVE  Promise!Elsewhere
  <2>1. PICK id \in Ids :
          \/ UNCHANGED <<escrowVars, swapperVars, ledgers>>
          \/ /\ call[id].fn = "managed" /\ OwnersCall(TimelockAddr, call[id].arg)
             /\ status[id] = "open"
    BY <1>2 DEF TimelockCall, Timelock!Execute
  <2>2. CASE UNCHANGED <<escrowVars, swapperVars, ledgers>>
    BY <2>2, Apart DEF ledgers
  <2>3. CASE call[id].fn = "managed" /\ status[id] = "open"
             /\ OwnersCall(TimelockAddr, call[id].arg)
    <3>1. call[id].arg \in Managed
      BY <2>3, GovernanceAssumption DEF OperationsAreCalls, Timelock!AllCalls
    <3>2. QED
      BY <2>3, <3>1, OwnersCallElsewhere DEF Callers
  <2>4. QED
    BY <2>1, <2>2, <2>3
<1>3. ASSUME NEW who \in Movers, NEW amount \in Amounts,
             \/ PayUsdc(who, EscrowAddr, amount) \/ PayUsdc(who, SwapperAddr, amount)
             \/ ApproveUsdc(who, EscrowAddr, amount) \/ ApproveUsdc(who, SwapperAddr, amount)
             \/ ApproveEure(who, SwapperAddr, amount)
      PROVE  Promise!Elsewhere
  <2>1. ASSUME NEW to \in {EscrowAddr, SwapperAddr}, PayUsdc(who, to, amount)
        PROVE  Promise!Elsewhere
    <3>1. who \in Accounts /\ amount \in Nat
      BY GovernanceAssumption
    <3>2. Transferred(usdc, usdc', who, to, amount)
      BY <2>1, <3>1, UsdcTransferred, Apart DEF PayUsdc
    <3>3. QED
      BY <2>1, <3>1, <3>2, Apart DEF PayUsdc
  <2>2. ASSUME NEW to, ApproveUsdc(who, to, amount) \/ ApproveEure(who, to, amount)
        PROVE  Promise!Elsewhere
    BY <2>2, Apart DEF ApproveUsdc, ApproveEure, Usdc!Approve
  <2>3. QED
    BY <1>3, <2>1, <2>2
<1>4. CASE Tick
  BY <1>4, Apart DEF Tick, ledgers
<1>5. CASE UNCHANGED vars
  BY <1>5 DEF vars, ledgers
<1>6. QED
  BY <1>1, <1>2, <1>3, <1>4, <1>5, EscrowPromised, OwnersCallElsewhere, Apart
  DEF Next, Promise!Next

(***************************************************************************)
(* The escrow implements EscrowPromise: a lock ends once, in full, to      *)
(* whoever locked it or onward, and nothing else takes from the escrow,    *)
(* whoever holds the roles.                                                *)
(***************************************************************************)
THEOREM PromiseKept == Spec => EscrowKeepsItsPromise
<1>1. Init => Promise!Init
  BY DEF Init, EscrowInit, Promise!Init
<1>2. QED
  BY <1>1, PromiseStep, GovInvariant, PTL DEF Spec, EscrowKeepsItsPromise, Promise!Spec

-----------------------------------------------------------------------------
(* The timelock over the contracts.                                        *)

\* An owner's call of the timelock leaves the contracts and the ledgers alone, or
\* executes an operation that was confirmed and has waited.
LEMMA TimelocksDoing ==
  ASSUME GovInv, NEW who \in Accounts, TimelockCall(who)
  PROVE  UNCHANGED <<escrowVars, swapperVars, ledgers>> \/ ByTimelock
<1>1. PICK id \in Ids : \/ UNCHANGED <<escrowVars, swapperVars, ledgers>>
                        \/ Timelock!Execute(who, id)
  BY DEF TimelockCall
<1>2. CASE Timelock!Execute(who, id)
  <2>1. status[id] = "open" /\ status'[id] = "executed"
    BY <1>2 DEF Timelock!Execute, GovInv, OperationsAreCalls
  <2>2. Timelock!LiveConfirmations(id) >= threshold /\ now >= eta[id]
    BY <1>2 DEF Timelock!Execute, Timelock!Enough
  <2>3. QED
    BY <2>1, <2>2 DEF ByTimelock
<1>3. QED
  BY <1>1, <1>2

\* A person's call of the contracts, of what is reserved to their owners too.
LEMMA PersonsDoing ==
  ASSUME GovInv, NEW who \in Accounts,
         \/ EscrowCall(who) \/ SwapperCall(who)
         \/ \E c \in Managed : OwnersCall(who, c)
  PROVE  /\ swapperOwner = TimelockAddr =>
              /\ UNCHANGED <<rate, isTrader, guardian, swapperOwner>>
              /\ paused => paused'
         /\ escrowOwner = TimelockAddr => UNCHANGED <<isOrchestrator, escrowOwner>>
<1> who # TimelockAddr
  BY Apart
<1>1. CASE EscrowCall(who)
  BY <1>1 DEF EscrowCall, LockForPayout, Settle, Release, EndLock, swapperVars
<1>2. CASE SwapperCall(who)
  BY <1>2 DEF SwapperCall, SwapExactIn, SwapReverseExactIn, Pause, swapperVars, escrowVars
<1>3. ASSUME NEW c \in Managed, OwnersCall(who, c)
      PROVE  /\ swapperOwner = TimelockAddr => UNCHANGED swapperVars
             /\ escrowOwner = TimelockAddr => UNCHANGED escrowVars
  BY <1>3
  DEF OwnersCall, SetRate, SetPaused, SetTrader, SetGuardian, TransferSwapperOwnership,
      WithdrawUsdc, WithdrawEure, SetOrchestrator, TransferEscrowOwnership, escrowVars, swapperVars
<1>4. QED
  BY <1>1, <1>2, <1>3 DEF swapperVars, escrowVars

(***************************************************************************)
(* No single key changes rates, roles, guardian or owners, or restarts a   *)
(* paused swapper, while the timelock owns the contracts.                  *)
(***************************************************************************)
THEOREM NoSingleKey == Spec => NoSingleKeyGoverns
<1> DEFINE Governed ==
      /\ swapperOwner = TimelockAddr =>
            \/ <<rate, isTrader, guardian, swapperOwner>>' = <<rate, isTrader, guardian, swapperOwner>>
                 /\ (paused => paused')
            \/ ByTimelock
      /\ escrowOwner = TimelockAddr =>
            <<isOrchestrator, escrowOwner>>' = <<isOrchestrator, escrowOwner>> \/ ByTimelock
<1>1. GovInv /\ [Next]_vars => [Governed]_vars
  <2> SUFFICES ASSUME GovInv, Next PROVE Governed
    OBVIOUS
  <2>1. ASSUME NEW who \in Accounts, TimelockCall(who)
        PROVE  Governed
    BY <2>1, TimelocksDoing DEF escrowVars, swapperVars
  <2>2. ASSUME NEW who \in Accounts,
               \/ EscrowCall(who) \/ SwapperCall(who)
               \/ \E c \in Managed : OwnersCall(who, c)
        PROVE  Governed
    BY <2>2, PersonsDoing
  <2>3. CASE UNCHANGED <<escrowVars, swapperVars>>
    BY <2>3 DEF escrowVars, swapperVars
  <2>4. QED
    BY <2>1, <2>2, <2>3 DEF Next, PayUsdc, ApproveUsdc, ApproveEure, Tick
<1>2. QED
  BY <1>1, GovInvariant, PTL DEF Spec, NoSingleKeyGoverns

(***************************************************************************)
(* What a swap at the rate does to the worth of what the swapper holds: it *)
(* takes in a at price p and gives out q at price s.                       *)
(***************************************************************************)
LEMMA NoWorseOff ==
  ASSUME NEW held \in Nat, NEW a \in Nat, NEW p \in Nat,
         NEW kept \in Nat, NEW q \in Nat, NEW s \in Nat, q * s <= a * p
  PROVE  (held + a) * p + (kept - q) * s >= held * p + kept * s
<1>1. (held + a) * p = held * p + a * p
  OBVIOUS
<1>2. (kept - q) * s = kept * s - q * s
  OBVIOUS
<1>3. held * p \in Nat /\ a * p \in Nat /\ kept * s \in Nat /\ q * s \in Nat
  OBVIOUS
<1>4. QED
  BY <1>1, <1>2, <1>3

\* At unchanged prices, more of either token is worth more.
LEMMA MoreIsMore ==
  ASSUME NEW e \in Nat, NEW f \in Nat, NEW u \in Nat, NEW v \in Nat,
         NEW p \in Nat, NEW s \in Nat, f >= e, v >= u
  PROVE  f * p + v * s >= e * p + u * s
<1>1. f * p >= e * p /\ v * s >= u * s
  OBVIOUS
<1>2. f * p \in Nat /\ e * p \in Nat /\ v * s \in Nat /\ u * s \in Nat
  OBVIOUS
<1>3. QED
  BY <1>1, <1>2

\* What no swap of a person touches only grows the swapper's holdings.
Grows == /\ eure'[SwapperAddr] >= eure[SwapperAddr] /\ usdc'[SwapperAddr] >= usdc[SwapperAddr]
         /\ rate' = rate

LEMMA GrowthIsWorth ==
  ASSUME GovInv, GovInv', Grows
  PROVE  Worth' >= Worth
<1>1. /\ eure[SwapperAddr] \in Nat /\ eure'[SwapperAddr] \in Nat /\ rate \in Nat
      /\ usdc[SwapperAddr] \in Nat /\ usdc'[SwapperAddr] \in Nat /\ Scale \in Nat
  BY GovernanceAssumption, Apart DEF GovInv, LedgersHold
<1>2. QED
  BY <1>1, MoreIsMore DEF Worth, Grows

\* swapExactIn and swapReverseExactIn.
LEMMA SwapIsNoLoss ==
  ASSUME GovInv, NEW who \in Accounts, NEW a \in Amounts,
         SwapExactIn(who, a, 0, who) \/ SwapReverseExactIn(who, a, 0, who)
  PROVE  Worth' >= Worth
<1> USE DEF GovInv, LedgersHold, Transferred
<1>1. /\ a \in Nat /\ Scale \in Nat /\ rate \in Nat
      /\ eure[SwapperAddr] \in Nat /\ usdc[SwapperAddr] \in Nat
  BY GovernanceAssumption, Apart
<1>2. CASE SwapExactIn(who, a, 0, who)
  <2>1. QuoteOut(a) \in Nat /\ QuoteOut(a) * Scale <= a * rate
    BY <1>1, Quotes
  <2>2. Transferred(eure, eure', who, SwapperAddr, a)
    BY <1>1, <1>2, EureTransferred, Apart DEF SwapExactIn
  <2>3. Transferred(usdc, usdc', SwapperAddr, who, QuoteOut(a))
    BY <1>2, <2>1, UsdcTransferred, Apart DEF SwapExactIn
  <2>4. /\ eure'[SwapperAddr] = eure[SwapperAddr] + a /\ rate' = rate
        /\ usdc'[SwapperAddr] = usdc[SwapperAddr] - QuoteOut(a)
    BY <1>2, <2>2, <2>3, Apart DEF SwapExactIn, swapperVars
  <2>5. QED
    BY <1>1, <2>1, <2>4, NoWorseOff DEF Worth
<1>3. CASE SwapReverseExactIn(who, a, 0, who)
  <2>1. QuoteReverseOut(a) \in Nat /\ QuoteReverseOut(a) * rate <= a * Scale
    BY <1>1, Quotes
  <2>2. Transferred(usdc, usdc', who, SwapperAddr, a)
    BY <1>1, <1>3, UsdcTransferred, Apart DEF SwapReverseExactIn
  <2>3. Transferred(eure, eure', SwapperAddr, who, QuoteReverseOut(a))
    BY <1>3, <2>1, EureTransferred, Apart DEF SwapReverseExactIn
  <2>4. /\ usdc'[SwapperAddr] = usdc[SwapperAddr] + a /\ rate' = rate
        /\ eure'[SwapperAddr] = eure[SwapperAddr] - QuoteReverseOut(a)
    BY <1>3, <2>2, <2>3, Apart DEF SwapReverseExactIn, swapperVars
  <2>5. (usdc[SwapperAddr] + a) * Scale + (eure[SwapperAddr] - QuoteReverseOut(a)) * rate
          >= usdc[SwapperAddr] * Scale + eure[SwapperAddr] * rate
    BY <1>1, <2>1, NoWorseOff
  <2>6. Worth' = (eure[SwapperAddr] - QuoteReverseOut(a)) * rate + (usdc[SwapperAddr] + a) * Scale
    BY <2>4 DEF Worth
  <2>7. QED
    BY <1>1, <2>1, <2>5, <2>6 DEF Worth
<1>4. QED
  BY <1>2, <1>3

\* A person's payment to the contracts, an approval, a lock or its end.
LEMMA OthersGrow ==
  ASSUME GovInv, NEW who \in Accounts,
         \/ EscrowCall(who)
         \/ Pause(who)
         \/ swapperOwner = TimelockAddr /\ \E c \in Managed : OwnersCall(who, c)
         \/ \E amount \in Amounts, to \in {EscrowAddr, SwapperAddr} :
               PayUsdc(who, to, amount) \/ ApproveUsdc(who, to, amount) \/ ApproveEure(who, to, amount)
  PROVE  Grows
<1> USE DEF GovInv, LedgersHold, LocksAreSomebodys, Transferred, Grows, swapperVars
<1>0. who # TimelockAddr /\ who \in Holders /\ who # SwapperAddr
  BY Apart
<1>1. CASE EscrowCall(who)
  <2>1. eure' = eure /\ rate' = rate
    BY <1>1 DEF EscrowCall
  <2>2. ASSUME NEW t \in Transfers, NEW amount \in Amounts, LockForPayout(who, t, amount)
        PROVE  usdc'[SwapperAddr] >= usdc[SwapperAddr]
    <3>1. Transferred(usdc, usdc', who, EscrowAddr, amount)
      BY <2>2, UsdcTransferred, Apart, GovernanceAssumption DEF LockForPayout
    <3>2. QED
      BY <3>1, <1>0, Apart
  <2>3. ASSUME NEW t \in Transfers, NEW end, NEW to \in Holders, EndLock(t, end, to)
        PROVE  usdc'[SwapperAddr] >= usdc[SwapperAddr]
    <3>1. lockedAmount[t] \in Nat /\ Usdc!Transfer(EscrowAddr, to, lockedAmount[t])
      BY <2>3 DEF EndLock
    <3>2. Transferred(usdc, usdc', EscrowAddr, to, lockedAmount[t])
      BY <3>1, UsdcTransferred, Apart
    <3>3. QED
      BY <3>2, Apart
  <2>4. QED
    BY <1>1, <2>1, <2>2, <2>3, Apart DEF EscrowCall, Settle, Release
<1>2. CASE Pause(who)
  BY <1>2, Apart DEF Pause, ledgers
<1>3. ASSUME swapperOwner = TimelockAddr, NEW c \in Managed, OwnersCall(who, c)
      PROVE  Grows
  <2>1. eure' = eure /\ rate' = rate
    BY <1>0, <1>3
    DEF OwnersCall, SetRate, SetPaused, SetTrader, SetGuardian, TransferSwapperOwnership,
        WithdrawUsdc, WithdrawEure
  <2>2. CASE c.fn = "payOut"
    <3>1. c.who \in Holders /\ c.arg \in Nat /\ Usdc!Transfer(who, c.who, c.arg)
      BY <1>3, <2>2, GovernanceAssumption DEF ManagedCalls, OwnersCall
    <3>2. Transferred(usdc, usdc', who, c.who, c.arg)
      BY <1>0, <3>1, UsdcTransferred
    <3>3. QED
      BY <1>0, <2>1, <3>2, Apart
  <2>3. CASE c.fn # "payOut"
    <3>1. usdc' = usdc
      BY <1>0, <1>3, <2>3
      DEF OwnersCall, SetRate, SetPaused, SetTrader, SetGuardian, TransferSwapperOwnership,
          WithdrawUsdc, WithdrawEure, SetOrchestrator, TransferEscrowOwnership, ledgers
    <3>2. QED
      BY <2>1, <3>1, Apart
  <2>4. QED
    BY <2>2, <2>3
<1>4. ASSUME NEW amount \in Amounts, NEW to \in {EscrowAddr, SwapperAddr},
             PayUsdc(who, to, amount) \/ ApproveUsdc(who, to, amount) \/ ApproveEure(who, to, amount)
      PROVE  Grows
  <2>1. CASE PayUsdc(who, to, amount)
    <3>1. Transferred(usdc, usdc', who, to, amount)
      BY <1>0, <2>1, UsdcTransferred, Apart, GovernanceAssumption DEF PayUsdc
    <3>2. QED
      BY <1>0, <2>1, <3>1, Apart DEF PayUsdc
  <2>2. CASE ApproveUsdc(who, to, amount) \/ ApproveEure(who, to, amount)
    BY <2>2, Apart DEF ApproveUsdc, ApproveEure, Usdc!Approve, Eure!Approve
  <2>3. QED
    BY <1>4, <2>1, <2>2
<1>5. QED
  BY <1>1, <1>2, <1>3, <1>4

(***************************************************************************)
(* Trading never costs the swapper anything at its own rate: only the      *)
(* timelock, by withdrawing or by changing the rate, does.                 *)
(***************************************************************************)
THEOREM TradingIsSafe == Spec => SwapsCostNothing
<1>1. GovInv /\ GovInv' /\ [Next]_vars
        => [swapperOwner = TimelockAddr => Worth' >= Worth \/ ByTimelock]_vars
  <2> SUFFICES ASSUME GovInv, GovInv', Next, swapperOwner = TimelockAddr
               PROVE  Worth' >= Worth \/ ByTimelock
    OBVIOUS
  <2>1. Grows => Worth' >= Worth
    BY GrowthIsWorth
  <2>2. CASE UNCHANGED <<swapperVars, ledgers>>
    BY <2>1, <2>2, Apart DEF Grows, swapperVars, ledgers, GovInv, LedgersHold
  <2>3. ASSUME NEW who \in Accounts, SwapperCall(who)
        PROVE  Worth' >= Worth
    <3>1. CASE Pause(who)
      BY <2>1, <3>1, OthersGrow
    <3>2. ASSUME NEW a \in Amounts, SwapExactIn(who, a, 0, who) \/ SwapReverseExactIn(who, a, 0, who)
          PROVE  Worth' >= Worth
      BY <3>2, SwapIsNoLoss
    <3>3. QED
      BY <2>3, <3>1, <3>2 DEF SwapperCall
  <2>4. ASSUME NEW who \in Accounts, TimelockCall(who)
        PROVE  Worth' >= Worth \/ ByTimelock
    BY <2>2, <2>4, TimelocksDoing
  <2>5. ASSUME NEW who \in Accounts,
               EscrowCall(who) \/ \E c \in Managed : OwnersCall(who, c)
        PROVE  Worth' >= Worth
    <3>1. CASE EscrowCall(who)
      BY <2>1, <3>1, OthersGrow
    <3>2. CASE \E c \in Managed : OwnersCall(who, c)
      BY <2>1, <3>2, OthersGrow
    <3>3. QED
      BY <2>5, <3>1, <3>2
  <2>6. ASSUME NEW who \in Movers, NEW amount \in Amounts,
               \/ PayUsdc(who, EscrowAddr, amount) \/ PayUsdc(who, SwapperAddr, amount)
               \/ ApproveUsdc(who, EscrowAddr, amount) \/ ApproveUsdc(who, SwapperAddr, amount)
               \/ ApproveEure(who, SwapperAddr, amount)
        PROVE  Worth' >= Worth
    <3>1. who \in Accounts
      BY GovernanceAssumption
    <3>2. Grows
      BY <2>6, <3>1, OthersGrow
    <3>3. QED
      BY <2>1, <3>2
  <2>7. QED
    BY <2>2, <2>3, <2>4, <2>5, <2>6 DEF Next, Tick
<1>2. QED
  BY <1>1, GovInvariant, PTL DEF Spec, SwapsCostNothing
=============================================================================
