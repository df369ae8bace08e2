---------------------------- MODULE AdminTimelockProofs ----------------------------
(***************************************************************************)
(* Theorems about AdminTimelock, for every set of accounts, every set of   *)
(* calls that may be queued, and every constructor argument.               *)
(***************************************************************************)
EXTENDS AdminTimelock, FiniteSetTheorems, TLAPS

(***************************************************************************)
(* The inductive invariant.  Besides what is to be shown, it says that a   *)
(* vote is never from a later term than the voter's current one, which is  *)
(* why a new term makes every older vote worthless, and that nobody votes  *)
(* on what was not queued.                                                 *)
(***************************************************************************)
VotesArePast == \A id \in Ids, who \in Accounts : vote[id][who] <= ownerEpoch[who]

VotesFollowQueue == \A id \in Ids : status[id] = "unknown" => standing[id] = {}

TimelockInv ==
    TypeOK /\ VotesArePast /\ VotesFollowQueue /\ VotesEndWithTheTerm /\ QuorumExists

\* What the constructor sets up satisfies the invariant.
LEMMA InvInit == Init => TimelockInv
  BY ConstructorAssumption, BoundAssumption
  DEF Init, TimelockInv, TypeOK, VotesArePast, VotesFollowQueue, VotesEndWithTheTerm,
      QuorumExists, Confirmers, HasConfirmed, NoVote, NoCall

\* Whatever set of accounts is looked at is finite, so that counting it works.
LEMMA Finite ==
  ASSUME NEW S, S \subseteq Accounts
  PROVE  IsFiniteSet(S) /\ Cardinality(S) \in Nat
  BY AccountsAssumption, FS_Subset, FS_CardinalityType

\* removeOwner makes the owners fewer by exactly one.
LEMMA RemovalCounts ==
  ASSUME NEW S, S \subseteq Accounts, NEW x \in S
  PROVE  Cardinality(S \ {x}) = Cardinality(S) - 1
<1>1. IsFiniteSet(S)
  BY Finite
<1>2. QED
  BY <1>1, FS_RemoveElement, Zenon

\* Effect preserves the part of the invariant that is about the membership.
LEMMA EffectInv ==
  ASSUME TimelockInv, NEW c \in Calls, Effect(c),
         UNCHANGED <<vote, call, eta, confirmations, now>>,
         status' \in [Ids -> {"unknown", "open", "executed", "cancelled"}],
         \A id \in Ids : status'[id] # "unknown" => call[id] \in Calls,
         \A id \in Ids : status'[id] = "unknown" => status[id] = "unknown"
  PROVE  TimelockInv'
<1> USE DEF TimelockInv, TypeOK, VotesArePast, VotesFollowQueue, VotesEndWithTheTerm,
            QuorumExists, Confirmers, HasConfirmed, NoVote, Effect
<1>1. CASE c.fn = "setDelay"
  BY <1>1, CallsAssumption DEF SetDelay, AllCalls
<1>2. CASE c.fn = "setThreshold"
  BY <1>2, CallsAssumption DEF SetThreshold, AllCalls
<1>3. CASE c.fn = "addOwner"
  <2>1. AddOwner(c.arg) /\ c.arg \in Accounts
    BY <1>3, CallsAssumption DEF AllCalls
  <2>2. Cardinality(owners') >= Cardinality(owners)
    <3>1. IsFiniteSet(owners) /\ owners' = owners \cup {c.arg}
      BY <2>1, Finite DEF AddOwner
    <3>2. Cardinality(owners) \in Nat /\ Cardinality(owners') \in Nat
      BY <2>1, <3>1, Finite
    <3>3. Cardinality(owners') \in {Cardinality(owners), Cardinality(owners) + 1}
      BY <3>1, FS_AddElement
    <3>4. QED
      BY <3>2, <3>3
  <2>3. ASSUME NEW id \in Ids
        PROVE  Confirmers(id)' = standing'[id]
    <3>1. ~HasConfirmed(id, c.arg)'
      BY <2>1 DEF AddOwner
    <3>2. Confirmers(id)' = Confirmers(id)
      BY <2>1, <3>1 DEF AddOwner
    <3>3. QED
      BY <2>1, <3>2 DEF AddOwner
  <2>4. VotesArePast'
    BY <2>1 DEF AddOwner
  <2>5. QED
    BY <2>1, <2>2, <2>3, <2>4, Finite DEF AddOwner
<1>4. CASE c.fn = "removeOwner"
  <2>1. RemoveOwner(c.arg) /\ c.arg \in Accounts
    BY <1>4, CallsAssumption DEF AllCalls
  <2>2. Cardinality(owners') = Cardinality(owners) - 1
    <3>1. IsFiniteSet(owners) /\ owners' = owners \ {c.arg} /\ c.arg \in owners
      BY <2>1, Finite DEF RemoveOwner
    <3>2. Cardinality(owners \ {c.arg}) = Cardinality(owners) - 1
      BY <3>1, RemovalCounts DEF TypeOK
    <3>3. QED
      BY <3>1, <3>2
  <2>3. QED
    BY <2>1, <2>2, Finite DEF RemoveOwner
<1>5. CASE c.fn = "managed"
  BY <1>5, CallsAssumption DEF AllCalls, membership
<1>6. QED
  BY <1>1, <1>2, <1>3, <1>4, <1>5

\* Every transaction, every tick of the clock and every stutter preserves it.
LEMMA InvStep == TimelockInv /\ [Next]_vars => TimelockInv'
<1> SUFFICES ASSUME TimelockInv, [Next]_vars PROVE TimelockInv'
  OBVIOUS
<1>1. ASSUME NEW who \in Accounts, NEW id \in Ids, NEW c \in Calls, Queue(who, id, c)
      PROVE  TimelockInv'
  <2>1. \A a \in owners : ~HasConfirmed(id, a)
    BY <1>1 DEF Queue, TimelockInv, VotesFollowQueue, VotesEndWithTheTerm, Confirmers
  <2>2. QED
    BY <1>1, <2>1, BoundAssumption
    DEF TimelockInv, TypeOK, VotesArePast, VotesFollowQueue, VotesEndWithTheTerm,
        QuorumExists, Confirmers, HasConfirmed, NoVote, Queue, membership
<1>2. ASSUME NEW who \in Accounts, NEW id \in Ids, Confirm(who, id)
      PROVE  TimelockInv'
  <2>1. Cardinality(Confirmers(id) \cup {who}) \in Nat
    BY Finite DEF TimelockInv, TypeOK, Confirmers
  <2>2. QED
    BY <1>2, <2>1
    DEF TimelockInv, TypeOK, VotesArePast, VotesFollowQueue, VotesEndWithTheTerm,
        QuorumExists, Confirmers, HasConfirmed, NoVote, Confirm, membership, operations
<1>3. ASSUME NEW who \in Accounts, NEW id \in Ids, Cancel(who, id)
      PROVE  TimelockInv'
  BY <1>3
  DEF TimelockInv, TypeOK, VotesArePast, VotesFollowQueue, VotesEndWithTheTerm,
      QuorumExists, Confirmers, HasConfirmed, NoVote, Cancel, membership, operations
<1>4. ASSUME NEW who \in Accounts, NEW id \in Ids, Execute(who, id)
      PROVE  TimelockInv'
  BY <1>4, EffectInv DEF Execute, operations, TimelockInv, TypeOK
<1>5. CASE Tick
  BY <1>5, BoundAssumption
  DEF TimelockInv, TypeOK, VotesArePast, VotesFollowQueue, VotesEndWithTheTerm,
      QuorumExists, Confirmers, HasConfirmed, NoVote, Tick, membership, operations
<1>6. CASE UNCHANGED vars
  BY <1>6
  DEF TimelockInv, TypeOK, VotesArePast, VotesFollowQueue, VotesEndWithTheTerm,
      QuorumExists, Confirmers, HasConfirmed, NoVote, vars, membership, operations
<1>7. QED
  BY <1>1, <1>2, <1>3, <1>4, <1>5, <1>6 DEF Next

\* So it always holds.
LEMMA TimelockInvariant == Spec => []TimelockInv
  BY InvInit, InvStep, PTL DEF Spec

(***************************************************************************)
(* Every variable keeps its type: the threshold is never zero.             *)
(***************************************************************************)
THEOREM TypeCorrect == Spec => []TypeOK
<1>1. TimelockInv => TypeOK
  BY DEF TimelockInv
<1>2. QED
  BY <1>1, TimelockInvariant, PTL

(***************************************************************************)
(* The votes execute() counts are those of owners without a break since    *)
(* they voted.                                                             *)
(***************************************************************************)
THEOREM NoStaleVote == Spec => []VotesEndWithTheTerm
<1>1. TimelockInv => VotesEndWithTheTerm
  BY DEF TimelockInv
<1>2. QED
  BY <1>1, TimelockInvariant, PTL

(***************************************************************************)
(* There are always as many owners as an execution needs.                  *)
(***************************************************************************)
THEOREM NeverLockedOut == Spec => []QuorumExists
<1>1. TimelockInv => QuorumExists
  BY DEF TimelockInv
<1>2. QED
  BY <1>1, TimelockInvariant, PTL

(***************************************************************************)
(* An execution is carried by a threshold of standing votes and is due.    *)
(***************************************************************************)
LEMMA CarriedStep ==
  ASSUME TimelockInv, Next, NEW id \in Ids,
         status'[id] = "executed", status[id] # "executed"
  PROVE  Cardinality(standing[id] \cap owners) >= threshold /\ now >= eta[id]
<1>1. PICK who \in Accounts : Execute(who, id)
  BY DEF Next, Queue, Confirm, Cancel, Execute, Tick, TimelockInv, TypeOK
<1>2. Confirmers(id) = standing[id] \cap owners
  BY DEF TimelockInv, VotesEndWithTheTerm, Confirmers
<1>3. QED
  BY <1>1, <1>2 DEF Execute, Enough, LiveConfirmations

\* ExecutionIsCarried: whatever executes is carried by a threshold of standing
\* votes and has waited out its delay.
THEOREM Carried == Spec => ExecutionIsCarried
<1>1. TimelockInv /\ [Next]_vars =>
        [\A id \in Ids : status'[id] = "executed" /\ status[id] # "executed" =>
            /\ Cardinality(standing[id] \cap owners) >= threshold
            /\ now >= eta[id]]_vars
  BY CarriedStep
<1>2. QED
  BY <1>1, TimelockInvariant, PTL DEF Spec, ExecutionIsCarried

(***************************************************************************)
(* A closed operation stays closed and stays what it was.                  *)
(***************************************************************************)
THEOREM ClosedForGood == Spec => ClosedOperationsStayClosed
<1>1. TimelockInv /\ [Next]_vars =>
        [\A id \in Ids : status[id] \in {"executed", "cancelled"} =>
            /\ status'[id] = status[id] /\ call'[id] = call[id]
            /\ eta'[id] = eta[id] /\ confirmations'[id] = confirmations[id]]_vars
  <2> SUFFICES ASSUME TimelockInv, Next, NEW id \in Ids, status[id] \in {"executed", "cancelled"}
               PROVE  /\ status'[id] = status[id] /\ call'[id] = call[id]
                      /\ eta'[id] = eta[id] /\ confirmations'[id] = confirmations[id]
    OBVIOUS
  <2> USE DEF TimelockInv, TypeOK, operations
  <2>1. ASSUME NEW who \in Accounts, NEW i \in Ids, NEW c \in Calls, Queue(who, i, c)
        PROVE  /\ status'[id] = status[id] /\ call'[id] = call[id]
               /\ eta'[id] = eta[id] /\ confirmations'[id] = confirmations[id]
    BY <2>1 DEF Queue
  <2>2. ASSUME NEW who \in Accounts, NEW i \in Ids,
               Confirm(who, i) \/ Cancel(who, i) \/ Execute(who, i)
        PROVE  /\ status'[id] = status[id] /\ call'[id] = call[id]
               /\ eta'[id] = eta[id] /\ confirmations'[id] = confirmations[id]
    BY <2>2 DEF Confirm, Cancel, Execute
  <2>3. CASE Tick
    BY <2>3 DEF Tick
  <2>4. QED
    BY <2>1, <2>2, <2>3 DEF Next
<1>2. QED
  BY <1>1, TimelockInvariant, PTL DEF Spec, ClosedOperationsStayClosed
=============================================================================
