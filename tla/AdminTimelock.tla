------------------------------ MODULE AdminTimelock ------------------------------
(***************************************************************************)
(* contracts/src/AdminTimelock.sol: an M-of-N owner whose every act waits  *)
(* in public before it lands.  A transaction is atomic, so each external   *)
(* function is one action and one that reverts is no step at all.          *)
(*                                                                         *)
(* execute() calls its target after it has marked the operation executed   *)
(* and reads nothing afterwards, so a target that calls back in is the     *)
(* same as a transaction that follows.  The target is either the timelock  *)
(* itself (the onlySelf functions) or a contract it owns, whose effect is  *)
(* outside this module.                                                    *)
(*                                                                         *)
(* The owners array and the isOwner mapping hold the same accounts, so     *)
(* both are the set owners.  confirmedBy and confirmedOwnerEpoch are one   *)
(* function, vote, with NoVote for an account that never confirmed.        *)
(***************************************************************************)
EXTENDS Integers, FiniteSets

CONSTANTS
    Accounts,          \* the accounts that may be owners
    Ids,               \* operation ids: hashes of (target, value, data, salt)
    Managed,           \* calls of the contracts it owns
    Calls,             \* the calls that may be queued, see below
    InitialOwners, InitialThreshold, InitialDelay,   \* the constructor's arguments
    MaxWord,           \* the largest uint256; arithmetic beyond it reverts
    MaxTime            \* bound: the clock stops here

AllCalls ==
    [fn : {"setDelay", "setThreshold"}, arg : 0..MaxWord]
      \cup [fn : {"addOwner", "removeOwner"}, arg : Accounts]
      \cup [fn : {"managed"}, arg : Managed]

ASSUME CallsAssumption == Calls \subseteq AllCalls
ASSUME AccountsAssumption == IsFiniteSet(Accounts)
\* The constructor's requirements.
ASSUME ConstructorAssumption ==
    /\ InitialOwners \subseteq Accounts /\ InitialOwners # {}
    /\ InitialThreshold \in 1..Cardinality(InitialOwners)
    /\ InitialDelay \in 0..MaxWord
ASSUME BoundAssumption == MaxWord \in Nat /\ MaxTime \in 0..MaxWord

VARIABLES
    owners,        \* owners and isOwner
    threshold, delay,
    ownerEpoch,    \* how often the account was added after construction
    status,        \* of each id: unknown, open, executed or cancelled
    call, eta, confirmations,    \* the fields of operations[id]
    vote,          \* the epoch in which the account confirmed, or NoVote
    now,           \* block.timestamp
    standing       \* history: who confirmed and has not been removed since

membership == <<owners, threshold, delay, ownerEpoch>>
operations == <<call, eta>>
vars == <<membership, operations, status, confirmations, vote, now, standing>>

-----------------------------------------------------------------------------
NoVote == -1
NoCall == [fn |-> "none"]

TypeOK ==
    /\ owners \subseteq Accounts
    /\ threshold \in Nat \ {0} /\ delay \in 0..MaxWord
    /\ ownerEpoch \in [Accounts -> Nat]
    /\ status \in [Ids -> {"unknown", "open", "executed", "cancelled"}]
    /\ call \in [Ids -> Calls \cup {NoCall}]
    /\ \A id \in Ids : status[id] # "unknown" => call[id] \in Calls
    /\ eta \in [Ids -> 0..MaxWord] /\ confirmations \in [Ids -> Nat]
    /\ vote \in [Ids -> [Accounts -> Nat \cup {NoVote}]]
    /\ now \in 0..MaxTime
    /\ standing \in [Ids -> SUBSET Accounts]

Init ==
    /\ owners = InitialOwners /\ threshold = InitialThreshold /\ delay = InitialDelay
    /\ ownerEpoch = [a \in Accounts |-> 0]
    /\ status = [id \in Ids |-> "unknown"]
    /\ call = [id \in Ids |-> NoCall]
    /\ eta = [id \in Ids |-> 0] /\ confirmations = [id \in Ids |-> 0]
    /\ vote = [id \in Ids |-> [a \in Accounts |-> NoVote]]
    /\ now = 0
    /\ standing = [id \in Ids |-> {}]

\* The CURRENT owners who confirmed in their current term.
HasConfirmed(id, who) == vote[id][who] = ownerEpoch[who]
Confirmers(id) == {who \in owners : HasConfirmed(id, who)}
LiveConfirmations(id) == Cardinality(Confirmers(id))

-----------------------------------------------------------------------------
Queue(who, id, c) ==
    /\ who \in owners /\ status[id] = "unknown" /\ now + delay <= MaxWord
    /\ status' = [status EXCEPT ![id] = "open"]
    /\ call' = [call EXCEPT ![id] = c]
    /\ eta' = [eta EXCEPT ![id] = now + delay]
    /\ confirmations' = [confirmations EXCEPT ![id] = 1]
    /\ vote' = [vote EXCEPT ![id][who] = ownerEpoch[who]]
    /\ standing' = [standing EXCEPT ![id] = {who}]
    /\ UNCHANGED <<membership, now>>

Confirm(who, id) ==
    /\ who \in owners /\ status[id] = "open" /\ ~HasConfirmed(id, who)
    /\ vote' = [vote EXCEPT ![id][who] = ownerEpoch[who]]
    /\ confirmations' = [confirmations EXCEPT ![id] = Cardinality(Confirmers(id) \cup {who})]
    /\ standing' = [standing EXCEPT ![id] = @ \cup {who}]
    /\ UNCHANGED <<membership, operations, status, now>>

Cancel(who, id) ==
    /\ who \in owners /\ status[id] = "open"
    /\ status' = [status EXCEPT ![id] = "cancelled"]
    /\ UNCHANGED <<membership, operations, confirmations, vote, now, standing>>

(***************************************************************************)
(* What the timelock may do to itself, as effects on membership.           *)
(***************************************************************************)
SetDelay(d) == delay' = d /\ UNCHANGED <<owners, threshold, ownerEpoch, standing>>

SetThreshold(n) == /\ n > 0 /\ n <= Cardinality(owners)
                   /\ threshold' = n
                   /\ UNCHANGED <<owners, delay, ownerEpoch, standing>>

\* Mutant: an account that comes back comes back in its old term.
AddOwnerSameEpoch(who) == /\ who \notin owners
                          /\ owners' = owners \cup {who}
                          /\ UNCHANGED <<threshold, delay, ownerEpoch, standing>>

AddOwner(who) == /\ who \notin owners
                 /\ ownerEpoch' = [ownerEpoch EXCEPT ![who] = @ + 1]
                 /\ owners' = owners \cup {who}
                 /\ UNCHANGED <<threshold, delay, standing>>

\* Mutant: the check counts the owner who is leaving.
RemoveOwnerCountsLeaver(who) ==
    /\ who \in owners /\ Cardinality(owners) >= threshold
    /\ owners' = owners \ {who}
    /\ standing' = [id \in Ids |-> standing[id] \ {who}]
    /\ UNCHANGED <<threshold, delay, ownerEpoch>>

RemoveOwner(who) == /\ who \in owners /\ Cardinality(owners) - 1 >= threshold
                    /\ owners' = owners \ {who}
                    /\ standing' = [id \in Ids |-> standing[id] \ {who}]
                    /\ UNCHANGED <<threshold, delay, ownerEpoch>>

Effect(c) ==
    \/ c.fn = "setDelay" /\ SetDelay(c.arg)
    \/ c.fn = "setThreshold" /\ SetThreshold(c.arg)
    \/ c.fn = "addOwner" /\ AddOwner(c.arg)
    \/ c.fn = "removeOwner" /\ RemoveOwner(c.arg)
    \/ c.fn = "managed" /\ UNCHANGED <<membership, standing>>

\* Mutant: the running tally decides.
EnoughByTally(id) == confirmations[id] >= threshold
Enough(id) == LiveConfirmations(id) >= threshold

Execute(who, id) ==
    /\ who \in owners /\ status[id] = "open"
    /\ Enough(id) /\ now >= eta[id]
    /\ status' = [status EXCEPT ![id] = "executed"]
    /\ Effect(call[id])
    /\ UNCHANGED <<operations, confirmations, vote, now>>

Tick == now < MaxTime /\ now' = now + 1
        /\ UNCHANGED <<membership, operations, status, confirmations, vote, standing>>

Next ==
    \/ \E who \in Accounts, id \in Ids :
          \/ \E c \in Calls : Queue(who, id, c)
          \/ Confirm(who, id) \/ Cancel(who, id) \/ Execute(who, id)
    \/ Tick

Spec == Init /\ [][Next]_vars

-----------------------------------------------------------------------------
(* Correctness.                                                            *)

(***************************************************************************)
(* The epochs say what they are for: the votes execute() counts are those  *)
(* of accounts that have been owners without a break since they voted.  A  *)
(* vote does not survive its voter's removal, however often the account is *)
(* removed and added again (liveConfirmations, addOwner).                  *)
(***************************************************************************)
VotesEndWithTheTerm == \A id \in Ids : Confirmers(id) = standing[id]

(***************************************************************************)
(* The owners can never vote themselves out of the power to act: in        *)
(* whatever order queued removals and threshold changes land, there are as *)
(* many owners as an execution needs (removeOwner, setThreshold).          *)
(***************************************************************************)
QuorumExists == threshold <= Cardinality(owners)

(***************************************************************************)
(* Whatever executes is carried, at that moment, by a threshold of owners  *)
(* whose vote still stands, and has waited out its delay (execute).        *)
(***************************************************************************)
ExecutionIsCarried ==
    [][\A id \in Ids : status'[id] = "executed" /\ status[id] # "executed" =>
          /\ Cardinality(standing[id] \cap owners) >= threshold
          /\ now >= eta[id]]_vars

(***************************************************************************)
(* An operation lands at most once and a cancelled one never: once closed, *)
(* neither a new queue() of the same call nor a late confirmation reopens  *)
(* it or changes what it was (queue, confirm, cancel, execute).            *)
(***************************************************************************)
ClosedOperationsStayClosed ==
    [][\A id \in Ids : status[id] \in {"executed", "cancelled"} =>
          /\ status'[id] = status[id] /\ call'[id] = call[id]
          /\ eta'[id] = eta[id] /\ confirmations'[id] = confirmations[id]]_vars
=============================================================================
