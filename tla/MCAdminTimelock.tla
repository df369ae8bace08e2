----------------------------- MODULE MCAdminTimelock -----------------------------
(* AdminTimelock for TLC: three accounts and three operations, enough for an  *)
(* operation to be confirmed, its confirmer removed and added again.          *)
EXTENDS AdminTimelock, TLC

CONSTANTS a, b, c

ThreeAccounts == {a, b, c}

ManagedCalls == {"setRate"}

\* An account goes and comes back, the threshold moves both ways, and a delay
\* is set that the clock cannot be added to.
QueuedCalls ==
    {[fn |-> "addOwner", arg |-> b], [fn |-> "removeOwner", arg |-> b],
     [fn |-> "setThreshold", arg |-> 0], [fn |-> "setThreshold", arg |-> 1],
     [fn |-> "setThreshold", arg |-> 3], [fn |-> "setDelay", arg |-> 3],
     [fn |-> "managed", arg |-> "setRate"]}

Interchangeable == Permutations(Ids)
=============================================================================
