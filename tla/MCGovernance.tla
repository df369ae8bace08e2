------------------------------ MODULE MCGovernance ------------------------------
(* The deployed contracts for TLC: two signers who must agree, the relayer's  *)
(* key, one operation that may be a change of any kind, and a handful of money.*)
EXTENDS Governance, TLC

CONSTANTS deployer, relayer, ramp

People == {deployer, relayer, ramp}
Signers == {deployer, ramp}
Addresses == People \cup {EscrowAddr, SwapperAddr, TimelockAddr}

Changes ==
    {[fn |-> "setRate", arg |-> 0], [fn |-> "setRate", arg |-> 2],
     [fn |-> "setPaused", arg |-> FALSE], [fn |-> "ownSwapper", who |-> ramp],
     [fn |-> "setTrader", who |-> relayer, enabled |-> FALSE],
     [fn |-> "setOrchestrator", who |-> relayer, enabled |-> FALSE],
     [fn |-> "setGuardian", who |-> deployer], [fn |-> "ownEscrow", who |-> ramp],
     [fn |-> "payOut", who |-> deployer, arg |-> 1],
     [fn |-> "withdrawEure", who |-> deployer, arg |-> 1],
     [fn |-> "withdrawUsdc", who |-> deployer, arg |-> 1]}

QueuedCalls == [fn : {"managed"}, arg : Changes] \cup {[fn |-> "setDelay", arg |-> 0]}

\* The swapper's inventory, and what the relayer has in hand.
Usdcs == [h \in Addresses |-> IF h = SwapperAddr THEN 2 ELSE IF h = relayer THEN 2 ELSE 0]
Eures == [h \in Addresses |-> IF h = relayer THEN 1 ELSE IF h = SwapperAddr THEN 1 ELSE 0]

Interchangeable == Permutations(Ids) \cup Permutations(Transfers)
=============================================================================
