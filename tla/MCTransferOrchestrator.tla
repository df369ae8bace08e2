------------------------- MODULE MCTransferOrchestrator -------------------------
(***************************************************************************)
(* Instances of TransferOrchestrator for TLC: the deployments, the worlds  *)
(* and the exchange rates of its runs.                                     *)
(***************************************************************************)
EXTENDS TransferOrchestrator, TLC

\* Every configuration that fills swaps at the FxSwapper contract.
FxSwapperDeployments ==
    [venue : {"fx-swapper"}, cctpLive : BOOLEAN,
     anchorMode : BOOLEAN, allowMockFallback : BOOLEAN]

\* Every configuration that fills them at a DEX.
DexDeployments == {[d EXCEPT !.venue = "dex"] : d \in FxSwapperDeployments}

AllDeployments == FxSwapperDeployments \cup DexDeployments

\* The bridge burns for real.
LiveDeployments == {d \in FxSwapperDeployments : d.cctpLive}

World(slow, meets, lost) ==
    [slowLegs |-> slow, sweepMeetsFailure |-> meets, lostReceipts |-> lost]

\* Handlers and sweeps keep apart and no receipt is lost.
CalmWorld == {World({}, FALSE, FALSE)}

\* Handlers and sweeps keep apart, but receipts get lost.
\* And: anything may outlast STALE_MS, and sweeps meet everything.
HarshWorlds == {World({}, FALSE, TRUE), World(ExecPc \cup CompPc \cup SettlePc, TRUE, TRUE)}

\* Waiting for Circle's attestation outlasts STALE_MS; nothing else does.
SlowAttestation == {World({"attest"}, FALSE, FALSE)}

\* A rate that moved against the user, stayed, moved far in the user's favour.
Rates == {1, 2, 4}

\* Transfers and workers are interchangeable in the safety runs.
Interchangeable == Permutations(Transfers) \cup Permutations(Workers)
=============================================================================
