----------------------------- MODULE MCCashLegs -----------------------------
(***************************************************************************)
(* Instances of CashLegs for TLC.                                          *)
(***************************************************************************)
EXTENDS CashLegs, TLC

\* Of each transfer one EURe, so that prices are amounts.
Ones == [t \in Transfers |-> 1]

World(provider, treasury, alone, live) ==
    [provider |-> provider, treasury |-> treasury, alone |-> alone, live |-> live]

\* Every provider, one transfer after the other and several at once, with the
\* escrow and, behind the one venue production uses, with CCTP.
EveryProvider ==
    {World(p, FALSE, alone, FALSE) :
        p \in {"fx-swapper", "rfq", "cow", "dex", "lifi", "best"}, alone \in BOOLEAN}
    \cup {World("best", TRUE, FALSE, FALSE), World("lifi", FALSE, TRUE, TRUE),
          World("rfq", FALSE, FALSE, TRUE)}

\* A pool, one transfer after the other.
OnePool == {World("dex", FALSE, TRUE, FALSE)}

ThreeVenues == <<"lifi", "dex", "cow">>

Interchangeable == Permutations(Transfers)
=============================================================================
