----------------------------- MODULE MCAccounts -----------------------------
(***************************************************************************)
(* Instances of Accounts for TLC.                                          *)
(***************************************************************************)
EXTENDS Accounts, TLC

CONSTANTS q1, q2
\* One quote of each rail; together they are over the cap.
Amounts == (q1 :> 2) @@ (q2 :> 1)
Rails == (q1 :> "cash") @@ (q2 :> "sepa")
CONSTANTS g1, g2, l1, v1, m1, m2, a1, a2
\* Two registrations, a sign-in, an approval and two links to Monerium.
Purposed ==
    (g1 :> "register") @@ (g2 :> "register") @@ (l1 :> "login")
        @@ (v1 :> "step_up") @@ (m1 :> "link") @@ (m2 :> "link")
\* Each registration is with an authenticator of its own.
OneEach == [c \in {g1, g2, l1, v1, m1, m2} |-> IF c = g2 THEN a2 ELSE a1]

CONSTANTS x0, x1, recovers
\* Without a co-signer, with one as delegate, and with one as owner before and
\* after the module's address was corrected.
FourConfigurations ==
    {[cosigner |-> "none", module |-> x1, guardian |-> FALSE],
     [cosigner |-> "delegate", module |-> x1, guardian |-> FALSE],
     [cosigner |-> "owner", module |-> x0, guardian |-> TRUE],
     [cosigner |-> "owner", module |-> x1, guardian |-> TRUE]}

CONSTANTS t1, t2
\* A payment that was collected in cash, and one to a bank that was refunded.
Shapes ==
    (t1 :> [rail |-> "cash", state |-> "PAID", sender |-> 2, recipient |-> 1,
            account |-> "many", reference |-> FALSE, quoted |-> TRUE, refund |-> FALSE,
            moved |-> "all", memo |-> FALSE, liquidity |-> "executed", cctp |-> "burn",
            sepa |-> "none", anchor |-> "paid", pickup |-> "PAID", code |-> TRUE])
    @@
    (t2 :> [rail |-> "sepa", state |-> "REFUNDED", sender |-> 1, recipient |-> 2,
            account |-> "many", reference |-> TRUE, quoted |-> TRUE, refund |-> TRUE,
            moved |-> "fee", memo |-> TRUE, liquidity |-> "none", cctp |-> "none",
            sepa |-> "sandbox", anchor |-> "none", pickup |-> "none", code |-> FALSE])

Unsaid == [f \in DOMAIN Modes |-> "unsaid"]
\* Nothing said, everything kept back or told, and some of either.
SomeBodies ==
    LET keeps == [sender |-> "hidden", recipient |-> "hidden", account |-> "hidden",
                  fx |-> "recipient", showRate |-> "off", showRef |-> "off", route |-> "on"]
        tells == [sender |-> "full", recipient |-> "full", account |-> "full", fx |-> "both",
                  showRate |-> "on", showRef |-> "on", route |-> "on"]
    IN  {Unsaid, keeps, tells,
         [Unsaid EXCEPT !.sender = "first", !.fx = "recipient", !.route = "off"],
         [Unsaid EXCEPT !.recipient = "last", !.fx = "sender"],
         [Unsaid EXCEPT !.account = "short", !.showRate = "off"]}
=============================================================================
