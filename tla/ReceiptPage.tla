----------------------------- MODULE ReceiptPage -----------------------------
(***************************************************************************)
(* What the public page of a shared receipt tells (receipt.ts): each row   *)
(* and each hop of the route as the set of facts it gives away, the empty  *)
(* set where it is drawn as a redaction.  A transfer is described by what  *)
(* buildReceipt looks at.  Wording, formats and layout are left out.       *)
(***************************************************************************)
EXTENDS Naturals

PastCreated == {"DEBITED", "SWAPPED", "BRIDGED", "PAYOUT_DETAILS_PENDING", "PAYOUT_FUNDING_PENDING",
           "PAYOUT_FUNDED", "PAYOUT_READY", "PAYOUT_SUBMITTED", "PAID", "MANUAL_REVIEW",
           "FAILED", "REFUNDED"}

\* sender, recipient: how many words their names have.  moved: what left the
\* Safe.  liquidity, cctp, sepa, anchor: how far these legs went.
Described ==
    [rail : {"cash", "sepa"}, state : PastCreated, sender : 0..2, recipient : 0..2,
     account : {"none", "few", "many"}, reference : BOOLEAN, quoted : BOOLEAN,
     refund : BOOLEAN, moved : {"none", "fee", "all"}, memo : BOOLEAN,
     liquidity : {"none", "planned", "executed"}, cctp : {"none", "plan", "burn"},
     sepa : {"none", "mock", "sandbox"}, anchor : {"none", "opened", "paid"},
     pickup : {"none", "open", "PAID"}, code : BOOLEAN]

\* ReceiptShareFields; a request leaves some of them unsaid.
Modes ==
    [sender |-> {"full", "first", "last", "hidden"},
     recipient |-> {"full", "first", "last", "hidden"},
     account |-> {"full", "short", "hidden"}, fx |-> {"both", "sender", "recipient"},
     showRate |-> {"on", "off"}, showRef |-> {"on", "off"}, route |-> {"on", "off"}]

DefaultFields ==
    [sender |-> "last", recipient |-> "full", account |-> "short", fx |-> "both",
     showRate |-> "on", showRef |-> "on", route |-> "off"]

parseShareFields(body, base) ==
    [f \in DOMAIN Modes |-> IF body[f] \in Modes[f] THEN body[f] ELSE base[f]]

When(condition, facts) == IF condition THEN facts ELSE {}

-----------------------------------------------------------------------------
\* A name of one word has no second half to withhold.
nameFor(mode, who, words) ==
    When(mode \in {"full", "first"} /\ words > 0, {<<who, "first">>})
      \cup When(mode \in {"full", "last"} /\ words > 1, {<<who, "last">>})

\* Enough to recognise your own account, not enough to pay into it.
accountFor(mode, account) ==
    When(mode = "full" /\ account # "none", {<<"account", "whole">>})
      \cup When(mode = "short" /\ account = "many", {<<"account", "ends">>})

receiptStatus(d) ==
    CASE d.state = "PAID" -> "Delivered"
      [] d.state = "REFUNDED" -> "Refunded to sender"
      [] d.state = "FAILED" -> "Failed"
      [] d.state = "MANUAL_REVIEW" -> "Under review"
      [] d.state = "PAYOUT_READY" -> "Ready to collect"
      [] OTHER -> "In progress"

\* Of five; a transfer that failed is back at the first.
receiptSteps(d) ==
    CASE d.state = "DEBITED" -> 2
      [] d.state \in {"SWAPPED", "BRIDGED", "PAYOUT_DETAILS_PENDING"} -> 3
      [] d.state \in {"PAYOUT_FUNDING_PENDING", "PAYOUT_FUNDED", "PAYOUT_READY",
                      "PAYOUT_SUBMITTED"} -> 4
      [] d.state = "PAID" -> 5
      [] OTHER -> 1

Hop(leg, tells, simulated) == [leg |-> leg, tells |-> tells, simulated |-> simulated]

\* The legs that ran, as far as they ran; issues: is the Monerium sandbox on?
receiptRoute(d, fields, issues) ==
    When(d.moved # "none", {Hop("Zold Safe", {}, FALSE)})
      \cup When(d.liquidity # "none",
              {Hop("Liquidity", When(fields.showRate = "on", {<<"rate", "venue">>}),
                   d.liquidity = "planned")})
      \cup When(d.cctp # "none", {Hop("Circle CCTP", {}, d.cctp = "plan")})
      \cup When(d.rail = "sepa" /\ d.sepa # "none",
              {Hop("Monerium EMI", When(fields.account # "hidden", {<<"account", "order">>}),
                   d.sepa = "mock"),
               Hop("SEPA credit transfer",
                   When(fields.showRef = "on" /\ d.memo, {<<"reference", "memo">>}), ~issues)})
      \cup When(d.rail = "cash" /\ d.pickup # "none",
              When(d.anchor # "none", {Hop("Stellar anchor", {}, d.anchor = "opened")})
                \cup {Hop("Payout", When(fields.recipient # "hidden" /\ d.code,
                                       {<<"recipient", "pickup code">>}), d.pickup # "PAID")})

-----------------------------------------------------------------------------
Figures(fields) ==
    When(fields.fx # "recipient", {<<"amount", "sent">>})
      \cup When(fields.fx # "sender", {<<"amount", "received">>})

Rows(d, fields) ==
    {accountFor(fields.account, d.account), Figures(fields), {<<"partner", "name">>}}
      \cup When(fields.showRef = "on" /\ d.reference, {{<<"reference", "text">>}})
      \cup When(fields.showRate = "on" /\ d.quoted,
              {{<<"rate", "fee">>}} \cup When(d.rail = "cash", {{<<"rate", "quoted">>}}))
      \cup When(d.refund, {{<<"amount", "refunded">>}})

\* anyWithheld is what typeof makes of it: a party is an object also when it is
\* named, so every page says that something is withheld.
buildReceipt(d, fields, issues) ==
    [status |-> receiptStatus(d), done |-> receiptSteps(d),
     hero |-> IF fields.fx = "recipient" THEN <<"amount", "received">> ELSE <<"amount", "sent">>,
     from |-> nameFor(fields.sender, "sender", d.sender),
     to |-> nameFor(fields.recipient, "recipient", d.recipient),
     rows |-> Rows(d, fields),
     route |-> When(fields.route = "on", receiptRoute(d, fields, issues)),
     anyWithheld |-> TRUE]

\* All that a page gives away.
Told(page) ==
    {page.hero} \cup page.from \cup page.to \cup (UNION page.rows)
      \cup (UNION {hop.tells : hop \in page.route})

-----------------------------------------------------------------------------
\* The facts of a cash payment, besides the sum sent, that are said in euro.
InEuro == {<<"rate", "quoted">>, <<"rate", "fee">>, <<"rate", "venue">>, <<"amount", "refunded">>}

\* The reference: what the modes promise to keep back, in the words of the sender's
\* choices (index.html:3086-3100) and of the comments on nameFor, "redacts entirely"
\* (receipt.ts:143-145), and on the currency, "nothing in euro" (353-354).
Withholds(d, f, mode) ==
    When(mode # "unsaid",
      CASE f \in {"sender", "recipient"} ->
           LET words == IF f = "sender" THEN d.sender ELSE d.recipient IN
           When(mode \in {"hidden", "last"} \/ (mode = "first" /\ words = 1), {<<f, "first">>})
             \cup When(mode \in {"hidden", "first"}, {<<f, "last">>})
             \cup When(mode = "hidden", {<<f, "pickup code">>})
      [] f = "account" ->
           When(mode # "full", {<<"account", "whole">>})
             \cup When(mode = "hidden", {<<"account", "ends">>, <<"account", "order">>})
      [] f = "fx" ->
           When(mode = "sender", {<<"amount", "received">>})
             \cup When(mode = "sender" /\ d.rail = "cash", {<<"rate", "quoted">>})
             \cup When(mode = "recipient", {<<"amount", "sent">>})
             \cup When(mode = "recipient" /\ d.rail = "cash", InEuro)
      [] f = "showRate" ->
           When(mode = "off", {<<"rate", "quoted">>, <<"rate", "fee">>, <<"rate", "venue">>})
      [] f = "showRef" -> When(mode = "off", {<<"reference", "text">>, <<"reference", "memo">>})
      [] f = "route" -> When(mode = "off", {<<"rate", "venue">>, <<"account", "order">>,
                                          <<"reference", "memo">>, <<"recipient", "pickup code">>}))

\* Where the page breaks these promises: a name of one word is told whole under
\* "first" (receipt.ts:160); and the currency decides only the headline and the
\* figures, so that a cash payment's rows of rate, fee and refund and its hop at the
\* venue are in the other currency as well (254, 380, 387, 392).
ToldAnyway(d, f, mode) ==
    When(mode = "first" /\ (IF f = "sender" THEN d.sender ELSE d.recipient) = 1, {<<f, "first">>})
      \cup When(f = "fx" /\ d.rail = "cash" /\ mode = "recipient", InEuro)
      \cup When(f = "fx" /\ d.rail = "cash" /\ mode = "sender", {<<"rate", "quoted">>})
=============================================================================
