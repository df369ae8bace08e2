------------------------------ MODULE Receipts ------------------------------
(***************************************************************************)
(* The receipts a sender shares of transfers that are past CREATED: one    *)
(* link for each, whose fields are edited, which is revoked and opened     *)
(* again under another slug, and which expires (server.ts, receipt.ts,     *)
(* store.ts).  What a transfer does meanwhile makes no difference to them. *)
(***************************************************************************)
EXTENDS ReceiptPage, Integers, Sequences, FiniteSets, FiniteSetsExt

CONSTANTS
    Receipted,      \* transfers past CREATED
    Shape,          \* what each of them is like
    Bodies,         \* what requests to share say
    Issues,         \* moneriumSandboxEnabled
    MaxShares       \* bound: receipts shared

ASSUME ReceiptsAssumption ==
    /\ Shape \in [Receipted -> Described] /\ Issues \in BOOLEAN /\ MaxShares \in Nat
    /\ \A body \in Bodies : \A f \in DOMAIN Modes : body[f] \in Modes[f] \cup {"unsaid"}

VARIABLES
    shares,         \* store: the receipts shared, in their order
    chosen          \* history: what the sender last said of each field

sharing == <<shares, chosen>>

ReceiptsTypeOK ==
    /\ Len(shares) <= MaxShares
    /\ \A i \in DOMAIN shares :
          /\ shares[i].transfer \in Receipted
          /\ \A f \in DOMAIN Modes : shares[i].fields[f] \in Modes[f]
          /\ shares[i].revoked \in BOOLEAN /\ shares[i].expired \in BOOLEAN
    /\ \A t \in Receipted : \A f \in DOMAIN Modes : chosen[t][f] \in Modes[f] \cup {"unsaid"}

ReceiptsInit ==
    /\ shares = <<>>
    /\ chosen = [t \in Receipted |-> [f \in DOMAIN Modes |-> "unsaid"]]

SharesOf(t) == {i \in DOMAIN shares : shares[i].transfer = t}
Unrevoked(t) == {i \in SharesOf(t) : ~shares[i].revoked}

\* Mutant: the first there ever was.
FindFirstShare(t) == Min(SharesOf(t))

\* store.findReceiptShareByTransfer: the first not revoked, else the last.
FindShare(t) == IF Unrevoked(t) # {} THEN Min(Unrevoked(t)) ELSE Max(SharesOf(t))

\* For the property: what the sender says now, and else said before.
Chosen(t, body) ==
    [chosen EXCEPT ![t] = [f \in DOMAIN Modes |-> IF body[f] = "unsaid" THEN @[f] ELSE body[f]]]

\* POST /share edits the share that is there, also one that has expired,
EditShare(t, body) ==
    /\ Unrevoked(t) # {}
    /\ LET i == FindShare(t) IN
       shares' = [shares EXCEPT ![i].fields = parseShareFields(body, @)]
    /\ chosen' = Chosen(t, body)

\* or opens one, with the fields the last one had.
OpenShare(t, body) ==
    /\ Unrevoked(t) = {} /\ Len(shares) < MaxShares
    /\ LET base == IF SharesOf(t) = {} THEN DefaultFields ELSE shares[FindShare(t)].fields IN
       shares' = Append(shares, [transfer |-> t, fields |-> parseShareFields(body, base),
                                 revoked |-> FALSE, expired |-> FALSE])
    /\ chosen' = Chosen(t, body)

\* DELETE /share.
RevokeShare(t) ==
    /\ SharesOf(t) # {} /\ ~shares[FindShare(t)].revoked
    /\ shares' = [shares EXCEPT ![FindShare(t)].revoked = TRUE]
    /\ UNCHANGED chosen

\* Thirty days after it was opened, edited or not.
ShareExpires(i) ==
    /\ i \in DOMAIN shares /\ ~shares[i].expired
    /\ shares' = [shares EXCEPT ![i].expired = TRUE]
    /\ UNCHANGED chosen

Receipt ==
    \/ \E t \in Receipted :
          (\E body \in Bodies : EditShare(t, body) \/ OpenShare(t, body)) \/ RevokeShare(t)
    \/ \E i \in 1..MaxShares : ShareExpires(i)

-----------------------------------------------------------------------------
(* Properties *)

\* GET /r/:slug: what strangers can read of a transfer.
Public(t) ==
    UNION {Told(buildReceipt(Shape[t], shares[i].fields, Issues)) :
              i \in {j \in Unrevoked(t) : ~shares[j].expired}}

\* What the sender took off a receipt, and did not put back since, is told on no
\* link that still works, the ones handed out before included, whatever was
\* revoked, reopened or left unsaid meanwhile: not in its row, and not in a hop of
\* the route.  What it takes off is what the choices promise, except where the page
\* tells it anyway (ToldAnyway): a name of one word under "first", of which the
\* comment at receipt.ts:143 says that it redacts entirely, and the rows of a cash
\* payment that are in the currency taken off, of which 353 says "nothing in euro".
NarrowingNarrows ==
    \A t \in Receipted : \A f \in DOMAIN Modes :
       (Withholds(Shape[t], f, chosen[t][f]) \ ToldAnyway(Shape[t], f, chosen[t][f]))
          \cap Public(t) = {}
=============================================================================
