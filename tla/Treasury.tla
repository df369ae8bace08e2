------------------------------- MODULE Treasury -------------------------------
(***************************************************************************)
(* How cash withdrawals are opened with the anchor and paid out of the one *)
(* Stellar account all senders share (stellar/anchor.ts and the opening in *)
(* adapters/moneygram.ts).                                                 *)
(*                                                                         *)
(* Sharing is what makes this hard.  The anchor tells senders apart by the *)
(* memo of the token a request bears, and tokens are cached; and every     *)
(* transaction of the account takes the next sequence number, which each   *)
(* handler, and the script that sets the account up, loads for itself some *)
(* awaits before it submits.                                               *)
(*                                                                         *)
(* A withdrawal is opened by one handler and refreshed by one at a time    *)
(* (AnchorPayout has the refreshes that meet, the polls after the payment  *)
(* and the crashes).  It stands at stage[w] between two awaits.  A         *)
(* behaviour is about withdrawals being opened or about open ones being    *)
(* refreshed: of what they share, the tokens matter to the former and the  *)
(* account to the latter.                                                  *)
(***************************************************************************)
EXTENDS Integers, FiniteSets

CONSTANTS
    Withdrawals, Senders,
    SenderOf,       \* the user behind each withdrawal's transfer
    Size,           \* args.amountAsset, in the anchor's asset
    Shared,         \* STELLAR.authMemo: what sep10Auth uses without a sender
    Nobody,
    Limits,         \* the [min, max] the anchor may publish
    Echoes,         \* the amount_in the anchor may report, 0 for none
    Float,          \* what one top-up brings into the account
    MaxTopUps,      \* bound: how often it is topped up
    Spendable,      \* the XLM there may be beyond the reserve
    BaseReserve     \* the XLM that an entry of the account locks

ASSUME TreasuryAssumption ==
    /\ SenderOf \in [Withdrawals -> Senders]
    /\ Size \in [Withdrawals -> Nat \ {0}]
    /\ {Shared, Nobody} \cap Senders = {} /\ Shared # Nobody
    /\ Limits \subseteq [min : Nat, max : Nat] /\ Echoes \subseteq Nat /\ 0 \in Echoes
    /\ {Float, MaxTopUps, BaseReserve} \subseteq Nat /\ Spendable \subseteq Nat

VARIABLES
    refreshing,     \* are the withdrawals open, and refreshed?  never changes
    sep12,          \* does the anchor publish a KYC_SERVER?  never changes
    complete,       \* store: senders whose profile has all the anchor requires
    jwtCache,       \* whom the token cached under each key authenticates
    stage,          \* of each withdrawal: the await its handler is suspended at
    bearer,         \* whom the token in the handler's hands authenticates
    supplied,       \* submitSenderProfile's copy: was the profile complete?
    echoed,         \* the amount_in the handler has read
    sequenceRead,   \* the sequence number of the account the handler has loaded
    customers,      \* anchor: the memos it has customer data of
    customer,       \* anchor: whose withdrawal it is, once it is open
    anchorStatus,   \* anchor: the status of the withdrawal
    setup,          \* the await the setup script is suspended at
    setupSequence,  \* the sequence number the setup script has loaded
    sequence,       \* ledger: the sequence number of the account
    inFlight,       \* ledger: transactions that may still be applied
    paid,           \* ledger: what the anchor's account got for each withdrawal
    usdc, trusted,  \* ledger: the account's USDC; has it the trustline?
    topUps

memory  == <<jwtCache, stage, bearer, supplied, echoed, sequenceRead>>
anchor  == <<customers, customer, anchorStatus>>
script  == <<setup, setupSequence>>
ledger  == <<sequence, inFlight, paid, usdc, trusted, topUps>>
deployment == <<refreshing, sep12>>
treasuryVars == <<deployment, complete, memory, anchor, script, ledger>>

Memos == Senders \cup {Shared}
Opening == {"limits", "auth.open", "fields", "put", "initiate"}
Paying  == {"auth.read", "read", "auth.pay", "account", "sequence", "asset", "submit"}
Stages  == Opening \cup Paying \cup {"open", "funded", "failed", "review"}
Trustline == "trustline"

ASSUME TrustlineAssumption == Trustline \notin Withdrawals

TreasuryTypeOK ==
    /\ {refreshing, sep12} \subseteq BOOLEAN /\ complete \subseteq Senders
    /\ jwtCache \in [Memos -> Memos \cup {Nobody}]
    /\ stage \in [Withdrawals -> Stages] /\ bearer \in [Withdrawals -> Memos \cup {Nobody}]
    /\ supplied \in [Withdrawals -> BOOLEAN] /\ echoed \in [Withdrawals -> Echoes]
    /\ sequenceRead \in [Withdrawals -> Nat] /\ setupSequence \in Nat
    /\ customers \subseteq Memos /\ customer \in [Withdrawals -> Memos \cup {Nobody}]
    /\ anchorStatus \in [Withdrawals -> {"incomplete", "ready", "ended"}]
    /\ setup \in {"idle", "trust", "reserves", "sequence", "submit"}
    /\ {sequence, usdc} \subseteq Nat /\ topUps \in 0..MaxTopUps /\ trusted \in BOOLEAN
    /\ inFlight \subseteq [pays : Withdrawals \cup {Trustline}, seq : Nat, amount : Nat]
    /\ paid \in [Withdrawals -> Nat]

TreasuryInit ==
    /\ refreshing \in BOOLEAN /\ sep12 \in BOOLEAN /\ (refreshing => sep12)
    /\ complete = Senders
    /\ jwtCache = [m \in Memos |-> Nobody]
    /\ stage = [w \in Withdrawals |-> IF refreshing THEN "open" ELSE "limits"]
    /\ bearer = [w \in Withdrawals |-> Nobody]
    /\ supplied = [w \in Withdrawals |-> FALSE]
    /\ echoed = [w \in Withdrawals |-> 0] /\ sequenceRead = [w \in Withdrawals |-> 0]
    /\ customers = (IF refreshing THEN Senders ELSE {})
    /\ customer = (IF refreshing THEN SenderOf ELSE [w \in Withdrawals |-> Nobody])
    /\ anchorStatus = [w \in Withdrawals |-> "incomplete"]
    /\ setup = "idle" /\ setupSequence = 0
    /\ sequence = 0 /\ inFlight = {} /\ paid = [w \in Withdrawals |-> 0]
    /\ trusted \in BOOLEAN /\ (~refreshing => trusted) /\ usdc = (IF trusted THEN Float ELSE 0) /\ topUps = 0

-----------------------------------------------------------------------------
Reach(w, s) == stage' = [stage EXCEPT ![w] = s]

\* The sender is refunded: nothing was broadcast.
Compensate(w) == Reach(w, "failed")

(* SEP-10: a token for a memo, from the cache while it is fresh.           *)

\* Mutant: one token for the account, whoever the sender.
CacheKeyOfAccount(memo) == Shared

CacheKey(memo) == memo

\* submitSenderProfile copies the profile before its first await.
Supply(w, s) ==
    supplied' = [supplied EXCEPT ![w] = IF s = "fields" THEN SenderOf[w] \in complete ELSE @]

\* The sender's memo is the pickup's too (senderMemo, anchorMemoForPickup).
SignOn(w, waiting, then) ==
    LET hit == jwtCache[CacheKey(SenderOf[w])]
    IN  \/ /\ hit # Nobody
           /\ bearer' = [bearer EXCEPT ![w] = hit]
           /\ Reach(w, then)
           /\ Supply(w, then)
        \/ /\ hit = Nobody
           /\ Reach(w, waiting)
           /\ UNCHANGED <<bearer, supplied>>

Exchanged(w, waiting, then) ==
    /\ stage[w] = waiting
    /\ jwtCache' = [jwtCache EXCEPT ![CacheKey(SenderOf[w])] = SenderOf[w]]
    /\ bearer' = [bearer EXCEPT ![w] = SenderOf[w]]
    /\ Reach(w, then)
    /\ Supply(w, then)
    /\ UNCHANGED <<deployment, complete, echoed, sequenceRead, anchor, script, ledger>>

SignedOn(w) ==
    \/ Exchanged(w, "auth.open", "fields")
    \/ Exchanged(w, "auth.read", "read")
    \/ Exchanged(w, "auth.pay", "account")

\* Less than a minute is left of a token.
TokenAges ==
    /\ ~refreshing
    /\ \E k \in Memos : jwtCache[k] # Nobody /\ jwtCache' = [jwtCache EXCEPT ![k] = Nobody]
    /\ UNCHANGED <<deployment, complete, stage, bearer, supplied, echoed, sequenceRead, anchor,
                   script, ledger>>

\* What the anchor still wants of a user, asked without the user's memo.
AskRequirements ==
    /\ ~refreshing
    /\ jwtCache[CacheKey(Shared)] = Nobody
    /\ jwtCache' = [jwtCache EXCEPT ![CacheKey(Shared)] = Shared]
    /\ UNCHANGED <<deployment, complete, stage, bearer, supplied, echoed, sequenceRead, anchor,
                   script, ledger>>

(* Opening: limits, token, the sender's data, the withdrawal.              *)

\* A new profile replaces the old one, and may leave out what the anchor requires.
SaveProfile(s) ==
    /\ ~refreshing
    /\ complete' \in {complete \cup {s}, complete \ {s}}
    /\ UNCHANGED <<deployment, memory, anchor, script, ledger>>

Accepts(l, w) == Size[w] \in l.min..l.max

AskLimits(w) ==
    /\ stage[w] = "limits"
    /\ \E l \in Limits :
          \/ Accepts(l, w) /\ SignOn(w, "auth.open", "fields")
          \/ ~Accepts(l, w) /\ Compensate(w) /\ UNCHANGED <<bearer, supplied>>
    /\ UNCHANGED <<deployment, complete, jwtCache, echoed, sequenceRead, anchor, script, ledger>>

\* missingRequiredFields.  Without a KYC_SERVER the data go with the withdrawal.
Missing(w) == sep12 /\ ~supplied[w]

SubmitSenderProfile(w) ==
    /\ stage[w] = "fields"
    /\ \/ Missing(w) /\ Compensate(w)
       \/ ~Missing(w) /\ Reach(w, IF sep12 THEN "put" ELSE "initiate")
    /\ UNCHANGED <<deployment, complete, jwtCache, bearer, supplied, echoed, sequenceRead,
                   anchor, script, ledger>>

PutCustomer(w) ==
    /\ stage[w] = "put"
    /\ customers' = (IF supplied[w] THEN customers \cup {SenderOf[w]} ELSE customers)
    /\ Reach(w, "initiate")
    /\ UNCHANGED <<deployment, complete, jwtCache, bearer, supplied, echoed, sequenceRead, customer, anchorStatus,
                   script, ledger>>

\* The withdrawal is the token's; if the answer is lost it stays orphaned.
InitiateWithdraw(w) ==
    /\ stage[w] = "initiate"
    /\ customer' = [customer EXCEPT ![w] = bearer[w]]
    /\ Reach(w, "open") \/ Compensate(w)
    /\ UNCHANGED <<deployment, complete, jwtCache, bearer, supplied, echoed, sequenceRead, customers, anchorStatus,
                   script, ledger>>

OpeningThrows(w) ==
    /\ stage[w] \in Opening
    /\ Compensate(w)
    /\ UNCHANGED <<deployment, complete, jwtCache, bearer, supplied, echoed, sequenceRead, anchor,
                   script, ledger>>

(* Paying: status, account, sequence number, submission.                   *)

Refresh(w) ==
    /\ refreshing /\ stage[w] = "open"
    /\ SignOn(w, "auth.read", "read")
    /\ UNCHANGED <<deployment, complete, jwtCache, echoed, sequenceRead, anchor, script, ledger>>

ReadStatus(w) ==
    /\ stage[w] = "read"
    /\ \/ anchorStatus[w] # "ended" /\ SignOn(w, "auth.pay", "account")
       \/ anchorStatus[w] = "ended" /\ Compensate(w) /\ UNCHANGED <<bearer, supplied>>
    /\ UNCHANGED <<deployment, complete, jwtCache, echoed, sequenceRead, anchor, script, ledger>>

\* The second read: the account to pay, and the amount the anchor expects.
ReadAccount(w) ==
    /\ stage[w] = "account"
    /\ \/ /\ anchorStatus[w] = "incomplete"
          /\ Reach(w, "open")
          /\ UNCHANGED echoed
       \/ /\ anchorStatus[w] # "incomplete"
          /\ \E a \in Echoes : echoed' = [echoed EXCEPT ![w] = a]
          /\ Reach(w, "sequence")
    /\ UNCHANGED <<deployment, complete, jwtCache, bearer, supplied, sequenceRead, anchor, script,
                   ledger>>

LoadAccount(w) ==
    /\ stage[w] = "sequence"
    /\ sequenceRead' = [sequenceRead EXCEPT ![w] = sequence]
    /\ Reach(w, "asset")
    /\ UNCHANGED <<deployment, complete, jwtCache, bearer, supplied, echoed, anchor, script, ledger>>

\* resolvePaymentAmount; 0 where it refuses to send more than was asked for.
PaymentAmount(w) ==
    IF echoed[w] = 0 THEN Size[w] ELSE IF echoed[w] <= Size[w] THEN echoed[w] ELSE 0

Submit(w) ==
    /\ stage[w] = "asset"
    /\ \/ /\ PaymentAmount(w) > 0
          /\ inFlight' = inFlight \cup
                {[pays |-> w, seq |-> sequenceRead[w], amount |-> PaymentAmount(w)]}
          /\ Reach(w, "submit")
       \/ /\ PaymentAmount(w) = 0
          /\ Compensate(w)
          /\ UNCHANGED inFlight
    /\ UNCHANGED <<deployment, complete, jwtCache, bearer, supplied, echoed, sequenceRead, anchor,
                   script, sequence, paid, usdc, trusted, topUps>>

\* Nothing was broadcast yet.
PayingThrows(w) ==
    /\ stage[w] \in Paying \ {"submit"}
    /\ Compensate(w)
    /\ UNCHANGED <<deployment, complete, jwtCache, bearer, supplied, echoed, sequenceRead, anchor,
                   script, ledger>>

Submitted(w) ==
    /\ stage[w] = "submit" /\ paid[w] > 0
    /\ Reach(w, "funded")
    /\ UNCHANGED <<deployment, complete, jwtCache, bearer, supplied, echoed, sequenceRead, anchor,
                   script, ledger>>

\* Mutant: an error of submitTransaction is an error like the others.
SubmitFails(w) ==
    /\ stage[w] = "submit"
    /\ Compensate(w)
    /\ UNCHANGED <<deployment, complete, jwtCache, bearer, supplied, echoed, sequenceRead, anchor,
                   script, ledger>>

\* AnchorPaymentUncertainError, whether Horizon refused, timed out or was not understood.
SubmitUncertain(w) ==
    /\ stage[w] = "submit"
    /\ Reach(w, "review")
    /\ UNCHANGED <<deployment, complete, jwtCache, bearer, supplied, echoed, sequenceRead, anchor,
                   script, ledger>>

(* ensureTrustline, run by hand (stellar-setup --fix).                     *)

SetUp(from, to) ==
    /\ setup = from /\ setup' = to
    /\ UNCHANGED <<deployment, complete, memory, anchor>>

HasTrustline ==
    \/ refreshing /\ SetUp("idle", "trust") /\ UNCHANGED <<setupSequence, ledger>>
    \/ ~trusted /\ SetUp("trust", "reserves") /\ UNCHANGED <<setupSequence, ledger>>
    \/ trusted /\ SetUp("trust", "idle") /\ UNCHANGED <<setupSequence, ledger>>

CanAfford ==
    \E xlm \in Spendable :
        /\ SetUp("reserves", IF xlm >= BaseReserve THEN "sequence" ELSE "idle")
        /\ UNCHANGED <<setupSequence, ledger>>

LoadForTrustline ==
    /\ SetUp("sequence", "submit")
    /\ setupSequence' = sequence
    /\ inFlight' = inFlight \cup {[pays |-> Trustline, seq |-> sequence, amount |-> 0]}
    /\ UNCHANGED <<sequence, paid, usdc, trusted, topUps>>

SetupEnds == SetUp("submit", "idle") /\ UNCHANGED <<setupSequence, ledger>>

-----------------------------------------------------------------------------
(* The ledger and the anchor.                                              *)

\* A transaction whose turn it is takes the sequence number, also if it fails.
Apply(tx) ==
    /\ tx.seq = sequence /\ sequence' = sequence + 1
    /\ inFlight' = inFlight \ {tx}
    /\ \/ /\ tx.pays = Trustline
          /\ trusted' = TRUE
          /\ UNCHANGED <<paid, usdc>>
       \/ /\ tx.pays # Trustline /\ tx.amount <= usdc
          /\ paid' = [paid EXCEPT ![tx.pays] = @ + tx.amount]
          /\ usdc' = usdc - tx.amount
          /\ UNCHANGED trusted
       \/ /\ tx.pays # Trustline /\ tx.amount > usdc
          /\ UNCHANGED <<paid, usdc, trusted>>
    /\ UNCHANGED <<deployment, complete, memory, anchor, script, topUps>>

\* Another transaction took its number, or its time bounds are over.
Drop(tx) ==
    /\ inFlight' = inFlight \ {tx}
    /\ UNCHANGED <<deployment, complete, memory, anchor, script, sequence, paid, usdc, trusted,
                   topUps>>

\* USDC minted or bought for the account, which must trust them.
TopUp ==
    /\ refreshing /\ trusted /\ topUps < MaxTopUps /\ topUps' = topUps + 1
    /\ usdc' = usdc + Float
    /\ UNCHANGED <<deployment, complete, memory, anchor, script, sequence, inFlight, paid, trusted>>

\* The recipient gave the details: the anchor names its account and an amount.
AnchorReady(w) ==
    /\ refreshing /\ anchorStatus[w] = "incomplete"
    /\ anchorStatus' = [anchorStatus EXCEPT ![w] = "ready"]
    /\ UNCHANGED <<deployment, complete, memory, customers, customer, script, ledger>>

AnchorEnds(w) ==
    /\ refreshing /\ anchorStatus[w] # "ended" /\ paid[w] = 0
    /\ anchorStatus' = [anchorStatus EXCEPT ![w] = "ended"]
    /\ UNCHANGED <<deployment, complete, memory, customers, customer, script, ledger>>

TreasuryNext ==
    \/ \E w \in Withdrawals :
          \/ AskLimits(w) \/ SignedOn(w) \/ SubmitSenderProfile(w) \/ PutCustomer(w)
          \/ InitiateWithdraw(w) \/ OpeningThrows(w)
          \/ Refresh(w) \/ ReadStatus(w) \/ ReadAccount(w) \/ LoadAccount(w) \/ Submit(w)
          \/ PayingThrows(w) \/ Submitted(w) \/ SubmitUncertain(w)
          \/ AnchorReady(w) \/ AnchorEnds(w)
    \/ \E s \in Senders : SaveProfile(s)
    \/ TokenAges \/ AskRequirements \/ TopUp
    \/ HasTrustline \/ CanAfford \/ LoadForTrustline \/ SetupEnds
    \/ \E tx \in inFlight : Apply(tx) \/ Drop(tx)

-----------------------------------------------------------------------------
(* Correctness.                                                            *)

(***************************************************************************)
(* A withdrawal that is open belongs to the user whose transfer it pays    *)
(* out, and the anchor was given all it requires of that user, although    *)
(* all of them use one account, tokens are cached and profiles change:     *)
(* "transmitting wrong originator data ... is worse than transmitting      *)
(* none" (senderMemo).                                                     *)
(***************************************************************************)
OriginatorIsSender ==
    \A w \in Withdrawals : customer[w] # Nobody =>
        /\ customer[w] = SenderOf[w]
        /\ sep12 => customer[w] \in customers

(***************************************************************************)
(* A sender who was refunded was not paid for and will not be: whatever    *)
(* took the account's sequence number and whatever Horizon answered, no    *)
(* transaction for the withdrawal was applied or still can be.             *)
(***************************************************************************)
RefundedIsUnpaid ==
    \A w \in Withdrawals : stage[w] = "failed" =>
        paid[w] = 0 /\ \A tx \in inFlight : tx.pays # w
=============================================================================
