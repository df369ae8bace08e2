---------------------------- MODULE CashRailProofs ----------------------------
(***************************************************************************)
(* Theorems about CashRail, for every set of transfers and withdrawals,    *)
(* every price there may be, every deployment and any number of steps.     *)
(*                                                                         *)
(* The treasury comes first, then the legs; each has an invariant of its   *)
(* own, for the two meet in no variable.                                   *)
(***************************************************************************)
EXTENDS CashRail, NaturalsInduction, WellFoundedInduction, TLAPS

-----------------------------------------------------------------------------
(* The treasury.                                                           *)

(***************************************************************************)
(* A token in the cache authenticates the memo it is cached under, so what *)
(* a handler bears between its sign-on and the opening is its own sender's *)
(* token.  What it supplied it copied when the token arrived, and a        *)
(* profile that then changes does not matter: the anchor has the customer  *)
(* before the withdrawal is opened.                                        *)
(***************************************************************************)
TokensAreOwn == \A m \in Memos : jwtCache[m] \in {Nobody, m}

BearsSender ==
    \A w \in Withdrawals : stage[w] \in {"fields", "put", "initiate"} => bearer[w] = SenderOf[w]

AnchorKnows ==
    \A w \in Withdrawals :
        /\ stage[w] = "put" => supplied[w]
        /\ stage[w] = "initiate" /\ sep12 => SenderOf[w] \in customers

OriginInv == TokensAreOwn /\ BearsSender /\ AnchorKnows /\ OriginatorIsSender

\* Before a handler submits, nothing is in flight for its withdrawal, and nothing
\* was paid: whatever else a stage is that has a refund ahead.
Broadcast == {"submit", "funded", "review"}
Unbroadcast ==
    \A w \in Withdrawals : stage[w] \notin Broadcast =>
        paid[w] = 0 /\ \A tx \in inFlight : tx.pays # w

TreasuryInv == TreasuryTypeOK /\ OriginInv /\ Unbroadcast

\* No withdrawal is open yet, or those that are were opened as they should.
LEMMA TreasuryInvInit == TreasuryInit => TreasuryInv
<1> SUFFICES ASSUME TreasuryInit PROVE TreasuryInv
  OBVIOUS
<1> USE TreasuryAssumption
<1>1. TreasuryTypeOK
  BY DEF TreasuryInit, TreasuryTypeOK, Memos, Stages, Opening, Paying
<1>2. OriginInv
  BY DEF TreasuryInit, OriginInv, TokensAreOwn, BearsSender, AnchorKnows, OriginatorIsSender,
         Memos
<1>3. Unbroadcast
  BY DEF TreasuryInit, Unbroadcast
<1>4. QED
  BY <1>1, <1>2, <1>3 DEF TreasuryInv

-----------------------------------------------------------------------------
(* Types.                                                                  *)

\* What a handler supplies is a truth value.
LEMMA SupplyTypes ==
  ASSUME TreasuryTypeOK, NEW w \in Withdrawals, NEW s, Supply(w, s)
  PROVE  supplied' \in [Withdrawals -> BOOLEAN]
<1>0. supplied \in [Withdrawals -> BOOLEAN]
  BY DEF TreasuryTypeOK
<1>1. CASE s = "fields" /\ SenderOf[w] \in complete
  <2>1. (IF s = "fields" THEN SenderOf[w] \in complete ELSE supplied[w]) = TRUE
    BY <1>1, Zenon
  <2>2. supplied' = [supplied EXCEPT ![w] = TRUE]
    BY <2>1, Zenon DEF Supply
  <2>3. QED
    BY <1>0, <2>2
<1>2. CASE s = "fields" /\ SenderOf[w] \notin complete
  <2>1. (IF s = "fields" THEN SenderOf[w] \in complete ELSE supplied[w]) = FALSE
    BY <1>2
  <2>2. supplied' = [supplied EXCEPT ![w] = FALSE]
    BY <2>1, Zenon DEF Supply
  <2>3. QED
    BY <1>0, <2>2
<1>3. CASE s # "fields"
  <2>1. supplied' = [supplied EXCEPT ![w] = supplied[w]]
    BY <1>3, Zenon DEF Supply
  <2>2. QED
    BY <1>0, <2>1
<1>4. QED
  BY <1>1, <1>2, <1>3

\* A sign-on moves the handler and may give it a token.
LEMMA SignOnTypes ==
  ASSUME TreasuryTypeOK, NEW w \in Withdrawals, NEW waiting \in Stages, NEW then \in Stages,
         SignOn(w, waiting, then)
  PROVE  /\ stage' \in [Withdrawals -> Stages]
         /\ bearer' \in [Withdrawals -> Memos \cup {Nobody}]
         /\ supplied' \in [Withdrawals -> BOOLEAN]
<1>1. SenderOf[w] \in Memos
  BY TreasuryAssumption DEF Memos
<1>2. stage' \in [Withdrawals -> Stages] /\ bearer' \in [Withdrawals -> Memos \cup {Nobody}]
  BY <1>1 DEF SignOn, Reach, CacheKey, TreasuryTypeOK
<1>3. Supply(w, then) \/ UNCHANGED supplied
  BY Zenon DEF SignOn
<1>4. supplied' \in [Withdrawals -> BOOLEAN]
  BY <1>3, SupplyTypes DEF TreasuryTypeOK
<1>5. QED
  BY <1>2, <1>4

\* A handler's step among its awaits leaves everything of its type.
LEMMA OpeningTypes ==
  ASSUME TreasuryTypeOK, NEW w \in Withdrawals,
         \/ AskLimits(w) \/ SignedOn(w) \/ SubmitSenderProfile(w) \/ PutCustomer(w)
         \/ InitiateWithdraw(w) \/ OpeningThrows(w)
  PROVE  TreasuryTypeOK'
<1> USE TreasuryAssumption DEF TreasuryTypeOK, deployment, memory, anchor, script, ledger,
        Reach, Compensate, CacheKey, Supply, Memos, Stages, Opening, Paying
<1>1. CASE AskLimits(w)
  <2>1. UNCHANGED <<deployment, complete, jwtCache, echoed, sequenceRead, anchor, script, ledger>>
    BY <1>1, Zenon DEF AskLimits
  <2>2. CASE SignOn(w, "auth.open", "fields")
    BY <2>1, <2>2, SignOnTypes
  <2>3. CASE Compensate(w) /\ UNCHANGED <<bearer, supplied>>
    BY <2>1, <2>3
  <2>4. QED
    BY <1>1, <2>2, <2>3, Zenon DEF AskLimits
<1>2. CASE SignedOn(w)
  <2>1. PICK waiting \in Stages, then \in Stages : Exchanged(w, waiting, then)
    BY <1>2 DEF SignedOn
  <2>2. SenderOf[w] \in Memos
    OBVIOUS
  <2>3. supplied' \in [Withdrawals -> BOOLEAN]
    BY <2>1, SupplyTypes DEF Exchanged
  <2>4. /\ UNCHANGED <<deployment, complete, echoed, sequenceRead, anchor, script, ledger>>
        /\ jwtCache' = [jwtCache EXCEPT ![SenderOf[w]] = SenderOf[w]]
        /\ bearer' = [bearer EXCEPT ![w] = SenderOf[w]]
        /\ stage' = [stage EXCEPT ![w] = then]
    BY <2>1 DEF Exchanged
  <2>5. QED
    BY <2>2, <2>3, <2>4
<1>3. CASE SubmitSenderProfile(w)
  BY <1>3 DEF SubmitSenderProfile
<1>4. CASE PutCustomer(w)
  BY <1>4 DEF PutCustomer
<1>5. CASE InitiateWithdraw(w)
  BY <1>5 DEF InitiateWithdraw
<1>6. CASE OpeningThrows(w)
  BY <1>6 DEF OpeningThrows
<1>7. QED
  BY <1>1, <1>2, <1>3, <1>4, <1>5, <1>6

\* So does a refresh.
LEMMA PayingTypes ==
  ASSUME TreasuryTypeOK, NEW w \in Withdrawals,
         \/ Refresh(w) \/ ReadStatus(w) \/ ReadAccount(w) \/ LoadAccount(w) \/ Submit(w)
         \/ PayingThrows(w) \/ Submitted(w) \/ SubmitUncertain(w)
         \/ AnchorReady(w) \/ AnchorEnds(w)
  PROVE  TreasuryTypeOK'
<1> USE TreasuryAssumption DEF TreasuryTypeOK, deployment, memory, anchor, script, ledger,
        Reach, Compensate, CacheKey, Supply, Memos, Stages, Opening, Paying
<1>1. CASE Refresh(w)
  BY <1>1, SignOnTypes DEF Refresh
<1>2. CASE ReadStatus(w)
  BY <1>2, SignOnTypes DEF ReadStatus
<1>3. CASE ReadAccount(w)
  BY <1>3 DEF ReadAccount
<1>4. CASE LoadAccount(w)
  BY <1>4 DEF LoadAccount
<1>5. CASE Submit(w)
  <2>1. PaymentAmount(w) \in Nat
    BY DEF PaymentAmount
  <2>2. QED
    BY <1>5, <2>1 DEF Submit
<1>6. CASE PayingThrows(w) \/ Submitted(w) \/ SubmitUncertain(w)
  BY <1>6 DEF PayingThrows, Submitted, SubmitUncertain
<1>7. CASE AnchorReady(w) \/ AnchorEnds(w)
  BY <1>7 DEF AnchorReady, AnchorEnds
<1>8. QED
  BY <1>1, <1>2, <1>3, <1>4, <1>5, <1>6, <1>7

\* And the steps of the cache, the profiles, the setup script and the ledger.
LEMMA AccountTypes ==
  ASSUME TreasuryTypeOK,
         \/ \E s \in Senders : SaveProfile(s)
         \/ TokenAges \/ AskRequirements \/ TopUp
         \/ HasTrustline \/ CanAfford \/ LoadForTrustline \/ SetupEnds
         \/ \E tx \in inFlight : Apply(tx) \/ Drop(tx)
  PROVE  TreasuryTypeOK'
<1> USE TreasuryAssumption DEF TreasuryTypeOK, deployment, memory, anchor, script, ledger, Memos
<1>1. CASE \E s \in Senders : SaveProfile(s)
  BY <1>1 DEF SaveProfile
<1>2. CASE TokenAges \/ AskRequirements
  BY <1>2 DEF TokenAges, AskRequirements, CacheKey
<1>3. CASE TopUp
  BY <1>3 DEF TopUp
<1>4. CASE HasTrustline \/ CanAfford \/ SetupEnds
  BY <1>4 DEF HasTrustline, CanAfford, SetupEnds, SetUp
<1>5. CASE LoadForTrustline
  BY <1>5 DEF LoadForTrustline, SetUp, Trustline
<1>6. ASSUME NEW tx \in inFlight, Apply(tx)
      PROVE  TreasuryTypeOK'
  <2>1. tx \in [pays : Withdrawals \cup {Trustline}, seq : Nat, amount : Nat]
    OBVIOUS
  <2>2. /\ UNCHANGED <<deployment, complete, memory, anchor, script, topUps>>
        /\ sequence' = sequence + 1 /\ inFlight' = inFlight \ {tx}
    BY <1>6, Zenon DEF Apply
  <2>3. CASE tx.pays = Trustline
    BY <1>6, <2>2, <2>3 DEF Apply
  <2>4. CASE tx.pays # Trustline /\ tx.amount <= usdc
    <3>1. tx.pays \in Withdrawals /\ tx.amount \in Nat
      BY <2>1, <2>4
    <3>2. /\ paid' = [paid EXCEPT ![tx.pays] = @ + tx.amount] /\ usdc' = usdc - tx.amount
          /\ UNCHANGED trusted
      BY <1>6, <2>4, <3>1 DEF Apply
    <3>3. QED
      BY <2>2, <2>4, <3>1, <3>2
  <2>5. CASE tx.pays # Trustline /\ ~(tx.amount <= usdc)
    BY <1>6, <2>2, <2>5 DEF Apply
  <2>6. QED
    BY <2>3, <2>4, <2>5
<1>7. ASSUME NEW tx \in inFlight, Drop(tx)
      PROVE  TreasuryTypeOK'
  BY <1>7 DEF Drop
<1>8. QED
  BY <1>1, <1>2, <1>3, <1>4, <1>5, <1>6, <1>7

-----------------------------------------------------------------------------
(* Whose withdrawal it is.                                                 *)

\* What the originators depend on.
originVars == <<deployment, jwtCache, stage, bearer, supplied, customers, customer>>

\* A sign-on gives the handler its sender's token, and leads to no other stage of
\* the opening than "fields".
LEMMA SignOnBears ==
  ASSUME TreasuryTypeOK, OriginInv, NEW w \in Withdrawals, NEW waiting \in Stages,
         NEW then \in Stages, SignOn(w, waiting, then),
         {waiting, then} \cap {"put", "initiate"} = {}, waiting # "fields",
         UNCHANGED <<deployment, jwtCache, customers, customer>>
  PROVE  OriginInv'
<1> USE TreasuryAssumption DEF TreasuryTypeOK, OriginInv
<1>1. SenderOf[w] \in Memos
  BY DEF Memos
<1>2. TokensAreOwn' /\ OriginatorIsSender'
  BY DEF TokensAreOwn, OriginatorIsSender, deployment
<1>3. BearsSender'
  BY <1>1 DEF BearsSender, TokensAreOwn, SignOn, Reach, CacheKey
<1>4. AnchorKnows'
  BY DEF AnchorKnows, SignOn, Reach, Supply, deployment
<1>5. QED
  BY <1>2, <1>3, <1>4

\* The opening keeps to the sender's token and data.
LEMMA OpeningOrigin ==
  ASSUME TreasuryTypeOK, OriginInv, NEW w \in Withdrawals,
         \/ AskLimits(w) \/ SignedOn(w) \/ SubmitSenderProfile(w) \/ PutCustomer(w)
         \/ InitiateWithdraw(w) \/ OpeningThrows(w)
  PROVE  OriginInv'
<1> USE TreasuryAssumption
<1>a. SenderOf[w] \in Senders /\ SenderOf[w] \in Memos /\ SenderOf[w] # Nobody
  BY DEF Memos
<1>1. CASE AskLimits(w)
  <2>1. UNCHANGED <<deployment, jwtCache, customers, customer>>
    BY <1>1, Zenon DEF AskLimits, anchor
  <2>2. CASE SignOn(w, "auth.open", "fields")
    BY <2>1, <2>2, SignOnBears DEF Stages, Opening, Paying
  <2>3. CASE Compensate(w) /\ UNCHANGED <<bearer, supplied>>
    BY <2>1, <2>3 DEF Compensate, Reach, TreasuryTypeOK, OriginInv, TokensAreOwn, BearsSender,
           AnchorKnows, OriginatorIsSender, deployment
  <2>4. QED
    BY <1>1, <2>2, <2>3 DEF AskLimits
<1>2. CASE SignedOn(w)
  BY <1>a, <1>2 DEF SignedOn, Exchanged, Reach, Supply, CacheKey, TreasuryTypeOK, OriginInv,
         TokensAreOwn, BearsSender, AnchorKnows, OriginatorIsSender, deployment, anchor, Memos
<1>3. CASE SubmitSenderProfile(w)
  BY <1>3 DEF SubmitSenderProfile, Missing, Compensate, Reach, TreasuryTypeOK, OriginInv,
         TokensAreOwn, BearsSender, AnchorKnows, OriginatorIsSender, deployment, anchor
<1>4. CASE PutCustomer(w)
  BY <1>4 DEF PutCustomer, Reach, TreasuryTypeOK, OriginInv,
         TokensAreOwn, BearsSender, AnchorKnows, OriginatorIsSender, deployment
<1>5. CASE InitiateWithdraw(w)
  BY <1>5 DEF InitiateWithdraw, Compensate, Reach, TreasuryTypeOK, OriginInv,
         TokensAreOwn, BearsSender, AnchorKnows, OriginatorIsSender, deployment
<1>6. CASE OpeningThrows(w)
  BY <1>6 DEF OpeningThrows, Compensate, Reach, TreasuryTypeOK, OriginInv,
         TokensAreOwn, BearsSender, AnchorKnows, OriginatorIsSender, deployment, anchor
<1>7. QED
  BY <1>1, <1>2, <1>3, <1>4, <1>5, <1>6

\* A refresh has to do with an open withdrawal only.
LEMMA PayingOrigin ==
  ASSUME TreasuryTypeOK, OriginInv, NEW w \in Withdrawals,
         \/ Refresh(w) \/ ReadStatus(w) \/ ReadAccount(w) \/ LoadAccount(w) \/ Submit(w)
         \/ PayingThrows(w) \/ Submitted(w) \/ SubmitUncertain(w)
         \/ AnchorReady(w) \/ AnchorEnds(w)
  PROVE  OriginInv'
<1>1. CASE Refresh(w)
  <2>1. UNCHANGED <<deployment, jwtCache, customers, customer>>
    BY <1>1, Zenon DEF Refresh, anchor
  <2>2. QED
    BY <1>1, <2>1, SignOnBears DEF Refresh, Stages, Opening, Paying
<1>2. CASE ReadStatus(w)
  <2>1. UNCHANGED <<deployment, jwtCache, customers, customer>>
    BY <1>2, Zenon DEF ReadStatus, anchor
  <2>2. CASE SignOn(w, "auth.pay", "account")
    BY <2>1, <2>2, SignOnBears DEF Stages, Opening, Paying
  <2>3. CASE Compensate(w) /\ UNCHANGED <<bearer, supplied>>
    BY <2>1, <2>3 DEF Compensate, Reach, TreasuryTypeOK, OriginInv, TokensAreOwn, BearsSender,
           AnchorKnows, OriginatorIsSender, deployment
  <2>4. QED
    BY <1>2, <2>2, <2>3 DEF ReadStatus
<1>3. CASE ReadAccount(w) \/ LoadAccount(w) \/ Submit(w) \/ PayingThrows(w) \/ Submitted(w)
           \/ SubmitUncertain(w)
  <2>1. /\ UNCHANGED <<deployment, jwtCache, bearer, supplied, customers, customer>>
        /\ \E s \in {"open", "sequence", "asset", "submit", "failed", "funded", "review"} :
              Reach(w, s)
    BY <1>3 DEF ReadAccount, LoadAccount, Submit, PayingThrows, Submitted, SubmitUncertain,
           Compensate, memory, anchor
  <2>2. QED
    BY <2>1 DEF Reach, TreasuryTypeOK, OriginInv, TokensAreOwn, BearsSender, AnchorKnows,
           OriginatorIsSender, deployment
<1>4. CASE AnchorReady(w) \/ AnchorEnds(w)
  <2>1. UNCHANGED originVars
    BY <1>4 DEF AnchorReady, AnchorEnds, originVars, memory
  <2>2. QED
    BY <2>1 DEF originVars, OriginInv, TokensAreOwn, BearsSender, AnchorKnows,
           OriginatorIsSender, deployment
<1>5. QED
  BY <1>1, <1>2, <1>3, <1>4

\* The rest changes no token but in the cache.
LEMMA AccountOrigin ==
  ASSUME TreasuryTypeOK, OriginInv,
         \/ \E s \in Senders : SaveProfile(s)
         \/ TokenAges \/ AskRequirements \/ TopUp
         \/ HasTrustline \/ CanAfford \/ LoadForTrustline \/ SetupEnds
         \/ \E tx \in inFlight : Apply(tx) \/ Drop(tx)
  PROVE  OriginInv'
<1>1. CASE TokenAges \/ AskRequirements
  BY <1>1, TreasuryAssumption DEF TokenAges, AskRequirements, CacheKey, TreasuryTypeOK, Memos,
         OriginInv, TokensAreOwn, BearsSender, AnchorKnows, OriginatorIsSender, deployment,
         anchor
<1>2. CASE \/ \E s \in Senders : SaveProfile(s)
           \/ TopUp \/ HasTrustline \/ CanAfford \/ LoadForTrustline \/ SetupEnds
           \/ \E tx \in inFlight : Apply(tx) \/ Drop(tx)
  <2>1. UNCHANGED <<deployment, memory, anchor>>
    BY <1>2, Zenon DEF SaveProfile, TopUp, HasTrustline, CanAfford, LoadForTrustline, SetupEnds,
           SetUp, Apply, Drop
  <2>2. QED
    BY <2>1 DEF memory, anchor, OriginInv, TokensAreOwn, BearsSender, AnchorKnows,
           OriginatorIsSender, deployment
<1>3. QED
  BY <1>1, <1>2

-----------------------------------------------------------------------------
(* What was paid for whom.                                                 *)

\* A handler that signs on is not one that has broadcast.
LEMMA SignOnUnbroadcast ==
  ASSUME TreasuryTypeOK, Unbroadcast, NEW w \in Withdrawals, NEW waiting, NEW then,
         SignOn(w, waiting, then), stage[w] \notin Broadcast, UNCHANGED <<paid, inFlight>>
  PROVE  Unbroadcast'
  BY DEF SignOn, Reach, Unbroadcast, TreasuryTypeOK

\* The opening has nothing to do with the account.
LEMMA OpeningUnbroadcast ==
  ASSUME TreasuryTypeOK, Unbroadcast, NEW w \in Withdrawals,
         \/ AskLimits(w) \/ SignedOn(w) \/ SubmitSenderProfile(w) \/ PutCustomer(w)
         \/ InitiateWithdraw(w) \/ OpeningThrows(w)
  PROVE  Unbroadcast'
<1>1. UNCHANGED <<paid, inFlight>>
  BY DEF AskLimits, SignedOn, Exchanged, SubmitSenderProfile, PutCustomer, InitiateWithdraw,
         OpeningThrows, ledger
<1>2. stage[w] \notin Broadcast
  BY DEF AskLimits, SignedOn, Exchanged, SubmitSenderProfile, PutCustomer, InitiateWithdraw,
         OpeningThrows, Opening, Broadcast
<1>3. \A u \in Withdrawals \ {w} : stage'[u] = stage[u]
  BY DEF AskLimits, SignOn, SignedOn, Exchanged, SubmitSenderProfile, PutCustomer,
         InitiateWithdraw, OpeningThrows, Reach, Compensate, TreasuryTypeOK
<1>4. QED
  BY <1>1, <1>2, <1>3 DEF Unbroadcast

\* A refresh compensates only before it submits; it submits from "asset" alone.
LEMMA PayingUnbroadcast ==
  ASSUME TreasuryTypeOK, Unbroadcast, NEW w \in Withdrawals,
         \/ Refresh(w) \/ ReadStatus(w) \/ ReadAccount(w) \/ LoadAccount(w) \/ Submit(w)
         \/ PayingThrows(w) \/ Submitted(w) \/ SubmitUncertain(w)
         \/ AnchorReady(w) \/ AnchorEnds(w)
  PROVE  Unbroadcast'
<1>1. CASE Refresh(w) \/ ReadStatus(w) \/ ReadAccount(w) \/ LoadAccount(w) \/ PayingThrows(w)
  <2>1. UNCHANGED <<paid, inFlight>>
    BY <1>1 DEF Refresh, ReadStatus, ReadAccount, LoadAccount, PayingThrows, ledger
  <2>2. stage[w] \notin Broadcast
    BY <1>1 DEF Refresh, ReadStatus, ReadAccount, LoadAccount, PayingThrows, Paying, Broadcast
  <2>3. \A u \in Withdrawals \ {w} : stage'[u] = stage[u]
    BY <1>1 DEF Refresh, ReadStatus, ReadAccount, LoadAccount, PayingThrows, SignOn, Reach,
           Compensate, TreasuryTypeOK
  <2>4. QED
    BY <2>1, <2>2, <2>3 DEF Unbroadcast
<1>2. CASE Submit(w)
  <2>1. UNCHANGED paid
    BY <1>2 DEF Submit
  <2>2. CASE PaymentAmount(w) > 0
    <3>1. /\ inFlight' = inFlight \cup
               {[pays |-> w, seq |-> sequenceRead[w], amount |-> PaymentAmount(w)]}
          /\ stage' = [stage EXCEPT ![w] = "submit"]
      BY <1>2, <2>2 DEF Submit, Reach
    <3>2. QED
      BY <2>1, <3>1 DEF Unbroadcast, TreasuryTypeOK, Broadcast
  <2>3. CASE ~(PaymentAmount(w) > 0)
    BY <1>2, <2>1, <2>3 DEF Submit, Compensate, Reach, Unbroadcast, TreasuryTypeOK, Broadcast
  <2>4. QED
    BY <2>2, <2>3
<1>3. CASE Submitted(w) \/ SubmitUncertain(w)
  BY <1>3 DEF Submitted, SubmitUncertain, Reach, Unbroadcast, TreasuryTypeOK, Broadcast, ledger
<1>4. CASE AnchorReady(w) \/ AnchorEnds(w)
  BY <1>4 DEF AnchorReady, AnchorEnds, Unbroadcast, memory, ledger
<1>5. QED
  BY <1>1, <1>2, <1>3, <1>4

\* The ledger applies only what is in flight, and the setup script pays nobody.
LEMMA AccountUnbroadcast ==
  ASSUME TreasuryTypeOK, Unbroadcast,
         \/ \E s \in Senders : SaveProfile(s)
         \/ TokenAges \/ AskRequirements \/ TopUp
         \/ HasTrustline \/ CanAfford \/ LoadForTrustline \/ SetupEnds
         \/ \E tx \in inFlight : Apply(tx) \/ Drop(tx)
  PROVE  Unbroadcast'
<1>1. UNCHANGED stage
  BY DEF SaveProfile, TokenAges, AskRequirements, TopUp, HasTrustline, CanAfford,
         LoadForTrustline, SetupEnds, SetUp, Apply, Drop, memory
<1>2. CASE \/ \E s \in Senders : SaveProfile(s)
           \/ TokenAges \/ AskRequirements \/ TopUp \/ HasTrustline \/ CanAfford \/ SetupEnds
  <2>1. UNCHANGED <<paid, inFlight>>
    BY <1>2 DEF SaveProfile, TokenAges, AskRequirements, TopUp, HasTrustline, CanAfford,
           SetupEnds, ledger
  <2>2. QED
    BY <1>1, <2>1 DEF Unbroadcast
<1>3. CASE LoadForTrustline
  <2>1. \A w \in Withdrawals : w # Trustline
    BY TrustlineAssumption
  <2>2. /\ UNCHANGED paid
        /\ inFlight' = inFlight \cup {[pays |-> Trustline, seq |-> sequence, amount |-> 0]}
    BY <1>3 DEF LoadForTrustline
  <2>3. QED
    BY <1>1, <2>1, <2>2 DEF Unbroadcast
<1>4. ASSUME NEW tx \in inFlight, Apply(tx) \/ Drop(tx)
      PROVE  Unbroadcast'
  <2>1. inFlight' = inFlight \ {tx}
    BY <1>4 DEF Apply, Drop
  <2>2. \A w \in Withdrawals : tx.pays # w => paid'[w] = paid[w]
    BY <1>4 DEF Apply, Drop, TreasuryTypeOK
  <2>3. QED
    BY <1>1, <2>1, <2>2 DEF Unbroadcast
<1>5. QED
  BY <1>2, <1>3, <1>4

\* Every step of the treasury, or of the legs, preserves the invariant.
LEMMA TreasuryInvStep == TreasuryInv /\ [RailNext]_railVars => TreasuryInv'
<1> SUFFICES ASSUME TreasuryInv, TreasuryNext \/ UNCHANGED treasuryVars
             PROVE  TreasuryInv'
  BY DEF RailNext, railVars
<1> USE DEF TreasuryInv
<1>1. ASSUME NEW w \in Withdrawals,
             \/ AskLimits(w) \/ SignedOn(w) \/ SubmitSenderProfile(w) \/ PutCustomer(w)
             \/ InitiateWithdraw(w) \/ OpeningThrows(w)
      PROVE  TreasuryInv'
  BY <1>1, OpeningTypes, OpeningOrigin, OpeningUnbroadcast
<1>2. ASSUME NEW w \in Withdrawals,
             \/ Refresh(w) \/ ReadStatus(w) \/ ReadAccount(w) \/ LoadAccount(w) \/ Submit(w)
             \/ PayingThrows(w) \/ Submitted(w) \/ SubmitUncertain(w)
             \/ AnchorReady(w) \/ AnchorEnds(w)
      PROVE  TreasuryInv'
  BY <1>2, PayingTypes, PayingOrigin, PayingUnbroadcast
<1>3. ASSUME \/ \E s \in Senders : SaveProfile(s)
             \/ TokenAges \/ AskRequirements \/ TopUp
             \/ HasTrustline \/ CanAfford \/ LoadForTrustline \/ SetupEnds
             \/ \E tx \in inFlight : Apply(tx) \/ Drop(tx)
      PROVE  TreasuryInv'
  BY <1>3, AccountTypes, AccountOrigin, AccountUnbroadcast
<1>4. CASE UNCHANGED treasuryVars
  BY <1>4 DEF treasuryVars, deployment, memory, anchor, script, ledger, TreasuryTypeOK, OriginInv,
         TokensAreOwn, BearsSender, AnchorKnows, OriginatorIsSender, Unbroadcast
<1>5. QED
  BY <1>1, <1>2, <1>3, <1>4, Zenon DEF TreasuryNext

(***************************************************************************)
(* A withdrawal that is open is its sender's, and the anchor was given all *)
(* that it requires of the sender: whatever tokens are cached, whichever   *)
(* openings overlap and however profiles change in between (anchor.ts).    *)
(***************************************************************************)
THEOREM OriginatorsAreSenders == RailSpec => []OriginatorIsSender
<1>1. RailInit => TreasuryInv
  BY TreasuryInvInit DEF RailInit
<1>2. TreasuryInv => OriginatorIsSender
  BY DEF TreasuryInv, OriginInv
<1>3. QED
  BY <1>1, <1>2, TreasuryInvStep, PTL DEF RailSpec

(***************************************************************************)
(* No payment was applied, or still can be, for a withdrawal whose sender  *)
(* was refunded: whoever takes the account's sequence number, however      *)
(* Horizon answers and whenever the ledger gets to a transaction.          *)
(***************************************************************************)
THEOREM RefundedAreUnpaid == RailSpec => []RefundedIsUnpaid
<1>1. RailInit => TreasuryInv
  BY TreasuryInvInit DEF RailInit
<1>2. TreasuryInv => RefundedIsUnpaid
  BY DEF TreasuryInv, Unbroadcast, Broadcast, RefundedIsUnpaid
<1>3. QED
  BY <1>1, <1>2, TreasuryInvStep, PTL DEF RailSpec

-----------------------------------------------------------------------------
(* The legs.                                                               *)

LegsTypeOK ==
    /\ world \in Worlds
    /\ price \in [AllVenues -> Prices] /\ mid \in Prices /\ cached \in Prices \cup {NoRate}
    /\ pc \in [Transfers -> FillPc \cup BridgePc \cup Ended]
    /\ plan \in [Transfers -> [venue : AllVenues \cup {"none"}, expectedOut : Nat, minOut : Int,
                               mid : Prices \cup {NoRate}]]
    /\ before \in [Transfers -> Int] /\ pool \in Int
    /\ amountOut \in [Transfers -> Int] /\ usdcOut \in [Transfers -> Nat]
    /\ filled \in [Transfers -> Int] /\ burned \in [Transfers -> Int]

\* A transfer at its legs, and where the code lets only one be there, only one is.
Busy(t) == pc[t] \notin Ended \cup {"bind"}
Alone == world.alone => \A t, u \in Transfers : Busy(t) /\ Busy(u) => t = u

(***************************************************************************)
(* A plan of a checked venue names a floor that the mid of its moment      *)
(* allows.  A fill that did not go through LI.FI brought in the floor; one *)
(* that is measured brought in what the balance rose by, if nobody else is *)
(* at the legs; and nothing is handed on before the fill.                  *)
(***************************************************************************)
PlanSound(t) ==
    plan[t].venue \in Checked =>
        plan[t].minOut >= AmountIn[t] * (plan[t].mid - Deviation) - Slippage

Planned(t) == pc[t] \in FillPc \ {"bind", "quote"} => plan[t].venue \in AllVenues

NothingHandedOn(t) ==
    /\ pc[t] \in FillPc => amountOut[t] = 0 /\ usdcOut[t] = 0
    /\ pc[t] \in FillPc \ {"swapped"} => filled[t] = 0
    /\ plan[t].venue \in Checked => filled[t] >= 0

FilledAboveFloor(t) ==
    /\ pc[t] = "swapped" /\ plan[t].venue # "lifi" => filled[t] >= plan[t].minOut
    /\ HasSwapped(t) /\ (plan[t].venue = "lifi" => world.alone) => filled[t] >= plan[t].minOut

Measured(t) ==
    /\ world.alone /\ plan[t].venue \in Checked /\ pc[t] \in {"approve", "swap", "swapped"} =>
          pool = before[t] + filled[t]
    /\ world.alone /\ plan[t].venue \in Checked => amountOut[t] <= filled[t]

FillInv(t) ==
    PlanSound(t) /\ Planned(t) /\ NothingHandedOn(t) /\ FilledAboveFloor(t) /\ Measured(t)

\* A burn is on record, or the handler that made it is about to see to that, or
\* never heard of it.
Unrecorded == {"burn.receipt", "iris", "mint", "unheard"}
BurnsInv == \A t \in Transfers : burned[t] > 0 => t \in onRecord \/ pc[t] \in Unrecorded

LegsInv == LegsTypeOK /\ Alone /\ (\A t \in Transfers : FillInv(t)) /\ BurnsInv

\* Nothing has begun.
LEMMA LegsInvInit == Init => LegsInv
<1> SUFFICES ASSUME Init PROVE LegsInv
  OBVIOUS
<1>1. LegsTypeOK
  BY LiquidityAssumption
  DEF Init, LiquidityInit, LegsTypeOK, NoPlan, NoRate, FillPc, BridgePc, Ended
<1>2. Alone
  BY DEF Init, LiquidityInit, Alone, Busy, Ended
<1>3. ASSUME NEW t \in Transfers
      PROVE  FillInv(t)
  BY DEF Init, LiquidityInit, FillInv, PlanSound, Planned, NothingHandedOn, FilledAboveFloor,
         Measured, NoPlan, Checked, FillPc, HasSwapped
<1>4. BurnsInv
  BY DEF Init, BurnsInv
<1>5. QED
  BY <1>1, <1>2, <1>3, <1>4 DEF LegsInv

-----------------------------------------------------------------------------
(* The operators.                                                          *)

\* Smaller is a well-founded relation, so a set of numbers has a least one.
Less == {ss \in Nat \X Nat : ss[1] < ss[2]}

LEMMA HasLeast ==
  ASSUME NEW S, S \subseteq Nat, S # {}
  PROVE  \E least \in S : \A y \in S : ~(y < least)
<1>1. IsWellFoundedOn(Less, Nat)
  BY NatLessThanWellFounded DEF OpToRel, Less
<1>2. \E least \in S : \A y \in S : <<y, least>> \notin Less
  BY <1>1, WFMin
<1>3. QED
  BY <1>2 DEF Less

\* Min chooses it.
LEMMA MinIsThere ==
  ASSUME NEW S \in SUBSET Nat, S # {}
  PROVE  Min(S) \in S
<1>1. PICK least \in S : \A y \in S : ~(y < least)
  BY HasLeast
<1>2. \A y \in S : least <= y
  BY <1>1
<1>3. QED
  BY <1>2 DEF Min

\* The greatest of a set is the least distance from a bound.
LEMMA MaxIsThere ==
  ASSUME NEW S \in SUBSET Nat, NEW n \in Nat, \A x \in S : x <= n, S # {}
  PROVE  Max(S) \in S
<1> DEFINE T == {d \in Nat : n - d \in S}
<1>1. T \subseteq Nat /\ T # {}
  <2>1. PICK x \in S : TRUE
    OBVIOUS
  <2>2. n - x \in Nat /\ n - (n - x) = x
    OBVIOUS
  <2>3. QED
    BY <2>2
<1>2. PICK d \in T : \A y \in T : ~(y < d)
  <2> HIDE DEF T
  <2>1. QED
    BY <1>1, HasLeast
<1>3. \A y \in S : n - d >= y
  <2> SUFFICES ASSUME NEW y \in S PROVE n - d >= y
    OBVIOUS
  <2>1. n - y \in T /\ n - (n - y) = y
    OBVIOUS
  <2>2. QED
    BY <1>2, <2>1
<1>4. QED
  BY <1>2, <1>3 DEF Max

\* Whom a provider asks.
LEMMA AskedVenues ==
  ASSUME world \in Worlds
  PROVE  Asked \in Seq(AllVenues) /\ ToSet(Asked) \subseteq AllVenues
<1>1. world.provider \in AllVenues \cup {"best"}
  BY LiquidityAssumption
<1>2. Asked \in Seq(AllVenues)
  BY <1>1, LiquidityAssumption DEF Asked
<1>3. QED
  BY <1>2 DEF ToSet

\* The best answer is one of the answers.
LEMMA BestAnswered ==
  ASSUME LegsTypeOK, NEW answered \in SUBSET ToSet(Asked), answered # {}
  PROVE  Best(answered) \in answered
<1> DEFINE offers == {price[v] : v \in answered}
           best == Max(offers)
           places == {i \in 1..Len(Asked) : Asked[i] \in answered /\ price[Asked[i]] = best}
           most == price["fx-swapper"] + price["rfq"] + price["cow"] + price["dex"]
                   + price["lifi"]
<1>1. Asked \in Seq(AllVenues) /\ ToSet(Asked) \subseteq AllVenues
  BY AskedVenues DEF LegsTypeOK
<1>2. \A v \in AllVenues : price[v] \in Nat
  BY LiquidityAssumption DEF LegsTypeOK
<1>3. most \in Nat /\ \A v \in AllVenues : price[v] <= most
  BY <1>2 DEF AllVenues
<1>4. offers \in SUBSET Nat /\ offers # {} /\ \A x \in offers : x <= most
  BY <1>1, <1>2, <1>3
<1>5. best \in offers
  <2> HIDE DEF offers, most
  <2>1. QED
    BY <1>3, <1>4, MaxIsThere
<1>6. PICK v \in answered : price[v] = best
  BY <1>5
<1>7. PICK i \in 1..Len(Asked) : Asked[i] = v
  BY <1>6 DEF ToSet
<1>8. i \in places /\ places \in SUBSET Nat
  BY <1>1, <1>6, <1>7
<1>9. Min(places) \in places
  <2> HIDE DEF places
  <2>1. QED
    BY <1>8, MinIsThere
<1>10. Best(answered) = Asked[Min(places)]
  BY <1>8 DEF Best, SelectInSeq
<1>11. QED
  BY <1>9, <1>10

\* A factor keeps the order.
LEMMA Times ==
  ASSUME NEW a \in Nat, NEW x \in Int, NEW y \in Int, x >= y
  PROVE  a * x >= a * y
<1>1. PICK d \in Nat : x = y + d
  <2>1. x - y \in Nat /\ x = y + (x - y)
    OBVIOUS
  <2>2. QED
    BY <2>1
<1>2. a * d \in Nat /\ a * (y + d) = a * y + a * d
  OBVIOUS
<1>3. QED
  BY <1>1, <1>2

\* What a venue that was asked quotes is as sane as its price.
LEMMA QuotesAreSound ==
  ASSUME LegsTypeOK, NEW t \in Transfers, NEW answered \in Answers \ {{}}
  PROVE  LET v == Best(answered)
         IN  /\ v \in AllVenues
             /\ PlanWith(t, v) \in [venue : AllVenues \cup {"none"}, expectedOut : Nat,
                                    minOut : Int, mid : Prices \cup {NoRate}]
             /\ v \in Checked => PlanWith(t, v).minOut
                    >= AmountIn[t] * (PlanWith(t, v).mid - Deviation) - Slippage
<1> DEFINE v == Best(answered)
<1>1. v \in answered /\ answered \subseteq {x \in ToSet(Asked) : PriceSane(x)}
  BY BestAnswered DEF Answers
<1>2. v \in AllVenues /\ PriceSane(v)
  BY <1>1, AskedVenues DEF LegsTypeOK
<1> HIDE DEF v
<1>3. /\ price[v] \in Prices /\ price[v] \in Nat /\ AmountIn[t] \in Nat
      /\ MidRate \in Prices \cup {NoRate} /\ MidRate \in Nat
      /\ Deviation \in Nat /\ Slippage \in Nat
  BY <1>2, LiquidityAssumption DEF LegsTypeOK, MidRate, NoRate
<1>4. AmountIn[t] * price[v] \in Nat
  BY <1>3
<1>5. PlanWith(t, v) \in [venue : AllVenues \cup {"none"}, expectedOut : Nat, minOut : Int,
                          mid : Prices \cup {NoRate}]
  BY <1>2, <1>3, <1>4 DEF PlanWith
<1>6. ASSUME v \in Checked
      PROVE  PlanWith(t, v).minOut
                 >= AmountIn[t] * (PlanWith(t, v).mid - Deviation) - Slippage
  <2>1. price[v] >= MidRate - Deviation
    BY <1>2, <1>3, <1>6 DEF PriceSane, Distance
  <2>2. AmountIn[t] * price[v] >= AmountIn[t] * (MidRate - Deviation)
    BY <1>3, <2>1, Times
  <2>3. PICK low \in Int : low = AmountIn[t] * (MidRate - Deviation)
    BY <1>3
  <2>4. PlanWith(t, v).minOut = AmountIn[t] * price[v] - Slippage /\ PlanWith(t, v).mid = MidRate
    BY <1>6 DEF PlanWith
  <2>5. AmountIn[t] * price[v] - Slippage >= low - Slippage
    BY <1>3, <1>4, <2>2, <2>3
  <2>6. QED
    BY <2>3, <2>4, <2>5
<1>7. QED
  BY <1>2, <1>5, <1>6 DEF v
-----------------------------------------------------------------------------
(* A step of one transfer.                                                 *)

\* It leaves the others where they are, and what they have.
Only(t) ==
    \A u \in Transfers \ {t} :
        /\ pc'[u] = pc[u] /\ plan'[u] = plan[u] /\ before'[u] = before[u]
        /\ amountOut'[u] = amountOut[u] /\ usdcOut'[u] = usdcOut[u] /\ filled'[u] = filled[u]

\* What the others have stays sound, also where t uses the pool they share.
LEMMA OthersKeep ==
  ASSUME LegsInv, NEW t \in Transfers, Only(t), UNCHANGED world,
         UNCHANGED pool \/ Busy(t)
  PROVE  \A u \in Transfers \ {t} : FillInv(u)'
<1> SUFFICES ASSUME NEW u \in Transfers \ {t} PROVE FillInv(u)'
  OBVIOUS
<1> USE DEF Only
<1>1. FillInv(u)
  BY DEF LegsInv
<1>2. PlanSound(u)' /\ Planned(u)' /\ NothingHandedOn(u)'
  BY <1>1 DEF FillInv, PlanSound, Planned, NothingHandedOn
<1>3. FilledAboveFloor(u)'
  BY <1>1 DEF FillInv, FilledAboveFloor, HasSwapped
<1>4. Measured(u)'
  <2>1. CASE UNCHANGED pool
    BY <1>1, <2>1 DEF FillInv, Measured
  <2>2. CASE Busy(t)
    <3>1. world.alone => ~Busy(u)
      BY <2>2 DEF LegsInv, Alone
    <3>2. world.alone => pc[u] \notin {"approve", "swap", "swapped"}
      BY <3>1 DEF Busy, Ended
    <3>3. QED
      BY <1>1, <3>2 DEF FillInv, Measured
  <2>3. QED
    BY <2>1, <2>2
<1>5. QED
  BY <1>2, <1>3, <1>4 DEF FillInv

\* One transfer at a time stays one where it begins only alone.
LEMMA StaysAlone ==
  ASSUME LegsInv, NEW t \in Transfers, Only(t), UNCHANGED world,
         Busy(t) \/ (pc[t] = "bind" /\ MayBegin)
  PROVE  Alone'
<1> SUFFICES ASSUME world.alone, NEW u \in Transfers, NEW v \in Transfers,
                    Busy(u)', Busy(v)'
             PROVE  u = v
  BY DEF Alone
<1>1. \A x \in Transfers \ {t} : ~Busy(x)
  BY DEF LegsInv, Alone, MayBegin, Busy
<1>2. \A x \in Transfers \ {t} : ~Busy(x)'
  BY <1>1 DEF Only, Busy
<1>3. QED
  BY <1>2

\* What stays of a transfer that only moves on, and does not go to a fill.
LEMMA MovesOn ==
  ASSUME LegsInv, NEW t \in Transfers, NEW p \in BridgePc \cup Ended, Await(t, p),
         UNCHANGED <<world, plan, before, amountOut, usdcOut, filled>>
  PROVE  FillInv(t)'
<1>1. pc'[t] = p
  BY DEF Await, LegsInv, LegsTypeOK
<1>2. p \notin FillPc
  BY DEF BridgePc, Ended, FillPc
<1>3. FillInv(t)
  BY DEF LegsInv
<1>4. QED
  BY <1>1, <1>2, <1>3 DEF FillInv, PlanSound, Planned, NothingHandedOn, FilledAboveFloor,
         Measured, HasSwapped, FillPc

-----------------------------------------------------------------------------
(* The steps of the market and of a fill.                                  *)

\* What a fill may read stays of its type.
LEMMA MidFetchedType ==
  ASSUME LegsTypeOK, MidFetched
  PROVE  cached' \in Prices \cup {NoRate}
  BY DEF MidFetched, MidRate, LegsTypeOK

\* Prices that move and a cache that ages change no plan that was made.
LEMMA MarketKeeps ==
  ASSUME LegsInv, PriceMoves \/ RateAges, UNCHANGED bridging
  PROVE  LegsInv'
<1>1. UNCHANGED <<world, pc, fills, bridging>>
  BY DEF PriceMoves, RateAges, fills
<1>2. LegsTypeOK'
  <2>1. CASE PriceMoves
    <3>1. price' \in [AllVenues -> Prices] /\ mid' \in Prices
      BY <2>1 DEF PriceMoves, LegsInv, LegsTypeOK
    <3>2. cached' = cached
      BY <2>1 DEF PriceMoves
    <3>3. QED
      BY <1>1, <3>1, <3>2 DEF LegsInv, LegsTypeOK, fills, bridging
  <2>2. CASE RateAges
    BY <1>1, <2>2 DEF RateAges, LegsInv, LegsTypeOK, fills, bridging
  <2>3. QED
    BY <2>1, <2>2
<1>3. Alone'
  BY <1>1 DEF LegsInv, Alone, Busy
<1>4. ASSUME NEW t \in Transfers
      PROVE  FillInv(t)'
  <2>1. FillInv(t)
    BY DEF LegsInv
  <2>2. QED
    BY <1>1, <2>1 DEF FillInv, PlanSound, Planned, NothingHandedOn, FilledAboveFloor, Measured,
           HasSwapped, fills
<1>5. BurnsInv'
  BY <1>1 DEF LegsInv, BurnsInv, bridging
<1>6. QED
  BY <1>2, <1>3, <1>4, <1>5 DEF LegsInv

\* Bind and Quote
LEMMA PlansKeep ==
  ASSUME LegsInv, NEW t \in Transfers, Bind(t) \/ Quote(t), UNCHANGED bridging
  PROVE  LegsTypeOK' /\ FillInv(t)' /\ Only(t) /\ UNCHANGED <<world, pool>>
<1>1. FillInv(t) /\ LegsTypeOK
  BY DEF LegsInv
<1>2. /\ cached' \in Prices \cup {NoRate}
      /\ UNCHANGED <<world, price, mid, moves, before, amountOut, usdcOut, pool, filled,
                     bridging>>
  BY <1>1, MidFetchedType DEF Bind, Quote, fills
<1>3. CASE Bind(t)
  <2>1. /\ pc[t] = "bind" /\ UNCHANGED plan
        /\ \E p \in {"quote", "failed"} : pc' = [pc EXCEPT ![t] = p]
    BY <1>3 DEF Bind, Await, Fail, fills
  <2>2. LegsTypeOK'
    BY <1>1, <1>2, <2>1 DEF LegsTypeOK, FillPc, Ended, bridging
  <2>3. FillInv(t)'
    BY <1>1, <1>2, <2>1 DEF LegsTypeOK, FillInv, PlanSound, Planned, NothingHandedOn,
           FilledAboveFloor, Measured, HasSwapped, FillPc
  <2>4. QED
    BY <1>1, <1>2, <2>1, <2>2, <2>3 DEF LegsTypeOK, Only
<1>4. CASE Quote(t)
  <2>0. pc[t] = "quote" /\ amountOut[t] = 0 /\ usdcOut[t] = 0 /\ filled[t] = 0
    BY <1>1, <1>4 DEF Quote, FillInv, NothingHandedOn, FillPc
  <2>1. CASE Fail(t) /\ UNCHANGED plan
    <3>1. LegsTypeOK'
      BY <1>1, <1>2, <2>1 DEF LegsTypeOK, Fail, Await, FillPc, Ended, bridging
    <3>2. FillInv(t)'
      BY <1>2, <2>1, MovesOn DEF Fail, Ended
    <3>3. QED
      BY <1>1, <1>2, <2>1, <3>1, <3>2 DEF LegsTypeOK, Only, Fail, Await
  <2>2. ASSUME NEW answered \in Answers \ {{}}, NEW expired \in BOOLEAN,
               plan' = [plan EXCEPT ![t] = PlanWith(t, Best(answered))],
               Await(t, IF expired \/ Best(answered) \in Refuses THEN "failed"
                        ELSE IF Best(answered) \in Checked THEN "before" ELSE "approve")
        PROVE  LegsTypeOK' /\ FillInv(t)' /\ Only(t)
    <3>1. PICK q \in {PlanWith(t, Best(answered))} : TRUE
      OBVIOUS
    <3>2. /\ q.venue \in AllVenues
          /\ q \in [venue : AllVenues \cup {"none"}, expectedOut : Nat, minOut : Int,
                    mid : Prices \cup {NoRate}]
          /\ q.venue \in Checked => q.minOut >= AmountIn[t] * (q.mid - Deviation) - Slippage
      <4>1. PlanWith(t, Best(answered)).venue = Best(answered)
        BY DEF PlanWith
      <4>2. QED
        BY <1>1, <3>1, <4>1, QuotesAreSound
    <3>3. PICK p \in {"failed", "before", "approve"} :
              pc' = [pc EXCEPT ![t] = p] /\ (p = "approve" => q.venue \notin Checked)
      <4>1. q.venue = Best(answered)
        BY <3>1 DEF PlanWith
      <4>2. CASE expired \/ Best(answered) \in Refuses
        BY <2>2, <4>2 DEF Await
      <4>3. CASE ~(expired \/ Best(answered) \in Refuses) /\ Best(answered) \in Checked
        BY <2>2, <4>3 DEF Await
      <4>4. CASE ~(expired \/ Best(answered) \in Refuses) /\ Best(answered) \notin Checked
        BY <2>2, <4>1, <4>4 DEF Await
      <4>5. QED
        BY <4>2, <4>3, <4>4
    <3>4. plan' = [plan EXCEPT ![t] = q]
      BY <2>2, <3>1
    <3>5. LegsTypeOK'
      BY <1>1, <1>2, <3>2, <3>3, <3>4 DEF LegsTypeOK, FillPc, Ended, bridging
    <3>6. pc'[t] = p /\ plan'[t] = q
      <4>1. pc \in [Transfers -> FillPc \cup BridgePc \cup Ended] /\ plan = [x \in Transfers |-> plan[x]]
        BY <1>1 DEF LegsTypeOK
      <4>2. pc'[t] = p
        BY <3>3, <4>1
      <4>3. plan'[t] = q
        BY <3>4, <4>1
      <4> QED BY <4>2, <4>3
    <3>7. PlanSound(t)' /\ Planned(t)'
      BY <3>2, <3>6 DEF PlanSound, Planned
    <3>8. NothingHandedOn(t)' /\ FilledAboveFloor(t)' /\ Measured(t)'
      BY <1>2, <2>0, <3>3, <3>6 DEF NothingHandedOn, FilledAboveFloor, Measured, HasSwapped
    <3>9. QED
      BY <1>1, <1>2, <3>3, <3>4, <3>5, <3>7, <3>8 DEF LegsTypeOK, Only, FillInv
  <2>3. QED
    BY <1>2, <1>4, <2>1, <2>2, Zenon DEF Quote, Only, Fail, Await
<1>5. QED
  BY <1>3, <1>4
\* The steps from the plan to the swap, and those that end in an error.
LEMMA FillSteps ==
  ASSUME LegsInv, NEW t \in Transfers, UNCHANGED bridging,
         ReadBefore(t) \/ Approve(t) \/ SwapReverts(t) \/ FillThrows(t)
  PROVE  LegsTypeOK' /\ FillInv(t)' /\ Only(t) /\ UNCHANGED <<world, pool>>
<1>1. FillInv(t) /\ LegsTypeOK
  BY DEF LegsInv
<1>2. UNCHANGED <<world, market, plan, amountOut, usdcOut, pool, filled, bridging>>
  BY DEF ReadBefore, Approve, SwapReverts, FillThrows, fills
<1>3. CASE ReadBefore(t)
  <2>1. /\ pc[t] = "before" /\ pc' = [pc EXCEPT ![t] = "approve"]
        /\ before' = [before EXCEPT ![t] = pool]
    BY <1>3 DEF ReadBefore, Await
  <2>2. LegsTypeOK'
    BY <1>1, <1>2, <2>1 DEF LegsTypeOK, FillPc, market, bridging
  <2>3. FillInv(t)'
    BY <1>1, <1>2, <2>1 DEF LegsTypeOK, FillInv, PlanSound, Planned, NothingHandedOn,
           FilledAboveFloor, Measured, HasSwapped, FillPc
  <2>4. QED
    BY <1>1, <1>2, <2>1, <2>2, <2>3 DEF LegsTypeOK, Only
<1>4. CASE Approve(t)
  <2>1. pc[t] = "approve" /\ pc' = [pc EXCEPT ![t] = "swap"] /\ UNCHANGED before
    BY <1>4 DEF Approve, Await
  <2>2. LegsTypeOK'
    BY <1>1, <1>2, <2>1 DEF LegsTypeOK, FillPc, market, bridging
  <2>3. FillInv(t)'
    BY <1>1, <1>2, <2>1 DEF LegsTypeOK, FillInv, PlanSound, Planned, NothingHandedOn,
           FilledAboveFloor, Measured, HasSwapped, FillPc
  <2>4. QED
    BY <1>1, <1>2, <2>1, <2>2, <2>3 DEF LegsTypeOK, Only
<1>5. CASE SwapReverts(t) /\ plan[t].venue = "lifi"
  <2>1. pc[t] = "swap" /\ pc' = [pc EXCEPT ![t] = "swapped"] /\ UNCHANGED before
    BY <1>5 DEF SwapReverts, Await, fills
  <2>2. LegsTypeOK'
    BY <1>1, <1>2, <2>1 DEF LegsTypeOK, FillPc, market, bridging
  <2>3. FillInv(t)'
    BY <1>1, <1>2, <1>5, <2>1 DEF LegsTypeOK, FillInv, PlanSound, Planned, NothingHandedOn,
           FilledAboveFloor, Measured, HasSwapped, FillPc
  <2>4. QED
    BY <1>1, <1>2, <2>1, <2>2, <2>3 DEF LegsTypeOK, Only
<1>6. CASE \/ SwapReverts(t) /\ plan[t].venue # "lifi"
           \/ FillThrows(t)
  <2>1. Await(t, "failed") /\ UNCHANGED before
    BY <1>6 DEF SwapReverts, FillThrows, Fail, fills
  <2>2. LegsTypeOK'
    BY <1>1, <1>2, <2>1 DEF LegsTypeOK, Await, Ended, market, bridging
  <2>3. FillInv(t)'
    BY <1>2, <2>1, MovesOn DEF Ended
  <2>4. QED
    BY <1>1, <1>2, <2>1, <2>2, <2>3 DEF LegsTypeOK, Only, Await
<1>7. QED
  BY <1>3, <1>4, <1>5, <1>6

\* A venue pays no less than the floor.
LEMMA PayableFloor ==
  ASSUME LegsTypeOK, NEW t \in Transfers, plan[t].venue \in AllVenues, NEW out \in Payable(t)
  PROVE  /\ out \in Int /\ out >= plan[t].minOut
         /\ plan[t].venue \in Checked => out >= 0
<1>1. /\ plan[t].minOut \in Int /\ plan[t].expectedOut \in Nat
      /\ price[plan[t].venue] \in Nat /\ AmountIn[t] \in Nat
  BY LiquidityAssumption DEF LegsTypeOK
<1>2. PICK now \in Nat : now = AmountIn[t] * price[plan[t].venue]
  BY <1>1
<1>3. CASE plan[t].venue \in Commits
  BY <1>1, <1>3 DEF Payable, Commits, Checked
<1>4. CASE plan[t].venue \notin Commits
  BY <1>1, <1>2, <1>4 DEF Payable
<1>5. QED
  BY <1>3, <1>4

\* The fill itself.
LEMMA SwapKeeps ==
  ASSUME LegsInv, NEW t \in Transfers, Swap(t), UNCHANGED bridging
  PROVE  LegsTypeOK' /\ FillInv(t)' /\ Only(t) /\ UNCHANGED world
<1>1. FillInv(t) /\ LegsTypeOK
  BY DEF LegsInv
<1>2. /\ UNCHANGED <<world, market, plan, before, amountOut, usdcOut, bridging>>
      /\ pc[t] = "swap" /\ pc' = [pc EXCEPT ![t] = "swapped"]
  BY DEF Swap, Await
<1>3. PICK out \in Payable(t) : pool' = pool + out /\ filled' = [filled EXCEPT ![t] = out]
  BY DEF Swap
<1>4. plan[t].venue \in AllVenues
  BY <1>1, <1>2 DEF FillInv, Planned, FillPc
<1>5. out \in Int /\ out >= plan[t].minOut /\ (plan[t].venue \in Checked => out >= 0)
  BY <1>1, <1>4, PayableFloor
<1>6. LegsTypeOK'
  BY <1>1, <1>2, <1>3, <1>5 DEF LegsTypeOK, FillPc, market, bridging
<1>7. pc'[t] = "swapped" /\ filled'[t] = out /\ filled[t] = 0 /\ amountOut[t] = 0
      /\ usdcOut[t] = 0
  BY <1>1, <1>2, <1>3 DEF LegsTypeOK, FillInv, NothingHandedOn, FillPc
<1>8. PlanSound(t)' /\ Planned(t)' /\ NothingHandedOn(t)'
  BY <1>1, <1>2, <1>5, <1>7 DEF FillInv, PlanSound, Planned, NothingHandedOn, FillPc
<1>9. FilledAboveFloor(t)'
  BY <1>2, <1>5, <1>7 DEF FilledAboveFloor, HasSwapped
<1>10. Measured(t)'
  <2>1. /\ pool \in Int /\ before[t] \in Int
        /\ world.alone /\ plan[t].venue \in Checked => pool = before[t] + 0
    BY <1>1, <1>2, <1>7 DEF LegsTypeOK, FillInv, Measured
  <2>2. world.alone /\ plan[t].venue \in Checked => pool + out = before[t] + out
    BY <1>5, <2>1
  <2>3. QED
    BY <1>2, <1>3, <1>5, <1>7, <2>2 DEF Measured
<1>11. QED
  BY <1>1, <1>2, <1>3, <1>6, <1>8, <1>9, <1>10 DEF LegsTypeOK, FillInv, Only

\* What a fill is said to have delivered is what it brought in or less, if it is
\* measured and nobody else is at the legs; and it is the floor at least.
LEMMA ReceivedIsFilled ==
  ASSUME LegsInv, NEW t \in Transfers, pc[t] = "swapped", NEW out \in Received(t)
  PROVE  /\ out \in Int
         /\ world.alone /\ plan[t].venue \in Checked => out <= filled[t]
         /\ (plan[t].venue = "lifi" => world.alone) => filled[t] >= plan[t].minOut
<1>1. FillInv(t) /\ LegsTypeOK
  BY DEF LegsInv
<1>2. /\ plan[t].minOut \in Int /\ plan[t].expectedOut \in Nat /\ pool \in Int
      /\ before[t] \in Int /\ filled[t] \in Int
  BY <1>1 DEF LegsTypeOK
<1>3. world.alone /\ plan[t].venue \in Checked => pool = before[t] + filled[t]
  BY <1>1 DEF FillInv, Measured
<1>4. plan[t].venue # "lifi" => filled[t] >= plan[t].minOut
  BY <1>1 DEF FillInv, FilledAboveFloor
<1>5. CASE plan[t].venue \in Checked
  <2>1. PICK d \in Delivered(t) : out = Settled(t, d)
    BY <1>5 DEF Received
  <2>2. d = pool - before[t] /\ d >= plan[t].minOut /\ d \in Int
    BY <1>2, <2>1 DEF Delivered
  <2>3. out \in Int /\ out <= d
    BY <1>2, <2>1, <2>2 DEF Settled
  <2>4. world.alone => d = filled[t]
    BY <1>2, <1>3, <1>5, <2>2
  <2>5. QED
    BY <1>2, <1>4, <2>2, <2>3, <2>4
<1>6. CASE plan[t].venue \notin Checked
  <2>1. plan[t].venue # "lifi" /\ out = plan[t].expectedOut
    BY <1>6 DEF Received, Checked
  <2>2. QED
    BY <1>2, <1>4, <1>6, <2>1
<1>7. QED
  BY <1>5, <1>6

\* The balance after it, and SWAPPED.
LEMMA SwappedKeeps ==
  ASSUME LegsInv, NEW t \in Transfers, Swapped(t), UNCHANGED bridging
  PROVE  LegsTypeOK' /\ FillInv(t)' /\ Only(t) /\ UNCHANGED <<world, pool>>
<1>1. FillInv(t) /\ LegsTypeOK
  BY DEF LegsInv
<1>2. pc[t] = "swapped" /\ UNCHANGED <<world, market, plan, before, pool, filled, bridging>>
  BY DEF Swapped
<1>3. CASE Fail(t) /\ UNCHANGED <<amountOut, usdcOut>>
  <2>1. LegsTypeOK'
    BY <1>1, <1>2, <1>3 DEF LegsTypeOK, Fail, Await, Ended, market, bridging
  <2>2. FillInv(t)'
    BY <1>2, <1>3, MovesOn DEF Fail, Ended
  <2>3. QED
    BY <1>1, <1>2, <1>3, <2>1, <2>2 DEF LegsTypeOK, Only, Fail, Await
<1>4. ASSUME NEW out \in Received(t),
             amountOut' = [amountOut EXCEPT ![t] = out],
             usdcOut' = [usdcOut EXCEPT ![t] = plan[t].expectedOut],
             Await(t, "bridge")
      PROVE  LegsTypeOK' /\ FillInv(t)' /\ Only(t)
  <2>1. /\ out \in Int
        /\ world.alone /\ plan[t].venue \in Checked => out <= filled[t]
        /\ (plan[t].venue = "lifi" => world.alone) => filled[t] >= plan[t].minOut
    BY <1>2, ReceivedIsFilled
  <2>2. plan[t].expectedOut \in Nat
    BY <1>1 DEF LegsTypeOK
  <2>3. LegsTypeOK'
    BY <1>1, <1>2, <1>4, <2>1, <2>2 DEF LegsTypeOK, Await, BridgePc, market, bridging
  <2>4. pc'[t] = "bridge" /\ amountOut'[t] = out /\ usdcOut'[t] = plan[t].expectedOut
    BY <1>1, <1>4 DEF LegsTypeOK, Await
  <2>5. FillInv(t)'
    BY <1>1, <1>2, <2>1, <2>4 DEF FillInv, PlanSound, Planned, NothingHandedOn,
           FilledAboveFloor, Measured, HasSwapped, FillPc
  <2>6. QED
    BY <1>1, <1>2, <1>4, <2>3, <2>5 DEF LegsTypeOK, Only, Await
<1>5. QED
  BY <1>2, <1>3, <1>4, Zenon DEF Swapped
\* Every step of a fill preserves the invariant.
LEMMA FillInvStep == LegsInv /\ FillNext /\ UNCHANGED bridging => LegsInv'
<1> SUFFICES ASSUME LegsInv, FillNext, UNCHANGED bridging PROVE LegsInv'
  OBVIOUS
<1>1. CASE PriceMoves \/ RateAges
  BY <1>1, MarketKeeps
<1>2. ASSUME NEW t \in Transfers,
             \/ Bind(t) \/ Quote(t) \/ ReadBefore(t) \/ Approve(t) \/ Swap(t)
             \/ SwapReverts(t) \/ FillThrows(t) \/ Swapped(t)
      PROVE  LegsInv'
  <2>1. LegsTypeOK' /\ FillInv(t)' /\ Only(t) /\ UNCHANGED world
    BY <1>2, PlansKeep, FillSteps, SwapKeeps, SwappedKeeps
  <2>2. UNCHANGED pool \/ Swap(t)
    BY <1>2, PlansKeep, FillSteps, SwappedKeeps
  <2>3. Busy(t) \/ (pc[t] = "bind" /\ MayBegin)
    BY <1>2 DEF Bind, Quote, ReadBefore, Approve, Swap, SwapReverts, FillThrows, Swapped, Busy,
           Ended
  <2>4. Swap(t) => Busy(t)
    BY DEF Swap, Busy, Ended
  <2>5. \A u \in Transfers \ {t} : FillInv(u)'
    BY <2>1, <2>2, <2>4, OthersKeep
  <2>6. Alone'
    BY <2>1, <2>3, StaysAlone
  <2>7. pc[t] \in FillPc
    BY <1>2 DEF Bind, Quote, ReadBefore, Approve, Swap, SwapReverts, FillThrows, Swapped, FillPc
  <2>8. BurnsInv'
    <3>1. pc[t] \notin Unrecorded
      BY <2>7 DEF FillPc, Unrecorded
    <3>2. \A u \in Transfers : pc[u] \in Unrecorded => pc'[u] = pc[u]
      BY <2>1, <3>1 DEF Only
    <3>3. QED
      BY <3>2 DEF LegsInv, BurnsInv, bridging
  <2>9. QED
    BY <2>1, <2>5, <2>6, <2>8 DEF LegsInv
<1>3. QED
  BY <1>1, <1>2, Zenon DEF FillNext

-----------------------------------------------------------------------------
(* The steps of the bridge.                                                *)

\* What a step of the bridge leaves alone, and where it takes its transfer.
Bridges(t) ==
    /\ UNCHANGED <<world, market, plan, before, amountOut, usdcOut, filled>>
    /\ Busy(t)
    /\ \E p \in BridgePc \cup Ended : Await(t, p)

\* Every one of them is of that form.
LEMMA BridgeSteps ==
  ASSUME NEW t \in Transfers,
         \/ ApproveBridge(t) \/ LockForPayout(t) \/ Ready(t) \/ ApproveMessenger(t)
         \/ SeesAllowance(t) \/ Burn(t) \/ BurnConfirmed(t) \/ BurnUnheard(t)
         \/ BridgeThrows(t) \/ Attested(t) \/ Mint(t) \/ BridgeError(t) \/ AskAnchor(t)
  PROVE  Bridges(t) /\ (UNCHANGED pool \/ LockForPayout(t))
<1>1. CASE LockForPayout(t)
  BY <1>1 DEF LockForPayout, Bridges, Busy, BridgePc, Ended
<1>2. CASE ApproveBridge(t) \/ ApproveMessenger(t)
  BY <1>2 DEF ApproveBridge, ApproveMessenger, Bridges, Busy, BridgePc, Ended, fills
<1>3. CASE Ready(t) \/ SeesAllowance(t)
  BY <1>3 DEF Ready, SeesAllowance, Bridges, Busy, BridgePc, Ended, fills, Fail
<1>4. CASE Burn(t) \/ BurnConfirmed(t) \/ BurnUnheard(t) \/ Attested(t) \/ Mint(t)
  BY <1>4 DEF Burn, BurnConfirmed, BurnUnheard, Attested, Mint, Bridges, Busy, BridgePc, Ended,
         fills
<1>5. CASE BridgeThrows(t) \/ BridgeError(t) \/ AskAnchor(t)
  BY <1>5 DEF BridgeThrows, BridgeError, AskAnchor, Bridges, Busy, BridgePc, Ended, fills, Fail
<1>6. QED
  BY <1>1, <1>2, <1>3, <1>4, <1>5

\* What a burn leaves to be recorded.
LEMMA BurnsKeep ==
  ASSUME LegsInv, NEW t \in Transfers,
         \/ ApproveBridge(t) \/ LockForPayout(t) \/ Ready(t) \/ ApproveMessenger(t)
         \/ SeesAllowance(t) \/ Burn(t) \/ BurnConfirmed(t) \/ BurnUnheard(t)
         \/ BridgeThrows(t) \/ Attested(t) \/ Mint(t) \/ BridgeError(t) \/ AskAnchor(t)
  PROVE  BurnsInv' /\ burned' \in [Transfers -> Int]
<1>1. /\ pc \in [Transfers -> FillPc \cup BridgePc \cup Ended]
      /\ burned \in [Transfers -> Int] /\ amountOut \in [Transfers -> Int]
  BY DEF LegsInv, LegsTypeOK
<1>2. BurnsInv
  BY DEF LegsInv
<1>3. CASE ApproveBridge(t) \/ LockForPayout(t) \/ Ready(t) \/ ApproveMessenger(t)
  BY <1>1, <1>2, <1>3 DEF ApproveBridge, LockForPayout, Ready, ApproveMessenger, Await, Fail,
         BurnsInv, Unrecorded, bridging
<1>4. CASE SeesAllowance(t) \/ BridgeThrows(t) \/ Attested(t) \/ AskAnchor(t)
  BY <1>1, <1>2, <1>4 DEF SeesAllowance, BridgeThrows, Attested, AskAnchor, Await, Fail,
         BurnsInv, Unrecorded, bridging
<1>5. CASE Burn(t)
  BY <1>1, <1>2, <1>5 DEF Burn, Await, BurnsInv, Unrecorded
<1>6. CASE BurnConfirmed(t) \/ BurnUnheard(t)
  BY <1>1, <1>2, <1>6 DEF BurnConfirmed, BurnUnheard, Await, BurnsInv, Unrecorded, bridging
<1>7. CASE Mint(t) \/ BridgeError(t)
  BY <1>1, <1>2, <1>7 DEF Mint, BridgeError, Recorded, Await, BurnsInv, Unrecorded
<1>8. QED
  BY <1>3, <1>4, <1>5, <1>6, <1>7

\* Every step of the bridge preserves the invariant.
LEMMA BridgeInvStep ==
  ASSUME LegsInv, NEW t \in Transfers,
         \/ ApproveBridge(t) \/ LockForPayout(t) \/ Ready(t) \/ ApproveMessenger(t)
         \/ SeesAllowance(t) \/ Burn(t) \/ BurnConfirmed(t) \/ BurnUnheard(t)
         \/ BridgeThrows(t) \/ Attested(t) \/ Mint(t) \/ BridgeError(t) \/ AskAnchor(t)
  PROVE  LegsInv'
<1>1. Bridges(t) /\ (UNCHANGED pool \/ LockForPayout(t))
  BY BridgeSteps
<1>2. BurnsInv' /\ burned' \in [Transfers -> Int]
  BY BurnsKeep
<1>3. pool' \in Int
  BY <1>1 DEF LockForPayout, LegsInv, LegsTypeOK
<1>4. LegsTypeOK'
  BY <1>1, <1>2, <1>3 DEF Bridges, Await, LegsInv, LegsTypeOK, market
<1>5. Only(t)
  BY <1>1 DEF Bridges, Await, Only, LegsInv, LegsTypeOK
<1>6. FillInv(t)'
  <2>1. PICK p \in BridgePc \cup Ended : Await(t, p)
    BY <1>1 DEF Bridges
  <2>2. QED
    BY <1>1, <2>1, MovesOn DEF Bridges
<1>7. \A u \in Transfers \ {t} : FillInv(u)'
  BY <1>1, <1>5, OthersKeep DEF Bridges
<1>8. Alone'
  BY <1>1, <1>5, StaysAlone DEF Bridges
<1>9. QED
  BY <1>2, <1>4, <1>6, <1>7, <1>8 DEF LegsInv

\* So does every step of the rail.
LEMMA LegsInvStep == LegsInv /\ [RailNext]_railVars => LegsInv'
<1> SUFFICES ASSUME LegsInv, Next \/ UNCHANGED vars
             PROVE  LegsInv'
  BY DEF RailNext, railVars
<1>1. CASE FillNext /\ UNCHANGED bridging
  BY <1>1, FillInvStep
<1>2. ASSUME NEW t \in Transfers,
             \/ ApproveBridge(t) \/ LockForPayout(t) \/ Ready(t) \/ ApproveMessenger(t)
             \/ SeesAllowance(t) \/ Burn(t) \/ BurnConfirmed(t) \/ BurnUnheard(t)
             \/ BridgeThrows(t) \/ Attested(t) \/ Mint(t) \/ BridgeError(t) \/ AskAnchor(t)
      PROVE  LegsInv'
  BY <1>2, BridgeInvStep
<1>3. CASE UNCHANGED vars
  BY <1>3 DEF vars, market, fills, bridging, LegsInv, LegsTypeOK, Alone, Busy, FillInv, PlanSound,
         Planned, NothingHandedOn, FilledAboveFloor, HasSwapped, Measured, BurnsInv
<1>4. QED
  BY <1>1, <1>2, <1>3, Zenon DEF Next

\* The invariant of the legs holds all along.
LEMMA LegsAlways == RailSpec => []LegsInv
<1>1. RailInit => LegsInv
  BY LegsInvInit DEF RailInit
<1>2. QED
  BY <1>1, LegsInvStep, PTL DEF RailSpec

(***************************************************************************)
(* Whatever the venues answer and however prices move between the check,   *)
(* the plan and the swap, a transfer recorded as swapped was filled at its *)
(* floor, and at what the mid allowed where that is checked (liquidity.ts, *)
(* dex.ts); through LI.FI as long as no other transfer is at its legs.     *)
(***************************************************************************)
THEOREM FloorsHold == RailSpec => []FloorHolds
<1>1. LegsInv => FloorHolds
  <2> SUFFICES ASSUME LegsInv, NEW t \in Transfers,
                      HasSwapped(t), plan[t].venue = "lifi" => world.alone
               PROVE  /\ filled[t] >= plan[t].minOut
                      /\ plan[t].venue \in Checked =>
                            filled[t] >= AmountIn[t] * (plan[t].mid - Deviation) - Slippage
    BY DEF FloorHolds
  <2>1. FillInv(t) /\ LegsTypeOK
    BY DEF LegsInv
  <2>2. filled[t] >= plan[t].minOut
    BY <2>1 DEF FillInv, FilledAboveFloor
  <2>3. ASSUME plan[t].venue \in Checked
        PROVE  filled[t] >= AmountIn[t] * (plan[t].mid - Deviation) - Slippage
    <3>1. /\ AmountIn[t] \in Int /\ Deviation \in Int /\ Slippage \in Int /\ filled[t] \in Int
          /\ plan[t].minOut \in Int /\ plan[t].mid \in Int
      <4>1. plan[t].minOut \in Int /\ plan[t].mid \in Prices \cup {NoRate} /\ filled[t] \in Int
        BY <2>1 DEF LegsTypeOK
      <4>2. Prices \cup {NoRate} \subseteq Int
        BY LiquidityAssumption DEF NoRate
      <4>3. AmountIn[t] \in Int /\ Deviation \in Int /\ Slippage \in Int
        BY LiquidityAssumption
      <4>4. QED
        BY <4>1, <4>2, <4>3
    <3>2. PICK low \in Int : low = AmountIn[t] * (plan[t].mid - Deviation) - Slippage
      BY <3>1
    <3>3. plan[t].minOut >= low
      BY <2>1, <2>3, <3>2 DEF FillInv, PlanSound
    <3>4. QED
      BY <2>2, <3>1, <3>2, <3>3
  <2>4. QED
    BY <2>2, <2>3
<1>2. QED
  BY <1>1, LegsAlways, PTL

(***************************************************************************)
(* What a measured fill hands to the bridge is never more than the fill    *)
(* itself brought in, where a transfer begins its legs only alone.         *)
(***************************************************************************)
THEOREM SettlementIsOwnFill == RailSpec => []SettledFromOwnFill
<1>1. LegsInv => SettledFromOwnFill
  BY DEF LegsInv, FillInv, Measured, SettledFromOwnFill
<1>2. QED
  BY <1>1, LegsAlways, PTL

(***************************************************************************)
(* A burn whose receipt came back is on its transfer's record when the     *)
(* bridge is through with the transfer, whether Iris attested it, the mint *)
(* went through or either of them failed (bridge/cctp.ts).  One whose      *)
(* receipt the wait did not return is not, and is no part of this.         *)
(***************************************************************************)
THEOREM BurnsAreOnRecord == RailSpec => []BurnIsOnRecord
<1>1. LegsInv => BurnIsOnRecord
  <2> SUFFICES ASSUME LegsInv, NEW t \in Transfers, burned[t] > 0,
                      pc[t] \in (Ended \ {"unheard"}) \cup {"payout"}
               PROVE  t \in onRecord
    BY DEF BurnIsOnRecord
  <2>1. pc[t] \notin Unrecorded
    BY DEF Ended, Unrecorded
  <2>2. QED
    BY <2>1 DEF LegsInv, BurnsInv
<1>2. QED
  BY <1>1, LegsAlways, PTL
(***************************************************************************)
(* The account, the tokens and the withdrawals stay what they are declared *)
(* to be; the account's balance in particular never goes below zero.       *)
(***************************************************************************)
THEOREM TreasuryIsTyped == RailSpec => []TreasuryTypeOK
<1>1. RailInit => TreasuryInv
  BY TreasuryInvInit DEF RailInit
<1>2. TreasuryInv => TreasuryTypeOK
  BY DEF TreasuryInv
<1>3. QED
  BY <1>1, <1>2, TreasuryInvStep, PTL DEF RailSpec
=============================================================================
