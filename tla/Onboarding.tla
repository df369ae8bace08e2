----------------------------- MODULE Onboarding -----------------------------
(***************************************************************************)
(* How one user comes to hold an account that money can reach: identity    *)
(* review, the passkey and its Safe, the Monerium connection and the IBAN, *)
(* and the faucet's claim (server.ts, monerium-sandbox.ts, faucet.ts).  The *)
(* deployment is one where Monerium issues IBANs, with the custody gate on *)
(* and no automatic approval.                                              *)
(*                                                                         *)
(* Passkeys are numbered in the order of their registration, and each has  *)
(* one Safe, of the same number.  Monerium's IBAN for a Safe bears that    *)
(* number too, 0 is none, and Stranger is another customer's.              *)
(*                                                                         *)
(* Left out: names, profiles and the details shown beside a status, the    *)
(* pending ceremonies' five minutes, RSA passkeys (no Safe belongs to      *)
(* them), what the sandbox says of an address it cannot link, and what     *)
(* keeps a deployment from being prepared (Wallet).                        *)
(***************************************************************************)
EXTENDS Standing, Integers, FiniteSets

CONSTANTS
    Activations,    \* requests to POST /monerium/activate
    Completions,    \* requests to POST /passkey-safe/deployment/:requestId
    Hooks,          \* Sumsub's webhook deliveries
    MaxPasskeys,    \* bound: registrations
    MaxReviews,     \* bound: operator decisions
    MaxConnects,    \* bound: Monerium connections begun
    MaxTurns        \* bound: registrations, decisions, deliveries and connections together

ASSUME OnboardingAssumption ==
    /\ MaxPasskeys \in Nat \ {0}
    /\ {MaxReviews, MaxConnects, MaxTurns} \subseteq Nat

(***************************************************************************)
(*   meets     do reviews, connections and background jobs meet a running  *)
(*             activation or the wait for its IBAN?                        *)
(***************************************************************************)
VARIABLES
    setting,    \* [meets]; never changes
    passkey,    \* user.passkey, the latest registered; 0 is none
    address,    \* user.address
    iban, funding,      \* user.iban, user.funding.status
    moved,      \* history: the account went on to another Safe since its IBAN was asked for
    connected,  \* user.monerium holds the user's own tokens
    oauth,      \* user.moneriumConnect is there
    exchanging, \* the OAuth callback awaits Monerium
    deployed,   \* chain: Safes that exist
    linked, issued,     \* Monerium: Safes an IBAN is asked for, and has
    activation, \* POST /monerium/activate: where it is, whose token, IBANs read
    provisioning,       \* how often provisionFunding runs in the background
    polling,    \* refreshPendingIban: the Safe it asks for, and what it found
    hooks,      \* webhook deliveries: where each is
    completion, \* deployment requests: where each is, and for which Safe
    faucet,     \* user.faucet
    reviews, connects

person   == <<passkey, active, address, connected, oauth, exchanging, deployed>>
routing  == <<iban, funding, moved>>
monerium == <<linked, issued>>
granting == <<completion, faucet>>
onboarding == <<setting, person, routing, monerium, activation, provisioning, polling,
                hooks, granting, reviews, connects>>

-----------------------------------------------------------------------------
NoIban == 0
Stranger == -1
Safes == 1..MaxPasskeys
FundingStatus == {"kyc_pending", "provisioning", "error", "iban_pending", "active"}
Idle == [at |-> "idle", viaApp |-> FALSE, seen |-> {}]

OnboardingTypeOK ==
    /\ setting \in [meets : BOOLEAN]
    /\ passkey \in 0..MaxPasskeys /\ address \in 0..MaxPasskeys
    /\ iban \in Safes \cup {NoIban, Stranger} /\ funding \in FundingStatus /\ moved \in BOOLEAN
    /\ {connected, oauth, exchanging} \subseteq BOOLEAN /\ deployed \subseteq Safes
    /\ linked \subseteq Safes /\ issued \subseteq linked
    /\ activation \in [Activations -> [at : {"idle", "linking", "reading", "answering"},
                                       viaApp : BOOLEAN, seen : SUBSET (Safes \cup {Stranger})]]
    /\ provisioning \in Nat
    /\ polling \in [asks : 0..MaxPasskeys, found : BOOLEAN]
    /\ hooks \in [Hooks -> {"sent", "approved", "rejected", "manual_review", "done"}]
    /\ completion \in [Completions -> [at : {"idle", "deploying", "granting", "done"},
                                       safe : 0..MaxPasskeys]]
    /\ faucet \in BOOLEAN
    /\ reviews \in 0..MaxReviews /\ connects \in 0..MaxConnects

\* POST /users: an account without wallet, whose identity is to be reviewed; or
\* one whose first Safe is there, where active says so.
OnboardingInit ==
    /\ setting \in [meets : BOOLEAN]
    /\ passkey = (IF active THEN 1 ELSE 0) /\ address = passkey
    /\ iban = NoIban /\ funding = "kyc_pending" /\ moved = FALSE
    /\ connected = FALSE /\ oauth = FALSE /\ exchanging = FALSE /\ deployed = {s \in Safes : s <= passkey}
    /\ linked = {} /\ issued = {}
    /\ activation = [w \in Activations |-> Idle]
    /\ provisioning = 0
    /\ polling = [asks |-> 0, found |-> FALSE]
    /\ hooks = [h \in Hooks |-> "sent"]
    /\ completion = [c \in Completions |-> [at |-> "idle", safe |-> 0]]
    /\ faucet = FALSE
    /\ reviews = 0 /\ connects = 0

-----------------------------------------------------------------------------
\* custodyBlockerBeforeFunding
CustodyBlocked == passkey = 0 \/ ~active \/ address # passkey

Activating == \E w \in Activations : activation[w].at # "idle"
Undisturbed == ~Activating /\ funding # "iban_pending" /\ polling.asks = 0
InBackground == provisioning > 0 \/ exchanging \/ \E h \in Hooks : hooks[h] \in Decisions
MayMeet == setting.meets \/ Undisturbed

Turns == passkey + reviews + connects + Cardinality({h \in Hooks : hooks[h] # "sent"})

-----------------------------------------------------------------------------
(* Identity. *)

\* Whoever is approved without a Safe waits for one, and has no IBAN.
fundableUserPatch ==
    /\ funding' = IF CustodyBlocked THEN "error" ELSE "provisioning"
    /\ iban' = IF CustodyBlocked THEN NoIban ELSE iban

queueSandboxProvisioning ==
    provisioning' = provisioning + IF CustodyBlocked THEN 0 ELSE 1

\* applyKycDecision
Decide(decision) ==
    /\ kyc' = decision
    /\ \/ decision = "approved" /\ fundableUserPatch /\ queueSandboxProvisioning
       \/ decision # "approved" /\ funding' = "kyc_pending" /\ UNCHANGED <<iban, provisioning>>
    /\ UNCHANGED moved

\* POST /kyc/review.
Review(decision) ==
    /\ MayMeet /\ reviews < MaxReviews /\ Turns < MaxTurns
    /\ reviews' = reviews + 1
    /\ Decide(decision)
    /\ UNCHANGED <<setting, person, monerium, activation, polling, hooks, granting,
                   connects>>

\* The webhook, up to reading the applicant.
HookArrives(h, decision) ==
    /\ MayMeet /\ Turns < MaxTurns
    /\ hooks[h] = "sent"
    /\ hooks' = [hooks EXCEPT ![h] = decision]
    /\ UNCHANGED <<kyc, setting, person, routing, monerium, activation, provisioning,
                   polling, granting, reviews, connects>>

\* The applicant was read, or could not be; the decision is applied either way.
HookDecides(h) ==
    /\ MayMeet
    /\ hooks[h] \in Decisions
    /\ hooks' = [hooks EXCEPT ![h] = "done"]
    /\ Decide(hooks[h])
    /\ UNCHANGED <<setting, person, monerium, activation, polling, granting, reviews,
                   connects>>

\* provisionFunding: whatever it finds of the Safe, the IBAN takes a passkey.
Provisioned ==
    /\ provisioning > 0
    /\ provisioning' = provisioning - 1
    /\ funding' = "error"
    /\ UNCHANGED <<kyc, setting, person, iban, moved, monerium, activation, polling, hooks,
                   granting, reviews, connects>>

\* POST /sumsub/start and POST /funding-onboarding-path.
ChoosePath ==
    /\ MayMeet /\ ~Approved
    /\ funding' = "kyc_pending"
    /\ UNCHANGED <<kyc, setting, person, iban, moved, monerium, activation, provisioning,
                   polling, hooks, granting, reviews, connects>>

-----------------------------------------------------------------------------
(* The passkey, its Safe and the faucet. *)

\* POST /passkey.  The Safe of a new passkey is only planned.
RegisterPasskey ==
    /\ passkey < MaxPasskeys /\ Turns < MaxTurns
    /\ passkey' = passkey + 1
    /\ active' = FALSE
    /\ UNCHANGED <<kyc, setting, address, connected, oauth, exchanging, deployed,
                   routing, monerium, activation, provisioning, polling, hooks,
                   granting, reviews, connects>>

\* The account is the Safe of the latest passkey from now on.
Settles ==
    /\ address' = passkey /\ active' = TRUE
    /\ moved' = (moved \/ (address # passkey /\ (iban # NoIban \/ polling.asks # 0)))

\* POST /passkey-safe/deployment finds the Safe on the chain already.
AdoptDeployed ==
    /\ MayMeet
    /\ passkey \in deployed /\ ~active
    /\ Settles
    /\ UNCHANGED <<kyc, setting, passkey, connected, oauth, exchanging, deployed,
                   iban, funding, monerium, activation, provisioning, polling, hooks,
                   granting, reviews, connects>>

\* POST /passkey-safe/deployment/:requestId up to the submission.  The pending
\* request is deleted only afterwards, so a repeat may start as well; so may a
\* second request prepared meanwhile, for nothing asks what the plan's status is.
Complete(c) ==
    /\ completion[c].at = "idle"
    /\ passkey > 0
    /\ completion' = [completion EXCEPT ![c] = [at |-> "deploying", safe |-> passkey]]
    /\ UNCHANGED <<kyc, setting, person, routing, monerium, activation, provisioning,
                   polling, hooks, faucet, reviews, connects>>

\* faucetFundSafe claims the grant before its first await.
FaucetClaims(c) ==
    /\ completion' = [completion EXCEPT ![c].at = IF faucet THEN "done" ELSE "granting"]
    /\ faucet' = TRUE

\* The Safe is there; the plan that becomes active is the one the user has by now.
Completed(c) ==
    /\ MayMeet
    /\ completion[c].at = "deploying"
    /\ deployed' = deployed \cup {completion[c].safe}
    /\ Settles
    /\ funding' = IF Approved /\ iban = NoIban /\ funding # "active" THEN "provisioning" ELSE funding
    /\ FaucetClaims(c)
    /\ UNCHANGED <<kyc, setting, passkey, connected, oauth, exchanging, iban, monerium,
                   activation, provisioning, polling, hooks, reviews, connects>>

\* The bundler refuses, or the old Safe still holds money; or the Safe is there
\* and the answer never came.
CompletionFails(c) ==
    /\ completion[c].at = "deploying"
    /\ completion' = [completion EXCEPT ![c] = [at |-> "idle", safe |-> 0]]
    /\ deployed' \in {deployed, deployed \cup {completion[c].safe}}
    /\ UNCHANGED <<kyc, setting, passkey, active, address, connected, oauth, exchanging,
                   routing, monerium, activation, provisioning, polling, hooks, faucet,
                   reviews, connects>>

\* The grant was made, or it was not and the claim is released: the deployer is
\* dry, or the call fails, or only the wait for its receipt.
FaucetAnswers(c) ==
    /\ completion[c].at = "granting"
    /\ completion' = [completion EXCEPT ![c].at = "done"]
    /\ faucet' \in BOOLEAN
    /\ UNCHANGED <<kyc, setting, person, routing, monerium, activation, provisioning,
                   polling, hooks, reviews, connects>>

-----------------------------------------------------------------------------
(* The user's own Monerium account. *)

\* POST /monerium/connect/start.
ConnectStart ==
    /\ MayMeet /\ connects < MaxConnects /\ Turns < MaxTurns
    /\ connects' = connects + 1
    /\ oauth' = TRUE /\ funding' = "kyc_pending"
    /\ UNCHANGED <<kyc, setting, passkey, active, address, connected, exchanging,
                   deployed, iban, moved, monerium, activation, provisioning, polling, hooks,
                   granting, reviews>>

\* The callback, up to the exchange of the code; or its ten minutes are over.
Callback ==
    /\ oauth
    /\ \/ oauth' = FALSE /\ UNCHANGED exchanging
       \/ exchanging' = TRUE /\ UNCHANGED oauth
    /\ UNCHANGED <<kyc, setting, passkey, active, address, connected, deployed, routing,
                   monerium, activation, provisioning, polling, hooks, granting,
                   reviews, connects>>

\* It ends whatever was begun or dropped meanwhile, or it fails.
CallbackEnds(succeeds) ==
    /\ MayMeet
    /\ exchanging /\ exchanging' = FALSE
    /\ oauth' = (oauth /\ ~succeeds)
    /\ connected' = (connected \/ succeeds)
    /\ funding' = IF succeeds THEN "provisioning" ELSE funding
    /\ UNCHANGED <<kyc, setting, passkey, active, address, deployed, iban, moved, monerium,
                   activation, provisioning, polling, hooks, granting, reviews,
                   connects>>

\* DELETE /monerium/connect.
Disconnect ==
    /\ MayMeet
    /\ connected' = FALSE /\ oauth' = FALSE /\ funding' = "kyc_pending"
    /\ UNCHANGED <<kyc, setting, passkey, active, address, exchanging, deployed, iban,
                   moved, monerium, activation, provisioning, polling, hooks, granting,
                   reviews, connects>>

-----------------------------------------------------------------------------
(* The IBAN. *)

\* moneriumLinkAccessToken: whoever has no tokens is linked by the application.
ViaApp == ~connected

\* POST /monerium/activate, up to linking the address.
Activate(w) ==
    /\ setting.meets \/ ~InBackground
    /\ activation[w].at = "idle"
    /\ ~CustodyBlocked
    /\ activation' = [activation EXCEPT ![w] = [Idle EXCEPT !.at = "linking", !.viaApp = ViaApp]]
    /\ UNCHANGED <<kyc, setting, person, routing, monerium, provisioning, polling,
                   hooks, granting, reviews, connects>>

\* moneriumAccessToken: an expired token is renewed and stored, also where the
\* user has disconnected meanwhile.
RenewsToken(w) ==
    /\ activation[w].at = "linking" /\ ~activation[w].viaApp
    /\ ~connected /\ connected' = TRUE
    /\ UNCHANGED <<kyc, setting, passkey, active, address, oauth, exchanging, deployed,
                   routing, monerium, activation, provisioning, polling, hooks, granting,
                   reviews, connects>>

\* POST /addresses and POST /ibans; "already" counts as done.
Links(w) ==
    /\ activation[w].at = "linking"
    /\ linked' = linked \cup {address}
    /\ activation' = [activation EXCEPT ![w].at = "reading"]
    /\ UNCHANGED <<kyc, setting, person, routing, issued, provisioning, polling, hooks,
                   granting, reviews, connects>>

\* Monerium refuses, or does not answer; "cannot link" marks the account.
LinkFails(w) ==
    /\ activation[w].at = "linking"
    /\ activation' = [activation EXCEPT ![w] = Idle]
    /\ funding' \in IF address \in linked THEN {funding} ELSE {funding, "error"}
    /\ UNCHANGED <<kyc, setting, person, iban, moved, monerium, provisioning, polling,
                   hooks, granting, reviews, connects>>

\* Monerium issues it when it likes.
Issue(s) ==
    /\ s \in linked \ issued
    /\ issued' = issued \cup {s}
    /\ UNCHANGED <<kyc, setting, person, routing, linked, activation, provisioning,
                   polling, hooks, granting, reviews, connects>>

\* readMoneriumAccountSnapshot: there are IBANs of other addresses as well.
ReadsSnapshot(w) ==
    /\ activation[w].at = "reading"
    /\ activation' = [activation EXCEPT ![w].at = "answering",
                                             ![w].seen = issued \cup {Stranger}]
    /\ UNCHANGED <<kyc, setting, person, routing, monerium, provisioning, polling,
                   hooks, granting, reviews, connects>>

\* Mutant: where none matches, the first one there is.
IbanOrFirst(seen) ==
    IF address \in seen THEN address ELSE CHOOSE s \in seen : TRUE

\* Address-matched only.
IbanFor(seen) == IF address \in seen THEN address ELSE NoIban

Activated(w) ==
    /\ activation[w].at = "answering"
    /\ activation' = [activation EXCEPT ![w] = Idle]
    /\ iban' = IbanFor(activation[w].seen)
    /\ moved' = (moved /\ polling.asks \notin {0, address})
    /\ funding' = IF iban' # NoIban THEN "active" ELSE "iban_pending"
    /\ kyc' = IF activation[w].viaApp THEN kyc ELSE "approved"
    /\ UNCHANGED <<setting, person, monerium, provisioning, polling, hooks, granting,
                   reviews, connects>>

\* refreshPendingIban, from the poller or from GET /users/:id.
Polls ==
    /\ polling.asks = 0 /\ funding = "iban_pending"
    /\ polling' = [asks |-> address, found |-> address \in issued]
    /\ UNCHANGED <<kyc, setting, person, routing, monerium, activation, provisioning,
                   hooks, granting, reviews, connects>>

\* Mutant: the IBAN is stored, the status is left.
PolledQuietly ==
    /\ polling.asks # 0
    /\ polling' = [asks |-> 0, found |-> FALSE]
    /\ iban' = IF polling.found THEN polling.asks ELSE iban
    /\ UNCHANGED <<kyc, setting, person, funding, moved, monerium, activation, provisioning,
                   hooks, granting, reviews, connects>>

Polled ==
    /\ polling.asks # 0
    /\ polling' = [asks |-> 0, found |-> FALSE]
    /\ IF polling.found
       THEN iban' = polling.asks /\ funding' = "active" /\ UNCHANGED moved
       ELSE UNCHANGED routing
    /\ UNCHANGED <<kyc, setting, person, monerium, activation, provisioning, hooks,
                   granting, reviews, connects>>

-----------------------------------------------------------------------------
Onboard ==
    \/ \E d \in Decisions : Review(d) \/ \E h \in Hooks : HookArrives(h, d)
    \/ \E h \in Hooks : HookDecides(h)
    \/ Provisioned
    \/ RegisterPasskey \/ AdoptDeployed \/ ChoosePath
    \/ \E c \in Completions :
          Complete(c) \/ Completed(c) \/ CompletionFails(c) \/ FaucetAnswers(c)
    \/ ConnectStart \/ Callback \/ Disconnect \/ \E succeeds \in BOOLEAN : CallbackEnds(succeeds)
    \/ \E w \in Activations :
          Activate(w) \/ RenewsToken(w) \/ Links(w) \/ LinkFails(w) \/ ReadsSnapshot(w)
            \/ Activated(w)
    \/ \E s \in Safes : Issue(s)
    \/ Polls \/ Polled

\* What goes on by itself once begun: handlers, the poller, Monerium.
OnboardFairness ==
    /\ \A w \in Activations :
          /\ WF_onboarding(Links(w) \/ LinkFails(w)) /\ WF_onboarding(ReadsSnapshot(w))
          /\ WF_onboarding(Activated(w))
    /\ WF_onboarding(Polls) /\ WF_onboarding(Polled)
    /\ \A s \in Safes : WF_onboarding(Issue(s))

-----------------------------------------------------------------------------
(* Properties *)

\* The IBAN shown to a user is one that Monerium issued for a Safe of the user's, and
\* for the one that is the user's account, whatever activations, polls, reviews and
\* moves of the account meet: what is paid to it arrives there and nowhere else.
\* Except that an account that goes on to a later passkey's Safe while it shows an
\* IBAN, or a poll asks for one, may go on showing that of the Safe it left
\* (server.ts:2689), until an activation is answered.
IbanIsOwn ==
    iban # NoIban => iban \in issued /\ iban \in 1..address /\ (~moved => iban = address)

\* An account that waits for its IBAN comes to have it and to be active,
\* where no review or connection interferes with the wait.
IbanArrives == (~setting.meets /\ funding = "iban_pending") ~> (funding = "active" /\ iban = address)
=============================================================================
