------------------------------ MODULE Admission ------------------------------
(***************************************************************************)
(* How one user's money gets to the orchestrator, or not: quotes, the      *)
(* requests that turn them into transfers under the daily cap, the device  *)
(* key, and the signed authorization (server.ts, fx.ts, and store.ts       *)
(* beneath them).                                                          *)
(*                                                                         *)
(* A handler runs undisturbed up to an await, so each is split there and   *)
(* nowhere else: POST /quotes at the rates, POST /transfers at the Safe's  *)
(* balance, /authorizer and /authorize at the passkey.  Transfers bear the *)
(* name of the request that made them.  What a transfer does once it is    *)
(* authorized is TransferOrchestrator's subject: here it moves its amount  *)
(* out of the Safe or fails, is paid or refunded, and stays closed.        *)
(***************************************************************************)
EXTENDS Standing, Sums

CONSTANTS
    Quotes,         \* the quotes that may be asked for
    Amount, Rail,   \* quote.sendEur and quote.rail, of each
    Posts,          \* requests to POST /transfers
    Submits,        \* requests to POST /transfers/:id/authorize
    DailyCap,       \* FX.DAILY_CAP_EUR
    Funds,          \* EURe in the Safe at first
    None,
    MaxDay          \* bound: midnights

ASSUME AdmissionAssumption ==
    /\ Amount \in [Quotes -> Nat \ {0}] /\ Rail \in [Quotes -> {"cash", "sepa"}]
    /\ {DailyCap, Funds, MaxDay} \subseteq Nat
    /\ None \notin Quotes /\ None \notin Posts

VARIABLES
    quotes,     \* store: status, and whether expiresAt has passed
    posting,    \* the quote a request to POST /transfers is suspended with
    posted,     \* the requests that have been answered
    transfers,  \* store: the transfer each request made, if it did
    submitting, \* the transfer an authorization is suspended with
    bound,      \* user.authorizerAddress is set
    safe,       \* chain: EURe in the Safe
    day

admission == <<quotes, posting, posted, transfers, submitting, bound, safe, day>>

-----------------------------------------------------------------------------
Released == {"FAILED", "REFUNDED"}
States == {"none", "CREATED", "DEBITED", "PAID"} \cup Released
QuoteStatus == {"none", "asked", "OPEN", "CONSUMED", "EXPIRED"}

\* late: the deadline the device signs has passed.  claim: authorizedAt is set,
\* and whether that was before the deadline.
NoTransfer ==
    [state |-> "none", quote |-> None, day |-> 0, late |-> FALSE, claim |-> "open", moved |-> FALSE]
TransferRecord ==
    [state : States, quote : Quotes \cup {None}, day : 0..MaxDay, late : BOOLEAN,
     claim : {"open", "in time", "late"}, moved : BOOLEAN]

AdmissionTypeOK ==
    /\ quotes \in [Quotes -> [status : QuoteStatus, late : BOOLEAN]]
    /\ posting \in [Posts -> Quotes \cup {None}] /\ posted \subseteq Posts
    /\ transfers \in [Posts -> TransferRecord]
    /\ submitting \in [Submits -> Posts \cup {None}]
    /\ bound \in BOOLEAN /\ safe \in Int /\ day \in 0..MaxDay

AdmissionInit ==
    /\ quotes = [q \in Quotes |-> [status |-> "none", late |-> FALSE]]
    /\ posting = [p \in Posts |-> None] /\ posted = {}
    /\ transfers = [p \in Posts |-> NoTransfer]
    /\ submitting = [s \in Submits |-> None]
    /\ bound \in BOOLEAN
    /\ safe = Funds
    /\ day = 0

Transfers == {p \in Posts : transfers[p].state # "none"}
AmountOf(p) == Amount[transfers[p].quote]
SetState(p, state) == transfers' = [transfers EXCEPT ![p].state = state]

-----------------------------------------------------------------------------
(* Quotes. *)

\* POST /quotes, and createQuote up to the rates.
AskQuote(q) ==
    /\ Approved
    /\ quotes[q].status = "none"
    /\ Amount[q] <= DailyCap
    /\ quotes' = [quotes EXCEPT ![q].status = "asked"]
    /\ UNCHANGED <<posting, posted, transfers, submitting, bound, safe, day>>

\* The rates arrive, or the request fails and leaves nothing behind.
QuoteAnswered(q) ==
    /\ quotes[q].status = "asked"
    /\ \E status \in {"OPEN", "none"} : quotes' = [quotes EXCEPT ![q].status = status]
    /\ UNCHANGED <<posting, posted, transfers, submitting, bound, safe, day>>

QuoteLapses(q) ==
    /\ quotes[q].status = "OPEN" /\ ~quotes[q].late
    /\ quotes' = [quotes EXCEPT ![q].late = TRUE]
    /\ UNCHANGED <<posting, posted, transfers, submitting, bound, safe, day>>

-----------------------------------------------------------------------------
(* From a quote to a transfer. *)

AmountsOf(chosen) == [p \in chosen |-> AmountOf(p)]

\* What counts against the budget of a day: failed and refunded transfers give
\* their part back.
Spending(d) == {p \in Transfers : transfers[p].day = d /\ transfers[p].state \notin Released}

\* Mutant: only what was debited counts.
DebitedToday == Total(AmountsOf({p \in Spending(day) : transfers[p].state # "CREATED"}))

\* safeFundedEurToday
UsedToday == Total(AmountsOf(Spending(day)))

CapAllows(amount) == UsedToday + amount <= DailyCap

\* POST /transfers with a quote that was open too long.
PostLapsed(p, q) ==
    /\ p \notin posted /\ posting[p] = None
    /\ quotes[q].status = "OPEN" /\ quotes[q].late
    /\ quotes' = [quotes EXCEPT ![q].status = "EXPIRED"]
    /\ posted' = posted \cup {p}
    /\ UNCHANGED <<posting, transfers, submitting, bound, safe, day>>

\* POST /transfers up to the Safe's balance.
Post(p, q) ==
    /\ p \notin posted /\ posting[p] = None
    /\ quotes[q].status = "OPEN" /\ ~quotes[q].late
    /\ Approved
    /\ posting' = [posting EXCEPT ![p] = q]
    /\ UNCHANGED <<quotes, posted, transfers, submitting, bound, safe, day>>

\* Mutant: a quote is consumed without asking again.
ConsumableUnlessLapsed(q) == quotes[q].status # "EXPIRED"

\* store.consumeQuote answers no when another request was faster.
Consumable(q) == quotes[q].status = "OPEN"

\* The balance arrives; everything from here to the end is one turn.
PostAnswered(p) ==
    LET q == posting[p] IN
    /\ q # None
    /\ posting' = [posting EXCEPT ![p] = None]
    /\ posted' = posted \cup {p}
    /\ IF safe >= Amount[q] /\ CapAllows(Amount[q]) /\ bound /\ Consumable(q)
       THEN /\ quotes' = [quotes EXCEPT ![q].status = "CONSUMED"]
            /\ transfers' = [transfers EXCEPT ![p] =
                   [NoTransfer EXCEPT !.state = "CREATED", !.quote = q, !.day = day]]
       ELSE UNCHANGED <<quotes, transfers>>
    /\ UNCHANGED <<submitting, bound, safe, day>>

\* POST /authorizer: the passkey's approval is awaited, the rest is one turn.
BindAuthorizer ==
    /\ Approved /\ ~bound
    /\ bound' = TRUE
    /\ UNCHANGED <<quotes, posting, posted, transfers, submitting, safe, day>>

-----------------------------------------------------------------------------
(* Authorization. *)

\* assertDeviceAuthorization: the terms, the recipient and the key do not change
\* once a transfer is made, and signatures are good; so the deadline remains.
DeviceAuthorized(p) == bound /\ ~transfers[p].late

\* store.claimAuthorization, with which the execution starts in the same turn.
Claim(p) ==
    IF transfers[p].state = "CREATED" /\ transfers[p].claim = "open"
    THEN transfers' = [transfers EXCEPT ![p].claim =
             IF DeviceAuthorized(p) THEN "in time" ELSE "late"]
    ELSE UNCHANGED transfers

\* POST /authorize: a bank payout awaits the passkey's approval of the redeem.
Submit(s, p) ==
    /\ submitting[s] = None
    /\ transfers[p].state = "CREATED" /\ ~transfers[p].late
    /\ Approved
    /\ IF Rail[transfers[p].quote] = "sepa"
       THEN submitting' = [submitting EXCEPT ![s] = p] /\ UNCHANGED transfers
       ELSE Claim(p) /\ UNCHANGED submitting
    /\ UNCHANGED <<quotes, posting, posted, bound, safe, day>>

\* The assertion is good, or it is refused and nothing was claimed.
Verified(s) ==
    /\ submitting[s] # None
    /\ submitting' = [submitting EXCEPT ![s] = None]
    /\ Claim(submitting[s]) \/ UNCHANGED transfers
    /\ UNCHANGED <<quotes, posting, posted, bound, safe, day>>

DeadlinePasses(p) ==
    /\ transfers[p].state = "CREATED" /\ ~transfers[p].late
    /\ transfers' = [transfers EXCEPT ![p].late = TRUE]
    /\ UNCHANGED <<quotes, posting, posted, submitting, bound, safe, day>>

\* The debit; a Safe that holds too little makes it revert.
Debit(p) ==
    /\ transfers[p].state = "CREATED" /\ transfers[p].claim = "in time"
    /\ safe >= AmountOf(p)
    /\ transfers' = [transfers EXCEPT ![p].state = "DEBITED", ![p].moved = TRUE]
    /\ safe' = safe - AmountOf(p)
    /\ UNCHANGED <<quotes, posting, posted, submitting, bound, day>>

Fail(p) ==
    /\ \/ transfers[p].state = "CREATED" /\ transfers[p].claim # "open"
       \/ transfers[p].state = "DEBITED"
    /\ SetState(p, "FAILED")
    /\ UNCHANGED <<quotes, posting, posted, submitting, bound, safe, day>>

Pay(p) ==
    /\ transfers[p].state = "DEBITED"
    /\ SetState(p, "PAID")
    /\ UNCHANGED <<quotes, posting, posted, submitting, bound, safe, day>>

Refund(p) ==
    /\ transfers[p].state = "FAILED"
    /\ SetState(p, "REFUNDED")
    /\ safe' = IF transfers[p].moved THEN safe + AmountOf(p) ELSE safe
    /\ UNCHANGED <<quotes, posting, posted, submitting, bound, day>>

Midnight ==
    /\ day < MaxDay
    /\ day' = day + 1
    /\ UNCHANGED <<quotes, posting, posted, transfers, submitting, bound, safe>>

-----------------------------------------------------------------------------
Admit ==
    \/ \E q \in Quotes :
          AskQuote(q) \/ QuoteAnswered(q) \/ QuoteLapses(q)
    \/ \E p \in Posts :
          \/ \E q \in Quotes : PostLapsed(p, q) \/ Post(p, q)
          \/ PostAnswered(p)
          \/ DeadlinePasses(p) \/ Debit(p) \/ Fail(p) \/ Pay(p) \/ Refund(p)
    \/ \E s \in Submits : (\E p \in Posts : Submit(s, p)) \/ Verified(s)
    \/ BindAuthorizer
    \/ Midnight

-----------------------------------------------------------------------------
(* Properties *)

\* Two requests with one quote never both make a transfer of it, though each
\* found it open before it waited for the balance.
QuoteSpentOnce ==
    \A p, r \in Transfers : transfers[p].quote = transfers[r].quote => p = r

\* However many requests are under way at once, what the transfers of one day
\* take, and have not released by failing, is within the daily cap.
CapIsKept == \A d \in 0..MaxDay : Total(AmountsOf(Spending(d))) <= DailyCap
=============================================================================
