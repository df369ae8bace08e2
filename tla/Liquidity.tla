------------------------------ MODULE Liquidity ------------------------------
(***************************************************************************)
(* How a transfer's EURe become USDC: the check of the agreed rate, the    *)
(* plan that a venue prices and the fill (liquidity.ts, dex.ts, rates.ts,  *)
(* executeCashTransfer in orchestrator.ts).                                *)
(*                                                                         *)
(* Every transfer's tokens lie at one address, the orchestrator's, and so  *)
(* do the allowances: what a venue may take is what was approved last, and *)
(* what a fill delivered is measured by a balance that other handlers      *)
(* change.  A handler stands at pc[t] between two awaits.                  *)
(*                                                                         *)
(* Prices are USDC for one EURe in units coarse enough for TLC; tolerances *)
(* that the code gives in basis points are units of price here.  Quotes of *)
(* several venues are asked in parallel and taken as one moment.           *)
(***************************************************************************)
EXTENDS Integers, Sequences, SequencesExt, FiniteSets, FiniteSetsExt

CONSTANTS
    Transfers,      \* cash transfers whose EURe were debited
    AmountIn,       \* the EURe of each, without the fee
    Worlds,         \* the deployments and schedules considered, see below
    Venues,         \* LIQUIDITY.VENUES, what "best" asks, in its order
    Prices, Seed,   \* prices there may be; the one every quote was locked at
    Binding,        \* FX.QUOTE_BINDING_BPS
    Slippage,       \* DEX_SLIPPAGE_BPS, MAX_SLIPPAGE_BPS
    Deviation,      \* DEX_MAX_MID_DEVIATION_BPS
    MaxMoves        \* bound: how often a price moves

AllVenues == {"fx-swapper", "rfq", "cow", "dex", "lifi"}

(***************************************************************************)
(*   provider  LIQUIDITY.PROVIDER                                          *)
(*   treasury  LIQUIDITY.SURPLUS_POLICY is "treasury"                      *)
(*   alone     does a transfer begin only when no other is at its legs?    *)
(*   live      CCTP.live                                                   *)
(***************************************************************************)
ASSUME LiquidityAssumption ==
    /\ AmountIn \in [Transfers -> Nat \ {0}]
    /\ Worlds \subseteq [provider : AllVenues \cup {"best"}, treasury : BOOLEAN,
                         alone : BOOLEAN, live : BOOLEAN]
    /\ Venues \in Seq(AllVenues) /\ Venues # <<>>
    /\ Prices \subseteq Nat \ {0} /\ Seed \in Prices
    /\ {Binding, Slippage, Deviation, MaxMoves} \subseteq Nat

VARIABLES
    world,       \* never changes
    price,       \* what each venue trades at
    mid,         \* the market's mid, as the feed has it
    cached,      \* rates.ts: the mid last fetched while it is fresh, or NoRate
    pc,          \* of each transfer: the await its handler is suspended at
    plan,        \* transfer.liquidity, or NoPlan
    before,      \* the balance read before a fill, in the handler's hands
    amountOut,   \* execution.amountOut, in the handler's hands
    usdcOut,     \* transfer.usdcOut
    pool,        \* chain: the orchestrator's USDC
    allowance,   \* chain: EURe each venue may take from the orchestrator
    filled,      \* history: what the transfer's own fill brought in
    moves

market == <<price, mid, cached, moves>>
fills  == <<plan, before, amountOut, usdcOut, pool, allowance, filled>>

NoRate == 0
NoPlan == [venue |-> "none", expectedOut |-> 0, minOut |-> 0, mid |-> NoRate]

\* The awaits of a fill; those that follow are for CashLegs to say.  "unheard" is
\* a failure like any other, of a transfer whose burn is on chain.
FillPc == {"bind", "quote", "before", "approve", "swap", "swapped"}
Ended == {"done", "failed", "review", "unheard"}

LiquidityTypeOK ==
    /\ world \in Worlds
    /\ price \in [AllVenues -> Prices] /\ mid \in Prices /\ cached \in Prices \cup {NoRate}
    /\ plan \in [Transfers -> [venue : AllVenues \cup {"none"}, expectedOut : Nat, minOut : Int,
                               mid : Prices \cup {NoRate}]]
    /\ before \in [Transfers -> Nat]
    /\ amountOut \in [Transfers -> Nat] /\ usdcOut \in [Transfers -> Nat]
    /\ pool \in Nat /\ allowance \in [AllVenues -> Nat]
    /\ filled \in [Transfers -> Nat]
    /\ moves \in 0..MaxMoves

LiquidityInit ==
    /\ world \in Worlds
    /\ price = [v \in AllVenues |-> Seed] /\ mid = Seed /\ cached = NoRate
    /\ pc = [t \in Transfers |-> "bind"]
    /\ plan = [t \in Transfers |-> NoPlan]
    /\ before = [t \in Transfers |-> 0]
    /\ amountOut = [t \in Transfers |-> 0] /\ usdcOut = [t \in Transfers |-> 0]
    /\ pool = 0 /\ allowance = [v \in AllVenues |-> 0]
    /\ filled = [t \in Transfers |-> 0] /\ moves = 0

-----------------------------------------------------------------------------
Await(t, p) == pc' = [pc EXCEPT ![t] = p]
Fail(t) == Await(t, "failed")

Asked == IF world.provider = "best" THEN Venues ELSE <<world.provider>>

(* The market.                                                             *)

PriceMoves ==
    /\ moves < MaxMoves /\ moves' = moves + 1
    /\ \/ /\ \E v \in ToSet(Asked), p \in Prices : price' = [price EXCEPT ![v] = p]
          /\ UNCHANGED mid
       \/ mid' \in Prices /\ UNCHANGED price
    /\ UNCHANGED <<world, cached, pc, plan, before, amountOut, usdcOut, pool, allowance, filled>>

\* RATES.TTL_MS are over.
RateAges ==
    /\ cached # NoRate /\ cached' = NoRate
    /\ UNCHANGED <<world, price, mid, moves, pc, fills>>

\* midRates: the cached rate while it is fresh, else the feed's.
MidRate == IF cached # NoRate THEN cached ELSE mid

Distance(a, b) == IF a < b THEN b - a ELSE a - b

Checked == {"dex", "lifi"}     \* the venues that ask assertPriceSane
Commits == {"rfq"}             \* a maker, bound to what it quoted
Refuses == {"cow"}             \* quotes, and does not execute

\* assertPriceSane: does the venue's price agree with the independent mid?
PriceSane(v) == v \in Checked => Distance(price[v], MidRate) <= Deviation

\* What may answer.  Any of them may fail to, and the feed may.
Answers == SUBSET {v \in ToSet(Asked) : PriceSane(v)}

\* A question to a checked venue leaves its mid in the cache.
MidFetched == cached' \in IF ToSet(Asked) \cap Checked = {} THEN {cached} ELSE {cached, MidRate}

\* The largest answer, the first of equals.
Best(answered) ==
    LET best == Max({price[v] : v \in answered})
    IN  Asked[SelectInSeq(Asked, LAMBDA v : v \in answered /\ price[v] = best)]

\* The rate without commitment that a provider names: a small quote of its own.
IndicativeRate(answered) == price[Best(answered)]

-----------------------------------------------------------------------------
(* Checking and planning.                                                  *)

MayBegin == world.alone => \A u \in Transfers : pc[u] \in Ended \cup {"bind"}

WithinBinding(live) == Distance(live, Seed) <= Binding

\* assertQuoteRateBinding: the live rate against the one the quote was made at.
Bind(t) ==
    /\ pc[t] = "bind" /\ MayBegin
    /\ \E answered \in Answers :
          IF answered # {} /\ WithinBinding(IndicativeRate(answered))
          THEN Await(t, "quote") ELSE Fail(t)
    /\ MidFetched
    /\ UNCHANGED <<world, price, mid, moves, fills>>

\* What venue v quotes for the amount.
PlanWith(t, v) ==
    [venue |-> v, expectedOut |-> AmountIn[t] * price[v],
     minOut |-> AmountIn[t] * price[v] - Slippage,
     mid |-> IF v \in Checked THEN MidRate ELSE NoRate]

\* prepareTransferLiquidity, the plan stored, and execute() up to its first
\* await: an expired quote and CoW go no further.
Quote(t) ==
    /\ pc[t] = "quote"
    /\ \/ Fail(t) /\ UNCHANGED plan            \* no venue would quote
       \/ \E answered \in Answers \ {{}}, expired \in BOOLEAN :
             LET v == Best(answered)
             IN  /\ plan' = [plan EXCEPT ![t] = PlanWith(t, v)]
                 /\ Await(t, IF expired \/ v \in Refuses THEN "failed"
                             ELSE IF v \in Checked THEN "before" ELSE "approve")
    /\ MidFetched
    /\ UNCHANGED <<world, price, mid, moves, before, amountOut, usdcOut, pool, allowance,
                   filled>>

-----------------------------------------------------------------------------
(* Filling.                                                                *)

ReadBefore(t) ==
    /\ pc[t] = "before"
    /\ before' = [before EXCEPT ![t] = pool]
    /\ Await(t, "approve")
    /\ UNCHANGED <<world, market, plan, amountOut, usdcOut, pool, allowance, filled>>

\* The approval replaces whatever was approved before, for whomever.
Approve(t) ==
    /\ pc[t] = "approve"
    /\ allowance' = [allowance EXCEPT ![plan[t].venue] = AmountIn[t]]
    /\ Await(t, "swap")
    /\ UNCHANGED <<world, market, plan, before, amountOut, usdcOut, pool, filled>>

\* What the venue may pay now: a pool its price if that is not below the floor,
\* a maker what it committed to.
Payable(t) ==
    LET p == plan[t]
        now == AmountIn[t] * price[p.venue]
    IN  IF p.venue \in Commits THEN p.minOut..p.expectedOut
        ELSE IF now >= p.minOut THEN {now} ELSE {}

Swap(t) ==
    LET v == plan[t].venue IN
    /\ pc[t] = "swap"
    /\ allowance[v] >= AmountIn[t]
    /\ \E out \in Payable(t) : /\ pool' = pool + out
                              /\ filled' = [filled EXCEPT ![t] = out]
    /\ allowance' = [allowance EXCEPT ![v] = @ - AmountIn[t]]
    /\ Await(t, "swapped")
    /\ UNCHANGED <<world, market, plan, before, amountOut, usdcOut>>

\* It reverts, for its price, for the allowance or for a replica that lags.
\* Nobody looks at the receipt of a LI.FI fill.
SwapReverts(t) ==
    /\ pc[t] = "swap"
    /\ IF plan[t].venue = "lifi" THEN Await(t, "swapped") ELSE Fail(t)
    /\ UNCHANGED <<world, market, fills>>

\* Any other call on the way throws.
FillThrows(t) ==
    /\ pc[t] \in {"before", "approve"}
    /\ Fail(t)
    /\ UNCHANGED <<world, market, fills>>

\* applySurplus
Settled(t, delivered) ==
    IF world.treasury /\ delivered > plan[t].expectedOut THEN plan[t].expectedOut ELSE delivered

\* Mutant: the floor is for the router to enforce.
DeliveredUnchecked(t) == {pool - before[t]}

\* What a measured fill seems to have delivered, if that is not too little.
Delivered(t) == {d \in {pool - before[t]} : d >= plan[t].minOut}

\* Mutant: the plan's figure is as good as the balance.
ReceivedAsPlanned(t) == {plan[t].expectedOut}

\* What execute() returns as amountOut, if it does not throw.
Received(t) ==
    IF plan[t].venue \in Checked THEN {Settled(t, d) : d \in Delivered(t)} ELSE {plan[t].expectedOut}

\* The receipt, the balance after it, and SWAPPED with the plan's usdcOut.
Swapped(t) ==
    /\ pc[t] = "swapped"
    /\ \/ /\ Received(t) = {} /\ Fail(t)
          /\ UNCHANGED <<amountOut, usdcOut>>
       \/ \E out \in Received(t) :
             /\ amountOut' = [amountOut EXCEPT ![t] = out]
             /\ usdcOut' = [usdcOut EXCEPT ![t] = plan[t].expectedOut]
             /\ Await(t, "bridge")
    /\ UNCHANGED <<world, market, plan, before, pool, allowance, filled>>

FillNext ==
    \/ PriceMoves \/ RateAges
    \/ \E t \in Transfers :
          \/ Bind(t) \/ Quote(t) \/ ReadBefore(t) \/ Approve(t) \/ Swap(t)
          \/ SwapReverts(t) \/ FillThrows(t) \/ Swapped(t)
=============================================================================
