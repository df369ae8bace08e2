# Formal models of transF

transF sends euros from a user's Safe wallet to a recipient: as cash at a MoneyGram counter (the
cash rail) or as a SEPA payout (the SEPA rail). A Node API drives each transfer through
transactions on two chains, Circle's CCTP bridge, a SEP-24 anchor and Monerium, and has to know at
every moment whose money is where, also after a failed call, a lost receipt or a restart. This
directory models the parts where that can go wrong, checks them with TLC and proves with TLAPS every
safety property that it checks.

Paths below are relative to `src/services/api/src` unless they begin with `contracts`.

## 1. Inventory

| component | state it keeps | operations | talks to |
|---|---|---|---|
| Transfer orchestrator, `orchestrator.ts` | the transfer's state, txs, refund (in the store) | executeTransfer, failAndCompensate, compensateTransfer, sweepStrandedTransfers, settlePickup | Safe, swapper, escrow, CCTP, anchor; called by server handlers and timers |
| Anchor payout driver, `orchestrator.ts` refreshPayout, `adapters/moneygram.ts`, `stellar/anchor.ts` | pickup and its payment hash, a map of refreshes in flight | refreshPayout, fundAndRefreshAnchorPickup, sweepAnchorPayouts | anchor (HTTP), Stellar ledger; called by browsers and a timer |
| SEPA rail, `orchestrator.ts`, `adapters/monerium*.ts`, `sepa.ts` | redeem order of a transfer, processed order ids, OAuth token | redeem, pollRedeemOrdersOnce, mirrorOrder from webhook and poll | Monerium (HTTP, webhook) |
| Crypto deposits, `adapters/crypto-deposits.ts`, `candide-forwarder.ts` | deposits, a block cursor per chain | poll logs, convert, sweep | chain logs, liquidity provider |
| Liquidity, `liquidity.ts`, `dex.ts`, `fx.ts`, `rates.ts` | the orchestrator's allowance, a cached rate | quote, execute, provider choice | FxSwapper, DEX, RFQ, LI.FI |
| Bridge, `bridge/cctp.ts` | the plan of a burn | approve, burn, wait for the attestation, mint | Circle, two chains |
| Wallet, `wallet/candide.ts`, `chain.ts` | nonces on chain | debit by allowance, send, wait for receipts | Safe modules, bundler |
| Server, `server.ts` | quotes, sessions, authorizations | create and authorize transfers, webhooks, timers, daily cap | everything |
| Store, `store.ts` | all records, on disk after every write | add, update, mark processed | file |
| Recovery, `recovery.ts`, `recovery-signer.ts` | recovery requests | request, approve, cancel, finalise | guardian module |
| Passkeys and sessions, `webauthn.ts`, `server.ts` | challenges, the passkey with its signature count, sessions | issue and spend challenges, register, replace, sign in, approve, link | browser, Monerium |
| Receipts, `receipt.ts` | shares with their fields, expiry and revocation | share, edit, revoke, build the page | browser |
| Faucet, reconciler, country policy | a claim per user; nothing; a table | grant; report; look up | chain |
| AdminTimelock, `contracts/src/AdminTimelock.sol` | owners with epochs, threshold, delay, operations | queue, confirm, execute, cancel, self-administration | owns escrow and swapper |
| BridgeEscrow, `contracts/src/BridgeEscrow.sol` | a status per transfer | lock, settle, release, roles | orchestrator, timelock |
| FxSwapper, `contracts/src/FxSwapper.sol` | rates, inventory | swap both ways, withdraw, pause | orchestrator, timelock |
| KYC, pay links, QR codes, pages, scripts | presentation and request signing | - | - |

Components interact in three ways: by calls that are awaited (every await is a point where another
handler, a sweep or a crash may come in between), through the store's records, which are read before
an await and written after it, and through money that is pooled: every transfer's EURe and USDC lie
at one orchestrator address.

What is hard, and what makes each part correct:

- **Orchestrator.** Each leg takes effect on chain before it is recorded. A sweep, a retry or a
  restart decides from the records alone. Right means: one debit per authorization; a refund or a
  payout but not both; one refund; refunds paid with the transfer's own money; records that say
  what happened; and no transfer left in the middle.
- **Anchor payout.** Browsers and timers refresh the same payout, a payment's outcome can be
  uncertain, the anchor moves on its own. Right means: one payment; no refund after it; PAID only
  for collected cash; collected cash closes the transfer, with or without a browser.
- **Timelock.** Votes, removals, additions and threshold changes land in any order. Right means: a
  vote ends with its voter's term, owners are never locked out, execution is carried and late
  enough, closed operations stay closed (proved, see section 4).
- **SEPA rail, deposits.** Webhook and poll, or two overlapping polls, see the same event; a
  conversion is measured by a balance others change. Right means: each order or deposit is credited
  once, none is passed over by the cursor.
- **Recovery, passkeys, faucet.** Check, await, then write. Right means once per request; what the
  guardian's signer took is on the record; the owner can go on signing in.
- **Wallet.** The plan on disk and the Safe on chain change one after the other. Right means: an
  active Safe exists and is the account, and the allowance on show is one a debit finds.
- **Treasury.** All senders share one Stellar account, its sequence numbers and a token cache. Right
  means: each withdrawal is its sender's, and a refunded sender's withdrawal is never paid.
- **Receipts.** Right means: what was narrowed is told by no later page of the same link.
- **Escrow, swapper.** Right means: each lock ends once, tokens are there for every lock, pausing
  is immediate and unpausing waits for the timelock.

The hazards of each line are listed in `PROJECT.json`.

## 2. Modules

| module | models | composed in |
|---|---|---|
| `TransferOrchestrator` | the cash rail from authorization to pickup | - |
| `AnchorPayout` | the cash rail's last mile with an anchor | - |
| `Liquidity` | how a transfer's EURe become USDC: rate binding, venues, plan, fill | `CashLegs` |
| `CashLegs` | `Liquidity`, then the escrow or CCTP, then the amount the anchor is asked for | `CashRail` |
| `Treasury` | withdrawals opened with the anchor and paid from the shared Stellar account | `CashRail` |
| `SepaRail` | bank money in (issue orders) and out (redeem orders) | - |
| `CryptoDeposits` | the scanner of incoming crypto and the conversion of what it finds | - |
| `Admission` | quotes, transfers made of them, the daily cap, authorization | `Accounts` |
| `Onboarding` | identity review, passkeys and Safes, Monerium connection and IBAN, faucet | `Accounts` |
| `Receipts` | shared receipts and their links | `Accounts` |
| `ReceiptPage` | which facts of a transfer the page of a share tells; operators only | `Receipts` |
| `Recovery` | recovery of a wallet by a guardian | `Accounts` |
| `SignIn` | challenges, passkeys, sessions, approvals, the link to Monerium | `Accounts` |
| `Wallet` | the Safe: its plan, deployment, allowance and configuration | `Accounts` |
| `Standing` | the identity review and the Safe, which the parts of an account share | - |
| `AdminTimelock` | the contract, every function | `Governance` |
| `BridgeEscrow`, `FxSwapper` | the contracts, every function | `Governance` |
| `MockToken`, `Ledgers` | an ERC-20 ledger; the two of them, USDC and EURe | `Governance` |
| `Sums` | the sum of a function's values | `Governance`, `Admission` |
| `EscrowPromise` | what callers of the escrow may count on; `BridgeEscrow` implements it | `Governance` |
| `MC...` | instances for TLC | - |
| `...Proofs` | theorems and proofs about the module they extend, see section 4 | - |

### TransferOrchestrator

One Node process: a handler runs without interruption from one `await` to the next. A *worker* is a
handler, sweep tick or pickup in flight, `pc[w]` the await it is suspended at and `job[w]` its
transfer. A leg that writes to a chain is two steps. In the first the transaction takes effect
(`Debit`, `Swap`, `Lock`, `Burn`, `Release`, `ReverseSwap`, `ReturnFee`, `ReturnEure`, `Settle`); in
the second the receipt arrives and the handler runs on, records and persists (`DebitRecorded`,
`SwapRecorded`, `BridgeRecorded`, ...). `ExecLegFails`, `CompLegFails`, `ReverseFails`, `SettleFails`
and `AnchorRefuses` are the throws, `Authorize`, `SweepFailed`, `SweepStranded` and `SettlePickup`
start workers, `Crash` ends all of them and keeps what is on disk.

| variable | code |
|---|---|
| `state`, `authorizedAt`, `steps`, `refund`, `pickup` | fields of the stored transfer; `steps` is the set of `txs[].step` recovery looks for |
| `pc`, `job`, `back` | handlers in flight; `back` is the EURe delivered by the reverse swap in hand |
| `safe`, `orchEure`, `orchUsdc`, `escrow`, `burned` | balances and contract state on chain |
| `deploy` | `LIQUIDITY.PROVIDER`, `CCTP.live`, `anchorModeEnabled()`, `SECURITY.allowMockFallback` |
| `world` | the environment, see below |

What the code leaves to luck is explicit in `world`: which awaits may outlast `STALE_MS` (ten
minutes), whether a sweep tick may fall into a running compensation, whether a receipt wait may throw
although the transaction landed. A property either holds in every world, or for *timely* ones (no
await outlasts the ten minutes, no sweep meets a compensation), which the property says; the
violation runs show what an untimely one does.

### AnchorPayout

Takes over at `PAYOUT_DETAILS_PENDING`. `RefreshPayout` and `SweepAnchorPayout` begin a refresh under
the single-flight map (`Unlocked`); `Read`, `Prepare`, `Submit`, `Submitted`, `Poll` are the awaits of
`fundAndRefreshAnchorPickup` in order; `Finish` is what `refreshPayoutUnlocked` does with the answer
and `GiveUp` its catch; `Settle` and `Settled` close the escrow; `Refund` and `SweepFailed` are the
compensation in one step. `AnchorMoves` is the anchor, which may move between any two reads, expire
or refund. `lost` is history only: payments whose response died with the process.

### AdminTimelock

Every external function is an action (`Queue`, `Confirm`, `Cancel`, `Execute` with its `Effect`), and
`Tick` is time. `vote[id][who]` is `confirmedOwnerEpoch` where `confirmedBy` is set. `standing[id]` is
history: who voted and has been an owner ever since, said without epochs, so that
`VotesEndWithTheTerm` compares the epochs with what they are for. `MaxWord` is the largest
`uint256`: `queue` reverts where `block.timestamp + delay` exceeds it.

### Governance: the contracts together

`BridgeEscrow` and `FxSwapper` define one action per external function over two instances of
`MockToken`; a function that reverts is no step. `Governance` starts from what `scripts/deploy.ts`
leaves behind, lets every account call every function, and gives an operation that the timelock
executes its effect on the contract it targets, with the timelock as sender. `EscrowKeepsItsPromise`
is a refinement: `EscrowPromise` knows a phase and a share per transfer and says that a lock ends
once, in full, to its depositor or onward, and that nothing else takes from the pot. `Governance`
implements it with `phase <- statusOf`, `share <- lockedAmount`, `depositor <- refundTo`,
`holdings <- usdc`.

### Liquidity and CashLegs

`TransferOrchestrator` looks at what becomes of a transfer whose legs fail; these two look at the
amounts of transfers whose legs run side by side over one address. `Bind` is `assertQuoteRateBinding`,
`Quote` the plan of `prepareTransferLiquidity` by the best of the venues that answer, `ReadBefore`,
`Approve`, `Swap`, `Swapped` the awaits of a provider's `execute`. `price` is what each venue trades at
and `mid` the feed's opinion, both of which move between any two steps, `cached` the mid `rates.ts`
keeps; `pool` and `allowance` are the orchestrator's, shared by all. `CashLegs` adds the escrow
(`ApproveBridge`, `LockForPayout`), `bridgeUsdcToStellar` (`Ready`, `ApproveMessenger`,
`SeesAllowance`, `Burn`, `BurnConfirmed`, `Attested`, `Mint`, `BridgeError`), whose burns come out of
the account of `CCTP_BURNER_KEY`, and `AskAnchor`. `BridgeThrows` is a throw before the burn is on chain,
`BurnUnheard` the wait for its receipt that throws afterwards (`cctp.ts` 212, before the `try` of 216):
such a transfer ends "unheard", with nothing on record. `filled` and `moved` are history: what a transfer's own fill
brought in, and who saw a price move after the check.

### SepaRail

In: Monerium moves an issue order from pending to processed; a webhook (`Webhook`, `OrderRead`) and
ticks of the poll (`Tick`, `OrdersRead`, profile by profile) read it, credit it (`Credit`) and mark it
afterwards (`Credited`). Out: `Authorize`, `Fee`, `FeeRecorded`, `Redeem`, `RedeemRecorded` are
`executeSepaTransfer` await by await, `RedeemPolled` the end of the order, `Give` and `Given` the fee's
return. `world` says whether the EURe is Monerium's own (crediting is then only recording), whether a
mock payout is allowed, whether mirrors overlap and whether answers get lost. `unheard` is history:
redeem orders whose placing nobody got to record. The sweep is taken to keep away from running
handlers here; what happens when it does not is `TransferOrchestrator`'s subject. A rejected issue
order is one that stays pending, for nothing in the code tells them apart.

### CryptoDeposits

`Tick`, `Refuse`, `Head`, `LogsRead` are the awaits of a tick: convert what waits, ask for the head,
read the logs of each token, record, move the cursor, convert what was found. The owner changes the
page meanwhile (`ClaimHandle`, `SwitchAutoConvert`, `Approve`); the chain mines payments and forwards
them. `floor` (the first cursor), `converting` and `disturbed` (payments on the way when the page was
changed) are history that the properties need to say what was promised. Settling in EURe is followed
up to its refusal: `sweepToOrchestrator` refuses whatever it did not sweep before, and only it writes
the step that would say so, so the code behind it cannot run today. Reorganisations are left out, for
the scan keeps `confirmations` blocks away from the head.

### Accounts: one user's account

`Accounts` runs one of its six parts at a time (`part`), as nothing but the review relates them; one
user, as they share nothing with other users but handles.

- *paying*, `Admission`: POST /transfers is split at the Safe's balance (`Post`, `PostAnswered`) and
  authorization at the passkey (`Submit`, `Verified`); what an authorized transfer does is reduced to
  `Debit`, `Fail`, `Pay`, `Refund`. Two balances never arrive in one turn of the event loop, as each
  is an HTTP request of its own; so everything after the balance in POST /transfers is one step.
- *opening*, `Onboarding`: the awaits are those of the deployment (`Complete`, `Completed`,
  `FaucetAnswers`), the activation (`Activate`, `Links`, `ReadsSnapshot`, `Activated`), the poll for
  the IBAN, the OAuth callback and its token (`RenewsToken`) and the webhook. `Settles` is where the
  account becomes the Safe of the latest passkey; `moved` is history: it did so while an IBAN was
  shown or asked for.
- *sharing*, `Receipts` over `ReceiptPage`: the list of shares and its edits. A page is the set of
  facts its rows and hops give away. `Withholds` is what the sender's choices are said to keep back, by
  the page that offers them (`index.html` 3086-3100) and by the comments of `receipt.ts`, not by what its
  code does; `ToldAnyway` is where the code tells it all the same. `chosen` is history: what the sender
  last said of each field, whether or not a share was there to keep it.
- *recovering*, `Recovery`: the request and the operators who hand it over at once. What the code
  notes of a refusal (`guardianSubmission`) is left out.
- *signing*, `SignIn`: `IssueChallenge`, `StartLink`, and the ceremonies that suspend on an assertion:
  `Register`, `Replace`, `Login`, `Bind`, `Link` begin, `Replaced`, `LoginVerified`, `Bound`,
  `Linked` go on. Of a link, whose requests all sign one fixed message, a "challenge" is the request, and
  an answer fits any open request for the same Safe. `counter` is the authenticator's, `stored` the account's record of it; `accepted`
  and `overtaken` (a passkey replaced during a verification) are history.
- *keeping*, `Wallet`: `AskDeployment`, `DeploymentAsked`, `SendsOperation`, `Included`,
  `DeploymentRecorded` are the two handlers of a deployment and the chain between them; the allowance
  has the same shape. `PolicyPatched` is what a debit does to a plan without a policy. Several passkeys
  follow each other, each with a Safe of its own, and a restart may bring a new configuration.
  `unrecorded` and `outpaced` are history that the properties name as their exceptions.

### Treasury and CashRail

A withdrawal is at `stage[w]` between two awaits: `AskLimits`, `SignedOn`, `SubmitSenderProfile`,
`PutCustomer`, `InitiateWithdraw` open it; `Refresh`, `ReadStatus`, `ReadAccount`, `LoadAccount`,
`Submit` and `Submitted` or `SubmitUncertain` pay it. `Apply` is the ledger, where a transaction needs
the account's next sequence number, and `Drop` a transaction that lost it. `HasTrustline` to
`SetupEnds` are `ensureTrustline` of the setup script, another user of the same numbers. A behaviour is
about withdrawals being opened, where tokens age, or about open ones being refreshed. `CashRail` puts
`Treasury` beside `CashLegs`: the Stellar account is filled by mints and purchases that no withdrawal
owns, so the two meet in no variable and a behaviour is about one of them (`half`).

## 3. Runs

| run | shows |
|---|---|
| `TransferCalm` | two transfers, two workers, two failing legs, all eight FxSwapper deployments: `RefundRecordIsTrue`, `RefundedAtMostOnce`, `PoolCoversEveryClaim`, `BurnedIsNotRefunded`, and under fairness `EveryTransferResolves` |
| `TransferHarsh` | the same with DEX fills, a crash, lost receipts and untimely worlds: `NeverDebitedTwice` and `PaidIsBacked` hold in all of them, `RefundXorPayout` in the timely ones |
| `TransferCrash` | *violation*: a crash after the refund landed and before it is recorded refunds twice |
| `TransferSlowBridge` | *violation*: a slow attestation makes the sweep refund a burned transfer |
| `Timelock` | three owners, threshold two, three operations, delay changes that overflow: `VotesEndWithTheTerm`, `QuorumExists`, `ExecutionIsCarried` |
| `Anchor` | one payout, two workers, two failing calls, two crashes: three invariants, and `CollectedCashCloses` while somebody polls |
| `Governance` | the contracts, three accounts, two of them signers, one operation of any kind, two transfers: `LocksAreCovered`, `EscrowKeepsItsPromise`, `NoSingleKeyGoverns` |
| `Sepa` | one order in, one payout out, two workers, four worlds, a fault and a crash: `CreditedOnce`, `RefundXorPayout`, `EveryOrderArrives`, `EveryPayoutEnds` |
| `Deposits` | a direct payment and one to the page, two ticks, three worlds, a change of the page, a crash: `RecordedOnce`, `NothingPassedOver`, `DetectedIsDecided` |
| `Accounts` | the six parts of an account: `QuoteSpentOnce`, `CapIsKept` (paying), `IbanIsOwn`, `IbanArrives` (opening), `NarrowingNarrows` (sharing), `AcceptedIsOnRecord` (recovering), `ApprovedOnce`, `OwnerCanSignIn` (signing), `ShownIsSpendable`, `ActiveIsThere` (keeping) |
| `CashRail` | two transfers, fifteen worlds (every provider alone and the best of three, in turn or at once, escrow or CCTP, both surplus policies), two price moves: `FloorHolds`, `SettledFromOwnFill`, `BurnIsOnRecord`; and two withdrawals of two senders: `OriginatorIsSender`, `RefundedIsUnpaid` |
| `AskedForMore` | *violation*: a fill below the quote makes the anchor be asked for more than was locked |

The findings in `PROJECT.json` quote the line each violation run contradicts.

Bounds. Two transfers are needed for one to spend the other's pooled money, and two workers for a
sweep to meet a handler; a third of either adds no new kind of meeting, as a transfer is touched by
one handler and one sweep and the pool is a sum. Two faults cover a leg that fails and its
compensation that fails too; a second crash in the harsh run only repeats the first, as a crash
leaves nothing in flight. `Fee = 1`, `Conv = 2` and reverse-swap yields of 1, 2 and 4 separate a rate
that moved against the user, stayed, and moved so far that nothing of the fee is owed. One anchor
payout suffices since nothing relates two; two workers are what the lock keeps apart. Three
operations are a removal, an addition and the operation whose votes they concern. In `Governance` the
operation is one of eleven changes and two signers must agree on it; a scale of 2 with rates 0, 2 and
3 rounds both ways. `Sepa` has two profiles so that a dead one stands before the other, and `Deposits`
a window of two blocks over a chain of three, so that a scan takes several windows. In `CashRail`
three prices lie within and without each tolerance of 1, amounts are one EURe so that prices are
amounts, and the burner holds enough for one burn of two at the highest price; two withdrawals of
two units meet an account that can pay one and a half, and a top-up. In `Accounts` two quotes together
exceed the cap and two requests compete for each; two shares of two transfers, with six requests to
show more or less, let a receipt be revoked and opened anew; `MaxTurns = 3` gives a user two passkeys and
one decision, delivery or connection, or one passkey and two of these, so that the account moves while
an activation or a poll is suspended and a review meets both; six challenges are two registrations, a
sign-in, an approval and two links, which share an answer, two of them open and two requests suspended at
once; two passkeys
have two Safes, on which two operations are included, as a deployment and a repair of its allowance,
or two deployments, need, before and after one restart among four configurations (no co-signer, a
delegate, an owner with a module without code, an owner with the right one). Safety runs of the
orchestrator, the timelock and the contracts use symmetry; runs with liveness do not. Deadlock is off
where closed transfers, operations or requests leave nothing to do.

Fairness. A suspended handler resumes: every wait of the code has a timeout (receipts, HTTP, polls),
so `WF` of its next step, success or throw. Timers fire while the process lives, and a sweep looks at
every transfer, so `SF` for a sweep on each transfer that is swept (`server.ts` 3389-3404); strong,
because between two ticks the transfer may be held by somebody else for a while. The same goes for
the polls of `SepaRail` and the ticks of `CryptoDeposits`, whose RPC calls, asked again and again, are
answered in the end. Of Monerium it is assumed that it decides an order placed with it and issues an
IBAN it was asked for. Faults and crashes are bounded, not fair. Nothing is assumed of users and the
anchor, except in `Anchor`, where `Attended` says a browser goes on polling.

Observed while modelling, without a run of its own:

- The orchestrator records a fill as `liquidity.<venue>.*` but compensation looks for the FxSwapper's
  and the escrow's steps only (`orchestrator.ts` 434 and 439-441): after a DEX, RFQ or LI.FI fill a
  failed transfer is refunded in EURe from the pool while its USDC stays behind.
- A debit that landed and whose receipt was lost is recorded as never made: the transfer ends
  refunded with nothing returned (`orchestrator.ts` 412, 98-101).
- `sweepAnchorPayouts` passes over payouts whose details are pending or ready (`orchestrator.ts` 607,
  612); only a browser that polls moves those on.
- A page payment through a forwarder while the page does not convert is recorded nowhere, though the
  cursor passes it (`crypto-deposits.ts` 267-270, 338-340).
- `receipt.ts` 232 compares with `safe.transfer.fee`, the recorded step is `safe.transfer(fee)`
  (`orchestrator.ts` 109).
- A switch from EURe to USDC while a conversion is in flight lets a refusal overwrite a settled
  deposit (`crypto-deposits.ts` 399).
- Two users who claim one handle at the same time both pass the check before the await.
- A webhook and the poll that mirror one order at the same time both find it unmarked, and where the
  credit is a mint both mint (`adapters/monerium-sandbox.ts` 213-228; `CreditedOnce` excludes it).
- When a second passkey's Safe is deployed (`server.ts` 2689-2693) the account's address moves and its
  IBAN stays: the IBAN on show is the first Safe's, until an activation is answered. That is the
  exception of `IbanIsOwn` (`moved`), which is checked with two passkeys and proved for any number.
- With two transfers at their legs, `delivered` may contain the other's fill, so one of them is locked
  or burned for more than its own; hence `world.alone` in `SettledFromOwnFill`.
- `LifiLiquidityProvider` waits for a receipt and does not look at its status; the measured balance
  catches a revert only while nobody else's USDC arrives. Fills by the FxSwapper and by a maker are
  settled at the plan's figure without being measured.
- The rate can move between `assertQuoteRateBinding` and the plan: the plan is not checked again.
- `mintCctpToStellar` asks for its transaction until it is found, without a timeout.
- The indicative caches in `liquidity.ts` are never hit: each call builds its provider anew.
- A passkey that is replaced while the deployment of the old one's Safe is at the bundler: the handler
  reads the new plan afterwards (`server.ts` 2689-2693) and calls it active and the account, though
  its Safe is not there. TLC shows it when `~outpaced` is taken out of `ActiveIsThere`.
- A deployment that was included and whose answer was lost cannot be asked for again: its plan is not
  active, and the calls prepared anew enable a module twice, which reverts.
- An allowance set up on chain and not recorded (`server.ts` 2803-2808): the page reads the configured
  module and shows it, the debit the recorded one and fails (`unrecorded` in `ShownIsSpendable`).
- The policy patched into a plan before a debit (`orchestrator.ts` 314) writes a co-signer into the
  owner set of a Safe whose address was derived without one; no later operation can be prepared for it.
- `submitPasskeySafeDeployment` waits for inclusion and does not ask whether the calls succeeded.
- A passkey that is replaced while an assertion of the old one is verified gets the old count
  (`server.ts` 2839, 2876) or is undone by the old passkey (`server.ts` 1603, 1670); both are the
  exception of `OwnerCanSignIn`. Two replacements approved by the same old passkey both go through,
  and the sessions of a replaced passkey stay open.
- The challenge of a link to Monerium is the hash of a fixed message (`server.ts` 1562, 1622-1629), so
  one answer approves two requests that are open for one Safe: the exception of `ApprovedOnce`, by which
  it is the request that is good for one approval.
- Of two Stellar payments built on one sequence number one fails for certain, but is put under manual
  review like one that may have landed (`stellar/anchor.ts` 713, 741).
- The sender's profile is copied before the first await of a withdrawal (`adapters/moneygram.ts`): one
  saved later is not sent.
- A token refresh that is under way while the account is disconnected writes the connection back
  (`server.ts` 428-440; `RenewsToken`).
- A guardian's refusal that arrives late overwrites the note of an acceptance (`server.ts` 2444), while
  the status stays.
- `anyWithheld` of a receipt page is always true: a name is an object whether or not anything of it
  is redacted, and `typeof ... === "object"` takes it for a redaction (`receipt.ts` 147, 402-403; its
  comment, 62, says otherwise).
- The page of a cash payment whose currency is the recipient's, which a comment says shows "nothing in
  euro" (`receipt.ts` 353-354), still tells the fee, the rate and the refund in euro (380, 387, 392), and
  its hop at the venue does (254). One whose currency is the sender's tells the quoted rate in the
  recipient's (380).
- A single-word name under mode `first` is told whole (`receipt.ts` 160), where the comment says that
  "that case redacts entirely" (143-145); under `last` it is redacted. This and the one before are the
  exceptions of `NarrowingNarrows` (`ToldAnyway`); with any of them taken out TLC finds it violated.
- `bridgeUsdcToStellar` waits for the burn's receipt outside its `try` (`cctp.ts` 212, 216). A wait that
  throws is a plain error: no `cctp.burn` is recorded and the transfer is compensated, though
  `orchestrator.ts` 656 says that "failures after burn go to manual review". It is the exception of
  `BurnIsOnRecord` ("unheard"); with it taken out TLC finds the property violated.
- `LifiLiquidityProvider` takes `toAmountMin` from the answer as it is (`liquidity.ts` 719). `PlanWith`
  assumes that it honours the slippage that was asked for, and so does `FloorHolds` of a LI.FI plan.

## 4. Proofs

All proofs are for any constants that satisfy the named assumptions, hence for any number of
transfers, workers, orders, payments, requests, owners, operations, faults and crashes.
Every invariant and every action property of the passing runs is stated by a theorem, and so is the
one refinement; `PROJECT.json` lists the 43 theorems. What is left to TLC is at the end of this section.

`TransferOrchestratorProofs`. The balances are typed only if what a suspended leg is about to spend
is there (`TypeCorrect`). On top of that there are five invariants:

- `DebitInv`, in every world: before the claim the Safe is whole, a worker about to debit is the only
  one that ever can, and every later step of a Safe only adds. Hence `DebitedOnce`.
- `BackingInv`, in every world: a record that claims a settlement or a burn is never ahead of the
  chain. Hence `PaidOnlyIfBacked`.
- `PayoutInv`, in timely worlds: a transfer has at most one worker, and the recorded steps, the state
  and the worker's `pc` agree with each other; a compensation and a settlement exclude each other
  through the escrow's status or the recorded burn. Hence `NeverRefundedAndPaid`, and `ClosedForGood`
  (no step leaves PAID or REFUNDED).
- `CalmInv`, in the *calm* world (timely, no receipt lost, no crash so far): of each transfer what its
  Safe holds follows from the record and from where its one worker stands, and of each compensation
  what it has in hand follows from what was debited. `LocalStep` says that a step but a crash is one
  worker's on one transfer, so that the invariant is shown for that pair only. Hence
  `RefundIsRecorded`, `RefundedOnce` and `BurnedStaysGone`. Calmness is needed: `TransferCrash` and
  `TransferSlowBridge` violate the same properties outside of it.
- `PoolInv`, in the calm world of an FxSwapper deployment: the transfers whose EURe, fee or USDC lie at
  the orchestrator's address form three sets, told by record and `pc` also between a transaction and
  its record; the pool holds at least so much for each, and a step takes out as much as the claims it
  closes. That the sets are finite is part of the invariant, not an assumption on `Transfers`: only
  finitely many can have been debited at any time. Hence `PoolIsNeverShort`. With DEX fills it is
  false, see the first observation of section 3.

`AdminTimelockProofs`. The invariant adds to the properties that no vote is from a later term than
the voter's current one (so a new term makes every older vote worthless) and that nobody votes on
what was not queued. `NoStaleVote`, `NeverLockedOut`, `Carried`, `ClosedForGood`, `TypeCorrect` follow.

`AnchorPayoutProofs`. The invariant's core is one worker per transfer, which the lock alone does not
give: the lock keeps refreshes apart, and the states keep a refresh and a compensation apart. With it,
whoever is about to pay saw no hash, and without a hash nothing was paid but what is in flight or was
lost. `AnchorPaidOnce`, `NeverRefundedAndPaid` and `TypeCorrect` follow; `PaidMeansCollected` has a
second invariant about what the pickup and the record say of the anchor and the escrow.

`GovernanceProofs`. Assumed (`GovernanceAssumption`): the three contracts' addresses differ from each
other and from every person's, and what may be queued is a call with arguments of its kind. The
invariant says that balances are never negative, an open operation is such a call, a lock is
somebody's, and `totalLocked` is there. `Transferring` says what an ERC-20 transfer does to a ledger,
a payment to oneself included; `Quotes` that both quotes round down; `TotalChanges` what a new value
of one argument does to the sum of a function, so that `totalLocked` is the sum of the open locks.
From these follow `EscrowIsSolvent`; `PromiseKept`, the refinement, step by step; `NoSingleKey`, since
no person is the timelock; and `TradingIsSafe`, whose products of amounts and rates are compared in
`NoWorseOff`.

`AccountsProofs`. A step of the account is a step of one part and leaves the others alone (`Frames`),
so each part has an invariant of its own.

- *paying*: the quote of a transfer is consumed, no consumed quote becomes anything else, and only an
  open one is consumed, which is asked again in the turn that makes the transfer: `QuoteIsSpentOnce`.
  A day's budget is drawn from in that turn and by nothing else: `DailyCapHolds`.
- *opening*: the account moves only to a later passkey's Safe, and Monerium is asked only for IBANs of
  Safes that were the account (`RoutingInv`); while the account did not move away from an IBAN shown or
  asked for, that IBAN is the account's (`SettledInv`). `IbanStaysOwn`, for any number of passkeys.
- *sharing*: a transfer has at most one share that is not revoked, and the last one made follows what the
  sender last said of each field, if anything (`SharesInv`). `ModesWithhold` goes through every row of
  the page for what a mode withholds, its exceptions aside: `SharingNarrows`.
- *recovering*: `AcceptedStaysOnRecord`; the property is inductive.
- *signing*: a suspended request holds an answer to a challenge that has left the map, no two meet
  the same request, and the authenticator has signed at least as often since: `ApprovedAtMostOnce` and
  `OwnerIsNotLockedOut`.
- *keeping*: an operation is prepared for the nonce its Safe has and does nothing at another, and of
  the modules with code only the configured one is ever planned, enabled or allowed:
  `ShownAllowanceIsSpendable` and `ActiveSafeIsThere`.

`CashRailProofs`. The treasury and the legs meet in no variable, so there are two invariants.
`OriginInv`: a cached token authenticates the memo it is cached under, so what a handler bears between
its sign-on and the opening is its own sender's; what it supplied was copied at the sign-on
(`OriginatorsAreSenders`). `Unbroadcast`: before a handler submits, nothing was
paid or is in flight for its withdrawal, and it is refunded only from there (`RefundedAreUnpaid`). `FillInv`: a plan's
floor is one that the mid of its moment allowed, and a fill brought in the floor (`FloorsHold`,
`SettlementIsOwnFill`). `BurnsInv`: a burn is on record, or its
wait is not over, or its receipt was not heard of (`BurnsAreOnRecord`).

`SepaRailProofs`. `MirrorInv`: where mirrors do not overlap there is one at a time, it works on unmarked
orders, and what was minted is marked or about to be (`OrdersAreCreditedOnce`, under the conditions the
property names). `RedeemInv`, in every world: one worker at most moves money of a transfer and where
it stands agrees with the state; polls look at submitted transfers only, however old their list; and a
transfer that failed without an order nobody heard of has none that may be paid out
(`RefundedIsNotPaidOut`, also where mirrors overlap).

`CryptoDepositsProofs`. `RecordInv`: what is at or below the cursor is recorded, what is in a window
being read is recorded or still to be read, and a page is as an undisturbed payment found it until
that payment is recorded (`NothingIsPassedOver`). `HopInv`: the second hop of an undisturbed payment is
known for what it is as long as the page has not changed, and afterwards no scan gets to it any more,
though overlapping ticks set the cursor back (`DepositsAreRecordedOnce`).

What proving changed. `LocksAreCovered` and the daily cap add up by `Sums!Total`, which counts units,
as nothing can be proved of a recursive fold; `Liquidity!Best` and the cases of `ReceiptPage!accountFor`
say without recursion and without overlapping arms what they said before. `TreasuryAssumption` lacked
that an anchor may echo nothing (`0 \in Echoes`), and `TrustlineAssumption` that a trustline is no
withdrawal. `SepaRail!RefundXorPayout` lost a hypothesis that it does not need (`~world.overlap`).

Only model-checked: liveness (`EveryTransferResolves`, `CollectedCashCloses`, `EveryOrderArrives`,
`EveryPayoutEnds`, `DetectedIsDecided`, `IbanArrives`), as the installed provers do not handle fairness
and ENABLED. No RECURSIVE operator is used. Three properties have a run that violates them and are
proved where they hold (`RefundedAtMostOnce`, `BurnedIsNotRefunded`) or not at all (`AskedIsHeld`).

## 5. Not modelled

Amounts beyond units, encodings, signatures, HTTP and wording. The failpoints (test hooks). Checks a
transfer that was just claimed cannot fail, and a review state for a funding source no handler sets;
`/api/simulate/*`. Automatic approvals, accounts without Monerium and RSA passkeys in `Onboarding` and
`Wallet`; the shared Sumsub data given to Monerium, which changes nothing modelled.
The reconciler changes nothing; configuration is constants; pages, QR codes and scripts keep no state
the money depends on; cryptography is out of TLC's reach. `PROJECT.json` lists every component with
what is left out of it.
