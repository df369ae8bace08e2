--------------------------- MODULE CryptoDeposits ---------------------------
(***************************************************************************)
(* Crypto paid to a user, found by scanning the chain's Transfer logs      *)
(* (adapters/crypto-deposits.ts), with the payment page that decides what  *)
(* is scanned for (server.ts: /handle and /auto-convert).                  *)
(*                                                                         *)
(* A direct payment is one log, to the Safe.  A payment to the page goes   *)
(* to its deposit address: where a Candide forwarder stands behind it that *)
(* is a first log, and the forwarder's own transfer to the Safe a second;  *)
(* with the local-safe provider the page shows the Safe itself.  Each      *)
(* change of handle makes a new deposit address, numbered here; 0 is the   *)
(* Safe's.                                                                 *)
(*                                                                         *)
(* A worker is a tick of the poller: pc the await it is suspended at,      *)
(* watch the addresses it read when it began, upTo the end of its window,  *)
(* queue the deposits it has yet to convert, job the one at hand.  Ticks   *)
(* come from setInterval and overlap when one is slow.                     *)
(*                                                                         *)
(* Settling in EURe ends at sweepToOrchestrator, which refuses whatever    *)
(* was not swept before and is the only writer of the step that would say  *)
(* so: the quote, swap and measurement after it are out of reach today,    *)
(* and with them EURe logs from the swapper.  Amounts are left out, the    *)
(* dust floor with them.                                                   *)
(***************************************************************************)
EXTENDS Integers, FiniteSets

CONSTANTS
    Direct,         \* payments to the Safe itself
    ToPage,         \* payments to the payment page
    Token,          \* "USDC" or "EURE", of each payment
    Workers,        \* bound: ticks in flight at once
    None,           \* "no job"
    Confirmations,  \* CRYPTO_IN.confirmations
    MaxBlockSpan,   \* CRYPTO_IN.maxBlockSpan
    Worlds,         \* the environments considered, see below
    MaxHeight,      \* bound: blocks
    MaxHandles,     \* bound: how often a handle is claimed
    MaxChanges,     \* bound: auto-convert switched, settlement changed
    MaxCrashes      \* bound: process crashes

(***************************************************************************)
(*   forwarder  does a Candide forwarder stand behind the page?            *)
(*   meets      may the owner change the page while a tick is under way?   *)
(***************************************************************************)
Payments == Direct \cup ToPage
ASSUME DepositAssumption ==
    /\ Direct \cap ToPage = {}
    /\ Token \in [Payments -> {"USDC", "EURE"}]
    /\ Worlds \subseteq [forwarder : BOOLEAN, meets : BOOLEAN]
    /\ Confirmations \in Nat /\ MaxBlockSpan \in Nat \ {0}
    /\ {MaxHeight, MaxHandles, MaxChanges, MaxCrashes} \subseteq Nat
    /\ None \notin Payments \X {1, 2}

VARIABLES
    world,      \* the environment; never changes
    approved,   \* user.kycStatus = "approved"
    page,       \* user.paymentPage
    height,     \* chain: the head
    mined,      \* chain: the block of each log, 0 before it is in one
    sentTo,     \* chain: the deposit address a page payment was sent to
    cursor,     \* store: the scanner's cursor, or Unset
    rows,       \* store: how many deposits were recorded for a log
    deposit,    \* store: the state of a log's deposit
    pc, watch, upTo, queue, job,
    floor,      \* history: the first cursor; what is below was never to be read
    converting, \* history: page payments made while the page auto-converted
    disturbed,  \* history: payments on the way when the page was changed
    changes, crashes

control == <<pc, watch, upTo, queue, job>>
store   == <<cursor, rows, deposit, floor>>
chain   == <<height, mined, sentTo, converting>>
owner   == <<approved, page, disturbed, changes>>
vars    == <<world, owner, chain, store, control, crashes>>

-----------------------------------------------------------------------------
Unset == -1
SafeAddress == 0
Logs == (Payments \X {1}) \cup (ToPage \X {2})
Deposits == {"none", "DETECTED", "CONVERTED", "REFUSED"}
Addresses == 0..MaxHandles

PageAddress == IF world.forwarder THEN page.handle ELSE SafeAddress
Paid(p) == mined[<<p, 1>>] # 0
Forwards(p) == p \in ToPage /\ sentTo[p] # SafeAddress
To(l) == IF l[1] \in ToPage /\ l[2] = 1 THEN sentTo[l[1]] ELSE SafeAddress

TypeOK ==
    /\ world \in Worlds /\ approved \in BOOLEAN
    /\ page \in [handle : Addresses, auto : BOOLEAN, asset : {"USDC", "EURE"}]
    /\ height \in 0..MaxHeight
    /\ mined \in [Logs -> 0..MaxHeight] /\ sentTo \in [ToPage -> Addresses]
    /\ cursor \in Nat \cup {Unset} /\ floor \in Nat
    /\ rows \in [Logs -> Nat] /\ deposit \in [Logs -> Deposits]
    /\ pc \in [Workers -> {"idle", "head", "EURE", "USDC", "sweep", "convert"}]
    /\ watch \in [Workers -> SUBSET (Addresses \X {"payment-page", "safe"})]
    /\ upTo \in [Workers -> Nat]
    /\ queue \in [Workers -> SUBSET Logs]
    /\ job \in [Workers -> Logs \cup {None}]
    /\ converting \subseteq ToPage /\ disturbed \subseteq Payments
    /\ changes \in 0..MaxChanges /\ crashes \in 0..MaxCrashes

\* At first a user may have a page or none; only approved users convert.
Init ==
    /\ world \in Worlds /\ approved \in BOOLEAN
    /\ page \in [handle : {0, 1} \cap Addresses, auto : BOOLEAN, asset : {"USDC", "EURE"}]
    /\ page.handle = 0 => ~page.auto /\ page.asset = "EURE"
    /\ page.auto => approved
    /\ height = 0
    /\ mined = [l \in Logs |-> 0] /\ sentTo = [p \in ToPage |-> 0]
    /\ cursor = Unset /\ floor = 0
    /\ rows = [l \in Logs |-> 0] /\ deposit = [l \in Logs |-> "none"]
    /\ pc = [w \in Workers |-> "idle"] /\ watch = [w \in Workers |-> {}]
    /\ upTo = [w \in Workers |-> 0] /\ queue = [w \in Workers |-> {}]
    /\ job = [w \in Workers |-> None]
    /\ converting = {} /\ disturbed = {} /\ changes = 0 /\ crashes = 0

-----------------------------------------------------------------------------
(* The owner.                                                              *)

\* A payment is on its way until the scanner has passed its last log.
OnTheWay(p) ==
    \/ Paid(p) /\ mined[<<p, 1>>] > cursor
    \/ Paid(p) /\ Forwards(p) /\ (mined[<<p, 2>>] = 0 \/ mined[<<p, 2>>] > cursor)

OwnerActs ==
    /\ world.meets \/ \A w \in Workers : pc[w] = "idle"
    /\ changes < MaxChanges /\ changes' = changes + 1
    /\ disturbed' = disturbed \cup {p \in Payments : OnTheWay(p)}
    /\ UNCHANGED <<world, chain, store, control, crashes>>

\* POST /handle: a new handle gets a deposit address of its own, the same one
\* keeps it; the switch of the page before stays as it is.
ClaimHandle ==
    /\ \E h \in {page.handle, page.handle + 1} \cap (1..MaxHandles), a \in {"USDC", "EURE"} :
          page' = [page EXCEPT !.handle = h, !.asset = a]
    /\ OwnerActs
    /\ UNCHANGED approved

\* POST /auto-convert: switching it on is for approved accounts.
SwitchAutoConvert ==
    /\ page.handle # 0 /\ (approved \/ page.auto)
    /\ page' = [page EXCEPT !.auto = ~@]
    /\ OwnerActs
    /\ UNCHANGED approved

Approve ==
    /\ ~approved /\ approved' = TRUE
    /\ OwnerActs
    /\ UNCHANGED page

(* The chain.  A payment to the page needs a page to read the address of.  *)
(* Blocks without a payment are left out.                                  *)

Mine(l) == mined' = [mined EXCEPT ![l] = height + 1] /\ height' = height + 1

Pay(p) ==
    /\ ~Paid(p) /\ height < MaxHeight
    /\ p \in ToPage => page.handle # 0
    /\ Mine(<<p, 1>>)
    /\ sentTo' = IF p \in ToPage THEN [sentTo EXCEPT ![p] = PageAddress] ELSE sentTo
    /\ converting' = IF p \in ToPage /\ page.auto THEN converting \cup {p} ELSE converting
    /\ UNCHANGED <<world, owner, store, control, crashes>>

Forward(p) ==
    /\ Paid(p) /\ Forwards(p) /\ mined[<<p, 2>>] = 0 /\ height < MaxHeight
    /\ Mine(<<p, 2>>)
    /\ UNCHANGED <<world, owner, sentTo, converting, store, control, crashes>>

-----------------------------------------------------------------------------
(* Conversion.                                                             *)

Await(w, p) == pc' = [pc EXCEPT ![w] = p]

Return(w) ==
    /\ Await(w, "idle")
    /\ watch' = [watch EXCEPT ![w] = {}] /\ upTo' = [upTo EXCEPT ![w] = 0]
    /\ queue' = [queue EXCEPT ![w] = {}] /\ job' = [job EXCEPT ![w] = None]

\* What convertDeposit makes of a DETECTED deposit before its first await.
AtOnce == IF ~page.auto \/ ~approved THEN "REFUSED"
          ELSE IF page.asset = "USDC" THEN "CONVERTED" ELSE "waits"

\* Only DETECTED: a REFUSED deposit is a decision.
Pending(states) == {l \in Logs : states[l] = "DETECTED" /\ Token[l[1]] = "USDC"}

\* Mutant: the addresses are those of pages that convert, not of every Safe.
WatchPages ==
    IF approved /\ page.auto /\ page.handle # 0
    THEN {<<PageAddress, "payment-page">>} ELSE {}

\* watchedAddresses: the page's address while it converts, and every Safe; the
\* page's entry wins where the two are the same.
Watched ==
    IF approved /\ page.auto /\ page.handle # 0
    THEN {<<PageAddress, "payment-page">>}
         \cup (IF PageAddress = SafeAddress THEN {} ELSE {<<SafeAddress, "safe">>})
    ELSE {<<SafeAddress, "safe">>}

\* The tick converts ls one after the other, in the states given; p is the
\* await of a conversion that has to wait, "sweep" or "convert".  The scan
\* comes after the sweep, the end of the tick after the rest.
Convert(w, ls, states, p) ==
    /\ deposit' = [l \in Logs |-> IF l \in ls /\ AtOnce # "waits" THEN AtOnce ELSE states[l]]
    /\ \/ /\ ls # {} /\ AtOnce = "waits"
          /\ Await(w, p)
          /\ \E l \in ls : /\ job' = [job EXCEPT ![w] = l]
                          /\ queue' = [queue EXCEPT ![w] = ls \ {l}]
          /\ UNCHANGED <<watch, upTo>>
       \/ /\ ls = {} \/ AtOnce # "waits"
          /\ p = "sweep" /\ Await(w, "head")
          /\ watch' = [watch EXCEPT ![w] = Watched]
          /\ queue' = [queue EXCEPT ![w] = {}] /\ job' = [job EXCEPT ![w] = None]
          /\ UNCHANGED upTo
       \/ /\ ls = {} \/ AtOnce # "waits"
          /\ p = "convert" /\ Return(w)

\* A tick begins with sweepPendingCryptoDeposits.
Tick(w) ==
    /\ pc[w] = "idle"
    /\ Convert(w, Pending(deposit), deposit, "sweep")
    /\ UNCHANGED <<world, owner, chain, cursor, rows, floor, crashes>>

\* Mutant: a refusal leaves the deposit for the next sweep.
RefuseLater(w) ==
    /\ pc[w] \in {"sweep", "convert"}
    /\ Convert(w, queue[w] \cap Pending(deposit), deposit, pc[w])
    /\ UNCHANGED <<world, owner, chain, cursor, rows, floor, crashes>>

\* sweepToOrchestrator has read the Safe's code and refuses; the loop goes on
\* with those that are still DETECTED.
Refuse(w) ==
    LET states == [deposit EXCEPT ![job[w]] = "REFUSED"] IN
    /\ pc[w] \in {"sweep", "convert"}
    /\ Convert(w, queue[w] \cap Pending(states), states, pc[w])
    /\ UNCHANGED <<world, owner, chain, cursor, rows, floor, crashes>>

-----------------------------------------------------------------------------
(* The scan.                                                               *)

\* The head arrives.  A first scan only sets the cursor, a window back.
Head(w) ==
    LET safe == height - Confirmations IN
    /\ pc[w] = "head"
    /\ \/ /\ safe < 0 \/ (cursor # Unset /\ safe <= cursor)
          /\ Return(w)
          /\ UNCHANGED <<cursor, floor>>
       \/ /\ safe >= 0 /\ cursor = Unset
          /\ cursor' = IF safe > MaxBlockSpan THEN safe - MaxBlockSpan ELSE 0
          /\ floor' = cursor'
          /\ Return(w)
       \/ /\ cursor # Unset /\ safe > cursor
          /\ upTo' = [upTo EXCEPT ![w] =
                        IF safe - cursor > MaxBlockSpan THEN cursor + MaxBlockSpan ELSE safe]
          \* the window is deep enough to be final: its logs are known here
          /\ queue' = [queue EXCEPT ![w] = {l \in Logs : mined[l] \in (cursor + 1)..upTo'[w]}]
          /\ Await(w, "EURE")
          /\ UNCHANGED <<watch, job, cursor, floor>>
    /\ UNCHANGED <<world, owner, chain, rows, deposit, crashes>>

\* The page's money, already recorded at the deposit address.
SecondHop(l, source) ==
    /\ source = "safe" /\ l[2] = 2
    /\ PageAddress # SafeAddress /\ sentTo[l[1]] = PageAddress

\* Mutant: a log is recorded whether or not it was before.
FreshAgain(ls, watched) ==
    {l \in ls : \E source \in {"payment-page", "safe"} :
        <<To(l), source>> \in watched /\ ~SecondHop(l, source)}

\* Which logs of an answer are recorded, and as what.
Fresh(ls, watched) ==
    {l \in ls : /\ deposit[l] = "none"
                /\ \E source \in {"payment-page", "safe"} :
                      <<To(l), source>> \in watched /\ ~SecondHop(l, source)}

FirstState(l, watched) ==
    IF <<To(l), "safe">> \in watched \/ Token[l[1]] = "EURE" THEN "CONVERTED" ELSE "DETECTED"

\* getLogs answers for a token: record what is fresh.  After the second the
\* cursor goes to the end of the window, then what was found is converted.
LogsRead(w) ==
    LET ls == {l \in queue[w] : Token[l[1]] = pc[w]}
        fresh == Fresh(ls, watch[w])
        states == [l \in Logs |-> IF l \in fresh THEN FirstState(l, watch[w]) ELSE deposit[l]] IN
    /\ pc[w] \in {"EURE", "USDC"}
    /\ rows' = [l \in Logs |-> IF l \in fresh THEN rows[l] + 1 ELSE rows[l]]
    /\ \/ /\ pc[w] = "EURE"
          /\ deposit' = states
          /\ Await(w, "USDC")
          /\ UNCHANGED <<watch, upTo, queue, job, cursor>>
       \/ /\ pc[w] = "USDC"
          /\ cursor' = upTo[w]
          /\ Convert(w, {l \in fresh : states[l] = "DETECTED"}, states, "convert")
    /\ UNCHANGED <<world, owner, chain, floor, crashes>>

\* An RPC call throws and ends the tick.
TickThrows(w) ==
    /\ pc[w] \in {"head", "EURE", "USDC"}
    /\ Return(w)
    /\ UNCHANGED <<world, owner, chain, store, crashes>>

Crash ==
    /\ crashes < MaxCrashes /\ crashes' = crashes + 1
    /\ pc' = [w \in Workers |-> "idle"] /\ watch' = [w \in Workers |-> {}]
    /\ upTo' = [w \in Workers |-> 0] /\ queue' = [w \in Workers |-> {}]
    /\ job' = [w \in Workers |-> None]
    /\ UNCHANGED <<world, owner, chain, store>>

Resume(w) == Refuse(w) \/ Head(w) \/ LogsRead(w)

Next == \/ ClaimHandle \/ SwitchAutoConvert \/ Approve \/ Crash
        \/ \E p \in Payments : Pay(p) \/ Forward(p)
        \/ \E w \in Workers : Tick(w) \/ Resume(w) \/ TickThrows(w)

\* setInterval keeps ticking, and an RPC call that is asked often enough is
\* answered in the end: hence SF, for a tick may throw in between.
Fairness == \A w \in Workers : WF_vars(Tick(w)) /\ SF_vars(Resume(w))

Spec == Init /\ [][Next]_vars /\ Fairness

-----------------------------------------------------------------------------
(***************************************************************************)
(* No log is recorded twice, by whichever ticks, rescans and restarts; and *)
(* no payment to the page is recorded at both of its hops, as long as the  *)
(* page stays as it is while the payment is on its way or a tick is.       *)
(***************************************************************************)
RecordedOnce ==
    /\ \A l \in Logs : rows[l] <= 1
    /\ ~world.meets => \A p \in ToPage \ disturbed : rows[<<p, 1>>] + rows[<<p, 2>>] <= 1

\* The scanner has passed every log of p, and was to read the first.
Passed(p) == Paid(p) /\ mined[<<p, 1>>] > floor /\ cursor # Unset /\ ~OnTheWay(p)
Recorded(p) == \E l \in Logs : l[1] = p /\ rows[l] > 0

(***************************************************************************)
(* The cursor never runs ahead of the records: a payment it has passed is  *)
(* recorded, "a deposit we never recorded because the cursor ran ahead is  *)
(* money that silently vanished".  This for payments to the Safe and to a  *)
(* page that converts, with the page unchanged while they are on the way.  *)
(***************************************************************************)
NothingPassedOver ==
    \A p \in (IF world.meets THEN Direct ELSE Direct \cup converting) \ disturbed :
        Passed(p) => Recorded(p)

(***************************************************************************)
(* What was detected is settled or refused in the end, though a crash may  *)
(* come between the record and the conversion.                             *)
(***************************************************************************)
DetectedIsDecided ==
    (\E l \in Logs : deposit[l] = "DETECTED") ~> (\A l \in Logs : deposit[l] # "DETECTED")
=============================================================================
