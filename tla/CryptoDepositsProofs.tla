------------------------- MODULE CryptoDepositsProofs -------------------------
(***************************************************************************)
(* Theorems about CryptoDeposits, for every set of payments and of ticks   *)
(* that overlap, every depth and span of the scan, any number of changes   *)
(* of the page and of crashes.                                             *)
(***************************************************************************)
EXTENDS CryptoDeposits, TLAPS

Reading(w) == pc[w] \in {"EURE", "USDC"}
Scanning(w) == pc[w] = "head" \/ Reading(w)
First(p) == <<p, 1>>
Second(p) == <<p, 2>>

\* A page that converts is an approved account's, and has an address; a payment
\* is forwarded once it is made, and only behind a forwarder; what is read was
\* mined.
OwnerInv == page.auto => approved /\ page.handle # 0

ChainInv ==
    /\ \A p \in ToPage : /\ sentTo[p] # SafeAddress => world.forwarder
                         /\ mined[Second(p)] # 0 => Paid(p) /\ Forwards(p)
    /\ \A p \in converting : Paid(p)
    /\ cursor <= height
    /\ \A w \in Workers : upTo[w] <= height

\* A deposit is one row, and what is being converted is a deposit.
RowsInv ==
    /\ \A l \in Logs : rows[l] = IF deposit[l] = "none" THEN 0 ELSE 1
    /\ \A w \in Workers : pc[w] \in {"sweep", "convert"} =>
          job[w] \in Logs /\ deposit[job[w]] # "none"

\* What a scan watches: the Safe always, and where the owner leaves the page alone
\* meanwhile, just what it would watch now.
WatchInv ==
    \A w \in Workers :
        /\ <<SafeAddress, "payment-page">> \in watch[w] => ~world.forwarder
        /\ Scanning(w) => \E s \in {"payment-page", "safe"} : <<SafeAddress, s>> \in watch[w]
        /\ Scanning(w) /\ ~world.meets => watch[w] = Watched
        /\ Reading(w) => cursor # Unset /\ \A l \in queue[w] : mined[l] # 0

(***************************************************************************)
(* Of the two hops.  The second one of a payment nobody disturbed is never *)
(* recorded: while the page is as the payment found it the hop is known    *)
(* for what it is, and afterwards the scan has left it behind for good,    *)
(* though overlapping ticks may move the cursor back.                      *)
(***************************************************************************)
Behind(p) ==
    /\ \A l \in {First(p), Second(p)} : mined[l] # 0 /\ mined[l] <= cursor
    /\ \A w \in Workers : Reading(w) =>
          /\ mined[First(p)] <= upTo[w] /\ mined[Second(p)] <= upTo[w]
          /\ First(p) \notin queue[w] /\ Second(p) \notin queue[w]

HopInv ==
    ~world.meets => \A p \in ToPage \ disturbed :
        /\ rows[Second(p)] = 0
        /\ Paid(p) /\ Forwards(p) /\ sentTo[p] # PageAddress => Behind(p)

(***************************************************************************)
(* Of the cursor.  What is at or below it is recorded; what is in a window *)
(* being read is recorded or still to be read; and a page is as an         *)
(* undisturbed payment found it until that payment is recorded.            *)
(***************************************************************************)
Covered == (IF world.meets THEN Direct ELSE Direct \cup converting) \ disturbed
Within(p, end) == Paid(p) /\ mined[First(p)] > floor /\ mined[First(p)] <= end
ToBeRead(w, p) == First(p) \in queue[w] /\ (pc[w] = "EURE" \/ Token[p] = "USDC")

BelowCursor(p) == cursor # Unset /\ Within(p, cursor) => deposit[First(p)] # "none"

InWindow(p) ==
    \A w \in Workers : Reading(w) /\ Within(p, upTo[w]) =>
        deposit[First(p)] # "none" \/ ToBeRead(w, p)

AsFound(p) ==
    p \in ToPage => \/ deposit[First(p)] # "none"
                    \/ cursor # Unset /\ mined[First(p)] <= floor
                    \/ page.auto /\ sentTo[p] = PageAddress

RecordInv == \A p \in Covered : BelowCursor(p) /\ InWindow(p) /\ AsFound(p)

DepositInv == TypeOK /\ OwnerInv /\ ChainInv /\ RowsInv /\ WatchInv /\ HopInv /\ RecordInv
\* Nothing is paid, read or recorded.
LEMMA DepositInvInit == Init => DepositInv
<1> SUFFICES ASSUME Init PROVE DepositInv
  OBVIOUS
<1>1. TypeOK
  <2>1. 0 \in Addresses /\ MaxHeight \in Nat /\ MaxChanges \in Nat /\ MaxCrashes \in Nat
    BY DepositAssumption DEF Addresses
  <2>2. QED
    BY <2>1 DEF Init, TypeOK, Unset, Deposits
<1>2. OwnerInv /\ RowsInv
  BY DEF Init, OwnerInv, RowsInv
<1>3. Unset \in Int /\ Unset < 0
  BY DEF Unset
<1>4. \A l \in Logs : mined[l] = 0
  BY DEF Init
<1>5. \A p \in ToPage : First(p) \in Logs /\ Second(p) \in Logs
  BY DEF Logs, Payments, First, Second
<1>6. ChainInv
  BY <1>3, <1>4, <1>5 DEF Init, ChainInv, SafeAddress
<1>7. WatchInv
  BY DEF Init, WatchInv, Scanning, Reading
<1>8. HopInv
  BY <1>4, <1>5 DEF Init, HopInv, Paid, First, Second, Logs
<1>9. RecordInv
  <2>1. \A p \in Covered : p \in Direct
    BY DEF Covered, Init
  <2>2. \A p \in Covered : ~Paid(p) /\ p \notin ToPage
    BY <1>4, <2>1, DepositAssumption DEF Paid, Logs, Payments
  <2>3. \A p \in Covered : \A end : ~Within(p, end)
    BY <2>2 DEF Within
  <2>4. QED
    BY <2>2, <2>3 DEF RecordInv, BelowCursor, InWindow, AsFound
<1>10. QED
  BY <1>1, <1>2, <1>6, <1>7, <1>8, <1>9 DEF DepositInv

-----------------------------------------------------------------------------
(* What the operators give.                                                *)

\* A payment has a first log, one to the page a second as well.
LEMMA LogsOfPayments ==
  /\ \A p \in Payments : First(p) \in Logs
  /\ \A p \in ToPage : Second(p) \in Logs /\ p \in Payments
  /\ \A l \in Logs : l[1] \in Payments /\ (l = First(l[1]) \/ (l = Second(l[1]) /\ l[1] \in ToPage))
<1>1. \A l \in Logs : \/ \E p \in Payments : l = First(p)
                      \/ \E p \in ToPage : l = Second(p)
  BY DEF Logs, First, Second
<1>2. \A p : First(p)[1] = p /\ Second(p)[1] = p
  BY DEF First, Second
<1>3. QED
  BY <1>1, <1>2 DEF Logs, Payments, First, Second

\* A scan watches the Safe, and the page's address as such.
LEMMA WatchedIs ==
  ASSUME TypeOK
  PROVE  /\ Watched \in SUBSET (Addresses \X {"payment-page", "safe"})
         /\ <<SafeAddress, "payment-page">> \in Watched => ~world.forwarder
         /\ \E s \in {"payment-page", "safe"} : <<SafeAddress, s>> \in Watched
<1>1. SafeAddress \in Addresses /\ page.handle \in Addresses
  BY DepositAssumption DEF TypeOK, Addresses, SafeAddress
<1>2. PageAddress \in Addresses
  BY <1>1 DEF PageAddress
<1>3. QED
  BY <1>1, <1>2 DEF Watched, PageAddress, SafeAddress

\* Everything of the other ticks stays.
Others(w) ==
    \A v \in Workers \ {w} : /\ pc'[v] = pc[v] /\ watch'[v] = watch[v] /\ upTo'[v] = upTo[v]
                             /\ queue'[v] = queue[v] /\ job'[v] = job[v]

TicksTyped ==
    /\ pc \in [Workers -> {"idle", "head", "EURE", "USDC", "sweep", "convert"}]
    /\ watch \in [Workers -> SUBSET (Addresses \X {"payment-page", "safe"})]
    /\ upTo \in [Workers -> Nat]
    /\ queue \in [Workers -> SUBSET Logs]
    /\ job \in [Workers -> Logs \cup {None}]

\* A tick that ends.
LEMMA ReturnDoes ==
  ASSUME TypeOK, NEW w \in Workers, Return(w)
  PROVE  /\ TicksTyped' /\ Others(w)
         /\ pc'[w] = "idle" /\ watch'[w] = {} /\ upTo'[w] = 0
<1>1. TicksTyped'
  BY DEF TypeOK, TicksTyped, Return, Await
<1>2. QED
  BY <1>1 DEF TypeOK, Return, Await, Others

\* A tick that converts: what is converted is decided, what was none stays none.
Converts(w, states) ==
    /\ TicksTyped' /\ Others(w)
    /\ deposit' \in [Logs -> Deposits]
    /\ \A l \in Logs : deposit'[l] = "none" <=> states[l] = "none"
    /\ pc'[w] \in {"idle", "head", "sweep", "convert"}
    /\ pc'[w] \in {"sweep", "convert"} => job'[w] \in Logs /\ deposit'[job'[w]] # "none"
    /\ watch'[w] \in {watch[w], Watched, {}}
    /\ pc'[w] = "head" => watch'[w] = Watched
    /\ upTo'[w] \in {upTo[w], 0}

LEMMA ConvertDoes ==
  ASSUME TypeOK, NEW w \in Workers, NEW ls \in SUBSET Logs, NEW states \in [Logs -> Deposits],
         \A l \in ls : states[l] # "none", NEW p \in {"sweep", "convert"}, Convert(w, ls, states, p)
  PROVE  Converts(w, states)
<1>1. AtOnce # "waits" => AtOnce \in Deposits \ {"none"}
  BY DEF AtOnce, Deposits
<1>2. deposit' = [l \in Logs |-> IF l \in ls /\ AtOnce # "waits" THEN AtOnce ELSE states[l]]
  BY DEF Convert
<1>3. /\ deposit' \in [Logs -> Deposits]
      /\ \A l \in Logs : deposit'[l] = "none" <=> states[l] = "none"
  BY <1>1, <1>2
<1>4. CASE Return(w)
  BY <1>3, <1>4, ReturnDoes DEF Converts
<1>5. CASE Await(w, "head") /\ watch' = [watch EXCEPT ![w] = Watched]
           /\ queue' = [queue EXCEPT ![w] = {}] /\ job' = [job EXCEPT ![w] = None]
           /\ UNCHANGED upTo
  <2>1. TicksTyped'
    BY <1>5, WatchedIs DEF TypeOK, TicksTyped, Await
  <2>2. QED
    BY <1>3, <1>5, <2>1 DEF TypeOK, Await, Others, Converts
<1>6. ASSUME NEW l \in ls, Await(w, p), job' = [job EXCEPT ![w] = l],
             queue' = [queue EXCEPT ![w] = ls \ {l}], UNCHANGED <<watch, upTo>>
      PROVE  /\ TicksTyped' /\ Others(w) /\ pc'[w] = p /\ job'[w] = l
             /\ watch'[w] = watch[w] /\ upTo'[w] = upTo[w]
  <2>1. TicksTyped'
    BY <1>6 DEF TypeOK, TicksTyped, Await
  <2>2. QED
    BY <1>6, <2>1 DEF TypeOK, Await, Others
<1>7. CASE \E l \in ls : /\ Await(w, p) /\ job' = [job EXCEPT ![w] = l]
                         /\ queue' = [queue EXCEPT ![w] = ls \ {l}] /\ UNCHANGED <<watch, upTo>>
  BY <1>3, <1>6, <1>7 DEF Converts
<1>8. QED
  BY <1>4, <1>5, <1>7 DEF Convert

-----------------------------------------------------------------------------
(* What keeps each part.                                                   *)

\* The chain grows for nobody but those who pay.
LEMMA ChainKept ==
  ASSUME ChainInv, NEW w \in Workers, Others(w),
         UNCHANGED <<world, height, mined, sentTo, converting>>,
         cursor' <= height, upTo'[w] <= height
  PROVE  ChainInv'
<1>1. \A v \in Workers : upTo'[v] <= height'
  BY DEF ChainInv, Others
<1>2. QED
  BY <1>1 DEF ChainInv, Paid, Forwards

\* What is a deposit stays one, of one row.
LEMMA RowsKept ==
  ASSUME RowsInv, NEW w \in Workers, Others(w),
         \A l \in Logs : deposit[l] # "none" => deposit'[l] # "none",
         \A l \in Logs : rows'[l] = IF deposit'[l] = "none" THEN 0 ELSE 1,
         pc'[w] \in {"sweep", "convert"} => job'[w] \in Logs /\ deposit'[job'[w]] # "none"
  PROVE  RowsInv'
<1> SUFFICES ASSUME NEW v \in Workers, pc'[v] \in {"sweep", "convert"}
             PROVE  job'[v] \in Logs /\ deposit'[job'[v]] # "none"
  BY DEF RowsInv
<1>1. QED
  BY DEF RowsInv, Others

\* A scan watches what it watched, or what is right to watch now.
LEMMA WatchKept ==
  ASSUME TypeOK, WatchInv, NEW w \in Workers, Others(w),
         UNCHANGED <<world, approved, page, mined>>,
         cursor # Unset => cursor' # Unset,
         watch'[w] \in {watch[w], Watched, {}},
         Scanning(w)' => watch'[w] = Watched \/ (Scanning(w) /\ watch'[w] = watch[w]),
         Reading(w)' => cursor' # Unset /\ \A l \in queue'[w] : mined[l] # 0
  PROVE  WatchInv'
<1>1. Watched' = Watched
  BY DEF Watched, PageAddress
<1> SUFFICES ASSUME NEW v \in Workers
             PROVE  /\ <<SafeAddress, "payment-page">> \in watch'[v] => ~world.forwarder
                    /\ Scanning(v)' =>
                          \E s \in {"payment-page", "safe"} : <<SafeAddress, s>> \in watch'[v]
                    /\ Scanning(v)' /\ ~world.meets => watch'[v] = Watched
                    /\ Reading(v)' => cursor' # Unset /\ \A l \in queue'[v] : mined[l] # 0
  BY <1>1 DEF WatchInv
<1>2. CASE v = w
  <2>1. <<SafeAddress, "payment-page">> \in watch'[v] => ~world.forwarder
    BY <1>2, WatchedIs DEF WatchInv
  <2>2. /\ Scanning(v)' => \E s \in {"payment-page", "safe"} : <<SafeAddress, s>> \in watch'[v]
        /\ Scanning(v)' /\ ~world.meets => watch'[v] = Watched
    BY <1>2, WatchedIs DEF WatchInv
  <2>3. QED
    BY <1>2, <2>1, <2>2
<1>3. CASE v # w
  <2>1. /\ pc'[v] = pc[v] /\ watch'[v] = watch[v] /\ queue'[v] = queue[v]
        /\ Scanning(v)' = Scanning(v) /\ Reading(v)' = Reading(v)
    BY <1>3 DEF Others, Scanning, Reading
  <2>2. QED
    BY <2>1 DEF WatchInv
<1>4. QED
  BY <1>2, <1>3

\* What is behind the scan stays behind it, though the cursor may go back to the end
\* of a window that was read meanwhile.
LEMMA BehindKept ==
  ASSUME NEW w \in Workers, Others(w), mined' = mined, NEW p \in ToPage, Behind(p),
         cursor' = cursor \/ (Reading(w) /\ cursor' = upTo[w]),
         Reading(w)' => Reading(w) /\ upTo'[w] = upTo[w] /\ queue'[w] = queue[w]
  PROVE  Behind(p)'
<1>1. \A v \in Workers : Reading(v)' =>
          Reading(v) /\ upTo'[v] = upTo[v] /\ queue'[v] = queue[v]
  BY DEF Others, Reading
<1>2. \A l \in {First(p), Second(p)} : mined[l] # 0 /\ mined[l] <= cursor'
  BY DEF Behind
<1>3. QED
  BY <1>1, <1>2 DEF Behind, First, Second

\* And with it the hops.
LEMMA HopKept ==
  ASSUME HopInv, UNCHANGED <<world, disturbed, mined, sentTo, page>>,
         \A p \in ToPage \ disturbed :
            ~world.meets => rows'[Second(p)] = rows[Second(p)],
         \A p \in ToPage : Behind(p) => Behind(p)'
  PROVE  HopInv'
<1>1. /\ \A p \in ToPage : Paid(p)' = Paid(p) /\ Forwards(p)' = Forwards(p)
      /\ PageAddress' = PageAddress
  BY DEF Paid, Forwards, PageAddress
<1>2. QED
  BY <1>1 DEF HopInv, Second

\* What is recorded stays so, and a reader that ends leaves nothing to be read.
LEMMA RecordKept ==
  ASSUME TypeOK, RecordInv, NEW w \in Workers, Others(w), floor' \in Nat,
         UNCHANGED <<world, approved, page, disturbed, mined, sentTo, converting>>,
         \A l \in Logs : deposit[l] # "none" => deposit'[l] # "none",
         \/ UNCHANGED <<cursor, floor>>
         \/ cursor = Unset /\ cursor' = floor'
            /\ \A v \in Workers : ~Reading(v)
         \/ Reading(w) /\ floor' = floor /\ cursor' = upTo[w] /\ cursor # Unset /\ cursor' # Unset
            /\ \A p \in Covered : ToBeRead(w, p) /\ mined[First(p)] > floor =>
                    deposit'[First(p)] # "none",
         \/ ~Reading(w)'
         \/ Reading(w) /\ upTo'[w] = upTo[w] /\ \A p \in Covered :
                ToBeRead(w, p) /\ mined[First(p)] > floor =>
                    deposit'[First(p)] # "none" \/ ToBeRead(w, p)'
  PROVE  RecordInv'
<1>0. Covered' = Covered /\ PageAddress' = PageAddress
  BY DEF Covered, PageAddress
<1> SUFFICES ASSUME NEW p \in Covered
             PROVE  BelowCursor(p)' /\ InWindow(p)' /\ AsFound(p)'
  BY <1>0, Zenon DEF RecordInv
<1>1. p \in Payments /\ First(p) \in Logs
  BY LogsOfPayments DEF Covered, TypeOK, Payments
<1>2. deposit[First(p)] # "none" => deposit'[First(p)] # "none"
  BY <1>1
<1>3. BelowCursor(p)'
  <2> SUFFICES ASSUME cursor' # Unset, Within(p, cursor)', deposit[First(p)] = "none"
               PROVE  deposit'[First(p)] # "none"
    BY <1>2 DEF BelowCursor, First
  <2>1. CASE UNCHANGED <<cursor, floor>>
    BY <2>1 DEF RecordInv, BelowCursor, Within, Paid, First
  <2>2. CASE cursor' = floor'
    <3>1. mined[First(p)] > floor' /\ mined[First(p)] <= floor'
      BY <2>2 DEF Within, First
    <3>2. QED
      BY <1>1, <3>1 DEF TypeOK
  <2>3. CASE /\ Reading(w) /\ floor' = floor /\ cursor' = upTo[w]
             /\ \A q \in Covered : ToBeRead(w, q) /\ mined[First(q)] > floor =>
                    deposit'[First(q)] # "none"
    <3>1. Within(p, upTo[w])
      BY <2>3 DEF Within, Paid, First
    <3>2. QED
      BY <2>3, <3>1 DEF RecordInv, InWindow, Within
  <2>4. QED
    BY <2>1, <2>2, <2>3
<1>4. ASSUME NEW v \in Workers, Reading(v)', Within(p, upTo[v])'
      PROVE  deposit'[First(p)] # "none" \/ ToBeRead(v, p)'
  <2>1. Reading(v) /\ upTo'[v] = upTo[v]
    BY <1>4 DEF Others, Reading
  <2>2. floor' = floor
    BY <2>1
  <2>3. Within(p, upTo[v])
    BY <1>4, <2>1, <2>2 DEF Within, Paid, First
  <2>4. deposit[First(p)] # "none" \/ ToBeRead(v, p)
    BY <2>1, <2>3 DEF RecordInv, InWindow
  <2>5. v # w => ToBeRead(v, p)' = ToBeRead(v, p)
    BY DEF Others, ToBeRead, First
  <2>6. mined[First(p)] > floor
    BY <2>3 DEF Within
  <2>7. QED
    BY <1>2, <1>4, <2>4, <2>5, <2>6
<1>5. AsFound(p)'
  <2>1. cursor # Unset => cursor' # Unset /\ floor' = floor
    OBVIOUS
  <2>2. QED
    BY <1>0, <1>2, <2>1 DEF RecordInv, AsFound, First
<1>6. QED
  BY <1>3, <1>4, <1>5 DEF InWindow
-----------------------------------------------------------------------------
(* The steps of a tick.                                                    *)

\* What a tick never touches.
Apart == UNCHANGED <<world, approved, page, disturbed, changes, height, mined, sentTo, converting,
                     crashes>>

\* A step that records nothing and after which the tick does not read.
LEMMA LeavesKeep ==
  ASSUME DepositInv, NEW w \in Workers, Apart, Others(w), TicksTyped', ~Reading(w)',
         rows' = rows, deposit' \in [Logs -> Deposits],
         \A l \in Logs : deposit'[l] = "none" <=> deposit[l] = "none",
         \/ UNCHANGED <<cursor, floor>>
         \/ cursor = Unset /\ cursor' \in Nat /\ cursor' <= height /\ floor' = cursor',
         pc'[w] \in {"sweep", "convert"} => job'[w] \in Logs /\ deposit'[job'[w]] # "none",
         watch'[w] \in {watch[w], Watched, {}}, pc'[w] = "head" => watch'[w] = Watched,
         upTo'[w] \in {upTo[w], 0}
  PROVE  DepositInv'
<1>1. /\ cursor' \in Nat \cup {Unset} /\ floor' \in Nat
      /\ cursor # Unset => cursor' = cursor /\ cursor' # Unset
  BY DEF DepositInv, TypeOK, Unset
<1>2. TypeOK' /\ OwnerInv'
  BY <1>1 DEF DepositInv, TypeOK, TicksTyped, Apart, OwnerInv
<1>3. ChainInv'
  <2>1. cursor' <= height /\ upTo'[w] <= height
    BY DEF DepositInv, TypeOK, ChainInv
  <2>2. QED
    BY <2>1, ChainKept DEF DepositInv, Apart
<1>4. RowsInv'
  <2>1. \A l \in Logs : rows'[l] = IF deposit'[l] = "none" THEN 0 ELSE 1
    BY DEF DepositInv, RowsInv
  <2>2. QED
    BY <2>1, RowsKept DEF DepositInv
<1>5. WatchInv'
  <2>1. Scanning(w)' => watch'[w] = Watched
    BY DEF Scanning, Reading
  <2>2. QED
    BY <1>1, <2>1, WatchKept DEF DepositInv, Apart
<1>6. HopInv'
  <2>1. ASSUME NEW p \in ToPage, Behind(p) PROVE Behind(p)'
    <3>1. cursor # Unset
      BY <2>1, LogsOfPayments DEF Behind, DepositInv, TypeOK, Unset
    <3>2. QED
      BY <1>1, <2>1, <3>1, BehindKept DEF Apart
  <2>2. QED
    BY <2>1, HopKept DEF DepositInv, Apart
<1>7. RecordInv'
  <2>1. cursor = Unset => \A v \in Workers : ~Reading(v)
    BY DEF DepositInv, WatchInv
  <2>2. QED
    BY <1>1, <2>1, RecordKept DEF DepositInv, Apart
<1>8. QED
  BY <1>2, <1>3, <1>4, <1>5, <1>6, <1>7 DEF DepositInv

\* Beginning, refusing and breaking off.
LEMMA TickKeeps ==
  ASSUME DepositInv, NEW w \in Workers, Tick(w) \/ Refuse(w) \/ TickThrows(w)
  PROVE  DepositInv'
<1>0. TypeOK
  BY DEF DepositInv
<1>1. Apart /\ UNCHANGED <<cursor, rows, floor>>
  BY DEF Tick, Refuse, TickThrows, Apart, owner, chain, store
<1>2. CASE TickThrows(w)
  <2>1. Return(w) /\ deposit' = deposit
    BY <1>2 DEF TickThrows, store
  <2>2. QED
    BY <1>0, <1>1, <2>1, ReturnDoes, LeavesKeep DEF Reading, TypeOK
<1>3. ASSUME Tick(w) \/ Refuse(w)
      PROVE  DepositInv'
  <2>1. PICK states \in [Logs -> Deposits], ls \in SUBSET Logs, p \in {"sweep", "convert"} :
            /\ Convert(w, ls, states, p)
            /\ \A l \in ls : states[l] = "DETECTED"
            /\ \A l \in Logs : states[l] = "none" <=> deposit[l] = "none"
    <3>1. CASE Tick(w)
      BY <1>0, <3>1 DEF Tick, Pending, TypeOK
    <3>2. CASE Refuse(w)
      <4> DEFINE states == [deposit EXCEPT ![job[w]] = "REFUSED"]
      <4>1. /\ Convert(w, queue[w] \cap Pending(states), states, pc[w])
            /\ pc[w] \in {"sweep", "convert"}
        BY <3>2 DEF Refuse
      <4>2. job[w] \in Logs /\ deposit[job[w]] # "none"
        BY <4>1 DEF DepositInv, RowsInv
      <4>3. /\ states \in [Logs -> Deposits]
            /\ \A l \in Logs : states[l] = "none" <=> deposit[l] = "none"
        BY <1>0, <4>2 DEF TypeOK, Deposits
      <4> HIDE DEF states
      <4>4. /\ queue[w] \cap Pending(states) \in SUBSET Logs
            /\ \A l \in queue[w] \cap Pending(states) : states[l] = "DETECTED"
        BY DEF Pending
      <4>5. QED
        BY <4>1, <4>3, <4>4
    <3>3. QED
      BY <1>3, <3>1, <3>2
  <2>2. \A l \in ls : states[l] # "none"
    BY <2>1
  <2>3. Converts(w, states)
    BY <1>0, <2>1, <2>2, ConvertDoes
  <2>4. \A l \in Logs : deposit'[l] = "none" <=> deposit[l] = "none"
    BY <2>1, <2>3 DEF Converts
  <2>5. ~Reading(w)'
    BY <2>3 DEF Reading, Converts
  <2>6. QED
    BY <1>1, <2>3, <2>4, <2>5, LeavesKeep DEF Converts
<1>4. QED
  BY <1>2, <1>3

\* The head: what the window holds is in the queue, and what has been left behind is
\* not.
LEMMA HeadKeeps ==
  ASSUME DepositInv, NEW w \in Workers, Head(w)
  PROVE  DepositInv'
<1> DEFINE safe == height - Confirmations
<1>0. TypeOK /\ safe \in Int /\ safe <= height /\ Confirmations \in Nat /\ MaxBlockSpan \in Nat
  BY DepositAssumption DEF DepositInv, TypeOK
<1> HIDE DEF safe
<1>1. Apart /\ UNCHANGED <<rows, deposit>> /\ pc[w] = "head"
  BY DEF Head, Apart, owner, chain
<1>2. CASE Return(w)
  <2>1. \/ UNCHANGED <<cursor, floor>>
        \/ cursor = Unset /\ safe >= 0 /\ floor' = cursor'
           /\ cursor' = IF safe > MaxBlockSpan THEN safe - MaxBlockSpan ELSE 0
    BY <1>2 DEF Head, safe
  <2>2. \/ UNCHANGED <<cursor, floor>>
        \/ cursor = Unset /\ cursor' \in Nat /\ cursor' <= height /\ floor' = cursor'
    BY <1>0, <2>1 DEF TypeOK
  <2>3. QED
    BY <1>0, <1>1, <1>2, <2>2, ReturnDoes, LeavesKeep DEF Reading, TypeOK
<1>3. CASE ~Return(w)
  <2>1. PICK end \in Nat :
            /\ end > cursor /\ end <= height /\ cursor # Unset
            /\ upTo' = [upTo EXCEPT ![w] = end]
            /\ queue' = [queue EXCEPT ![w] = {l \in Logs : mined[l] \in (cursor + 1)..end}]
            /\ Await(w, "EURE") /\ UNCHANGED <<watch, job, cursor, floor>>
    <3> DEFINE end == IF safe - cursor > MaxBlockSpan THEN cursor + MaxBlockSpan ELSE safe
    <3>1. /\ cursor # Unset /\ safe > cursor /\ upTo' = [upTo EXCEPT ![w] = end]
          /\ queue' = [queue EXCEPT ![w] = {l \in Logs : mined[l] \in (cursor + 1)..upTo'[w]}]
          /\ Await(w, "EURE") /\ UNCHANGED <<watch, job, cursor, floor>>
      BY <1>3 DEF Head, safe
    <3>2. cursor \in Nat
      BY <1>0, <3>1 DEF TypeOK
    <3>3. end \in Nat /\ end > cursor /\ end <= height
      BY <1>0, <3>1, <3>2, DepositAssumption DEF TypeOK
    <3> HIDE DEF end
    <3>4. upTo'[w] = end
      BY <1>0, <3>1 DEF TypeOK
    <3>5. QED
      BY <3>1, <3>3, <3>4
  <2>2. Others(w) /\ TicksTyped'
    BY <1>0, <2>1 DEF TypeOK, TicksTyped, Others, Await
  <2>3. /\ pc'[w] = "EURE" /\ upTo'[w] = end /\ watch'[w] = watch[w] /\ cursor \in Nat
        /\ \A l \in Logs : l \in queue'[w] <=> cursor < mined[l] /\ mined[l] <= end
        /\ queue'[w] \subseteq Logs
    BY <1>0, <2>1 DEF TypeOK, Await
  <2>4. TypeOK' /\ OwnerInv'
    BY <1>1, <2>1, <2>2 DEF DepositInv, TypeOK, TicksTyped, Apart, OwnerInv
  <2>5. ChainInv'
    BY <1>1, <2>1, <2>2, <2>3, ChainKept DEF DepositInv, ChainInv, Apart
  <2>6. RowsInv'
    BY <1>1, <2>2, <2>3, RowsKept DEF DepositInv, RowsInv
  <2>7. WatchInv'
    <3>1. \A l \in queue'[w] : mined[l] # 0
      BY <1>0, <2>3 DEF TypeOK
    <3>2. QED
      BY <1>0, <1>1, <2>1, <2>2, <2>3, <3>1, WatchKept DEF DepositInv, Apart, Scanning
  <2>8. HopInv'
    <3>1. ASSUME NEW p \in ToPage, Behind(p) PROVE Behind(p)'
      <4>1. /\ First(p) \in Logs /\ Second(p) \in Logs
            /\ mined[First(p)] \in Nat /\ mined[Second(p)] \in Nat
        BY <1>0, LogsOfPayments DEF TypeOK
      <4>2. \A l \in {First(p), Second(p)} : mined[l] # 0 /\ mined[l] <= cursor
        BY <3>1 DEF Behind
      <4>3. /\ mined[First(p)] <= upTo'[w] /\ mined[Second(p)] <= upTo'[w]
            /\ First(p) \notin queue'[w] /\ Second(p) \notin queue'[w]
        BY <2>1, <2>3, <4>1, <4>2
      <4>4. \A v \in Workers \ {w} : Reading(v)' =>
                Reading(v) /\ upTo'[v] = upTo[v] /\ queue'[v] = queue[v]
        BY <2>2 DEF Others, Reading
      <4>5. cursor' = cursor /\ mined' = mined
        BY <1>1, <2>1 DEF Apart
      <4>6. QED
        BY <3>1, <4>2, <4>3, <4>4, <4>5 DEF Behind, First, Second
    <3>2. QED
      BY <1>1, <3>1, HopKept DEF DepositInv, Apart
  <2>9. RecordInv'
    <3>1. Covered' = Covered /\ PageAddress' = PageAddress
      BY <1>1 DEF Covered, PageAddress, Apart
    <3> SUFFICES ASSUME NEW p \in Covered PROVE BelowCursor(p)' /\ InWindow(p)' /\ AsFound(p)'
      BY <3>1, Zenon DEF RecordInv
    <3>2. BelowCursor(p)' /\ AsFound(p)'
      BY <1>1, <2>1, <3>1 DEF DepositInv, RecordInv, BelowCursor, AsFound, Within, Paid, First, Apart
    <3>3. ASSUME NEW v \in Workers, Reading(v)', Within(p, upTo[v])'
          PROVE  deposit'[First(p)] # "none" \/ ToBeRead(v, p)'
      <4>1. CASE v = w
        <5>1. First(p) \in Logs /\ mined[First(p)] \in Nat
          BY <1>0, LogsOfPayments DEF TypeOK, Covered, Payments
        <5>2. mined[First(p)] > floor /\ mined[First(p)] <= end /\ Paid(p)
          BY <1>1, <2>1, <2>3, <3>3, <4>1 DEF Within, First, Paid, Apart
        <5>3. CASE mined[First(p)] <= cursor
          BY <1>1, <2>1, <5>2, <5>3 DEF DepositInv, RecordInv, BelowCursor, Within
        <5>4. CASE mined[First(p)] > cursor
          BY <2>3, <4>1, <5>1, <5>2, <5>4 DEF ToBeRead, First
        <5>5. QED
          BY <2>3, <5>1, <5>3, <5>4
      <4>2. CASE v # w
        <5>1. /\ pc'[v] = pc[v] /\ upTo'[v] = upTo[v] /\ queue'[v] = queue[v]
          BY <2>2, <4>2 DEF Others
        <5>2. Reading(v) /\ Within(p, upTo[v])
          BY <1>1, <2>1, <3>3, <5>1 DEF Reading, Within, Paid, First, Apart
        <5>3. deposit[First(p)] # "none" \/ ToBeRead(v, p)
          BY <5>2 DEF DepositInv, RecordInv, InWindow
        <5>4. QED
          BY <1>1, <5>1, <5>3 DEF ToBeRead, First
      <4>3. QED
        BY <4>1, <4>2
    <3>4. QED
      BY <3>2, <3>3 DEF InWindow
  <2>10. QED
    BY <2>4, <2>5, <2>6, <2>7, <2>8, <2>9 DEF DepositInv
<1>4. QED
  BY <1>2, <1>3
\* The second hop of a payment nobody disturbed is not fresh: either the page is as
\* the payment found it and the hop is known, or the scan is past it.
LEMMA SecondHopKnown ==
  ASSUME DepositInv, NEW w \in Workers, Reading(w), ~world.meets,
         NEW p \in ToPage \ disturbed, Second(p) \in queue[w]
  PROVE  Second(p) \notin Fresh(queue[w], watch[w])
<1>0. Second(p) \in Logs /\ Second(p)[1] = p /\ Second(p)[2] = 2 /\ To(Second(p)) = SafeAddress
  BY LogsOfPayments DEF Second, To
<1>1. Paid(p) /\ Forwards(p) /\ sentTo[p] # SafeAddress /\ world.forwarder
  BY <1>0 DEF DepositInv, WatchInv, ChainInv, Forwards
<1>2. ~Behind(p)
  BY DEF Behind
<1>3. sentTo[p] = PageAddress
  BY <1>1, <1>2 DEF DepositInv, HopInv
<1>4. SecondHop(Second(p), "safe")
  BY <1>0, <1>1, <1>3 DEF SecondHop
<1>5. <<SafeAddress, "payment-page">> \notin watch[w]
  BY <1>1 DEF DepositInv, WatchInv
<1>6. QED
  BY <1>0, <1>4, <1>5 DEF Fresh

\* The first log of a payment that counts, above the first cursor and not recorded, is
\* fresh to any scan that reads it.
LEMMA FirstIsFresh ==
  ASSUME DepositInv, NEW w \in Workers, Reading(w), NEW p \in Covered, NEW ls,
         First(p) \in ls, mined[First(p)] > floor, deposit[First(p)] = "none"
  PROVE  First(p) \in Fresh(ls, watch[w])
<1>0. First(p)[1] = p /\ First(p)[2] = 1
  BY DEF First
<1>1. \A s : ~SecondHop(First(p), s)
  BY <1>0 DEF SecondHop
<1> SUFFICES \E s \in {"payment-page", "safe"} : <<To(First(p)), s>> \in watch[w]
  BY <1>1 DEF Fresh
<1>2. CASE p \in Direct
  <2>1. To(First(p)) = SafeAddress
    BY <1>0, <1>2, DepositAssumption DEF To
  <2>2. QED
    BY <2>1 DEF DepositInv, WatchInv, Scanning
<1>3. CASE p \notin Direct
  <2>1. ~world.meets /\ p \in ToPage
    BY <1>3 DEF Covered, DepositInv, TypeOK
  <2>2. First(p) \in Logs /\ mined[First(p)] \in Nat /\ floor \in Nat
    BY <2>1, LogsOfPayments DEF DepositInv, TypeOK
  <2>3. page.auto /\ sentTo[p] = PageAddress
    BY <2>1, <2>2 DEF DepositInv, RecordInv, AsFound
  <2>4. watch[w] = Watched /\ approved /\ page.handle # 0
    BY <2>1, <2>3 DEF DepositInv, WatchInv, OwnerInv, Scanning
  <2>5. <<PageAddress, "payment-page">> \in watch[w]
    BY <2>3, <2>4 DEF Watched
  <2>6. QED
    BY <1>0, <2>1, <2>3, <2>5 DEF To
<1>4. QED
  BY <1>2, <1>3

\* The logs of a token arrive.
LEMMA LogsKeep ==
  ASSUME DepositInv, NEW w \in Workers, LogsRead(w)
  PROVE  DepositInv'
<1> DEFINE ls == {l \in queue[w] : Token[l[1]] = pc[w]}
           fresh == Fresh(ls, watch[w])
           states == [l \in Logs |-> IF l \in fresh THEN FirstState(l, watch[w]) ELSE deposit[l]]
<1>0. TypeOK /\ Reading(w) /\ pc[w] \in {"EURE", "USDC"}
  BY DEF DepositInv, LogsRead, Reading
<1>1. Apart /\ floor' = floor
  BY DEF LogsRead, Apart, owner, chain
<1>2. rows' = [l \in Logs |-> IF l \in fresh THEN rows[l] + 1 ELSE rows[l]]
  BY DEF LogsRead
<1>3. \/ /\ pc[w] = "EURE" /\ deposit' = states /\ Await(w, "USDC")
         /\ UNCHANGED <<watch, upTo, queue, job, cursor>>
      \/ /\ pc[w] = "USDC" /\ cursor' = upTo[w]
         /\ Convert(w, {l \in fresh : states[l] = "DETECTED"}, states, "convert")
  BY DEF LogsRead
<1>4. fresh \subseteq ls /\ ls \subseteq Logs /\ \A l \in fresh : deposit[l] = "none"
  BY <1>0 DEF Fresh, TypeOK
<1>5. /\ states \in [Logs -> Deposits]
      /\ \A l \in Logs : states[l] = "none" <=> deposit[l] = "none" /\ l \notin fresh
  BY <1>0, <1>4 DEF TypeOK, Deposits, FirstState
<1>6. \A l \in Logs : rows'[l] = IF states[l] = "none" THEN 0 ELSE 1
  BY <1>2, <1>4, <1>5 DEF DepositInv, RowsInv
<1>7. \A p \in ToPage \ disturbed : ~world.meets => Second(p) \notin fresh
  <2> SUFFICES ASSUME NEW p \in ToPage \ disturbed, ~world.meets, Second(p) \in fresh PROVE FALSE
    OBVIOUS
  <2>1. Second(p) \in queue[w] /\ Second(p) \in Fresh(queue[w], watch[w])
    BY DEF Fresh
  <2>2. QED
    BY <1>0, <2>1, SecondHopKnown
<1>8. \A p \in Covered : ToBeRead(w, p) /\ mined[First(p)] > floor /\ Token[p] = pc[w] =>
          deposit[First(p)] # "none" \/ First(p) \in fresh
  <2> SUFFICES ASSUME NEW p \in Covered, First(p) \in queue[w], mined[First(p)] > floor,
                      Token[p] = pc[w], deposit[First(p)] = "none"
               PROVE  First(p) \in fresh
    BY DEF ToBeRead
  <2>1. First(p) \in ls
    BY DEF First
  <2> HIDE DEF ls
  <2>2. QED
    BY <1>0, <2>1, FirstIsFresh
<1>9. \A p \in Covered : p \in Payments /\ First(p) \in Logs /\ Token[p] \in {"EURE", "USDC"}
  BY <1>0, LogsOfPayments, DepositAssumption DEF Covered, TypeOK, Payments
<1> HIDE DEF ls, fresh, states
<1>10. pc[w] = "EURE" => /\ TicksTyped' /\ Others(w) /\ pc'[w] = "USDC"
                         /\ watch'[w] = watch[w] /\ upTo'[w] = upTo[w] /\ queue'[w] = queue[w]
                         /\ deposit' = states /\ cursor' = cursor
  BY <1>0, <1>3 DEF TypeOK, TicksTyped, Others, Await
<1>11. pc[w] = "USDC" => Converts(w, states) /\ cursor' = upTo[w]
  <2>1. /\ {l \in fresh : states[l] = "DETECTED"} \in SUBSET Logs
        /\ \A l \in {l \in fresh : states[l] = "DETECTED"} : states[l] # "none"
    BY <1>4
  <2>2. QED
    BY <1>0, <1>3, <1>5, <2>1, ConvertDoes
<1>12. /\ TicksTyped' /\ Others(w) /\ deposit' \in [Logs -> Deposits]
       /\ \A l \in Logs : deposit'[l] = "none" <=> states[l] = "none"
       /\ pc'[w] \in {"sweep", "convert"} => job'[w] \in Logs /\ deposit'[job'[w]] # "none"
       /\ watch'[w] \in {watch[w], Watched, {}} /\ upTo'[w] \in {upTo[w], 0}
       /\ pc'[w] = "head" => watch'[w] = Watched
  BY <1>0, <1>5, <1>10, <1>11 DEF Converts
<1>13. /\ Reading(w)' => /\ Reading(w) /\ pc[w] = "EURE" /\ pc'[w] = "USDC"
                         /\ watch'[w] = watch[w] /\ upTo'[w] = upTo[w] /\ queue'[w] = queue[w]
       /\ cursor' = cursor \/ cursor' = upTo[w]
       /\ pc[w] = "EURE" => cursor' = cursor
       /\ cursor # Unset /\ cursor' # Unset /\ cursor' \in Nat /\ upTo[w] \in Nat
  <2>1. cursor # Unset /\ upTo[w] \in Nat /\ cursor \in Nat
    BY <1>0 DEF DepositInv, WatchInv, TypeOK
  <2>2. \A n \in Nat : n # Unset
    BY DEF Unset
  <2>3. QED
    BY <1>0, <1>10, <1>11, <2>1, <2>2 DEF Reading, Converts
<1>14. TypeOK' /\ OwnerInv'
  <2>1. rows' \in [Logs -> Nat]
    BY <1>0, <1>2 DEF TypeOK
  <2>2. QED
    BY <1>0, <1>1, <1>12, <1>13, <2>1 DEF DepositInv, TypeOK, TicksTyped, Apart, OwnerInv
<1>15. ChainInv'
  <2>1. cursor' <= height /\ upTo'[w] <= height
    BY <1>0, <1>12, <1>13 DEF DepositInv, TypeOK, ChainInv
  <2>2. QED
    BY <1>1, <1>12, <2>1, ChainKept DEF DepositInv, Apart
<1>16. RowsInv'
  <2>1. \A l \in Logs : rows'[l] = IF deposit'[l] = "none" THEN 0 ELSE 1
    BY <1>6, <1>12
  <2>2. \A l \in Logs : deposit[l] # "none" => deposit'[l] # "none"
    BY <1>5, <1>12
  <2>3. QED
    BY <1>12, <2>1, <2>2, RowsKept DEF DepositInv
<1>17. WatchInv'
  <2>1. Scanning(w)' => watch'[w] = Watched \/ (Scanning(w) /\ watch'[w] = watch[w])
    BY <1>12, <1>13 DEF Scanning, Reading
  <2>2. Reading(w)' => cursor' # Unset /\ \A l \in queue'[w] : mined[l] # 0
    BY <1>13 DEF DepositInv, WatchInv
  <2>3. QED
    BY <1>0, <1>1, <1>12, <1>13, <2>1, <2>2, WatchKept DEF DepositInv, Apart
<1>18. HopInv'
  <2>1. \A p \in ToPage \ disturbed : ~world.meets => rows'[Second(p)] = rows[Second(p)]
    BY <1>2, <1>7, LogsOfPayments
  <2>2. ASSUME NEW p \in ToPage, Behind(p) PROVE Behind(p)'
    BY <1>0, <1>1, <1>12, <1>13, <2>2, BehindKept DEF Apart
  <2>3. QED
    BY <1>1, <2>1, <2>2, HopKept DEF DepositInv, Apart
<1>19. RecordInv'
  <2>1. \A p \in Covered : ToBeRead(w, p) /\ mined[First(p)] > floor /\ Token[p] = pc[w] =>
            deposit'[First(p)] # "none"
    BY <1>5, <1>8, <1>9, <1>12
  <2>2. \A l \in Logs : deposit[l] # "none" => deposit'[l] # "none"
    BY <1>5, <1>12
  <2>3. CASE pc[w] = "EURE"
    <3>1. \A p \in Covered : ToBeRead(w, p) /\ mined[First(p)] > floor =>
              deposit'[First(p)] # "none" \/ ToBeRead(w, p)'
      BY <1>9, <1>10, <2>1, <2>3 DEF ToBeRead, First
    <3>2. UNCHANGED <<cursor, floor>> /\ upTo'[w] = upTo[w] /\ floor' \in Nat
      BY <1>0, <1>1, <1>10, <2>3 DEF TypeOK
    <3>3. QED
      BY <1>0, <1>1, <1>12, <2>2, <3>1, <3>2, RecordKept DEF DepositInv, Apart
  <2>4. CASE pc[w] = "USDC"
    <3>1. \A p \in Covered : ToBeRead(w, p) /\ mined[First(p)] > floor =>
              deposit'[First(p)] # "none"
      BY <2>1, <2>4 DEF ToBeRead
    <3>2. ~Reading(w)' /\ cursor' = upTo[w] /\ floor' \in Nat
      BY <1>0, <1>1, <1>11, <1>13, <2>4 DEF TypeOK
    <3>3. QED
      BY <1>0, <1>1, <1>12, <1>13, <2>2, <3>1, <3>2, RecordKept DEF DepositInv, Apart
  <2>5. QED
    BY <1>0, <2>3, <2>4
<1>20. QED
  BY <1>14, <1>15, <1>16, <1>17, <1>18, <1>19 DEF DepositInv
-----------------------------------------------------------------------------
(* The owner, the payers, the process that dies.                           *)

\* A change of the page disturbs what is on the way, so an undisturbed payment has
\* either been left behind by the scan or was not made yet.
LEMMA OwnerKeeps ==
  ASSUME DepositInv, ClaimHandle \/ SwitchAutoConvert \/ Approve
  PROVE  DepositInv'
<1>0. TypeOK /\ OwnerInv /\ OwnerActs
  BY DEF DepositInv, ClaimHandle, SwitchAutoConvert, Approve
<1>1. /\ UNCHANGED <<world, height, mined, sentTo, converting, cursor, rows, deposit, floor,
                     pc, watch, upTo, queue, job, crashes>>
      /\ disturbed' = disturbed \cup {p \in Payments : OnTheWay(p)}
      /\ changes < MaxChanges /\ changes' = changes + 1
      /\ world.meets \/ \A w \in Workers : pc[w] = "idle"
  BY <1>0 DEF OwnerActs, chain, store, control
<1>2. /\ page' \in [handle : Addresses, auto : BOOLEAN, asset : {"USDC", "EURE"}]
      /\ approved' \in BOOLEAN /\ OwnerInv'
  <2>1. CASE ClaimHandle
    <3>1. PICK h \in {page.handle, page.handle + 1} \cap (1..MaxHandles), a \in {"USDC", "EURE"} :
              page' = [page EXCEPT !.handle = h, !.asset = a]
      BY <2>1 DEF ClaimHandle
    <3>2. approved' = approved
      BY <2>1 DEF ClaimHandle
    <3>3. h \in Addresses /\ h # 0
      BY <3>1, DepositAssumption DEF Addresses
    <3>4. QED
      BY <1>0, <3>1, <3>2, <3>3 DEF TypeOK, OwnerInv
  <2>2. CASE SwitchAutoConvert
    <3>1. approved /\ page.handle # 0
      BY <1>0, <2>2 DEF SwitchAutoConvert, OwnerInv
    <3>2. PICK b \in BOOLEAN : page' = [page EXCEPT !.auto = b]
      BY <1>0, <2>2 DEF SwitchAutoConvert, TypeOK
    <3>3. approved' = approved
      BY <2>2 DEF SwitchAutoConvert
    <3>4. QED
      BY <1>0, <3>1, <3>2, <3>3 DEF TypeOK, OwnerInv
  <2>3. CASE Approve
    BY <1>0, <2>3 DEF Approve, TypeOK, OwnerInv
  <2>4. QED
    BY <2>1, <2>2, <2>3
<1>3. TypeOK'
  <2>1. changes' \in 0..MaxChanges
    BY <1>0, <1>1, DepositAssumption DEF TypeOK
  <2>2. disturbed' \subseteq Payments
    BY <1>0, <1>1 DEF TypeOK
  <2>3. QED
    BY <1>0, <1>1, <1>2, <2>1, <2>2 DEF TypeOK
<1>4. ChainInv' /\ RowsInv'
  BY <1>1 DEF DepositInv, ChainInv, RowsInv, Paid, Forwards
<1>5. ~world.meets => \A w \in Workers : ~Scanning(w) /\ ~Reading(w)
  BY <1>1 DEF Scanning, Reading
<1>6. WatchInv'
  BY <1>1, <1>5 DEF DepositInv, WatchInv, Scanning, Reading
<1>7. \A p \in Payments \ disturbed' : ~OnTheWay(p) /\ p \notin disturbed
  BY <1>1
<1>8. HopInv'
  <2> SUFFICES ASSUME ~world.meets, NEW p \in ToPage \ disturbed', Paid(p), Forwards(p)
               PROVE  Behind(p)'
    BY <1>1, <1>7, LogsOfPayments DEF DepositInv, HopInv, Paid, Forwards, Second
  <2>1. ~OnTheWay(p)
    BY <1>7, LogsOfPayments
  <2>2. /\ First(p) \in Logs /\ Second(p) \in Logs
        /\ mined[First(p)] \in Nat /\ mined[Second(p)] \in Nat /\ cursor \in Int
    BY <1>0, LogsOfPayments DEF TypeOK, Unset
  <2>3. \A l \in {First(p), Second(p)} : mined[l] # 0 /\ mined[l] <= cursor
    BY <2>1, <2>2 DEF OnTheWay, Paid, First, Second
  <2>4. QED
    BY <1>1, <1>5, <2>3 DEF Behind, Reading, First, Second
<1>9. RecordInv'
  <2>1. Covered' \subseteq Covered
    BY <1>1 DEF Covered
  <2> SUFFICES ASSUME NEW p \in Covered' PROVE BelowCursor(p)' /\ InWindow(p)' /\ AsFound(p)'
    BY Zenon DEF RecordInv
  <2>2. BelowCursor(p) /\ InWindow(p) /\ BelowCursor(p)' /\ InWindow(p)'
    BY <1>1, <2>1 DEF DepositInv, RecordInv, BelowCursor, InWindow, Within, Paid, First, ToBeRead,
           Reading
  <2>3. ASSUME p \in ToPage
        PROVE  deposit[First(p)] # "none" \/ (cursor # Unset /\ mined[First(p)] <= floor)
    <3>1. ~OnTheWay(p) /\ Paid(p)
      BY <1>7, <2>1, <2>3, LogsOfPayments, DepositAssumption
      DEF Covered, DepositInv, ChainInv
    <3>2. First(p) \in Logs /\ mined[First(p)] \in Nat /\ cursor \in Int /\ floor \in Int
      BY <1>0, <2>3, LogsOfPayments DEF TypeOK, Unset
    <3>3. mined[First(p)] # 0 /\ mined[First(p)] <= cursor
      BY <3>1, <3>2 DEF OnTheWay, Paid, First
    <3>4. cursor # Unset
      BY <3>2, <3>3 DEF Unset
    <3>5. QED
      BY <2>2, <3>1, <3>2, <3>3, <3>4 DEF BelowCursor, Within
  <2>4. QED
    BY <1>1, <2>2, <2>3 DEF AsFound, First
<1>10. QED
  BY <1>2, <1>3, <1>4, <1>6, <1>8, <1>9 DEF DepositInv

\* A log that is mined lies above everything that is or was read.
LEMMA PayersKeep ==
  ASSUME DepositInv, NEW p \in Payments, Pay(p) \/ Forward(p)
  PROVE  DepositInv'
<1>0. TypeOK /\ OwnerInv /\ ChainInv
  BY DEF DepositInv
<1>1. UNCHANGED <<world, approved, page, disturbed, changes, cursor, rows, deposit, floor,
                  pc, watch, upTo, queue, job, crashes>>
  BY DEF Pay, Forward, owner, store, control
<1>2. PICK new \in Logs :
          /\ new[1] = p /\ mined[new] = 0 /\ new \in {First(p), Second(p)}
          /\ new = Second(p) => p \in ToPage /\ Paid(p) /\ Forwards(p)
                                /\ UNCHANGED <<sentTo, converting>>
          /\ new = First(p) => Pay(p) /\ ~Paid(p)
          /\ mined' = [mined EXCEPT ![new] = height + 1] /\ height' = height + 1
          /\ height < MaxHeight
  <2>1. CASE Pay(p)
    <3>1. First(p) \in Logs /\ First(p)[1] = p /\ First(p) # Second(p)
      BY LogsOfPayments DEF First, Second
    <3>2. mined[First(p)] = 0
      BY <2>1 DEF Pay, Paid, First
    <3>3. QED
      BY <2>1, <3>1, <3>2 DEF Pay, Mine, First
  <2>2. CASE Forward(p)
    <3>1. p \in ToPage
      BY <2>2 DEF Forward, Forwards
    <3>2. Second(p) \in Logs /\ Second(p)[1] = p /\ First(p) # Second(p)
      BY <3>1, LogsOfPayments DEF First, Second
    <3>3. QED
      BY <2>2, <3>1, <3>2 DEF Forward, Mine, Second
  <2>3. QED
    BY <2>1, <2>2
<1>3. /\ \A l \in Logs \ {new} : mined'[l] = mined[l]
      /\ mined'[new] = height + 1 /\ mined' \in [Logs -> 0..MaxHeight]
      /\ height \in Nat /\ height' \in 0..MaxHeight
  BY <1>0, <1>2, DepositAssumption DEF TypeOK
<1>4. \A l \in Logs : mined[l] # 0 => mined'[l] = mined[l]
  BY <1>2, <1>3
<1>5. /\ \A q \in ToPage \ {p} : sentTo'[q] = sentTo[q] /\ (q \in converting' <=> q \in converting)
      /\ new = First(p) /\ p \in ToPage =>
            /\ sentTo'[p] = PageAddress
            /\ p \in converting' => p \in converting \/ page.auto
      /\ converting \subseteq converting' /\ converting' \subseteq ToPage
      /\ sentTo' \in [ToPage -> Addresses]
      /\ new = Second(p) => UNCHANGED <<sentTo, converting>>
  <2>1. PageAddress \in Addresses
    BY <1>0, DepositAssumption DEF TypeOK, PageAddress, Addresses, SafeAddress
  <2>2. CASE new = First(p)
    <3>1. /\ sentTo' = IF p \in ToPage THEN [sentTo EXCEPT ![p] = PageAddress] ELSE sentTo
          /\ converting' = IF p \in ToPage /\ page.auto THEN converting \cup {p} ELSE converting
      BY <1>2, <2>2 DEF Pay
    <3>2. First(p) # Second(p)
      BY DEF First, Second
    <3>3. QED
      BY <1>0, <2>1, <2>2, <3>1, <3>2 DEF TypeOK
  <2>3. CASE new = Second(p)
    <3>1. First(p) # Second(p)
      BY DEF First, Second
    <3>2. QED
      BY <1>0, <1>2, <2>3, <3>1 DEF TypeOK
  <2>4. QED
    BY <1>2, <2>2, <2>3
<1>6. \A q \in Payments : Paid(q) => Paid(q)' /\ mined'[First(q)] = mined[First(q)]
  BY <1>4, LogsOfPayments DEF Paid, First
<1>7. \A q \in Payments : Paid(q)' /\ ~Paid(q) => q = p /\ new = First(p)
  <2>1. \A q \in Payments : First(q) = new => q = p /\ new = First(p)
    BY <1>2 DEF First, Second
  <2>2. QED
    BY <1>3, <2>1, LogsOfPayments DEF Paid, First
<1>8. \A q \in ToPage : Paid(q) => sentTo'[q] = sentTo[q] /\ Forwards(q)' = Forwards(q)
  <2>1. \A q \in ToPage : Paid(q) => sentTo'[q] = sentTo[q]
    <3>1. Paid(p) => new = Second(p)
      BY <1>2
    <3>2. QED
      BY <1>5, <3>1
  <2>2. QED
    BY <2>1 DEF Forwards
<1>9. TypeOK' /\ OwnerInv' /\ RowsInv'
  BY <1>0, <1>1, <1>3, <1>5 DEF DepositInv, TypeOK, OwnerInv, RowsInv
<1>10. ChainInv'
  <2>1. \A q \in ToPage : sentTo'[q] # SafeAddress => world.forwarder
    <3>1. PageAddress # SafeAddress => world.forwarder
      BY DEF PageAddress
    <3>2. \A q \in ToPage : sentTo'[q] = sentTo[q] \/ sentTo'[q] = PageAddress
      BY <1>2, <1>5
    <3>3. QED
      BY <1>0, <3>1, <3>2 DEF ChainInv
  <2>2. \A q \in ToPage : mined'[Second(q)] # 0 => Paid(q)' /\ Forwards(q)'
    <3>1. \A q \in ToPage : mined'[Second(q)] # 0 => Paid(q) /\ Forwards(q)
      <4>1. \A q \in ToPage : Second(q) = new => q = p /\ new = Second(p)
        BY <1>2 DEF First, Second
      <4>2. QED
        BY <1>0, <1>2, <1>3, <4>1, LogsOfPayments DEF ChainInv
    <3>2. QED
      BY <1>6, <1>8, <3>1, LogsOfPayments
  <2>3. \A q \in converting' : Paid(q)'
    <3>1. ASSUME NEW q \in converting', q \notin converting PROVE Paid(q)'
      <4>1. q = p /\ new = First(p)
        BY <1>2, <1>5, <3>1
      <4>2. QED
        BY <1>3, <4>1 DEF Paid, First
    <3>2. \A q \in converting : q \in Payments /\ Paid(q)
      BY <1>0 DEF TypeOK, ChainInv, Payments
    <3>3. QED
      BY <1>6, <3>1, <3>2
  <2>4. cursor' <= height' /\ \A w \in Workers : upTo'[w] <= height'
    BY <1>0, <1>1, <1>2, <1>3 DEF TypeOK, ChainInv, Unset
  <2>5. QED
    BY <1>1, <2>1, <2>2, <2>3, <2>4 DEF ChainInv, Second
<1>11. WatchInv'
  <2>1. \A w \in Workers : Reading(w) => \A l \in queue[w] : mined'[l] # 0
    BY <1>0, <1>4 DEF DepositInv, WatchInv, TypeOK
  <2>2. Watched' = Watched
    BY <1>1 DEF Watched, PageAddress
  <2>3. QED
    BY <1>1, <2>1, <2>2 DEF DepositInv, WatchInv, Scanning, Reading
<1>12. HopInv'
  <2> SUFFICES ASSUME ~world.meets, NEW q \in ToPage \ disturbed
               PROVE  /\ rows'[Second(q)] = 0
                      /\ Paid(q)' /\ Forwards(q)' /\ sentTo'[q] # PageAddress => Behind(q)'
    BY <1>1 DEF HopInv, PageAddress, Second
  <2>1. rows'[Second(q)] = 0
    BY <1>1 DEF DepositInv, HopInv
  <2>2. ASSUME Paid(q)', Forwards(q)', sentTo'[q] # PageAddress
        PROVE  Behind(q)'
    <3>1. Paid(q)
      BY <1>5, <1>7, <2>2, LogsOfPayments
    <3>2. Behind(q)
      BY <1>8, <2>2, <3>1 DEF DepositInv, HopInv
    <3>3. mined'[First(q)] = mined[First(q)] /\ mined'[Second(q)] = mined[Second(q)]
      BY <1>4, <3>2, LogsOfPayments DEF Behind
    <3>4. QED
      BY <1>1, <3>2, <3>3 DEF Behind, Reading, First, Second
  <2>3. QED
    BY <2>1, <2>2
<1>13. RecordInv'
  <2>1. disturbed' = disturbed /\ world' = world /\ PageAddress' = PageAddress
    BY <1>1 DEF PageAddress
  <2> SUFFICES ASSUME NEW q \in Covered' PROVE BelowCursor(q)' /\ InWindow(q)' /\ AsFound(q)'
    BY Zenon DEF RecordInv
  <2>2. q \in Payments /\ First(q) \in Logs
    BY <1>9, LogsOfPayments DEF Covered, TypeOK, Payments
  <2>3. CASE Paid(q)
    <3>1. q \in Covered
      <4>1. q \in converting' => q \in converting
        BY <1>2, <1>5, <2>2, <2>3
      <4>2. QED
        BY <2>1, <4>1 DEF Covered
    <3>2. mined'[First(q)] = mined[First(q)] /\ Paid(q)'
      BY <1>6, <2>2, <2>3
    <3>3. q \in ToPage => sentTo'[q] = sentTo[q]
      BY <1>8, <2>3
    <3>4. BelowCursor(q)' /\ AsFound(q)'
      BY <1>1, <2>1, <2>3, <3>1, <3>2, <3>3
      DEF DepositInv, RecordInv, BelowCursor, AsFound, Within, First
    <3>5. InWindow(q)'
      BY <1>1, <2>3, <3>1, <3>2
      DEF DepositInv, RecordInv, InWindow, Within, First, Reading, ToBeRead
    <3>6. QED
      BY <3>4, <3>5
  <2>4. CASE ~Paid(q)
    <3>1. Paid(q)' => q = p /\ mined'[First(q)] = height + 1
      BY <1>3, <1>7, <2>2, <2>4
    <3>2. \A end \in Int : end <= height => ~(Paid(q)' /\ mined'[First(q)] <= end)
      BY <1>3, <3>1
    <3>3. /\ cursor' \in Int /\ cursor' <= height
          /\ \A w \in Workers : upTo'[w] \in Int /\ upTo'[w] <= height
      BY <1>0, <1>1 DEF TypeOK, ChainInv, Unset
    <3>4. BelowCursor(q)' /\ InWindow(q)'
      BY <3>2, <3>3 DEF BelowCursor, InWindow, Within, First
    <3>5. ASSUME q \in ToPage PROVE page'.auto /\ sentTo'[q] = PageAddress'
      <4>1. q \in converting' /\ q \notin converting
        BY <1>0, <2>1, <2>4, <3>5, DepositAssumption DEF Covered, ChainInv
      <4>2. q = p /\ new = First(p)
        BY <1>2, <1>5, <3>5, <4>1
      <4>3. QED
        BY <1>1, <1>5, <2>1, <3>5, <4>1, <4>2
    <3>6. QED
      BY <3>4, <3>5 DEF AsFound
  <2>5. QED
    BY <2>3, <2>4
<1>14. QED
  BY <1>9, <1>10, <1>11, <1>12, <1>13 DEF DepositInv

\* After a crash nobody scans, and what was recorded is.
LEMMA CrashKeeps ==
  ASSUME DepositInv, Crash
  PROVE  DepositInv'
<1>1. UNCHANGED <<world, approved, page, disturbed, changes, height, mined, sentTo, converting,
                  cursor, rows, deposit, floor>>
  BY DEF Crash, owner, chain, store
<1>2. /\ pc' = [w \in Workers |-> "idle"] /\ watch' = [w \in Workers |-> {}]
      /\ upTo' = [w \in Workers |-> 0] /\ queue' = [w \in Workers |-> {}]
      /\ job' = [w \in Workers |-> None] /\ crashes' \in 0..MaxCrashes
  BY DepositAssumption DEF Crash, DepositInv, TypeOK
<1>3. TypeOK' /\ OwnerInv' /\ ChainInv' /\ RowsInv'
  <2>1. TypeOK' /\ OwnerInv' /\ RowsInv'
    BY <1>1, <1>2 DEF DepositInv, TypeOK, OwnerInv, RowsInv
  <2>2. \A w \in Workers : upTo'[w] <= height
    BY <1>2 DEF DepositInv, TypeOK
  <2>3. QED
    BY <1>1, <2>1, <2>2 DEF DepositInv, ChainInv, Paid, Forwards
<1>4. \A w \in Workers : ~Scanning(w)' /\ ~Reading(w)' /\ watch'[w] = {}
  BY <1>2 DEF Scanning, Reading
<1>5. WatchInv'
  BY <1>4 DEF WatchInv
<1>6. HopInv'
  <2>1. \A p \in ToPage : Behind(p) => Behind(p)'
    BY <1>1, <1>4 DEF Behind, First, Second
  <2>2. QED
    BY <1>1, <2>1, HopKept DEF DepositInv
<1>7. RecordInv'
  <2>1. Covered' = Covered
    BY <1>1 DEF Covered
  <2> SUFFICES ASSUME NEW p \in Covered PROVE BelowCursor(p)' /\ InWindow(p)' /\ AsFound(p)'
    BY <2>1, Zenon DEF RecordInv
  <2>2. QED
    BY <1>1, <1>4 DEF DepositInv, RecordInv, BelowCursor, InWindow, AsFound, Within, Paid, First,
           PageAddress
<1>8. QED
  BY <1>3, <1>5, <1>6, <1>7 DEF DepositInv

\* Every step preserves the invariant.
LEMMA DepositInvStep == DepositInv /\ [Next]_vars => DepositInv'
<1> SUFFICES ASSUME DepositInv, Next \/ UNCHANGED vars PROVE DepositInv'
  OBVIOUS
<1>1. CASE ClaimHandle \/ SwitchAutoConvert \/ Approve \/ Crash
  BY <1>1, OwnerKeeps, CrashKeeps
<1>2. ASSUME NEW p \in Payments, Pay(p) \/ Forward(p) PROVE DepositInv'
  BY <1>2, PayersKeep
<1>3. ASSUME NEW w \in Workers, Tick(w) \/ Resume(w) \/ TickThrows(w) PROVE DepositInv'
  BY <1>3, TickKeeps, HeadKeeps, LogsKeep DEF Resume
<1>4. CASE UNCHANGED vars
  <2>1. UNCHANGED <<world, approved, page, disturbed, changes, height, mined, sentTo, converting,
                    cursor, rows, deposit, floor, pc, watch, upTo, queue, job, crashes>>
    BY <1>4 DEF vars, owner, chain, store, control
  <2>2. TypeOK' /\ OwnerInv' /\ ChainInv' /\ RowsInv'
    BY <2>1 DEF DepositInv, TypeOK, OwnerInv, ChainInv, RowsInv, Paid, Forwards
  <2>3. WatchInv'
    BY <2>1 DEF DepositInv, WatchInv, Scanning, Reading, Watched, PageAddress
  <2>4. HopInv'
    BY <2>1 DEF DepositInv, HopInv, Paid, Forwards, Behind, Reading, PageAddress, First, Second
  <2>5. ASSUME NEW p
        PROVE  /\ BelowCursor(p) => BelowCursor(p)'
               /\ InWindow(p) => InWindow(p)'
               /\ AsFound(p) => AsFound(p)'
    BY <2>1 DEF BelowCursor, InWindow, AsFound, Within, ToBeRead, Reading, Paid, PageAddress, First
  <2>6. Covered' = Covered
    BY <2>1 DEF Covered
  <2>7. RecordInv'
    BY <2>5, <2>6 DEF DepositInv, RecordInv
  <2>8. QED
    BY <2>2, <2>3, <2>4, <2>7 DEF DepositInv
<1>5. QED
  BY <1>1, <1>2, <1>3, <1>4 DEF Next

\* So the invariant holds all along.
LEMMA DepositAlways == Spec => []DepositInv
  BY DepositInvInit, DepositInvStep, PTL DEF Spec

(***************************************************************************)
(* The scanner's state stays what it is declared to be.                    *)
(***************************************************************************)
THEOREM DepositsAreTyped == Spec => []TypeOK
<1>1. DepositInv => TypeOK
  BY DEF DepositInv
<1>2. QED
  BY <1>1, DepositAlways, PTL

(***************************************************************************)
(* No log is recorded twice, however ticks overlap, rescan and restart;    *)
(* and no undisturbed payment is recorded at both of its hops              *)
(* (adapters/crypto-deposits.ts, pollCryptoDepositsOnce).                  *)
(***************************************************************************)
THEOREM DepositsAreRecordedOnce == Spec => []RecordedOnce
<1>1. DepositInv => RecordedOnce
  <2> SUFFICES ASSUME DepositInv PROVE RecordedOnce
    OBVIOUS
  <2>1. \A l \in Logs : rows[l] \in {0, 1}
    BY DEF DepositInv, RowsInv
  <2>2. \A p \in ToPage \ disturbed : ~world.meets =>
            rows[<<p, 2>>] = 0 /\ rows[<<p, 1>>] \in {0, 1}
    BY <2>1, LogsOfPayments DEF DepositInv, HopInv, First, Second
  <2>3. QED
    BY <2>1, <2>2 DEF RecordedOnce
<1>2. QED
  BY <1>1, DepositAlways, PTL

(***************************************************************************)
(* The cursor never runs ahead of the records, though overlapping ticks    *)
(* may set it back and a tick may break off between its two tokens         *)
(* (adapters/crypto-deposits.ts, pollCryptoDepositsOnce).                  *)
(***************************************************************************)
THEOREM NothingIsPassedOver == Spec => []NothingPassedOver
<1>1. DepositInv => NothingPassedOver
  <2> SUFFICES ASSUME DepositInv, NEW p \in Covered, Passed(p) PROVE Recorded(p)
    BY DEF NothingPassedOver, Covered
  <2>1. First(p) \in Logs /\ First(p)[1] = p
    BY LogsOfPayments DEF Covered, DepositInv, TypeOK, Payments, First
  <2>2. mined[First(p)] \in Nat /\ cursor \in Int
    BY <2>1 DEF DepositInv, TypeOK, Unset
  <2>3. cursor # Unset /\ Within(p, cursor)
    BY <2>2 DEF Passed, OnTheWay, Within, First
  <2>4. deposit[First(p)] # "none"
    BY <2>3 DEF DepositInv, RecordInv, BelowCursor
  <2>5. rows[First(p)] = 1
    BY <2>1, <2>4 DEF DepositInv, RowsInv
  <2>6. QED
    BY <2>1, <2>5 DEF Recorded
<1>2. QED
  BY <1>1, DepositAlways, PTL
=============================================================================
