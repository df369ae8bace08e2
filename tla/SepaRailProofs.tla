---------------------------- MODULE SepaRailProofs ----------------------------
(***************************************************************************)
(* Theorems about SepaRail, for every set of orders, transfers and         *)
(* workers, every world, any number of faults and crashes.                 *)
(***************************************************************************)
EXTENDS SepaRail, TLAPS

\* A worker between reading about an order and marking it; one that moves money
\* of a transfer.
Mirror(w) == pc[w] \in MirrorPc \cup (TickPc \ {"redeems"})
Moving(w) == pc[w] \in HandlerPc \cup CompPc

\* What a worker is about, by where it is suspended.
Jobs ==
    \A w \in Workers :
        /\ pc[w] \in MirrorPc \cup {"tick.credit", "tick.credited"} => job[w] \in Orders
        /\ pc[w] = "orders" => job[w] \in Profiles
        /\ Moving(w) \/ pc[w] = "redeems" => job[w] \in Transfers
        /\ pc[w] = "redeems" => todo[w] \subseteq Transfers

(***************************************************************************)
(* Of the mirrors: where they do not overlap there is one at a time, it    *)
(* works on orders that are not marked, and what was minted is marked or   *)
(* is about to be.                                                         *)
(***************************************************************************)
OneMirror == ~world.overlap => \A v, w \in Workers : Mirror(v) /\ Mirror(w) => v = w

Unmarked ==
    ~world.overlap => \A w \in Workers : Mirror(w) =>
        todo[w] \cap processed = {} /\ (pc[w] # "read" => job[w] \notin processed)

Calm == ~world.overlap /\ ~world.lostAnswers /\ crashes = 0

Crediting(w, o) == pc[w] \in {"credited", "tick.credited"} /\ job[w] = o

MintedOnce ==
    Calm => \A o \in Orders :
        /\ minted[o] <= 1
        /\ minted[o] = 0 \/ o \in processed \/ \E w \in Workers : Crediting(w, o)

MirrorInv == OneMirror /\ Unmarked /\ MintedOnce

(***************************************************************************)
(* Of the redeem orders: one worker at most moves money of a transfer, and *)
(* where it stands agrees with the state; polls look at submitted ones     *)
(* only, however old their list; and a transfer that failed without an     *)
(* order nobody heard of has no order that may be paid out.                *)
(***************************************************************************)
OneMover == \A v, w \in Workers : Moving(v) /\ Moving(w) /\ job[v] = job[w] => v = w

Submitted == {"PAYOUT_SUBMITTED", "PAID", "FAILED", "REFUNDED"}
Unpaid(t) == t \notin unheard => redeem[t] \in {"none", "rejected"}

AtWork ==
    \A w \in Workers :
        /\ pc[w] \in {"fee", "feeSent"} => state[job[w]] = "AUTHORIZED"
        /\ pc[w] \in {"redeem", "redeemSent"} => state[job[w]] = "DEBITED"
        /\ pc[w] = "redeem" => redeem[job[w]] = "none"
        /\ pc[w] \in CompPc => /\ state[job[w]] \in Submitted \ {"PAYOUT_SUBMITTED"}
                               /\ Unpaid(job[w])
        /\ pc[w] = "redeems" => \A t \in todo[w] \cup {job[w]} : state[t] \in Submitted

Placing(w, t) == pc[w] = "redeemSent" /\ job[w] = t

Ordered ==
    \A t \in Transfers :
        /\ state[t] \in {"CREATED", "AUTHORIZED"} => redeem[t] = "none"
        /\ state[t] = "DEBITED" => Unpaid(t) \/ \E w \in Workers : Placing(w, t)
        /\ state[t] \in {"FAILED", "REFUNDED"} => Unpaid(t)

RedeemInv == OneMover /\ AtWork /\ Ordered

SepaInv == TypeOK /\ Jobs /\ MirrorInv /\ RedeemInv

\* Nobody has asked for anything.
LEMMA SepaInvInit == Init => SepaInv
<1> SUFFICES ASSUME Init PROVE SepaInv
  OBVIOUS
<1>1. TypeOK
  BY SepaAssumption DEF Init, TypeOK
<1>2. \A w \in Workers : pc[w] = "idle" /\ ~Mirror(w) /\ ~Moving(w)
  BY DEF Init, Mirror, Moving, MirrorPc, TickPc, HandlerPc, CompPc
<1>3. Jobs
  BY <1>2 DEF Jobs, MirrorPc
<1>4. MirrorInv
  BY <1>2 DEF Init, MirrorInv, OneMirror, Unmarked, MintedOnce
<1>5. RedeemInv
  BY <1>2 DEF Init, RedeemInv, OneMover, AtWork, Ordered, CompPc, Unpaid
<1>6. QED
  BY <1>1, <1>3, <1>4, <1>5 DEF SepaInv

-----------------------------------------------------------------------------
(* Where a worker goes.                                                    *)

\* It waits for p about x with `rest` left; the others stay where they are.
Goes(w, p, x, rest) ==
    /\ pc'[w] = p /\ job'[w] = x /\ todo'[w] = rest
    /\ \A v \in Workers \ {w} : pc'[v] = pc[v] /\ job'[v] = job[v] /\ todo'[v] = todo[v]

\* Await takes it there.
LEMMA AwaitGoes ==
  ASSUME TypeOK, NEW w \in Workers, NEW p, NEW x, NEW rest, Await(w, p, x, rest)
  PROVE  Goes(w, p, x, rest)
  BY DEF TypeOK, Await, Goes

\* And keeps the types, and the jobs what they should be.
Fits(p, x, rest) ==
    /\ p \in {"idle"} \cup MirrorPc \cup TickPc \cup HandlerPc \cup CompPc
    /\ x \in Things \cup {None} /\ rest \in SUBSET Things
    /\ p \in MirrorPc \cup {"tick.credit", "tick.credited"} => x \in Orders
    /\ p = "orders" => x \in Profiles
    /\ p \in HandlerPc \cup CompPc \cup {"redeems"} => x \in Transfers
    /\ p = "redeems" => rest \subseteq Transfers

LEMMA AwaitFits ==
  ASSUME TypeOK, Jobs, NEW w \in Workers, NEW p, NEW x, NEW rest, Await(w, p, x, rest),
         Fits(p, x, rest)
  PROVE  /\ pc' \in [Workers -> {"idle"} \cup MirrorPc \cup TickPc \cup HandlerPc \cup CompPc]
         /\ job' \in [Workers -> Things \cup {None}]
         /\ todo' \in [Workers -> SUBSET Things]
         /\ Jobs'
<1>1. /\ pc' \in [Workers -> {"idle"} \cup MirrorPc \cup TickPc \cup HandlerPc \cup CompPc]
      /\ job' \in [Workers -> Things \cup {None}]
      /\ todo' \in [Workers -> SUBSET Things]
  BY DEF TypeOK, Await, Fits
<1>2. Goes(w, p, x, rest)
  BY AwaitGoes
<1>3. Jobs'
  BY <1>2 DEF Goes, Fits, Jobs, Moving
<1>4. QED
  BY <1>1, <1>3

\* What a tick goes on to, given what is left in its loops.
TickGoes(w, rest) ==
    \E p \in {"tick.credit", "orders", "redeems", "idle"}, x \in Things \cup {None},
       left \in SUBSET Things :
        /\ Await(w, p, x, left) /\ Fits(p, x, left)
        /\ p \in {"tick.credit", "orders"} => left \subseteq rest
        /\ p = "tick.credit" => x \in rest
        /\ p = "redeems" => \A t \in left \cup {x} : state[t] = "PAYOUT_SUBMITTED"

\* NextInTick is of that form.
LEMMA NextInTickGoes ==
  ASSUME NEW w \in Workers, NEW rest \in SUBSET Things, NextInTick(w, rest)
  PROVE  TickGoes(w, rest)
<1>1. ASSUME NEW o \in rest \cap Orders, Await(w, "tick.credit", o, rest \ {o})
      PROVE  TickGoes(w, rest)
  <2>1. Fits("tick.credit", o, rest \ {o})
    BY DEF Fits, TickPc, MirrorPc, HandlerPc, CompPc, Things
  <2>2. QED
    BY <1>1, <2>1 DEF TickGoes
<1>2. ASSUME NEW p \in rest \cap Profiles, Await(w, "orders", p, rest \ {p})
      PROVE  TickGoes(w, rest)
  <2>1. Fits("orders", p, rest \ {p})
    BY DEF Fits, TickPc, MirrorPc, HandlerPc, CompPc, Things
  <2>2. QED
    BY <1>2, <2>1 DEF TickGoes
<1>3. ASSUME NEW t \in WaitingForRedeem, Await(w, "redeems", t, WaitingForRedeem \ {t})
      PROVE  TickGoes(w, rest)
  <2>1. Fits("redeems", t, WaitingForRedeem \ {t})
    BY DEF Fits, TickPc, MirrorPc, HandlerPc, CompPc, Things, WaitingForRedeem
  <2>2. \A u \in (WaitingForRedeem \ {t}) \cup {t} : state[u] = "PAYOUT_SUBMITTED"
    BY DEF WaitingForRedeem
  <2>3. WaitingForRedeem \ {t} \in SUBSET Things /\ t \in Things
    BY DEF WaitingForRedeem, Things
  <2>4. QED
    BY <1>3, <2>1, <2>2, <2>3 DEF TickGoes
<1>4. ASSUME Return(w)
      PROVE  TickGoes(w, rest)
  <2>1. Fits("idle", None, {})
    BY DEF Fits, TickPc, MirrorPc, HandlerPc, CompPc
  <2>2. QED
    BY <1>4, <2>1 DEF TickGoes, Return
<1>5. QED
  BY <1>1, <1>2, <1>3, <1>4 DEF NextInTick
-----------------------------------------------------------------------------
(* Mirroring.                                                              *)

\* A mirror that goes on, ends or begins where it may stays the only one.
LEMMA OneMirrorKept ==
  ASSUME OneMirror, NEW w \in Workers, NEW p, NEW x, NEW rest, Goes(w, p, x, rest),
         UNCHANGED world, Mirror(w) \/ MayMirror \/ p \in {"idle", "redeems"} \cup HandlerPc \cup CompPc
  PROVE  OneMirror'
<1> SUFFICES ASSUME ~world.overlap, NEW u \in Workers, NEW v \in Workers, Mirror(u)', Mirror(v)'
             PROVE  u = v
  BY DEF OneMirror
<1>1. \A y \in Workers \ {w} : Mirror(y)' <=> Mirror(y)
  BY DEF Goes, Mirror
<1>2. p \in {"idle", "redeems"} \cup HandlerPc \cup CompPc => ~Mirror(w)'
  BY DEF Goes, Mirror, MirrorPc, TickPc, HandlerPc, CompPc
<1>3. MayMirror => \A y \in Workers : ~Mirror(y)
  BY DEF MayMirror, Mirroring, Mirror
<1>4. QED
  BY <1>1, <1>2, <1>3 DEF OneMirror

\* The other mirrors, which there are only where they overlap, do not matter.
LEMMA UnmarkedKept ==
  ASSUME SepaInv, NEW w \in Workers, NEW p, NEW x, NEW rest, Goes(w, p, x, rest),
         UNCHANGED world, OneMirror',
         Mirror(w)' => rest \cap processed' = {} /\ (p # "read" => x \notin processed'),
         UNCHANGED processed \/ Mirror(w)
  PROVE  Unmarked'
<1> SUFFICES ASSUME ~world.overlap, NEW v \in Workers, Mirror(v)'
             PROVE  todo'[v] \cap processed' = {} /\ (pc'[v] # "read" => job'[v] \notin processed')
  BY DEF Unmarked
<1>1. CASE v = w
  BY <1>1 DEF Goes
<1>2. CASE v # w
  <2>1. Mirror(v) /\ pc'[v] = pc[v] /\ job'[v] = job[v] /\ todo'[v] = todo[v]
    BY <1>2 DEF Goes, Mirror
  <2>2. UNCHANGED processed
    BY <1>2, <2>1 DEF SepaInv, MirrorInv, OneMirror
  <2>3. QED
    BY <2>1, <2>2 DEF SepaInv, MirrorInv, Unmarked
<1>3. QED
  BY <1>1, <1>2

\* What was minted stays accounted for while nothing is minted.
LEMMA MintedKept ==
  ASSUME SepaInv, NEW w \in Workers, NEW p, NEW x, NEW rest, Goes(w, p, x, rest),
         UNCHANGED <<world, minted>>, Calm' => Calm, processed \subseteq processed',
         Calm => \A o \in Orders : Crediting(w, o) => o \in processed' \/ Crediting(w, o)'
  PROVE  MintedOnce'
<1> SUFFICES ASSUME Calm, NEW o \in Orders
             PROVE  /\ minted[o] <= 1
                    /\ minted[o] = 0 \/ o \in processed' \/ \E v \in Workers : Crediting(v, o)'
  BY DEF MintedOnce
<1>1. \A v \in Workers \ {w} : Crediting(v, o) => Crediting(v, o)'
  BY DEF Goes, Crediting
<1>2. QED
  BY <1>1 DEF SepaInv, MirrorInv, MintedOnce

\* Moving money is not mirroring.
LEMMA MoversMirror ==
  ASSUME SepaInv, NEW w \in Workers, NEW p, NEW x, NEW rest, Goes(w, p, x, rest),
         UNCHANGED <<world, minted, processed, crashes>>,
         ~Mirror(w), p \in {"idle", "redeems"} \cup HandlerPc \cup CompPc
  PROVE  MirrorInv'
<1>1. OneMirror'
  BY OneMirrorKept DEF SepaInv, MirrorInv
<1>2. ~Mirror(w)' /\ \A o \in Orders : ~Crediting(w, o)
  BY DEF Goes, Mirror, MirrorPc, TickPc, HandlerPc, CompPc, Crediting
<1>3. Unmarked'
  BY <1>1, <1>2, UnmarkedKept
<1>4. MintedOnce'
  BY <1>2, MintedKept DEF Calm
<1>5. QED
  BY <1>1, <1>3, <1>4 DEF MirrorInv

\* Mirroring moves no money of a transfer.
LEMMA MirrorsMove ==
  ASSUME SepaInv, NEW w \in Workers, NEW p, NEW x, NEW rest, Goes(w, p, x, rest),
         UNCHANGED <<state, redeem, unheard>>, ~Moving(w),
         p \notin HandlerPc \cup CompPc,
         p = "redeems" => \A t \in rest \cup {x} : state[t] \in Submitted
  PROVE  RedeemInv'
<1>1. \A v \in Workers : Moving(v)' <=> v # w /\ Moving(v)
  BY DEF Goes, Moving
<1>2. OneMover'
  BY <1>1 DEF SepaInv, RedeemInv, OneMover, Goes
<1>3. AtWork'
  <2> SUFFICES ASSUME NEW v \in Workers
               PROVE  /\ pc'[v] \in {"fee", "feeSent"} => state[job'[v]] = "AUTHORIZED"
                      /\ pc'[v] \in {"redeem", "redeemSent"} => state[job'[v]] = "DEBITED"
                      /\ pc'[v] = "redeem" => redeem[job'[v]] = "none"
                      /\ pc'[v] \in CompPc => /\ state[job'[v]] \in Submitted \ {"PAYOUT_SUBMITTED"}
                                              /\ Unpaid(job'[v])
                      /\ pc'[v] = "redeems" => \A t \in todo'[v] \cup {job'[v]} :
                                                 state[t] \in Submitted
    BY DEF AtWork, Unpaid
  <2>1. CASE v = w
    BY <2>1 DEF Goes, HandlerPc
  <2>2. CASE v # w
    BY <2>2 DEF Goes, SepaInv, RedeemInv, AtWork
  <2>3. QED
    BY <2>1, <2>2
<1>4. Ordered'
  <2>1. \A v \in Workers, t \in Transfers : Placing(v, t) => Placing(v, t)'
    BY DEF Placing, Goes, Moving, HandlerPc
  <2>2. QED
    BY <2>1 DEF SepaInv, RedeemInv, Ordered, Unpaid
<1>5. QED
  BY <1>2, <1>3, <1>4 DEF RedeemInv

-----------------------------------------------------------------------------
(* The steps of a mirror.                                                  *)

\* A step that leaves all but what mirroring is about.
Apart == UNCHANGED <<world, order, redeem, state, feeStep, feeTaken, unheard>>

\* A mirror that begins, goes on or ends, without a mint or a mark.
LEMMA MirrorGoes ==
  ASSUME SepaInv, NEW w \in Workers, NEW p, NEW x, NEW rest, Await(w, p, x, rest),
         Fits(p, x, rest), ~Moving(w), Apart, Mirror(w) \/ MayMirror \/ p \in {"idle", "redeems"},
         UNCHANGED <<processed, minted, crashes>>,
         webhooks' \subseteq Orders, faults' \in 0..MaxFaults,
         Calm => \A o \in Orders : ~Crediting(w, o),
         p \notin HandlerPc \cup CompPc,
         ~world.overlap /\ p \in MirrorPc \cup (TickPc \ {"redeems"})
             => rest \cap processed = {} /\ (p # "read" => x \notin processed),
         p = "redeems" => \A t \in rest \cup {x} : state[t] \in Submitted
  PROVE  SepaInv'
<1>1. Goes(w, p, x, rest)
  BY AwaitGoes DEF SepaInv
<1>2. TypeOK' /\ Jobs'
  <2>1. /\ pc' \in [Workers -> {"idle"} \cup MirrorPc \cup TickPc \cup HandlerPc \cup CompPc]
        /\ job' \in [Workers -> Things \cup {None}]
        /\ todo' \in [Workers -> SUBSET Things] /\ Jobs'
    BY AwaitFits DEF SepaInv
  <2>2. QED
    BY <2>1 DEF SepaInv, TypeOK, Apart
<1>3. OneMirror'
  BY <1>1, OneMirrorKept DEF SepaInv, MirrorInv, Apart
<1>4. Unmarked'
  <2>1. CASE world.overlap
    BY <2>1 DEF Unmarked, Apart
  <2>2. CASE ~world.overlap
    BY <1>1, <1>3, <2>2, UnmarkedKept DEF Apart, Mirror, Goes
  <2>3. QED
    BY <2>1, <2>2
<1>5. MintedOnce'
  BY <1>1, MintedKept DEF Apart, Calm
<1>6. RedeemInv'
  BY <1>1, MirrorsMove DEF Apart
<1>7. QED
  BY <1>2, <1>3, <1>4, <1>5, <1>6 DEF SepaInv, MirrorInv
\* An end of a mirror fits.
LEMMA IdleFits == Fits("idle", None, {})
  BY DEF Fits, MirrorPc, TickPc, HandlerPc, CompPc

\* A worker that mirrors moves no money.
LEMMA MirrorsDoNotMove ==
  ASSUME NEW w, Mirror(w) \/ pc[w] \in {"idle", "redeems"}
  PROVE  ~Moving(w)
  BY DEF Mirror, Moving, MirrorPc, TickPc, HandlerPc, CompPc

\* The webhook, and what it reads.
LEMMA WebhookKeeps ==
  ASSUME SepaInv, NEW w \in Workers,
         \/ \E o \in Orders : Webhook(w, o)
         \/ OrderRead(w) \/ OrderUnavailable(w)
  PROVE  SepaInv'
<1>0. TypeOK /\ Jobs
  BY DEF SepaInv
<1>1. pc[w] \in {"idle", "read"} /\ ~Moving(w) /\ \A o \in Orders : ~Crediting(w, o)
  BY MirrorsDoNotMove DEF Webhook, OrderRead, OrderUnavailable, Crediting, Moving, HandlerPc, CompPc
<1>2. Apart /\ UNCHANGED <<processed, minted, crashes>>
  BY DEF Webhook, OrderRead, OrderUnavailable, Apart, Fault, monerium, chain, bounds, store
<1>3. faults' \in 0..MaxFaults
  BY <1>0, SepaAssumption DEF Webhook, OrderRead, OrderUnavailable, Fault, bounds, TypeOK
<1>4. ASSUME NEW o \in Orders, Webhook(w, o)
      PROVE  SepaInv'
  <2>1. CASE webhooks' = webhooks \cup {o} /\ UNCHANGED control
    <3>1. TypeOK' /\ Jobs'
      BY <1>0, <1>2, <1>3, <2>1 DEF TypeOK, Jobs, Moving, Apart, control
    <3>2. MirrorInv'
      BY <1>2, <2>1 DEF SepaInv, MirrorInv, OneMirror, Unmarked, MintedOnce, Mirror, Crediting, Calm,
             Apart, control
    <3>3. RedeemInv'
      BY <1>2, <2>1 DEF SepaInv, RedeemInv, OneMover, AtWork, Ordered, Moving, Unpaid, Placing,
             Apart, control
    <3>4. QED
      BY <3>1, <3>2, <3>3 DEF SepaInv
  <2>2. CASE o \notin processed /\ Await(w, "read", o, {}) /\ UNCHANGED webhooks
    <3>1. Fits("read", o, {})
      BY DEF Fits, MirrorPc, TickPc, HandlerPc, CompPc, Things
    <3>2. MayMirror /\ webhooks' \subseteq Orders
      BY <1>0, <1>4, <2>2 DEF Webhook, TypeOK
    <3>3. "read" \notin HandlerPc \cup CompPc
      BY DEF HandlerPc, CompPc
    <3>4. QED
      BY <1>1, <1>2, <1>3, <2>2, <3>1, <3>2, <3>3, MirrorGoes
  <2>3. QED
    BY <1>4, <2>1, <2>2 DEF Webhook
<1>5. ASSUME OrderRead(w) \/ OrderUnavailable(w)
      PROVE  SepaInv'
  <2>1. pc[w] = "read" /\ Mirror(w) /\ job[w] \in Orders
    BY <1>0, <1>5 DEF OrderRead, OrderUnavailable, Mirror, MirrorPc, Jobs
  <2>2. CASE Await(w, "credit", job[w], {}) /\ Mirrors(job[w]) /\ UNCHANGED webhooks
    <3>1. Fits("credit", job[w], {})
      BY <2>1 DEF Fits, MirrorPc, TickPc, HandlerPc, CompPc, Things
    <3>2. job[w] \notin processed /\ webhooks' \subseteq Orders
      BY <1>0, <2>2 DEF Mirrors, TypeOK
    <3>3. "credit" \notin HandlerPc \cup CompPc
      BY DEF HandlerPc, CompPc
    <3>4. QED
      BY <1>1, <1>2, <1>3, <2>1, <2>2, <3>1, <3>2, <3>3, MirrorGoes
  <2>3. CASE Return(w) /\ webhooks' \subseteq Orders
    <3>1. "idle" \notin HandlerPc \cup CompPc \cup MirrorPc \cup TickPc
      BY DEF HandlerPc, CompPc, MirrorPc, TickPc
    <3>2. QED
      BY <1>1, <1>2, <1>3, <2>1, <2>3, <3>1, IdleFits, MirrorGoes DEF Return
  <2>4. (Return(w) /\ webhooks' \subseteq Orders)
        \/ (Await(w, "credit", job[w], {}) /\ Mirrors(job[w]) /\ UNCHANGED webhooks)
    BY <1>0, <1>5, <2>1 DEF OrderRead, OrderUnavailable, store, TypeOK
  <2>5. QED
    BY <2>2, <2>3, <2>4
<1>6. QED
  BY <1>4, <1>5

\* What is left of a tick's loops is not marked; what it goes on to is not either.
LEMMA TickKeeps ==
  ASSUME SepaInv, NEW w \in Workers,
         Tick(w) \/ OrdersRead(w) \/ ProfileDead(w)
  PROVE  SepaInv'
<1>0. TypeOK /\ Jobs
  BY DEF SepaInv
<1>1. pc[w] \in {"idle", "orders"} /\ ~Moving(w) /\ \A o \in Orders : ~Crediting(w, o)
  BY MirrorsDoNotMove DEF Tick, OrdersRead, ProfileDead, Crediting, Moving, HandlerPc, CompPc
<1>2. Apart /\ UNCHANGED <<processed, minted, crashes, webhooks>>
  BY DEF Tick, OrdersRead, ProfileDead, Apart, Fault, monerium, chain, bounds, store
<1>3. faults' \in 0..MaxFaults /\ webhooks' \subseteq Orders
  BY <1>0, <1>2, SepaAssumption DEF Tick, OrdersRead, ProfileDead, Fault, bounds, TypeOK
<1>4. CASE Tick(w)
  <2>1. PICK p \in Profiles : Await(w, "orders", p, Profiles \ {p})
    BY <1>4 DEF Tick
  <2>2. /\ Fits("orders", p, Profiles \ {p}) /\ "orders" \notin HandlerPc \cup CompPc
        /\ (Profiles \ {p}) \cap processed = {} /\ p \notin processed /\ MayMirror
    BY <1>0, <1>4, SepaAssumption
    DEF Fits, MirrorPc, TickPc, HandlerPc, CompPc, Things, Tick, TypeOK
  <2>3. QED
    BY <1>1, <1>2, <1>3, <2>1, <2>2, MirrorGoes
<1>5. ASSUME OrdersRead(w) \/ ProfileDead(w)
      PROVE  SepaInv'
  <2>1. pc[w] = "orders" /\ Mirror(w)
    BY <1>5 DEF OrdersRead, ProfileDead, Mirror, TickPc
  <2>2. PICK rest \in SUBSET Things :
            NextInTick(w, rest) /\ (~world.overlap => rest \cap processed = {})
    <3>1. todo[w] \in SUBSET Things /\ (~world.overlap => todo[w] \cap processed = {})
      BY <1>0, <2>1 DEF TypeOK, SepaInv, MirrorInv, Unmarked
    <3>2. CASE ProfileDead(w)
      BY <3>1, <3>2 DEF ProfileDead
    <3>3. CASE OrdersRead(w)
      <4> DEFINE found == {o \in Orders : ProfileOf[o] = job[w] /\ Mirrors(o)}
      <4>1. NextInTick(w, todo[w] \cup found)
        BY <3>3 DEF OrdersRead
      <4>2. found \cap processed = {} /\ found \subseteq Things
        BY DEF Mirrors, Things
      <4> HIDE DEF found
      <4>3. todo[w] \cup found \in SUBSET Things
            /\ (~world.overlap => (todo[w] \cup found) \cap processed = {})
        BY <3>1, <4>2
      <4>4. QED
        BY <4>1, <4>3
    <3>4. QED
      BY <1>5, <3>2, <3>3
  <2>3. PICK p \in {"tick.credit", "orders", "redeems", "idle"}, x \in Things \cup {None},
             left \in SUBSET Things :
            /\ Await(w, p, x, left) /\ Fits(p, x, left)
            /\ p \in {"tick.credit", "orders"} => left \subseteq rest
            /\ p = "tick.credit" => x \in rest
            /\ p = "redeems" => \A t \in left \cup {x} : state[t] = "PAYOUT_SUBMITTED"
    BY <2>2, NextInTickGoes DEF TickGoes
  <2>4. p = "orders" => x \notin processed
    BY <1>0, <2>3, SepaAssumption DEF Fits, TypeOK
  <2>5. ~world.overlap /\ p \in MirrorPc \cup (TickPc \ {"redeems"})
            => left \cap processed = {} /\ (p # "read" => x \notin processed)
    BY <2>2, <2>3, <2>4 DEF MirrorPc, TickPc
  <2>6. p \notin HandlerPc \cup CompPc
    BY <2>3 DEF HandlerPc, CompPc
  <2>7. p = "redeems" => \A t \in left \cup {x} : state[t] \in Submitted
    BY <2>3 DEF Submitted
  <2>8. QED
    BY <1>1, <1>2, <1>3, <2>1, <2>3, <2>5, <2>6, <2>7, MirrorGoes
<1>6. QED
  BY <1>4, <1>5
\* A credit that throws.
LEMMA CreditThrowsKeeps ==
  ASSUME SepaInv, NEW w \in Workers, CreditThrows(w)
  PROVE  SepaInv'
<1>1. pc[w] \in {"credit", "credited", "tick.credit", "tick.credited"} /\ Mirror(w) /\ ~Moving(w)
  BY MirrorsDoNotMove DEF CreditThrows, Mirror, MirrorPc, TickPc
<1>2. Apart /\ UNCHANGED <<processed, minted, crashes, webhooks>>
  BY DEF CreditThrows, Apart, Fault, monerium, chain, store
<1>3. faults' \in 0..MaxFaults /\ webhooks' \subseteq Orders
  BY <1>2, SepaAssumption DEF SepaInv, CreditThrows, Fault, TypeOK
<1>4. Calm => \A o \in Orders : ~Crediting(w, o)
  BY DEF CreditThrows, Calm, Crediting
<1>5. "idle" \notin HandlerPc \cup CompPc \cup MirrorPc \cup TickPc
  BY DEF HandlerPc, CompPc, MirrorPc, TickPc
<1>6. Await(w, "idle", None, {})
  BY DEF CreditThrows, Return
<1>7. QED
  BY <1>1, <1>2, <1>3, <1>4, <1>5, <1>6, IdleFits, MirrorGoes

\* The mint: the order was not marked, nobody else mirrors it, so nothing of it was
\* minted before.
LEMMA CreditKeeps ==
  ASSUME SepaInv, NEW w \in Workers, Credit(w)
  PROVE  SepaInv'
<1> DEFINE p == IF pc[w] = "credit" THEN "credited" ELSE "tick.credited"
<1>0. TypeOK /\ Jobs
  BY DEF SepaInv
<1>1. /\ pc[w] \in {"credit", "tick.credit"} /\ Mirror(w) /\ ~Moving(w) /\ job[w] \in Orders
      /\ pc[w] # "read"
  BY <1>0, MirrorsDoNotMove DEF Credit, Mirror, MirrorPc, TickPc, Jobs
<1>2. Apart /\ UNCHANGED <<processed, webhooks, faults, crashes>>
  BY DEF Credit, Apart, monerium, store, bounds
<1>3. Await(w, p, job[w], todo[w]) /\ p \in {"credited", "tick.credited"}
  BY DEF Credit
<1>4. Fits(p, job[w], todo[w]) /\ p \notin HandlerPc \cup CompPc
  BY <1>0, <1>1, <1>3 DEF Fits, TypeOK, MirrorPc, TickPc, HandlerPc, CompPc, Things
<1>5. Goes(w, p, job[w], todo[w])
  BY <1>0, <1>3, AwaitGoes
<1> HIDE DEF p
<1>6. minted' = minted \/ minted' = [minted EXCEPT ![job[w]] = @ + 1]
  BY DEF Credit
<1>7. TypeOK' /\ Jobs'
  <2>1. /\ pc' \in [Workers -> {"idle"} \cup MirrorPc \cup TickPc \cup HandlerPc \cup CompPc]
        /\ job' \in [Workers -> Things \cup {None}]
        /\ todo' \in [Workers -> SUBSET Things] /\ Jobs'
    BY <1>0, <1>3, <1>4, AwaitFits
  <2>2. minted' \in [Orders -> Nat]
    BY <1>0, <1>1, <1>6 DEF TypeOK
  <2>3. QED
    BY <1>0, <1>2, <2>1, <2>2 DEF TypeOK, Apart
<1>8. OneMirror'
  BY <1>1, <1>2, <1>5, OneMirrorKept DEF SepaInv, MirrorInv, Apart
<1>9. ~world.overlap => todo[w] \cap processed = {} /\ job[w] \notin processed
  BY <1>1 DEF SepaInv, MirrorInv, Unmarked
<1>10. Unmarked'
  <2>1. CASE world.overlap
    BY <1>2, <2>1 DEF Unmarked, Apart
  <2>2. CASE ~world.overlap
    BY <1>1, <1>2, <1>5, <1>8, <1>9, <2>2, UnmarkedKept DEF Apart
  <2>3. QED
    BY <2>1, <2>2
<1>11. MintedOnce'
  <2> SUFFICES ASSUME Calm, NEW o \in Orders
               PROVE  /\ minted'[o] <= 1
                      /\ minted'[o] = 0 \/ o \in processed \/ \E v \in Workers : Crediting(v, o)'
    BY <1>2 DEF MintedOnce, Calm, Apart
  <2>1. CASE o = job[w]
    <3>1. \A v \in Workers : ~Crediting(v, o)
      <4> SUFFICES ASSUME NEW v \in Workers, Crediting(v, o) PROVE FALSE
        OBVIOUS
      <4>1. Mirror(v)
        BY DEF Crediting, Mirror, MirrorPc, TickPc
      <4>2. v = w
        BY <1>1, <4>1 DEF SepaInv, MirrorInv, OneMirror, Calm
      <4>3. QED
        BY <1>1, <4>2 DEF Crediting
    <3>2. minted[o] = 0
      BY <1>9, <2>1, <3>1 DEF SepaInv, MirrorInv, MintedOnce, Calm
    <3>3. minted'[o] <= 1
      BY <1>0, <1>6, <2>1, <3>2 DEF TypeOK
    <3>4. Crediting(w, o)'
      BY <1>3, <1>5, <2>1 DEF Goes, Crediting
    <3>5. QED
      BY <3>3, <3>4
  <2>2. CASE o # job[w]
    <3>1. minted'[o] = minted[o]
      BY <1>0, <1>6, <2>2 DEF TypeOK
    <3>2. \A v \in Workers : Crediting(v, o) => Crediting(v, o)'
      BY <1>1, <1>5 DEF Goes, Crediting
    <3>3. QED
      BY <3>1, <3>2 DEF SepaInv, MirrorInv, MintedOnce
  <2>3. QED
    BY <2>1, <2>2
<1>12. RedeemInv'
  <2>1. p # "redeems"
    BY <1>3
  <2>2. QED
    BY <1>1, <1>2, <1>4, <1>5, <2>1, MirrorsMove DEF Apart
<1>13. QED
  BY <1>7, <1>8, <1>10, <1>11, <1>12 DEF SepaInv, MirrorInv

\* The mark, after which a tick goes on.
LEMMA CreditedKeeps ==
  ASSUME SepaInv, NEW w \in Workers, Credited(w)
  PROVE  SepaInv'
<1>0. TypeOK /\ Jobs
  BY DEF SepaInv
<1>1. pc[w] \in {"credited", "tick.credited"} /\ Mirror(w) /\ ~Moving(w) /\ job[w] \in Orders
  BY <1>0, MirrorsDoNotMove DEF Credited, Mirror, MirrorPc, TickPc, Jobs
<1>2. Apart /\ UNCHANGED <<minted, faults, crashes>> /\ processed' = processed \cup {job[w]}
  BY DEF Credited, Apart, monerium, chain, bounds
<1>3. webhooks' \subseteq Orders
  BY <1>0, <1>1 DEF Credited, TypeOK
<1>4. PICK p \in {"tick.credit", "orders", "redeems", "idle"}, x \in Things \cup {None},
           rest \in SUBSET Things :
          /\ Await(w, p, x, rest) /\ Fits(p, x, rest)
          /\ p \in {"tick.credit", "orders"} => rest \cap processed' = {}
          /\ p = "tick.credit" => x \notin processed'
          /\ p = "redeems" => \A t \in rest \cup {x} : state[t] = "PAYOUT_SUBMITTED"
  <2>1. CASE Return(w)
    BY <2>1, IdleFits DEF Return
  <2>2. CASE NextInTick(w, Unmirrored(todo[w], processed'))
    <3>1. PICK left \in SUBSET Things : left = Unmirrored(todo[w], processed')
      BY <1>0 DEF TypeOK, Unmirrored
    <3>2. TickGoes(w, left)
      BY <2>2, <3>1, NextInTickGoes
    <3>3. left \cap processed' = {}
      BY <3>1 DEF Unmirrored
    <3>4. QED
      BY <3>2, <3>3 DEF TickGoes
  <2>3. QED
    BY <2>1, <2>2 DEF Credited
<1>5. Goes(w, p, x, rest) /\ p \notin HandlerPc \cup CompPc
  BY <1>0, <1>4, AwaitGoes DEF HandlerPc, CompPc
<1>6. TypeOK' /\ Jobs'
  <2>1. /\ pc' \in [Workers -> {"idle"} \cup MirrorPc \cup TickPc \cup HandlerPc \cup CompPc]
        /\ job' \in [Workers -> Things \cup {None}]
        /\ todo' \in [Workers -> SUBSET Things] /\ Jobs'
    BY <1>0, <1>4, AwaitFits
  <2>2. processed' \subseteq Orders
    BY <1>0, <1>1, <1>2 DEF TypeOK
  <2>3. QED
    BY <1>0, <1>2, <1>3, <2>1, <2>2 DEF TypeOK, Apart
<1>7. OneMirror'
  BY <1>1, <1>2, <1>5, OneMirrorKept DEF SepaInv, MirrorInv, Apart
<1>8. Mirror(w)' => rest \cap processed' = {} /\ (p # "read" => x \notin processed')
  <2>1. Mirror(w)' => p \in {"tick.credit", "orders"}
    BY <1>4, <1>5 DEF Goes, Mirror, MirrorPc, TickPc
  <2>2. p = "orders" => x \notin processed'
    BY <1>4, <1>6, SepaAssumption DEF Fits, TypeOK
  <2>3. QED
    BY <1>4, <2>1, <2>2
<1>9. Unmarked'
  BY <1>1, <1>2, <1>5, <1>7, <1>8, UnmarkedKept DEF Apart
<1>10. MintedOnce'
  <2>1. \A o \in Orders : Crediting(w, o) => o \in processed'
    BY <1>2 DEF Crediting
  <2>2. QED
    BY <1>2, <1>5, <2>1, MintedKept DEF Apart, Calm
<1>11. RedeemInv'
  <2>1. p = "redeems" => \A t \in rest \cup {x} : state[t] \in Submitted
    BY <1>4 DEF Submitted
  <2>2. QED
    BY <1>1, <1>2, <1>5, <2>1, MirrorsMove DEF Apart
<1>12. QED
  BY <1>6, <1>7, <1>9, <1>10, <1>11 DEF SepaInv, MirrorInv
-----------------------------------------------------------------------------
(* The steps of those who move money.                                      *)

\* A mover that goes on or ends, and whoever begins to move money of a transfer
\* nobody else moves, stays the only one.
LEMMA OneMoverKept ==
  ASSUME OneMover, NEW w \in Workers, NEW p, NEW x, NEW rest, Goes(w, p, x, rest),
         \/ p \notin HandlerPc \cup CompPc
         \/ Moving(w) /\ x = job[w]
         \/ \A v \in Workers : Moving(v) => job[v] # x
  PROVE  OneMover'
<1> SUFFICES ASSUME NEW u \in Workers, NEW v \in Workers, Moving(u)', Moving(v)',
                    job'[u] = job'[v]
             PROVE  u = v
  BY DEF OneMover
<1>1. \A y \in Workers \ {w} : Moving(y)' => Moving(y) /\ job'[y] = job[y]
  BY DEF Goes, Moving
<1>2. Moving(w)' => p \in HandlerPc \cup CompPc /\ job'[w] = x
  BY DEF Goes, Moving
<1>3. QED
  BY <1>1, <1>2 DEF OneMover

\* Where it stands agrees with the state it leaves, and nobody else stands at the
\* transfer whose state it changes, but for polls.
LEMMA AtWorkKept ==
  ASSUME SepaInv, NEW w \in Workers, NEW p, NEW x, NEW rest, Goes(w, p, x, rest),
         NEW t \in Transfers,
         \A u \in Transfers \ {t} : state'[u] = state[u] /\ redeem'[u] = redeem[u],
         unheard \subseteq unheard',
         \A v \in Workers \ {w} : Moving(v) => job[v] # t,
         state[t] \in Submitted => state'[t] \in Submitted,
         p \in {"fee", "feeSent"} => state'[x] = "AUTHORIZED",
         p \in {"redeem", "redeemSent"} => state'[x] = "DEBITED",
         p = "redeem" => redeem'[x] = "none",
         p \in CompPc => /\ state'[x] \in Submitted \ {"PAYOUT_SUBMITTED"}
                         /\ x \notin unheard' => redeem'[x] \in {"none", "rejected"},
         p = "redeems" => \A u \in rest \cup {x} : state'[u] \in Submitted
  PROVE  AtWork'
<1> SUFFICES ASSUME NEW v \in Workers
             PROVE  /\ pc'[v] \in {"fee", "feeSent"} => state'[job'[v]] = "AUTHORIZED"
                    /\ pc'[v] \in {"redeem", "redeemSent"} => state'[job'[v]] = "DEBITED"
                    /\ pc'[v] = "redeem" => redeem'[job'[v]] = "none"
                    /\ pc'[v] \in CompPc =>
                          /\ state'[job'[v]] \in Submitted \ {"PAYOUT_SUBMITTED"}
                          /\ job'[v] \notin unheard' => redeem'[job'[v]] \in {"none", "rejected"}
                    /\ pc'[v] = "redeems" =>
                          \A u \in todo'[v] \cup {job'[v]} : state'[u] \in Submitted
  BY DEF AtWork, Unpaid
<1>1. CASE v = w
  <2>1. pc'[v] = p /\ job'[v] = x /\ todo'[v] = rest
    BY <1>1 DEF Goes
  <2>2. pc'[v] = "redeems" => \A u \in todo'[v] \cup {job'[v]} : state'[u] \in Submitted
    BY <2>1, Zenon
  <2>3. pc'[v] \in CompPc => /\ state'[job'[v]] \in Submitted \ {"PAYOUT_SUBMITTED"}
                             /\ job'[v] \notin unheard' => redeem'[job'[v]] \in {"none", "rejected"}
    BY <2>1
  <2>4. /\ pc'[v] \in {"fee", "feeSent"} => state'[job'[v]] = "AUTHORIZED"
        /\ pc'[v] \in {"redeem", "redeemSent"} => state'[job'[v]] = "DEBITED"
        /\ pc'[v] = "redeem" => redeem'[job'[v]] = "none"
    BY <2>1
  <2>5. QED
    BY <2>2, <2>3, <2>4
<1>2. CASE v # w
  <2>1. pc'[v] = pc[v] /\ job'[v] = job[v] /\ todo'[v] = todo[v]
    BY <1>2 DEF Goes
  <2>2. Moving(v) => job[v] \in Transfers \ {t}
    BY <1>2 DEF SepaInv, Jobs
  <2>3. Moving(v) => state'[job[v]] = state[job[v]] /\ redeem'[job[v]] = redeem[job[v]]
    BY <2>2
  <2>4. pc[v] = "redeems" => todo[v] \cup {job[v]} \subseteq Transfers
    BY DEF SepaInv, Jobs
  <2>5. AtWork
    BY DEF SepaInv, RedeemInv
  <2>6. pc[v] \in HandlerPc \cup CompPc <=> Moving(v)
    BY DEF Moving
  <2>7. pc[v] = "redeems" => \A u \in todo[v] \cup {job[v]} : state'[u] \in Submitted
    BY <2>4, <2>5 DEF AtWork
  <2>8. QED
    BY <2>1, <2>3, <2>5, <2>6, <2>7 DEF AtWork, HandlerPc, Unpaid
<1>3. QED
  BY <1>1, <1>2

\* What is known of other transfers' orders stays known.
LEMMA OrderedKept ==
  ASSUME SepaInv, NEW w \in Workers, NEW p, NEW x, NEW rest, Goes(w, p, x, rest),
         NEW t \in Transfers, pc[w] = "redeemSent" => job[w] = t,
         unheard \subseteq unheard',
         \A u \in Transfers \ {t} : state'[u] = state[u] /\ redeem'[u] = redeem[u],
         state'[t] \in {"CREATED", "AUTHORIZED"} => redeem'[t] = "none",
         state'[t] = "DEBITED" => Unpaid(t)' \/ (p = "redeemSent" /\ x = t),
         state'[t] \in {"FAILED", "REFUNDED"} => Unpaid(t)'
  PROVE  Ordered'
<1>1. \A v \in Workers, u \in Transfers \ {t} : Placing(v, u) => Placing(v, u)'
  BY DEF Placing, Goes
<1>2. \A u \in Transfers \ {t} : Unpaid(u) => Unpaid(u)'
  BY DEF Unpaid
<1>3. p = "redeemSent" /\ x = t => Placing(w, t)'
  BY DEF Placing, Goes
<1>4. QED
  BY <1>1, <1>2, <1>3 DEF SepaInv, RedeemInv, Ordered

\* A step of a mover, which is about one transfer.
Changes(t) ==
    /\ state' \in [Transfers -> Submitted \cup {"CREATED", "AUTHORIZED", "DEBITED"}]
    /\ redeem' \in [Transfers -> {"none", "placed", "processed", "rejected"}]
    /\ \A u \in Transfers \ {t} : state'[u] = state[u] /\ redeem'[u] = redeem[u]
    /\ unheard \subseteq unheard' /\ unheard' \subseteq Transfers
    /\ UNCHANGED <<world, order, processed, webhooks, minted, crashes>>
    /\ faults' \in 0..MaxFaults /\ feeTaken' \in [Transfers -> Int] /\ feeStep' \subseteq Transfers

LEMMA MoverGoes ==
  ASSUME SepaInv, NEW w \in Workers, NEW p, NEW x, NEW rest, Await(w, p, x, rest),
         Fits(p, x, rest), NEW t \in Transfers, Changes(t),
         ~Mirror(w), p \in {"idle", "redeems"} \cup HandlerPc \cup CompPc,
         \/ p \notin HandlerPc \cup CompPc
         \/ Moving(w) /\ x = job[w]
         \/ \A v \in Workers : Moving(v) => job[v] # x,
         pc[w] = "redeemSent" => job[w] = t,
         \A v \in Workers \ {w} : Moving(v) => job[v] # t,
         state[t] \in Submitted => state'[t] \in Submitted,
         p \in HandlerPc \cup CompPc => x = t,
         p \in {"fee", "feeSent"} => state'[t] = "AUTHORIZED",
         p \in {"redeem", "redeemSent"} => state'[t] = "DEBITED",
         p = "redeem" => redeem'[t] = "none",
         p \in CompPc => state'[t] \in Submitted \ {"PAYOUT_SUBMITTED"} /\ Unpaid(t)',
         p = "redeems" => \A u \in rest \cup {x} : state'[u] \in Submitted,
         state'[t] \in {"CREATED", "AUTHORIZED"} => redeem'[t] = "none",
         state'[t] = "DEBITED" => Unpaid(t)' \/ p = "redeemSent",
         state'[t] \in {"FAILED", "REFUNDED"} => Unpaid(t)'
  PROVE  SepaInv'
<1>0. TypeOK /\ Jobs
  BY DEF SepaInv
<1>1. Goes(w, p, x, rest)
  BY <1>0, AwaitGoes
<1>2. \A u \in Transfers \ {t} : state'[u] = state[u] /\ redeem'[u] = redeem[u]
  BY DEF Changes
<1>3. unheard \subseteq unheard'
  BY DEF Changes
<1>4. TypeOK' /\ Jobs'
  <2>1. /\ pc' \in [Workers -> {"idle"} \cup MirrorPc \cup TickPc \cup HandlerPc \cup CompPc]
        /\ job' \in [Workers -> Things \cup {None}]
        /\ todo' \in [Workers -> SUBSET Things] /\ Jobs'
    BY <1>0, AwaitFits
  <2>2. state' \in [Transfers -> {"CREATED", "AUTHORIZED", "DEBITED", "PAYOUT_SUBMITTED",
                                  "PAID", "FAILED", "REFUNDED"}]
    BY DEF Changes, Submitted
  <2>3. QED
    BY <1>0, <2>1, <2>2 DEF TypeOK, Changes
<1>5. MirrorInv'
  BY <1>1, MoversMirror DEF Changes
<1>6. OneMover'
  BY <1>1, OneMoverKept DEF SepaInv, RedeemInv
<1>7. AtWork'
  <2>1. /\ p \in {"fee", "feeSent"} => state'[x] = "AUTHORIZED"
        /\ p \in {"redeem", "redeemSent"} => state'[x] = "DEBITED"
        /\ p = "redeem" => redeem'[x] = "none"
        /\ p \in CompPc => /\ state'[x] \in Submitted \ {"PAYOUT_SUBMITTED"}
                           /\ x \notin unheard' => redeem'[x] \in {"none", "rejected"}
    BY DEF HandlerPc, Unpaid
  <2>2. QED
    BY <1>1, <1>2, <1>3, <2>1, AtWorkKept
<1>8. Ordered'
  <2>1. p = "redeemSent" => x = t
    BY DEF HandlerPc
  <2>2. QED
    BY <1>1, <1>2, <1>3, <2>1, OrderedKept
<1>9. QED
  BY <1>4, <1>5, <1>6, <1>7, <1>8 DEF SepaInv, RedeemInv

\* Two movers of one transfer are the same.
LEMMA MovesAlone ==
  ASSUME SepaInv, NEW w \in Workers, Moving(w)
  PROVE  /\ ~Mirror(w) /\ job[w] \in Transfers
         /\ \A v \in Workers \ {w} : Moving(v) => job[v] # job[w]
  BY DEF SepaInv, Jobs, RedeemInv, OneMover, Mirror, Moving, MirrorPc, TickPc, HandlerPc, CompPc

\* Where a mover can be.
LEMMA MoverFits ==
  ASSUME NEW t \in Transfers, NEW p \in HandlerPc \cup CompPc
  PROVE  Fits(p, t, {})
  BY DEF Fits, MirrorPc, TickPc, HandlerPc, CompPc, Things

\* A transfer is handed to its handler, or to the sweep, when nobody else has it.
LEMMA BeginKeeps ==
  ASSUME SepaInv, NEW w \in Workers, NEW t \in Transfers, Authorize(w, t) \/ Sweep(w, t)
  PROVE  SepaInv'
<1>0. TypeOK /\ Jobs /\ AtWork /\ Ordered
  BY DEF SepaInv, RedeemInv
<1>1. pc[w] = "idle" /\ ~Mirror(w) /\ ~Moving(w)
  BY DEF Authorize, Sweep, Mirror, Moving, MirrorPc, TickPc, HandlerPc, CompPc
<1>2. UNCHANGED <<world, order, redeem, processed, webhooks, feeStep, minted, feeTaken, unheard,
                  crashes, faults>>
  BY DEF Authorize, Sweep, monerium, chain, bounds
<1>3. ASSUME NEW s \in Submitted \cup {"AUTHORIZED"}, state' = [state EXCEPT ![t] = s]
      PROVE  Changes(t) /\ state'[t] = s
  BY <1>0, <1>2, <1>3 DEF TypeOK, Changes, Submitted
<1>4. CASE Authorize(w, t)
  <2>1. /\ state[t] = "CREATED" /\ state' = [state EXCEPT ![t] = "AUTHORIZED"]
        /\ Await(w, "fee", t, {})
    BY <1>4 DEF Authorize
  <2>2. \A v \in Workers : Moving(v) => job[v] # t
    BY <1>0, <2>1 DEF AtWork, Moving, HandlerPc, Submitted
  <2>3. redeem'[t] = "none"
    BY <1>0, <1>2, <2>1 DEF Ordered
  <2>4. "fee" \in HandlerPc /\ "fee" \notin CompPc
    BY DEF HandlerPc, CompPc
  <2>5. Fits("fee", t, {})
    BY <2>4, MoverFits
  <2>6. Changes(t) /\ state'[t] = "AUTHORIZED" /\ state[t] \notin Submitted
    BY <1>3, <2>1 DEF Submitted
  <2>7. QED
    BY <1>1, <2>1, <2>2, <2>3, <2>4, <2>5, <2>6, MoverGoes
<1>5. CASE Sweep(w, t)
  <2>1. /\ state[t] \in {"FAILED", "DEBITED"} /\ state' = [state EXCEPT ![t] = "FAILED"]
        /\ Await(w, "return", t, {})
    BY <1>5 DEF Sweep, Compensate
  <2>2. \A v \in Workers : Moving(v) => job[v] # t
    BY <1>5 DEF Sweep, Moving
  <2>3. Unpaid(t)'
    <3>1. \A v \in Workers : ~Placing(v, t)
      BY <2>2 DEF Placing, Moving, HandlerPc
    <3>2. QED
      BY <1>0, <1>2, <2>1, <3>1 DEF Ordered, Unpaid
  <2>4. "return" \in CompPc /\ "return" \notin HandlerPc
    BY DEF HandlerPc, CompPc
  <2>5. Fits("return", t, {})
    BY <2>4, MoverFits
  <2>6. Changes(t) /\ state'[t] = "FAILED" /\ state'[t] \in Submitted \ {"PAYOUT_SUBMITTED"}
    BY <1>3, <2>1 DEF Submitted
  <2>7. QED
    BY <1>1, <2>1, <2>2, <2>3, <2>4, <2>5, <2>6, MoverGoes
<1>6. QED
  BY <1>4, <1>5
\* A handler goes on, the fee and the order with it.
LEMMA HandlerKeeps ==
  ASSUME SepaInv, NEW w \in Workers,
         Fee(w) \/ FeeRecorded(w) \/ Redeem(w) \/ RedeemRecorded(w)
  PROVE  SepaInv'
<1>0. TypeOK /\ AtWork
  BY DEF SepaInv, RedeemInv
<1>1. pc[w] \in HandlerPc /\ Moving(w)
  BY DEF Fee, FeeRecorded, Redeem, RedeemRecorded, Moving, HandlerPc
<1>2. PICK t \in Transfers :
          /\ t = job[w] /\ ~Mirror(w)
          /\ \A v \in Workers \ {w} : Moving(v) => job[v] # t
  BY <1>1, MovesAlone
<1>3. /\ UNCHANGED <<world, order, processed, webhooks, minted, crashes, unheard, faults>>
      /\ faults' \in 0..MaxFaults
  BY <1>0 DEF Fee, FeeRecorded, Redeem, RedeemRecorded, monerium, store, chain, bounds, TypeOK
<1>4. CASE Fee(w)
  <2>1. /\ pc[w] = "fee" /\ Await(w, "feeSent", t, {}) /\ UNCHANGED <<state, redeem, feeStep>>
        /\ feeTaken' = [feeTaken EXCEPT ![t] = @ + 1]
    BY <1>2, <1>4 DEF Fee, monerium, store
  <2>2. state[t] = "AUTHORIZED" /\ redeem[t] = "none"
    BY <1>0, <1>2, <2>1 DEF AtWork, SepaInv, RedeemInv, Ordered
  <2>3. Changes(t)
    BY <1>0, <1>2, <1>3, <2>1 DEF TypeOK, Changes, Submitted
  <2>4. Fits("feeSent", t, {}) /\ "feeSent" \in HandlerPc \ CompPc
    BY <1>2, MoverFits DEF HandlerPc, CompPc
  <2>5. "AUTHORIZED" \notin Submitted
    BY DEF Submitted
  <2>6. QED
    BY <1>1, <1>2, <2>1, <2>2, <2>3, <2>4, <2>5, MoverGoes
<1>5. CASE FeeRecorded(w)
  <2>1. /\ pc[w] = "feeSent" /\ Await(w, "redeem", t, {}) /\ UNCHANGED <<redeem, feeTaken>>
        /\ state' = [state EXCEPT ![t] = "DEBITED"] /\ feeStep' = feeStep \cup {t}
    BY <1>2, <1>5 DEF FeeRecorded, monerium, chain
  <2>2. state[t] = "AUTHORIZED" /\ redeem[t] = "none"
    BY <1>0, <1>2, <2>1 DEF AtWork, SepaInv, RedeemInv, Ordered
  <2>3. Changes(t) /\ state'[t] = "DEBITED"
    BY <1>0, <1>2, <1>3, <2>1 DEF TypeOK, Changes, Submitted
  <2>4. Fits("redeem", t, {}) /\ "redeem" \in HandlerPc \ CompPc
    BY <1>2, MoverFits DEF HandlerPc, CompPc
  <2>5. "AUTHORIZED" \notin Submitted
    BY DEF Submitted
  <2>6. Unpaid(t)'
    BY <2>1, <2>2 DEF Unpaid
  <2>7. QED
    BY <1>1, <1>2, <2>1, <2>2, <2>3, <2>4, <2>5, <2>6, MoverGoes
<1>6. CASE Redeem(w)
  <2>1. /\ pc[w] = "redeem" /\ Await(w, "redeemSent", t, {})
        /\ UNCHANGED <<state, feeTaken, feeStep>>
        /\ redeem' = [redeem EXCEPT ![t] = "placed"]
    BY <1>2, <1>6 DEF Redeem, chain, store
  <2>2. state[t] = "DEBITED"
    BY <1>2, <1>0, <2>1 DEF AtWork
  <2>3. Changes(t)
    BY <1>0, <1>2, <1>3, <2>1 DEF TypeOK, Changes, Submitted
  <2>4. Fits("redeemSent", t, {}) /\ "redeemSent" \in HandlerPc \ CompPc
    BY <1>2, MoverFits DEF HandlerPc, CompPc
  <2>5. "DEBITED" \notin Submitted
    BY DEF Submitted
  <2>6. QED
    BY <1>1, <1>2, <2>1, <2>2, <2>3, <2>4, <2>5, MoverGoes
<1>7. CASE RedeemRecorded(w)
  <2>1. /\ pc[w] = "redeemSent" /\ Await(w, "idle", None, {})
        /\ UNCHANGED <<redeem, feeTaken, feeStep>>
        /\ state' = [state EXCEPT ![t] = "PAYOUT_SUBMITTED"]
    BY <1>2, <1>7 DEF RedeemRecorded, chain, monerium, Return
  <2>2. Changes(t) /\ state'[t] = "PAYOUT_SUBMITTED" /\ "PAYOUT_SUBMITTED" \in Submitted
    BY <1>0, <1>2, <1>3, <2>1 DEF TypeOK, Changes, Submitted
  <2>3. "idle" \notin HandlerPc \cup CompPc
    BY DEF HandlerPc, CompPc
  <2>4. QED
    BY <1>1, <1>2, <2>1, <2>2, <2>3, IdleFits, MoverGoes
<1>8. QED
  BY <1>4, <1>5, <1>6, <1>7

\* A handler fails: no order of it is known to be placed.
LEMMA ThrowsKeep ==
  ASSUME SepaInv, NEW w \in Workers, FeeThrows(w) \/ RedeemThrows(w)
  PROVE  SepaInv'
<1>0. TypeOK /\ AtWork
  BY DEF SepaInv, RedeemInv
<1>1. pc[w] \in {"fee", "redeem", "redeemSent"} /\ Moving(w)
  BY DEF FeeThrows, RedeemThrows, Moving, HandlerPc
<1>2. PICK t \in Transfers :
          /\ t = job[w] /\ ~Mirror(w)
          /\ \A v \in Workers \ {w} : Moving(v) => job[v] # t
  BY <1>1, MovesAlone
<1>3. /\ UNCHANGED <<world, order, processed, webhooks, minted, crashes, redeem, feeTaken, feeStep>>
      /\ faults' \in 0..MaxFaults
  BY <1>0, SepaAssumption DEF FeeThrows, RedeemThrows, Fault, monerium, store, chain, TypeOK
<1>4. unheard' = unheard \cup (IF pc[w] = "redeemSent" THEN {t} ELSE {})
  BY <1>2 DEF FeeThrows, RedeemThrows
<1>5. pc[w] # "redeemSent" => redeem[t] = "none"
  BY <1>0, <1>1, <1>2 DEF AtWork, SepaInv, RedeemInv, Ordered
<1>6. Unpaid(t)'
  BY <1>3, <1>4, <1>5 DEF Unpaid
<1>7. PICK s \in {"PAID", "FAILED"}, p \in {"idle", "return"} :
          /\ state' = [state EXCEPT ![t] = s]
          /\ Await(w, p, IF p = "idle" THEN None ELSE t, {})
  <2>1. CASE Return(w)
    BY <1>2, <2>1 DEF FeeThrows, RedeemThrows, Return
  <2>2. CASE Compensate(w, t)
    BY <1>2, <2>2 DEF FeeThrows, RedeemThrows, Compensate, Return
  <2>3. QED
    BY <1>2, <2>1, <2>2 DEF FeeThrows, RedeemThrows
<1>8. Changes(t) /\ state'[t] = s
  BY <1>0, <1>2, <1>3, <1>4, <1>7 DEF TypeOK, Changes, Submitted
<1>9. s \in Submitted \ {"PAYOUT_SUBMITTED"} /\ s \in Submitted
  BY DEF Submitted
<1>10. /\ "return" \in CompPc \ HandlerPc /\ "idle" \notin HandlerPc \cup CompPc
       /\ Fits(p, IF p = "idle" THEN None ELSE t, {})
  BY <1>2, MoverFits, IdleFits DEF HandlerPc, CompPc
<1>11. CASE p = "idle"
  BY <1>1, <1>2, <1>6, <1>7, <1>8, <1>9, <1>10, <1>11, MoverGoes
<1>12. CASE p = "return"
  BY <1>1, <1>2, <1>6, <1>7, <1>8, <1>9, <1>10, <1>12, MoverGoes
<1>13. QED
  BY <1>11, <1>12

\* The fee goes back, or does not.
LEMMA ReturnsKeep ==
  ASSUME SepaInv, NEW w \in Workers, Give(w) \/ Given(w) \/ GiveThrows(w)
  PROVE  SepaInv'
<1>0. TypeOK /\ AtWork
  BY DEF SepaInv, RedeemInv
<1>1. pc[w] \in CompPc /\ Moving(w)
  BY DEF Give, Given, GiveThrows, Moving, CompPc
<1>2. PICK t \in Transfers :
          /\ t = job[w] /\ ~Mirror(w)
          /\ \A v \in Workers \ {w} : Moving(v) => job[v] # t
  BY <1>1, MovesAlone
<1>3. state[t] \in Submitted \ {"PAYOUT_SUBMITTED"} /\ Unpaid(t)
  BY <1>0, <1>1, <1>2 DEF AtWork
<1>4. /\ UNCHANGED <<world, order, processed, webhooks, minted, crashes, unheard, redeem, feeStep>>
      /\ faults' \in 0..MaxFaults
  BY <1>0, SepaAssumption DEF Give, Given, GiveThrows, Fault, monerium, store, chain, bounds, TypeOK
<1>5. Unpaid(t)' /\ pc[w] # "redeemSent"
  BY <1>1, <1>3, <1>4 DEF Unpaid, CompPc
<1>6. CASE Give(w)
  <2>1. /\ Await(w, "returnSent", t, {}) /\ UNCHANGED state
        /\ feeTaken' = [feeTaken EXCEPT ![t] = @ - 1]
    BY <1>2, <1>6 DEF Give, store
  <2>2. Changes(t) /\ state'[t] = state[t]
    BY <1>0, <1>2, <1>4, <2>1 DEF TypeOK, Changes, Submitted
  <2>3. Fits("returnSent", t, {}) /\ "returnSent" \in CompPc \ HandlerPc
    BY <1>2, MoverFits DEF HandlerPc, CompPc
  <2>4. "AUTHORIZED" \notin Submitted /\ "CREATED" \notin Submitted /\ "DEBITED" \notin Submitted
    BY DEF Submitted
  <2>5. QED
    BY <1>1, <1>2, <1>3, <1>5, <2>1, <2>2, <2>3, <2>4, MoverGoes
<1>7. CASE Given(w) \/ GiveThrows(w)
  <2>1. /\ Await(w, "idle", None, {}) /\ UNCHANGED feeTaken
        /\ state' = [state EXCEPT ![t] = "REFUNDED"] \/ UNCHANGED state
    BY <1>2, <1>7 DEF Given, GiveThrows, store, chain, Return
  <2>2. Changes(t) /\ state'[t] \in {state[t], "REFUNDED"}
    BY <1>0, <1>2, <1>4, <2>1 DEF TypeOK, Changes, Submitted
  <2>3. "idle" \notin HandlerPc \cup CompPc
    BY DEF HandlerPc, CompPc
  <2>4. state'[t] \in Submitted /\ state'[t] \notin {"CREATED", "AUTHORIZED", "DEBITED"}
    BY <1>3, <2>2 DEF Submitted
  <2>5. QED
    BY <1>1, <1>2, <1>5, <2>1, <2>2, <2>3, <2>4, IdleFits, MoverGoes
<1>8. QED
  BY <1>6, <1>7

\* A poll, however old its list, finds a transfer submitted or past that; only a
\* rejected order fails it.
LEMMA PollKeeps ==
  ASSUME SepaInv, NEW w \in Workers, RedeemPolled(w)
  PROVE  SepaInv'
<1>0. TypeOK /\ Jobs /\ AtWork /\ Ordered
  BY DEF SepaInv, RedeemInv
<1>1. pc[w] = "redeems" /\ ~Mirror(w) /\ ~Moving(w)
  BY DEF RedeemPolled, Mirror, Moving, MirrorPc, TickPc, HandlerPc, CompPc
<1>2. PICK t \in Transfers :
          /\ t = job[w] /\ todo[w] \subseteq Transfers
          /\ \A u \in todo[w] \cup {t} : state[u] \in Submitted
  BY <1>0, <1>1 DEF Jobs, AtWork
<1>3. \A v \in Workers : Moving(v) => pc[v] \in HandlerPc \cup CompPc
  BY DEF Moving
<1>4. /\ UNCHANGED <<world, order, processed, webhooks, minted, crashes, unheard, redeem, feeStep,
                     feeTaken>>
      /\ faults' \in 0..MaxFaults
  <2>1. UNCHANGED <<world, order, processed, webhooks, minted, unheard, redeem, feeStep, feeTaken>>
    BY DEF RedeemPolled, monerium, chain
  <2>2. UNCHANGED bounds \/ Fault
    BY DEF RedeemPolled
  <2>3. crashes' = crashes /\ faults' \in 0..MaxFaults
    BY <1>0, <2>2, SepaAssumption DEF Fault, bounds, TypeOK
  <2>4. QED
    BY <2>1, <2>3
<1>5. PICK s \in {state[t], "PAID", "FAILED"} :
          state' = [state EXCEPT ![t] = s] /\ (s = "FAILED" => Unpaid(t))
  <2>1. \E asked \in BOOLEAN : state' = [state EXCEPT ![t] = RedeemOutcome(t, asked)]
    BY <1>2 DEF RedeemPolled
  <2>2. PICK asked \in BOOLEAN : state' = [state EXCEPT ![t] = RedeemOutcome(t, asked)]
    BY <2>1
  <2>3. RedeemOutcome(t, asked) \in {state[t], "PAID", "FAILED"}
    BY DEF RedeemOutcome
  <2>4. state[t] = "FAILED" => Unpaid(t)
    BY <1>0, <1>2 DEF Ordered
  <2>5. RedeemOutcome(t, asked) = "FAILED" => Unpaid(t)
    BY <2>4 DEF RedeemOutcome, Unpaid
  <2>6. QED
    BY <2>2, <2>3, <2>5
<1>6. s \in Submitted /\ (s \in {"FAILED", "REFUNDED"} => Unpaid(t))
  BY <1>0, <1>2, <1>5 DEF Submitted, Ordered
<1>7. Changes(t) /\ state'[t] = s /\ Unpaid(t)' = Unpaid(t)
  BY <1>0, <1>2, <1>4, <1>5, <1>6 DEF TypeOK, Changes, Submitted, Unpaid
<1>8. PICK p \in {"redeems", "idle"}, x \in Things \cup {None}, rest \in SUBSET Transfers :
          /\ Await(w, p, x, rest) /\ Fits(p, x, rest)
          /\ p = "redeems" => \A u \in rest \cup {x} : state[u] \in Submitted
  <2>1. ASSUME NEW u \in todo[w], Await(w, "redeems", u, todo[w] \ {u})
        PROVE  \E p \in {"redeems", "idle"}, x \in Things \cup {None}, rest \in SUBSET Transfers :
                  /\ Await(w, p, x, rest) /\ Fits(p, x, rest)
                  /\ p = "redeems" => \A v \in rest \cup {x} : state[v] \in Submitted
    <3>1. Fits("redeems", u, todo[w] \ {u}) /\ u \in Things
      BY <1>2 DEF Fits, MirrorPc, TickPc, HandlerPc, CompPc, Things
    <3>2. \A v \in (todo[w] \ {u}) \cup {u} : state[v] \in Submitted
      BY <1>2
    <3>3. todo[w] \ {u} \in SUBSET Transfers
      BY <1>2
    <3>4. QED
      BY <2>1, <3>1, <3>2, <3>3
  <2>2. CASE Return(w)
    BY <2>2, IdleFits DEF Return
  <2>3. QED
    BY <2>1, <2>2 DEF RedeemPolled
<1>9. Goes(w, p, x, rest) /\ p \notin HandlerPc \cup CompPc
  BY <1>0, <1>8, AwaitGoes DEF HandlerPc, CompPc
<1>10. TypeOK' /\ Jobs'
  <2>1. /\ pc' \in [Workers -> {"idle"} \cup MirrorPc \cup TickPc \cup HandlerPc \cup CompPc]
        /\ job' \in [Workers -> Things \cup {None}]
        /\ todo' \in [Workers -> SUBSET Things] /\ Jobs'
    BY <1>0, <1>8, AwaitFits
  <2>2. state' \in [Transfers -> {"CREATED", "AUTHORIZED", "DEBITED", "PAYOUT_SUBMITTED",
                                  "PAID", "FAILED", "REFUNDED"}]
    BY <1>7 DEF Changes, Submitted
  <2>3. QED
    BY <1>0, <1>4, <2>1, <2>2 DEF TypeOK
<1>11. MirrorInv'
  BY <1>1, <1>4, <1>8, <1>9, MoversMirror
<1>12. OneMover'
  BY <1>9, OneMoverKept DEF SepaInv, RedeemInv
<1>13. \A u \in Transfers : /\ u # t => state'[u] = state[u]
                            /\ state[u] \in Submitted => state'[u] \in Submitted
  BY <1>6, <1>7 DEF Changes
<1>14. AtWork'
  <2> SUFFICES ASSUME NEW v \in Workers
               PROVE  /\ pc'[v] \in {"fee", "feeSent"} => state'[job'[v]] = "AUTHORIZED"
                      /\ pc'[v] \in {"redeem", "redeemSent"} => state'[job'[v]] = "DEBITED"
                      /\ pc'[v] = "redeem" => redeem'[job'[v]] = "none"
                      /\ pc'[v] \in CompPc =>
                            /\ state'[job'[v]] \in Submitted \ {"PAYOUT_SUBMITTED"}
                            /\ job'[v] \notin unheard' => redeem'[job'[v]] \in {"none", "rejected"}
                      /\ pc'[v] = "redeems" =>
                            \A u \in todo'[v] \cup {job'[v]} : state'[u] \in Submitted
    BY DEF AtWork, Unpaid
  <2>1. CASE v = w
    <3>1. pc'[v] = p /\ job'[v] = x /\ todo'[v] = rest
      BY <1>9, <2>1 DEF Goes
    <3>2. p = "redeems" => \A u \in rest \cup {x} : u \in Transfers /\ state'[u] \in Submitted
      BY <1>8, <1>13 DEF Fits
    <3>3. QED
      BY <1>8, <3>1, <3>2 DEF CompPc
  <2>2. CASE v # w
    <3>1. pc'[v] = pc[v] /\ job'[v] = job[v] /\ todo'[v] = todo[v]
      BY <1>9, <2>2 DEF Goes
    <3>2. pc[v] \in HandlerPc => job[v] \in Transfers /\ job[v] # t
      BY <1>0, <1>2 DEF AtWork, Jobs, Moving, HandlerPc, Submitted
    <3>3. pc[v] \in HandlerPc => state'[job[v]] = state[job[v]]
      BY <1>13, <3>2
    <3>4. pc[v] \in CompPc => state'[job[v]] \in Submitted \ {"PAYOUT_SUBMITTED"}
      <4>1. pc[v] \in CompPc => /\ job[v] \in Transfers
                                /\ state[job[v]] \in Submitted \ {"PAYOUT_SUBMITTED"}
        BY <1>0 DEF AtWork, Jobs, Moving
      <4>2. s # "PAYOUT_SUBMITTED" \/ s = state[t]
        BY <1>5
      <4>3. QED
        BY <1>6, <1>7, <1>13, <4>1, <4>2
    <3>5. pc[v] = "redeems" => \A u \in todo[v] \cup {job[v]} : state'[u] \in Submitted
      <4>1. pc[v] = "redeems" => todo[v] \cup {job[v]} \subseteq Transfers
        BY <1>0 DEF Jobs
      <4>2. QED
        BY <1>0, <1>13, <4>1 DEF AtWork
    <3>6. QED
      BY <1>0, <1>4, <3>1, <3>3, <3>4, <3>5 DEF AtWork, HandlerPc, Unpaid
  <2>3. QED
    BY <2>1, <2>2
<1>15. Ordered'
  <2>1. state'[t] \notin {"CREATED", "AUTHORIZED", "DEBITED"}
    BY <1>6, <1>7 DEF Submitted
  <2>2. state'[t] \in {"FAILED", "REFUNDED"} => Unpaid(t)'
    BY <1>6, <1>7
  <2>3. \A u \in Transfers \ {t} : state'[u] = state[u] /\ redeem'[u] = redeem[u]
    BY <1>7 DEF Changes
  <2>4. unheard \subseteq unheard'
    BY <1>4
  <2>5. QED
    BY <1>1, <1>2, <1>9, <2>1, <2>2, <2>3, <2>4, OrderedKept
<1>16. QED
  BY <1>10, <1>11, <1>12, <1>14, <1>15 DEF SepaInv, RedeemInv

-----------------------------------------------------------------------------
(* Monerium, and the process that dies.                                    *)

\* Monerium decides only what was placed.
LEMMA MoneriumKeeps ==
  ASSUME SepaInv, MoneriumMoves
  PROVE  SepaInv'
<1>1. UNCHANGED <<world, store, chain, control, unheard, bounds>>
  BY DEF MoneriumMoves, OrderMoves, RedeemDecided
<1>2. TypeOK'
  BY <1>1 DEF SepaInv, MoneriumMoves, OrderMoves, RedeemDecided, TypeOK, store, chain, control, bounds
<1>3. Jobs' /\ MirrorInv' /\ OneMover'
  BY <1>1 DEF SepaInv, Jobs, MirrorInv, OneMirror, Unmarked, MintedOnce, Calm, Mirror, Moving,
         Crediting, RedeemInv, OneMover, store, chain, control, bounds
<1>4. \A t \in Transfers : /\ redeem[t] \in {"none", "rejected"} => redeem'[t] = redeem[t]
  BY DEF SepaInv, MoneriumMoves, OrderMoves, RedeemDecided, TypeOK
<1>5. \A t \in Transfers : Unpaid(t) => Unpaid(t)'
  BY <1>1, <1>4 DEF Unpaid
<1>6. Ordered'
  BY <1>1, <1>4, <1>5 DEF SepaInv, RedeemInv, Ordered, Placing, store, control
<1>7. AtWork'
  <2>1. \A w \in Workers : pc[w] \in HandlerPc \cup CompPc => job[w] \in Transfers
    BY DEF SepaInv, Jobs, Moving
  <2>2. \A w \in Workers : pc[w] \in CompPc /\ job[w] \notin unheard =>
            redeem'[job[w]] \in {"none", "rejected"}
    BY <1>4, <2>1 DEF SepaInv, RedeemInv, AtWork, Unpaid
  <2>3. \A w \in Workers : pc[w] = "redeem" => redeem'[job[w]] = "none"
    BY <1>4, <2>1 DEF SepaInv, RedeemInv, AtWork, HandlerPc
  <2>4. QED
    BY <1>1, <2>2, <2>3 DEF SepaInv, RedeemInv, AtWork, Unpaid, store, control
<1>8. QED
  BY <1>2, <1>3, <1>6, <1>7 DEF SepaInv, RedeemInv

\* After a crash nobody is at work, and nobody has heard of the orders that were
\* being placed.
LEMMA CrashKeeps ==
  ASSUME SepaInv, Crash
  PROVE  SepaInv'
<1>1. \A w \in Workers : pc'[w] = "idle" /\ ~Mirror(w)' /\ ~Moving(w)'
  BY DEF Crash, Mirror, Moving, MirrorPc, TickPc, HandlerPc, CompPc
<1>2. UNCHANGED <<world, order, redeem, processed, webhooks, state, feeStep, minted, feeTaken, faults>>
  BY DEF Crash, monerium, store, chain
<1>3. unheard' = unheard \cup {job[w] : w \in {v \in Workers : pc[v] = "redeemSent"}}
  BY DEF Crash
<1>4. TypeOK'
  <2>1. \A w \in Workers : pc[w] = "redeemSent" => job[w] \in Transfers
    BY DEF SepaInv, Jobs, Moving, HandlerPc
  <2>2. unheard' \subseteq Transfers
    BY <1>3, <2>1 DEF SepaInv, TypeOK
  <2>3. crashes' \in 0..MaxCrashes
    BY SepaAssumption DEF Crash, SepaInv, TypeOK
  <2>4. /\ pc' = [w \in Workers |-> "idle"] /\ job' = [w \in Workers |-> None]
        /\ todo' = [w \in Workers |-> {}]
    BY DEF Crash
  <2>5. QED
    BY <1>2, <2>2, <2>3, <2>4 DEF SepaInv, TypeOK
<1>5. Jobs'
  BY <1>1 DEF Jobs, MirrorPc
<1>6. MirrorInv'
  <2>1. ~Calm'
    BY DEF Crash, Calm, SepaInv, TypeOK
  <2>2. QED
    BY <1>1, <2>1 DEF MirrorInv, OneMirror, Unmarked, MintedOnce
<1>7. OneMover' /\ AtWork'
  BY <1>1 DEF OneMover, AtWork, CompPc
<1>8. Ordered'
  <2>1. \A t \in Transfers, w \in Workers : Placing(w, t) => t \in unheard'
    BY <1>3 DEF Placing
  <2>2. \A t \in Transfers : Unpaid(t) => Unpaid(t)'
    BY <1>2, <1>3 DEF Unpaid
  <2>3. \A t \in Transfers : t \in unheard' => Unpaid(t)'
    BY DEF Unpaid
  <2>4. QED
    BY <1>2, <2>1, <2>2, <2>3 DEF SepaInv, RedeemInv, Ordered
<1>9. QED
  BY <1>4, <1>5, <1>6, <1>7, <1>8 DEF SepaInv, RedeemInv

\* Every step preserves the invariant.
LEMMA SepaInvStep == SepaInv /\ [Next]_vars => SepaInv'
<1> SUFFICES ASSUME SepaInv, Next \/ UNCHANGED vars PROVE SepaInv'
  OBVIOUS
<1>1. CASE MoneriumMoves \/ Crash
  BY <1>1, MoneriumKeeps, CrashKeeps
<1>2. ASSUME NEW w \in Workers, Resume(w)
      PROVE  SepaInv'
  BY <1>2, WebhookKeeps, CreditKeeps, CreditThrowsKeeps, CreditedKeeps, TickKeeps, HandlerKeeps,
     ThrowsKeep, ReturnsKeep, PollKeeps DEF Resume
<1>3. ASSUME NEW w \in Workers, Tick(w) \/ \E o \in Orders : Webhook(w, o)
      PROVE  SepaInv'
  BY <1>3, TickKeeps, WebhookKeeps
<1>4. ASSUME NEW w \in Workers, NEW t \in Transfers, Authorize(w, t) \/ Sweep(w, t)
      PROVE  SepaInv'
  BY <1>4, BeginKeeps
<1>5. CASE UNCHANGED vars
  BY <1>5 DEF vars, monerium, store, chain, control, bounds, SepaInv, TypeOK, Jobs, MirrorInv,
         OneMirror, Unmarked, MintedOnce, Calm, Mirror, Moving, Crediting, RedeemInv, OneMover,
         AtWork, Ordered, Unpaid, Placing
<1>6. QED
  BY <1>1, <1>2, <1>3, <1>4, <1>5, Zenon DEF Next

\* So the invariant holds all along.
LEMMA SepaAlways == Spec => []SepaInv
  BY SepaInvInit, SepaInvStep, PTL DEF Spec

(***************************************************************************)
(* The rail's state stays what it is declared to be.                       *)
(***************************************************************************)
THEOREM RailIsTyped == Spec => []TypeOK
<1>1. SepaInv => TypeOK
  BY DEF SepaInv
<1>2. QED
  BY <1>1, SepaAlways, PTL

(***************************************************************************)
(* Asked about as often as one likes, by any number of webhooks and polls, *)
(* an order is credited once, where mirrors do not overlap, no receipt is  *)
(* lost and the process does not die (monerium-sandbox.ts, the handler of  *)
(* POST /api/webhooks/monerium).                                           *)
(***************************************************************************)
THEOREM OrdersAreCreditedOnce == Spec => []CreditedOnce
<1>1. SepaInv => CreditedOnce
  BY DEF SepaInv, MirrorInv, MintedOnce, Calm, CreditedOnce
<1>2. QED
  BY <1>1, SepaAlways, PTL

(***************************************************************************)
(* A fee that was given back belongs to no redeem order that was or may be *)
(* paid out, but for orders nobody heard of: in every world, with any      *)
(* number of polls that work from old lists, sweeps, faults and crashes.   *)
(***************************************************************************)
THEOREM RefundedIsNotPaidOut == Spec => []RefundXorPayout
<1>1. SepaInv => RefundXorPayout
  BY DEF SepaInv, RedeemInv, Ordered, Unpaid, RefundXorPayout
<1>2. QED
  BY <1>1, SepaAlways, PTL
=============================================================================
