------------------------------ MODULE EscrowPromise ------------------------------
(***************************************************************************)
(* What whoever locks money for a payout may count on, without a word      *)
(* about roles, owners or allowances: a transfer is locked once, for what  *)
(* it brings in; it ends once, given back in full to whoever locked it or  *)
(* paid on to somebody; and what is in the pot leaves it in no other way.  *)
(***************************************************************************)
EXTENDS Integers

CONSTANTS Transfers, Pot        \* Pot: the holder that keeps what is locked

VARIABLES
    phase,       \* of each transfer
    share,       \* of each transfer: what the pot holds for it
    depositor,   \* of each transfer: who locked it
    holdings     \* of each holder

promiseVars == <<phase, share, depositor, holdings>>

Init == /\ phase = [t \in Transfers |-> "NONE"]
        /\ share = [t \in Transfers |-> 0]

Lock(t) ==
    /\ phase[t] = "NONE" /\ phase' = [phase EXCEPT ![t] = "LOCKED"]
    /\ holdings'[Pot] > holdings[Pot]
    /\ share' = [share EXCEPT ![t] = holdings'[Pot] - holdings[Pot]]
    /\ depositor' = [depositor EXCEPT ![t] = depositor'[t]]
    /\ holdings'[depositor'[t]] = holdings[depositor'[t]] - share'[t]

End(t, end) ==
    /\ phase[t] = "LOCKED" /\ phase' = [phase EXCEPT ![t] = end]
    /\ share' = [share EXCEPT ![t] = 0]
    /\ UNCHANGED depositor

\* To somebody, who may be the pot itself.
PayOn(t) == /\ End(t, "SETTLED")
            /\ holdings'[Pot] \in {holdings[Pot] - share[t], holdings[Pot]}

GiveBack(t) == /\ End(t, "RELEASED")
               /\ holdings'[Pot] = holdings[Pot] - share[t]
               /\ holdings'[depositor[t]] = holdings[depositor[t]] + share[t]

\* Whatever else happens to the holders, the pot loses nothing by it.
Elsewhere == holdings'[Pot] >= holdings[Pot] /\ UNCHANGED <<phase, share, depositor>>

Next == (\E t \in Transfers : Lock(t) \/ PayOn(t) \/ GiveBack(t)) \/ Elsewhere

Spec == Init /\ [][Next]_promiseVars
=============================================================================
