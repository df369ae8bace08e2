-------------------------------- MODULE Wallet --------------------------------
(***************************************************************************)
(* The Safe of one account (candide.ts, with the handlers of server.ts and *)
(* the debit of orchestrator.ts): it is planned when a passkey is          *)
(* registered, deployed through a bundler, given an allowance module       *)
(* through which the co-signer debits it, and its allowance is set up      *)
(* again where the deployment configured none.  The store's record of it   *)
(* (user.passkeySafe) and the chain are changed one after the other.       *)
(*                                                                         *)
(* Passkeys are numbered; each has one Safe, of the same number.  The      *)
(* process may restart under another configuration.                        *)
(*                                                                         *)
(* Left out: what a Safe holds (a deployment that is refused for it is one *)
(* that throws), how much of an allowance is spent, RSA passkeys, and the  *)
(* Safes of local simulation.                                              *)
(***************************************************************************)
EXTENDS Integers, FiniteSets, FiniteSetsExt

CONSTANTS
    Modules,        \* allowance modules that were configured at some time
    Codeless,       \* those with no code at their address: calls succeed, to no effect
    Legacy,         \* legacyModule of transferTokenFromSafeAllowance
    RecoveryModule,
    Configurations, \* what CANDIDE says, before and after a restart
    MaxSafes,       \* bound: passkeys registered
    MaxRestarts,
    MaxOperations,  \* bound: operations included, of all Safes
    MaxPending, MaxErrands  \* bounds: requests waiting for the passkey, or suspended

Roles == {"none", "delegate", "owner"}

ASSUME WalletAssumption ==
    /\ Codeless \subseteq Modules /\ Legacy \in Modules \ Codeless
    /\ RecoveryModule \notin Modules
    /\ Configurations \subseteq [cosigner : Roles, module : Modules, guardian : BOOLEAN]
    /\ MaxSafes \in Nat \ {0} /\ {MaxRestarts, MaxOperations, MaxPending, MaxErrands} \subseteq Nat

VARIABLES
    env,            \* CANDIDE: is the co-signer configured, and an owner of new Safes?
    restarts,
    plan,           \* user.passkeySafe
    home,           \* user.address, by the number of its Safe
    safes,          \* chain: the Safes
    pending,        \* pendingPasskeySafeDeployments and pendingAllowanceSetups
    errands,        \* requests suspended at the bundler or the node
    unrecorded,     \* history: Safes whose allowance was set up, not recorded since
    outpaced       \* history: a passkey was replaced during a deployment request

wallet == <<env, restarts, plan, home, safes, pending, errands, unrecorded, outpaced>>
-----------------------------------------------------------------------------
Numbers == 1..MaxSafes

\* derived: is the co-signer among the owners the address was derived from?
\* cosigner: the record's cosignerAddress.  allows: are its allowances not all 0?
Plans ==
    [safe : 0..MaxSafes, status : {"planned", "active"}, derived : BOOLEAN,
     cosigner : BOOLEAN, policy : BOOLEAN, module : Modules, allows : BOOLEAN,
     guardian : BOOLEAN]

\* A user operation: what it enables and for which modules it sets allowances.
Operations ==
    [safe : Numbers, nonce : Nat, enables : SUBSET (Modules \cup {RecoveryModule}),
     allows : SUBSET Modules, kind : {"deployment", "allowance"}]

Errands ==
    [at : {"asking", "sending", "included"}, operation : Operations, plan : Plans]

WalletTypeOK ==
    /\ env \in Configurations /\ restarts \in 0..MaxRestarts
    /\ plan \in Plans /\ home \in 0..MaxSafes
    /\ safes \in [Numbers -> [there : BOOLEAN, nonce : Nat, allowed : SUBSET Modules,
                              enabled : SUBSET (Modules \cup {RecoveryModule})]]
    /\ \A p \in pending : p.operation \in Operations /\ p.plan \in Plans
    /\ errands \subseteq Errands
    /\ unrecorded \subseteq Numbers /\ outpaced \in BOOLEAN

\* passkeySafePlan
PlanFor(s) ==
    [safe |-> s, status |-> "planned", derived |-> env.cosigner = "owner",
     cosigner |-> env.cosigner = "owner", policy |-> env.cosigner # "none",
     module |-> env.module, allows |-> env.cosigner = "owner", guardian |-> env.guardian]

\* The account was opened; its first passkey is registered.
WalletInit ==
    /\ env \in Configurations /\ restarts = 0
    /\ plan = PlanFor(1) /\ home = 0
    /\ safes = [s \in Numbers |->
                  [there |-> FALSE, nonce |-> 0, allowed |-> {}, enabled |-> {}]]
    /\ pending = {} /\ errands = {} /\ unrecorded = {} /\ outpaced = FALSE

-----------------------------------------------------------------------------
Key == env.cosigner # "none"
IsActive == plan.status = "active" /\ home = plan.safe

\* passkeySafeAllowanceReady: may a debit be tried at all?
AllowanceReady == IsActive /\ ((plan.policy /\ plan.cosigner) \/ Key)
Deploying == \E e \in errands : e.operation.kind = "deployment"
MayPend == Cardinality(pending) < MaxPending
MayWait == Cardinality(errands) < MaxErrands

\* POST /passkey: a passkey that is replaced leaves its Safe behind.
PlanNext ==
    /\ plan.safe < MaxSafes
    /\ plan' = PlanFor(plan.safe + 1)
    /\ outpaced' = (outpaced \/ Deploying)
    /\ UNCHANGED <<env, restarts, home, safes, pending, errands, unrecorded>>

\* passkeySafeRecoverySetupTransactions and passkeySafeAllowanceSetupTransactions
DeploymentOf(p) ==
    LET delegates == p.policy /\ (p.cosigner \/ Key)
    IN  [safe |-> p.safe, nonce |-> safes[p.safe].nonce,
         enables |-> (IF p.guardian THEN {RecoveryModule} ELSE {})
                       \cup (IF delegates THEN {p.module} ELSE {}),
         allows |-> IF delegates /\ p.allows THEN {p.module} ELSE {},
         kind |-> "deployment"]

\* POST /passkey-safe/deployment, up to the answers of node and bundler.  The
\* bundler refuses what would revert: a module cannot be enabled twice.
AskDeployment ==
    LET o == DeploymentOf(plan)
    IN  /\ plan.status # "active" /\ (plan.cosigner => Key) /\ MayPend /\ MayWait
        /\ o.enables \cap safes[o.safe].enabled = {}
        /\ errands' = errands \cup {[at |-> "asking", operation |-> o, plan |-> plan]}
        /\ UNCHANGED <<env, restarts, plan, home, safes, pending, unrecorded, outpaced>>

Settle == home' = plan.safe /\ plan' = [plan EXCEPT !.status = "active"]

\* Is there nothing to do?  Then the Safe is adopted, else the passkey is asked.
DeploymentAsked(e) ==
    LET done == safes[e.operation.safe].there /\ e.operation.enables = {}
    IN  /\ e.at = "asking"
        /\ errands' = errands \ {e}
        /\ \/ done /\ Settle /\ UNCHANGED pending
           \/ /\ ~done
              /\ pending' = pending \cup {[operation |-> e.operation, plan |-> e.plan]}
              /\ UNCHANGED <<plan, home>>
        /\ UNCHANGED <<env, restarts, safes, unrecorded, outpaced>>

\* preparePasskeySafeAllowanceSetup
AllowanceOf(p) ==
    [safe |-> p.safe, nonce |-> safes[p.safe].nonce,
     enables |-> {p.module} \ safes[p.safe].enabled, allows |-> {p.module},
     kind |-> "allowance"]

\* POST /passkey-safe/allowance: the plan with the policy that the configuration
\* has now.
AskAllowance ==
    LET p == [plan EXCEPT !.policy = TRUE, !.module = env.module, !.allows = TRUE]
    IN  /\ plan.status = "active" /\ Key /\ MayPend
        /\ p.cosigner = p.derived /\ safes[p.safe].there
        /\ pending' = pending \cup {[operation |-> AllowanceOf(p), plan |-> p]}
        /\ UNCHANGED <<env, restarts, plan, home, safes, errands, unrecorded, outpaced>>

\* Its five minutes are over.
RequestLapses(p) ==
    /\ pending' = pending \ {p}
    /\ UNCHANGED <<env, restarts, plan, home, safes, errands, unrecorded, outpaced>>

\* POST to either request.  A deployment is signed for the plan there is by now;
\* the request stays in its map until the end.
SendsOperation(p) ==
    LET signs == IF p.operation.kind = "deployment" THEN plan ELSE p.plan
    IN  /\ (signs.cosigner => Key) /\ MayWait
        /\ errands' = errands \cup
             {[at |-> "sending", operation |-> p.operation, plan |-> signs]}
        /\ UNCHANGED <<env, restarts, plan, home, safes, pending, unrecorded, outpaced>>

\* The operation is included: the Safe is there, and its calls were made or
\* reverted.  submitPasskeySafeDeployment does not ask which.
Included(e, calls) ==
    LET o == e.operation
    IN  /\ e.at = "sending"
        /\ o.nonce = safes[o.safe].nonce
        /\ MapThenSumSet(LAMBDA s : safes[s].nonce, Numbers) < MaxOperations
        /\ e.plan.safe = o.safe /\ e.plan.cosigner = e.plan.derived
        /\ safes' = [safes EXCEPT ![o.safe] =
              [there |-> TRUE, nonce |-> @.nonce + 1,
               enabled |-> @.enabled \cup (IF calls THEN o.enables ELSE {}),
               allowed |-> @.allowed \cup (IF calls THEN o.allows \ Codeless ELSE {})]]
        /\ errands' = (errands \ {e}) \cup {[e EXCEPT !.at = "included"]}
        /\ unrecorded' = unrecorded \cup (IF o.kind = "allowance" THEN {o.safe} ELSE {})
        /\ UNCHANGED <<env, restarts, plan, home, pending, outpaced>>

\* Mutant: the handler does not wait for the operation to be included.
SeemsIncludedOnceSent(e) == e.at \in {"sending", "included"}

SeemsIncluded(e) == e.at = "included"

\* The rest of either handler: what was deployed becomes the account.
DeploymentRecorded(e) ==
    /\ e.operation.kind = "deployment" /\ SeemsIncluded(e)
    /\ errands' = errands \ {e}
    /\ pending' = {p \in pending : p.operation # e.operation}
    /\ Settle
    /\ UNCHANGED <<env, restarts, safes, unrecorded, outpaced>>

\* Mutant: the plan goes on with the policy it was deployed with.
WithPolicyLeft(p) == plan

WithPolicy(p) == [plan EXCEPT !.policy = TRUE, !.module = p.module, !.allows = TRUE]

AllowanceRecorded(e) ==
    /\ e.operation.kind = "allowance" /\ SeemsIncluded(e)
    /\ errands' = errands \ {e}
    /\ pending' = {p \in pending : p.operation # e.operation}
    /\ plan' = WithPolicy(e.plan)
    /\ unrecorded' = unrecorded \ {e.operation.safe}
    /\ UNCHANGED <<env, restarts, home, safes, outpaced>>

\* The bundler refuses, or the answer is lost.
ErrandThrows(e) ==
    /\ errands' = errands \ {e}
    /\ UNCHANGED <<env, restarts, plan, home, safes, pending, unrecorded, outpaced>>

\* moveTokenFromUserSafe before a debit: a plan without policy is given the one
\* of the configuration, and its co-signer.
PolicyPatched ==
    /\ AllowanceReady /\ Key /\ ~plan.policy
    /\ plan' = [plan EXCEPT !.cosigner = TRUE, !.policy = TRUE, !.module = env.module,
                            !.allows = TRUE]
    /\ UNCHANGED <<env, restarts, home, safes, pending, errands, unrecorded, outpaced>>

\* Requests are forgotten; a module with no code is replaced by one with code.
Reconfigured(c) ==
    /\ restarts < MaxRestarts /\ restarts' = restarts + 1
    /\ env.module \notin Codeless => c.module = env.module
    /\ env' = c
    /\ pending' = {} /\ errands' = {}
    /\ UNCHANGED <<plan, home, safes, unrecorded, outpaced>>

KeepsSafe ==
    \/ PlanNext \/ AskDeployment \/ AskAllowance \/ PolicyPatched
    \/ \E p \in pending : RequestLapses(p) \/ SendsOperation(p)
    \/ \E e \in errands :
          \/ DeploymentAsked(e) \/ DeploymentRecorded(e) \/ AllowanceRecorded(e)
          \/ ErrandThrows(e)
          \/ \E calls \in BOOLEAN : Included(e, calls)
    \/ \E c \in Configurations : Reconfigured(c)

-----------------------------------------------------------------------------
(* Correctness.                                                            *)

\* What GET /passkey-safe/allowance calls configured: readCosignerTokenAllowance.
ShownConfigured == IsActive /\ Key /\ env.module \in safes[home].allowed

\* The module transferTokenFromSafeAllowance debits through, as far as it has
\* an allowance there.
DebitsThrough ==
    LET asked == IF plan.policy THEN plan.module ELSE env.module
        m == IF asked \in safes[home].enabled THEN asked ELSE Legacy
    IN  {m} \cap safes[home].enabled \cap safes[home].allowed

(***************************************************************************)
(* Where the account page shows a spending allowance, and so offers no     *)
(* repair, a debit finds one: the page reads the configured module, the    *)
(* debit the recorded one.  Unless a setup went through and its record was *)
(* lost.                                                                   *)
(***************************************************************************)
ShownIsSpendable == ShownConfigured /\ home \notin unrecorded => DebitsThrough # {}

(***************************************************************************)
(* An active Safe exists and is the account, whatever requests run at      *)
(* once, revert or get lost.  Unless the passkey was replaced while a      *)
(* deployment was under way: then the new plan is called active.           *)
(***************************************************************************)
ActiveIsThere == plan.status = "active" /\ ~outpaced => home = plan.safe /\ safes[home].there
=============================================================================
