------------------------------ MODULE Recovery ------------------------------
(***************************************************************************)
(* The recovery of a wallet by a guardian: the request, the operator's     *)
(* approval, the delay, and the hand-over to the guardian's signer, which  *)
(* is another service (recovery.ts, recovery-signer.ts, server.ts).  The   *)
(* Safe has a guardian, and the request names a new owner.  What the       *)
(* signer last said (guardianSubmission) is noted beside the status and    *)
(* left out here; nothing decides by it.                                   *)
(***************************************************************************)
EXTENDS Standing

CONSTANT Operators      \* operators who hand the request over

VARIABLES
    recovery,   \* the request; delayed: readyAt has passed, expired: expiresAt has
    handing,    \* operators awaiting the guardian's signer
    signed      \* history: the service was told that the signer accepted it

guardian == <<recovery, handing, signed>>

Recoveries == {"none", "KYC_PENDING", "DELAYING", "READY_FOR_GUARDIAN",
               "GUARDIAN_SUBMITTED", "CANCELED"}

RecoveryTypeOK ==
    /\ recovery \in [status : Recoveries, delayed : BOOLEAN, expired : BOOLEAN]
    /\ handing \subseteq Operators /\ signed \in BOOLEAN

RecoveryInit ==
    /\ recovery = [status |-> "none", delayed |-> FALSE, expired |-> FALSE]
    /\ handing = {} /\ signed = FALSE

\* assertRecoveryAvailable
RecoveryAvailable == Approved /\ active

SetRecovery(status) == recovery' = [recovery EXCEPT !.status = status]

\* POST /recovery/requests, by the user or an operator.
OpenRecovery ==
    /\ RecoveryAvailable /\ recovery.status = "none"
    /\ SetRecovery("KYC_PENDING")
    /\ UNCHANGED <<handing, signed>>

ApproveRecovery ==
    /\ RecoveryAvailable /\ recovery.status = "KYC_PENDING"
    /\ SetRecovery("DELAYING")
    /\ UNCHANGED <<handing, signed>>

\* readyAt passes,
DelayPasses ==
    /\ recovery.status = "DELAYING" /\ ~recovery.delayed
    /\ recovery' = [recovery EXCEPT !.delayed = TRUE]
    /\ UNCHANGED <<handing, signed>>

\* expiresAt passes, which may be before.
RecoveryExpires ==
    /\ recovery.status # "none" /\ ~recovery.expired
    /\ recovery' = [recovery EXCEPT !.expired = TRUE]
    /\ UNCHANGED <<handing, signed>>

readinessStatus ==
    IF recovery.status = "DELAYING" /\ recovery.delayed THEN "READY_FOR_GUARDIAN" ELSE recovery.status

\* Whoever looks at a request brings its status up to date; so does the hand-over.
LookAtRecovery ==
    /\ readinessStatus # recovery.status
    /\ SetRecovery(readinessStatus)
    /\ UNCHANGED <<handing, signed>>

CancelRecovery ==
    /\ recovery.status \notin {"none", "CANCELED", "GUARDIAN_SUBMITTED"}
    /\ SetRecovery("CANCELED")
    /\ UNCHANGED <<handing, signed>>

\* assertGuardianSubmissionReady
ReadyToHandOver == readinessStatus = "READY_FOR_GUARDIAN" /\ ~recovery.expired

\* POST /guardian-submit up to the signer's answer.  Another operator may do
\* the same meanwhile.
HandOver(o) ==
    /\ o \notin handing
    /\ ReadyToHandOver
    /\ SetRecovery(readinessStatus)
    /\ handing' = handing \cup {o}
    /\ UNCHANGED signed

\* Mutant: a request that was cancelled meanwhile stays so.
AfterAnswerUnlessCanceled(told) ==
    IF told /\ recovery.status # "CANCELED"
    THEN [recovery EXCEPT !.status = "GUARDIAN_SUBMITTED"] ELSE recovery

AfterAnswer(told) ==
    IF told THEN [recovery EXCEPT !.status = "GUARDIAN_SUBMITTED"] ELSE recovery

\* It accepts, or refuses; an answer that is late counts as none, also when it
\* had accepted.  What became of the request meanwhile is not looked at.
SignerAnswers(o, accepts, inTime) ==
    /\ o \in handing
    /\ handing' = handing \ {o}
    /\ signed' = (signed \/ (accepts /\ inTime))
    /\ recovery' = AfterAnswer(accepts /\ inTime)

Recover ==
    \/ OpenRecovery \/ ApproveRecovery \/ DelayPasses \/ RecoveryExpires
    \/ LookAtRecovery \/ CancelRecovery
    \/ \E o \in Operators :
          \/ HandOver(o)
          \/ \E accepts, inTime \in BOOLEAN : SignerAnswers(o, accepts, inTime)

-----------------------------------------------------------------------------
(* Properties *)

(***************************************************************************)
(* Once the service has been told that the guardian's signer accepted the  *)
(* request, it is on record as submitted: whether the owner cancels it     *)
(* while the signer is being asked or after, and whatever another operator *)
(* hears.                                                                  *)
(***************************************************************************)
AcceptedIsOnRecord == signed => recovery.status = "GUARDIAN_SUBMITTED"
=============================================================================
