------------------------------ MODULE Accounts ------------------------------
(***************************************************************************)
(* One user's account: how it is opened (Onboarding), how it pays          *)
(* (Admission), what its owner shares of the payments (Receipts), how it   *)
(* is recovered (Recovery), how its owner signs in and approves (SignIn)   *)
(* and what becomes of its Safe (Wallet).  The identity review is what     *)
(* most of them share, and it may turn while they are under way.           *)
(*                                                                         *)
(* part says which of them a behaviour is about, so that their states add  *)
(* up and do not multiply.  Except in "opening" the user was approved      *)
(* before, and has a Safe; "keeping" begins with the Safe's plan.          *)
(***************************************************************************)
EXTENDS Admission, Onboarding, Receipts, Recovery, SignIn, Wallet

VARIABLE part

vars == <<kyc, admission, onboarding, sharing, guardian, signIn, wallet, part>>

Parts == {"opening", "paying", "sharing", "recovering", "signing", "keeping"}

TypeOK ==
    /\ part \in Parts /\ kyc \in Standings /\ active \in BOOLEAN
    /\ AdmissionTypeOK /\ OnboardingTypeOK /\ ReceiptsTypeOK /\ RecoveryTypeOK /\ SignInTypeOK
    /\ WalletTypeOK

Init ==
    /\ part \in Parts
    /\ kyc = IF part = "opening" THEN "pending" ELSE "approved"
    /\ active = (part # "opening")
    /\ AdmissionInit /\ (part # "paying" => ~bound)
    /\ OnboardingInit
    /\ part # "opening" => ~setting.meets
    /\ ReceiptsInit
    /\ RecoveryInit
    /\ SignInInit
    /\ WalletInit /\ (part # "keeping" => env = CHOOSE c \in Configurations : TRUE)

\* An operator's decision, as far as the other parts see it.
Reviewed == \E d \in Decisions : Review(d)

Next ==
    /\ UNCHANGED part
    /\ \/ /\ part = "opening" /\ Onboard
          /\ UNCHANGED <<admission, sharing, guardian, signIn, wallet>>
       \/ /\ part = "paying" /\ Admit
          /\ UNCHANGED <<kyc, onboarding, sharing, guardian, signIn, wallet>>
       \/ /\ part = "sharing" /\ Receipt
          /\ UNCHANGED <<kyc, admission, onboarding, guardian, signIn, wallet>>
       \/ /\ part = "recovering" /\ Recover
          /\ UNCHANGED <<kyc, admission, onboarding, sharing, signIn, wallet>>
       \/ /\ part = "signing" /\ SignsIn
          /\ UNCHANGED <<kyc, admission, onboarding, sharing, guardian, wallet>>
       \/ /\ part = "keeping" /\ KeepsSafe
          /\ UNCHANGED <<kyc, admission, onboarding, sharing, guardian, signIn>>
       \/ /\ part \in {"paying", "recovering"} /\ Reviewed
          /\ UNCHANGED <<admission, sharing, guardian, signIn, wallet>>

Spec == Init /\ [][Next]_vars /\ OnboardFairness
=============================================================================
