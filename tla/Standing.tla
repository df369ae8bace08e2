------------------------------ MODULE Standing ------------------------------
(***************************************************************************)
(* What the parts of one account share: where the identity review stands   *)
(* (store.ts, user.kycStatus), and whether the Safe of the user's passkey  *)
(* is there (user.passkeySafe.status = "active").                          *)
(***************************************************************************)

VARIABLES kyc, active

standing == <<kyc, active>>

Decisions == {"approved", "rejected", "manual_review"}
Standings == Decisions \cup {"pending"}
Approved == kyc = "approved"
=============================================================================
