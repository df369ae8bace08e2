------------------------------ MODULE MCAnchorPayout ------------------------------
(* AnchorPayout for TLC.  Every transfer is refreshed by one worker at a time, so *)
(* one transfer and two workers show what the lock is for; nothing relates two    *)
(* transfers.                                                                     *)
EXTENDS AnchorPayout
=============================================================================
