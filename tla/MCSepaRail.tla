------------------------------ MODULE MCSepaRail ------------------------------
(***************************************************************************)
(* Instances of SepaRail for TLC.                                          *)
(***************************************************************************)
EXTENDS SepaRail, TLC

\* One order, of the first of two customers.
CONSTANTS p1
AllOfTheFirst == [o \in Orders |-> p1]

World(native, mock, overlap, lost) ==
    [native |-> native, mock |-> mock, overlap |-> overlap, lostAnswers |-> lost]

\* On a local chain, mirrors one at a time and every answer heard; any number
\* of mirrors and answers lost, there and where the EURe is native.
FourWorlds == {World(FALSE, mock, FALSE, FALSE) : mock \in BOOLEAN}
              \cup {World(native, native, TRUE, TRUE) : native \in BOOLEAN}
=============================================================================
