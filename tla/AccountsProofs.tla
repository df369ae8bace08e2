---------------------------- MODULE AccountsProofs ----------------------------
(***************************************************************************)
(* Theorems about Accounts and its six parts, for every set of requests,   *)
(* quotes, challenges, Safes, configurations and operators, and every      *)
(* bound.  A step of the account is a step of one part and changes nothing *)
(* of the others, so each part has an invariant of its own.                *)
(***************************************************************************)
EXTENDS Accounts, FiniteSetTheorems, SequenceTheorems, WellFoundedInduction, TLAPS

\* A step is one of a part, as far as the part is concerned.
LEMMA Frames ==
  ASSUME [Next]_vars
  PROVE  /\ Onboard \/ Reviewed \/ UNCHANGED <<onboarding, kyc>>
         /\ Admit \/ UNCHANGED admission
         /\ Receipt \/ UNCHANGED sharing
         /\ Recover \/ UNCHANGED guardian
         /\ SignsIn \/ UNCHANGED signIn
         /\ KeepsSafe \/ UNCHANGED wallet
  BY DEF Next, vars, Reviewed, Review

\* Every part begins in its own way.
LEMMA PartsInit ==
  Init => /\ AdmissionInit /\ OnboardingInit /\ ReceiptsInit /\ RecoveryInit
          /\ SignInInit /\ WalletInit
  BY Zenon DEF Init

-----------------------------------------------------------------------------
(***************************************************************************)
(* Recovery.  A request that the signer accepted is submitted, and nothing *)
(* but an answer of the signer touches a submitted request.                *)
(***************************************************************************)
RecoveryInv == RecoveryTypeOK /\ AcceptedIsOnRecord

\* There is no request at first.
LEMMA RecoveryInvInit == Init => RecoveryInv
<1> SUFFICES ASSUME RecoveryInit PROVE RecoveryInv
  BY PartsInit
<1>1. recovery \in [status : Recoveries, delayed : BOOLEAN, expired : BOOLEAN]
  BY DEF RecoveryInit, Recoveries
<1>2. QED
  BY <1>1 DEF RecoveryInit, RecoveryInv, RecoveryTypeOK, AcceptedIsOnRecord

\* What users, operators and the guardian's signer do keeps it.
LEMMA RecoveryInvStep == RecoveryInv /\ [Next]_vars => RecoveryInv'
<1> SUFFICES ASSUME RecoveryInv, Recover \/ UNCHANGED guardian PROVE RecoveryInv'
  BY Frames
<1> USE DEF RecoveryInv, RecoveryTypeOK, AcceptedIsOnRecord, Recoveries, SetRecovery
<1>1. CASE OpenRecovery    BY <1>1 DEF OpenRecovery
<1>2. CASE ApproveRecovery BY <1>2 DEF ApproveRecovery
<1>3. CASE DelayPasses     BY <1>3 DEF DelayPasses
<1>4. CASE RecoveryExpires BY <1>4 DEF RecoveryExpires
<1>5. CASE LookAtRecovery  BY <1>5 DEF LookAtRecovery, readinessStatus
<1>6. CASE CancelRecovery  BY <1>6 DEF CancelRecovery
<1>7. ASSUME NEW o \in Operators, HandOver(o)
      PROVE  RecoveryInv'
  BY <1>7 DEF HandOver, ReadyToHandOver, readinessStatus
<1>8. ASSUME NEW o \in Operators, NEW accepts \in BOOLEAN, NEW inTime \in BOOLEAN,
             SignerAnswers(o, accepts, inTime)
      PROVE  RecoveryInv'
  BY <1>8 DEF SignerAnswers, AfterAnswer
<1>9. CASE UNCHANGED guardian
  BY <1>9 DEF guardian
<1>10. QED
  BY <1>1, <1>2, <1>3, <1>4, <1>5, <1>6, <1>7, <1>8, <1>9 DEF Recover

\* AcceptedIsOnRecord always holds: what the guardian's signer accepted, and the
\* service was told of, is on record as submitted.
THEOREM AcceptedStaysOnRecord == Spec => []AcceptedIsOnRecord
<1>1. RecoveryInv => AcceptedIsOnRecord
  BY DEF RecoveryInv
<1>2. QED
  BY <1>1, RecoveryInvInit, RecoveryInvStep, PTL DEF Spec

-----------------------------------------------------------------------------
(***************************************************************************)
(* Passkeys.  A request holds a challenge that left the map when it began, *)
(* and no two requests hold one challenge.                                 *)
(* A request has had its challenge accepted when only the account's        *)
(* balances are still to be read.  Each answer, in the map or in a request,*)
(* is by an authenticator that has signed at least as often since.         *)
(***************************************************************************)
RequestsInv ==
    /\ SignInTypeOK
    /\ \A r \in underway : /\ r.at = "replace" => r.with \in Challenges
                           /\ r.at = "bind" => r.with \in DeviceKeys

ChallengesInv ==
    /\ \A c \in Challenges :
          /\ accepted[c] <= 1
          /\ challenges[c] # "gone" => accepted[c] = 0
    /\ \A r \in underway :
          /\ challenges[r.challenge] = "gone"
          /\ accepted[r.challenge] = IF r.at = "balances" THEN 1 ELSE 0
    /\ \A r, s \in underway : r.challenge = s.challenge => r = s

AnswersInv ==
    /\ \A c \in Challenges :
          /\ challenges[c] = "open" => answer[c].id # Unset
          /\ answer[c].id # Unset => answer[c].count <= counter[answer[c].id]
    /\ \A r \in underway :
          /\ r.answer.id # Unset /\ r.answer.count <= counter[r.answer.id]
          /\ r.at = "link" => r.answer.id = r.copy.id
    /\ OwnerCanSignIn

\* No challenge has been issued at first.
LEMMA SignInInvInit == Init => RequestsInv /\ ChallengesInv /\ AnswersInv
<1> SUFFICES ASSUME SignInInit PROVE RequestsInv /\ ChallengesInv /\ AnswersInv
  BY PartsInit
<1>1. ChallengesInv /\ AnswersInv
  BY DEF SignInInit, ChallengesInv, AnswersInv, OwnerCanSignIn, NoPasskey
<1>2. SignInTypeOK
  BY DEF SignInInit, SignInTypeOK, NoPasskey, Passkeys
<1>3. QED
  BY <1>1, <1>2 DEF SignInInit, RequestsInv

\* Whatever is issued, submitted and verified keeps the types.
LEMMA RequestsStep ==
  ASSUME RequestsInv, SignsIn
  PROVE  RequestsInv'
<1> USE SignInAssumption DEF RequestsInv, SignInTypeOK, Passkeys, NoPasskey
<1>1. ASSUME NEW c \in Challenges, NEW a \in Authenticators \cup {Unset}, Opens(c, a)
      PROVE  RequestsInv'
  BY <1>1 DEF Opens
<1>2. ASSUME NEW c \in Challenges, IssueChallenge(c) \/ StartLink(c)
      PROVE  RequestsInv'
  BY <1>1, <1>2 DEF IssueChallenge, StartLink
<1>3. ASSUME NEW c \in Challenges, ChallengeLapses(c)
      PROVE  RequestsInv'
  BY <1>3 DEF ChallengeLapses, Consumed
<1>4. ASSUME NEW c \in Challenges, Register(c)
      PROVE  RequestsInv'
  BY <1>4 DEF Register, Consumed, NewPasskey, Accept
<1>5. ASSUME NEW c \in Challenges, Login(c)
      PROVE  RequestsInv'
  BY <1>5 DEF Login, Consumed, Suspend, Requests
<1>6. ASSUME NEW c \in Challenges, NEW d \in Challenges, Link(c, d)
      PROVE  RequestsInv'
  BY <1>6 DEF Link, Consumed, Suspend, Requests
<1>7. ASSUME NEW c \in Challenges, NEW with, NEW label, StepUp(label, c, with),
             \/ label = "replace" /\ with \in Challenges
             \/ label = "bind" /\ with \in DeviceKeys
      PROVE  RequestsInv'
  <2>1. [at |-> label, challenge |-> c, answer |-> answer[c], with |-> with,
         copy |-> NoPasskey] \in Requests
    BY <1>7 DEF Requests
  <2>2. QED
    BY <1>7, <2>1 DEF StepUp, Consumed, Suspend
<1>8. CASE SessionsEnd
  BY <1>8 DEF SessionsEnd
<1>9. ASSUME NEW r \in underway
      PROVE  /\ LoginVerified(r) => RequestsInv'
             /\ IssueSession(r) => RequestsInv'
             /\ Replaced(r) => RequestsInv'
             /\ Bound(r) => RequestsInv'
             /\ ProfileCreated(r) => RequestsInv'
             /\ Linked(r) => RequestsInv'
  <2>1. /\ r.answer \in Passkeys /\ r.copy \in Passkeys /\ r.challenge \in Challenges
        /\ r \in Requests
    BY DEF Requests
  <2>2. Attested(r) => overtaken' \in BOOLEAN
    BY DEF Attested
  <2>3. Counted(r) => stored' \in Passkeys
    BY <2>1 DEF Counted
  <2>4. \A cs : Accept(cs) => accepted' \in [Challenges -> Nat]
    BY DEF Accept
  <2>5. CASE LoginVerified(r)
    <3>1. [r EXCEPT !.at = "balances"] \in Requests /\ [r EXCEPT !.at = "balances"].at = "balances"
      BY <2>1 DEF Requests
    <3>2. QED
      BY <2>2, <2>3, <2>4, <2>5, <3>1 DEF LoginVerified
  <2>6. CASE IssueSession(r)
    BY <2>6 DEF IssueSession
  <2>7. CASE Replaced(r)
    <3>1. CASE Consumed(r.with, "register")
      BY <2>2, <2>4, <2>7, <3>1 DEF Replaced, Consumed, NewPasskey
    <3>2. CASE ~Consumed(r.with, "register")
      BY <2>2, <2>3, <2>4, <2>7, <3>2 DEF Replaced
    <3>3. QED
      BY <3>1, <3>2
  <2>8. CASE Bound(r)
    BY <2>2, <2>3, <2>4, <2>8 DEF Bound
  <2>9. CASE ProfileCreated(r)
    <3>1. [r EXCEPT !.at = "link"] \in Requests /\ [r EXCEPT !.at = "link"].at = "link"
      BY <2>1 DEF Requests
    <3>2. QED
      BY <2>9, <3>1 DEF ProfileCreated
  <2>10. CASE Linked(r)
    BY <2>1, <2>2, <2>4, <2>10 DEF Linked
  <2>11. QED
    BY <2>5, <2>6, <2>7, <2>8, <2>9, <2>10
<1>10. QED
  BY <1>2, <1>3, <1>4, <1>5, <1>6, <1>7, <1>8, <1>9 DEF SignsIn, Replace, Bind

\* A request begins: its challenge leaves the map and has not been accepted.
LEMMA ChallengesBegin ==
  ASSUME RequestsInv, ChallengesInv, NEW c \in Challenges, NEW purpose, NEW label, NEW with,
         NEW reply, NEW copy, label # "balances", Consumed(c, purpose),
         Suspend(label, c, reply, with, copy), UNCHANGED accepted
  PROVE  ChallengesInv'
<1> DEFINE q == [at |-> label, challenge |-> c, answer |-> reply, with |-> with,
                 copy |-> copy]
<1>1. /\ challenges[c] = "open" /\ challenges' = [challenges EXCEPT ![c] = "gone"]
      /\ underway' = underway \cup {q} /\ UNCHANGED accepted
  BY DEF Consumed, Suspend
<1>2. q.at # "balances" /\ q.challenge = c
  OBVIOUS
<1>3. \A r \in underway : r.challenge # c /\ r.challenge \in Challenges
  BY <1>1 DEF ChallengesInv, RequestsInv, SignInTypeOK, Requests
<1> HIDE DEF q
<1>4. QED
  BY <1>1, <1>2, <1>3 DEF ChallengesInv, RequestsInv, SignInTypeOK

\* A challenge is issued, lapses, or is accepted at once.
LEMMA ChallengesMove ==
  ASSUME RequestsInv, ChallengesInv, NEW c \in Challenges, UNCHANGED underway,
         \/ \E a : Opens(c, a)
         \/ ChallengeLapses(c)
         \/ Register(c)
  PROVE  ChallengesInv'
<1> USE DEF RequestsInv, SignInTypeOK, ChallengesInv
<1>1. CASE \E a : Opens(c, a)   BY <1>1 DEF Opens
<1>2. CASE ChallengeLapses(c)   BY <1>2 DEF ChallengeLapses, Consumed
<1>3. CASE Register(c)
  <2>1. /\ challenges[c] = "open" /\ challenges' = [challenges EXCEPT ![c] = "gone"]
        /\ \A d \in Challenges : accepted'[d] = IF d = c THEN 1 ELSE accepted[d]
    BY <1>3 DEF Register, Consumed, Accept
  <2>2. \A s \in underway : s.challenge # c /\ s.challenge \in Challenges
    BY <2>1 DEF Requests
  <2>3. QED
    BY <2>1, <2>2
<1>4. QED
  BY <1>1, <1>2, <1>3

\* A request ends, or goes on: its challenge is accepted when it is verified.
LEMMA ChallengesEnd ==
  ASSUME RequestsInv, ChallengesInv, NEW r \in underway,
         \/ LoginVerified(r) \/ IssueSession(r) \/ Replaced(r) \/ Bound(r)
         \/ ProfileCreated(r) \/ Linked(r)
  PROVE  ChallengesInv'
<1> USE DEF RequestsInv, SignInTypeOK, ChallengesInv
<1>1. r.challenge \in Challenges /\ \A s \in underway : s.challenge \in Challenges
  BY DEF Requests
<1>2. CASE LoginVerified(r)
  <2> DEFINE q == [r EXCEPT !.at = "balances"]
  <2>1. q.at = "balances" /\ q.challenge = r.challenge
    BY DEF Requests
  <2>2. underway' = (underway \ {r}) \cup {q} /\ UNCHANGED challenges
    BY <1>2 DEF LoginVerified
  <2>3. /\ accepted[r.challenge] = 0
        /\ \A d \in Challenges : accepted'[d] = IF d = r.challenge THEN 1 ELSE accepted[d]
    BY <1>1, <1>2 DEF LoginVerified, Accept
  <2> HIDE DEF q
  <2>4. QED
    BY <1>1, <2>1, <2>2, <2>3
<1>3. CASE IssueSession(r)
  BY <1>3 DEF IssueSession
<1>4. CASE Replaced(r)
  <2>1. CASE Consumed(r.with, "register")
    <3>1. /\ r.with \in Challenges /\ challenges[r.with] = "open"
          /\ challenges' = [challenges EXCEPT ![r.with] = "gone"]
          /\ r.with # r.challenge
      BY <1>4, <2>1 DEF Replaced, Consumed
    <3>2. /\ underway' = underway \ {r}
          /\ Accept({r.challenge, r.with}) \/ Accept({r.challenge})
      BY <1>4, <2>1 DEF Replaced
    <3>3. QED
      BY <1>1, <1>4, <3>1, <3>2 DEF Replaced, Accept
  <2>2. CASE ~Consumed(r.with, "register")
    BY <1>1, <1>4, <2>2 DEF Replaced, Accept
  <2>3. QED
    BY <2>1, <2>2
<1>5. CASE Bound(r)
  BY <1>1, <1>5 DEF Bound, Accept
<1>6. CASE ProfileCreated(r)
  <2> DEFINE q == [r EXCEPT !.at = "link"]
  <2>1. q.at = "link" /\ q.challenge = r.challenge
    BY DEF Requests
  <2>2. /\ r.at = "profile" /\ underway' \subseteq (underway \ {r}) \cup {q}
        /\ UNCHANGED <<challenges, accepted>>
    BY <1>6 DEF ProfileCreated
  <2> HIDE DEF q
  <2>3. QED
    BY <1>1, <2>1, <2>2
<1>7. CASE Linked(r)
  BY <1>1, <1>7 DEF Linked, Accept
<1>8. QED
  BY <1>2, <1>3, <1>4, <1>5, <1>6, <1>7

\* So no step accepts a challenge twice.
LEMMA ChallengesStep ==
  ASSUME RequestsInv, ChallengesInv, SignsIn
  PROVE  ChallengesInv'
<1>1. ASSUME NEW c \in Challenges, IssueChallenge(c) \/ StartLink(c)
      PROVE  ChallengesInv'
  BY <1>1, ChallengesMove DEF IssueChallenge, StartLink, Opens
<1>2. ASSUME NEW c \in Challenges, ChallengeLapses(c) \/ Register(c)
      PROVE  ChallengesInv'
  BY <1>2, ChallengesMove DEF ChallengeLapses, Register
<1>3. ASSUME NEW c \in Challenges, Login(c) \/ \E d \in Challenges : Link(c, d)
      PROVE  ChallengesInv'
  BY <1>3, ChallengesBegin DEF Login, Link
<1>4. ASSUME NEW c \in Challenges, NEW d,
             StepUp("replace", c, d) \/ StepUp("bind", c, d)
      PROVE  ChallengesInv'
  BY <1>4, ChallengesBegin DEF StepUp
<1>5. CASE SessionsEnd
  BY <1>5 DEF SessionsEnd, ChallengesInv
<1>6. QED
  BY <1>1, <1>2, <1>3, <1>4, <1>5, ChallengesEnd DEF SignsIn, Replace, Bind

\* An authenticator signs: its count is over every count it has given before.
LEMMA AnswersOpen ==
  ASSUME RequestsInv, AnswersInv, NEW c \in Challenges,
         NEW a \in Authenticators \cup {Unset}, Opens(c, a)
  PROVE  AnswersInv'
<1>1. a \in Authenticators /\ counter' = [counter EXCEPT ![a] = @ + 1]
  BY DEF Opens
<1>2. \A b \in Authenticators : counter[b] <= counter'[b]
  BY <1>1 DEF RequestsInv, SignInTypeOK
<1>3. \A d \in Challenges :
         /\ challenges'[d] = "open" => answer'[d].id # Unset
         /\ answer'[d].id # Unset => answer'[d].count <= counter'[answer'[d].id]
  <2> SUFFICES ASSUME NEW d \in Challenges
               PROVE  /\ challenges'[d] = "open" => answer'[d].id # Unset
                      /\ answer'[d].id # Unset => answer'[d].count <= counter'[answer'[d].id]
    OBVIOUS
  <2>1. CASE d = c
    <3>1. answer'[d] = [id |-> a, count |-> IF a \in Counting THEN counter[a] + 1 ELSE 0]
      BY <2>1 DEF Opens, RequestsInv, SignInTypeOK
    <3>2. answer'[d].id = a /\ answer'[d].count <= counter[a] + 1
      BY <1>1, <3>1 DEF RequestsInv, SignInTypeOK
    <3>3. QED
      BY <1>1, <3>2, SignInAssumption DEF RequestsInv, SignInTypeOK
  <2>2. CASE d # c
    <3>1. challenges'[d] = challenges[d] /\ answer'[d] = answer[d]
      BY <2>2 DEF Opens, RequestsInv, SignInTypeOK
    <3>2. /\ answer[d].id # Unset => answer[d].id \in Authenticators
          /\ answer[d].count \in Nat
      BY <3>1 DEF AnswersInv, RequestsInv, SignInTypeOK, Passkeys
    <3>3. QED
      BY <1>1, <1>2, <3>1, <3>2 DEF AnswersInv, RequestsInv, SignInTypeOK
  <2>3. QED
    BY <2>1, <2>2
<1>4. \A r \in underway : r.answer.count <= counter'[r.answer.id]
  <2>1. \A r \in underway : r.answer.id \in Authenticators /\ r.answer.count \in Nat
    BY DEF AnswersInv, RequestsInv, SignInTypeOK, Requests, Passkeys
  <2>2. QED
    BY <1>1, <1>2, <2>1 DEF AnswersInv, RequestsInv, SignInTypeOK
<1>5. stored.id # Unset => stored.id \in Authenticators /\ stored.count \in Nat
  BY DEF RequestsInv, SignInTypeOK, Passkeys
<1>6. UNCHANGED <<stored, underway, overtaken>>
  BY DEF Opens
<1>7. OwnerCanSignIn'
  BY <1>1, <1>2, <1>5, <1>6 DEF OwnerCanSignIn, AnswersInv, RequestsInv, SignInTypeOK
<1>8. QED
  BY <1>3, <1>4, <1>6, <1>7 DEF AnswersInv

\* An answer leaves with its challenge, or stays as good as it was.
LEMMA AnswersConsumed ==
  ASSUME RequestsInv, AnswersInv, NEW c \in Challenges, NEW purpose, Consumed(c, purpose),
         UNCHANGED counter
  PROVE  /\ answer[c].id # Unset /\ answer[c].count <= counter[answer[c].id]
         /\ \A d \in Challenges :
               /\ challenges'[d] = "open" => answer'[d].id # Unset
               /\ answer'[d].id # Unset => answer'[d].count <= counter'[answer'[d].id]
<1>1. CASE purpose = "link"
  BY <1>1 DEF Consumed, AnswersInv, RequestsInv, SignInTypeOK
<1>2. CASE purpose # "link"
  BY <1>2 DEF Consumed, AnswersInv, RequestsInv, SignInTypeOK, NoPasskey
<1>3. QED
  BY <1>1, <1>2

\* A request begins with an answer it was sent.
LEMMA AnswersBegin ==
  ASSUME RequestsInv, AnswersInv, NEW c \in Challenges, NEW d \in Challenges, NEW purpose,
         NEW label, NEW with, NEW copy, label # "link", answer[d].id = answer[c].id,
         Consumed(c, purpose), Suspend(label, c, answer[d], with, copy),
         UNCHANGED <<counter, stored, overtaken>>
  PROVE  AnswersInv'
<1> DEFINE q == [at |-> label, challenge |-> c, answer |-> answer[d], with |-> with,
                 copy |-> copy]
<1>1. underway' = underway \cup {q}
  BY DEF Suspend
<1>2. q.at # "link" /\ q.answer = answer[d]
  OBVIOUS
<1>3. q.answer.id # Unset /\ q.answer.count <= counter[q.answer.id]
  BY <1>2, AnswersConsumed DEF AnswersInv
<1> HIDE DEF q
<1>4. QED
  BY <1>1, <1>2, <1>3, AnswersConsumed DEF AnswersInv, OwnerCanSignIn

\* A request ends, or goes on with the answer it has.
LEMMA AnswersEnd ==
  ASSUME RequestsInv, AnswersInv, NEW r \in underway,
         \/ LoginVerified(r) \/ IssueSession(r) \/ Replaced(r) \/ Bound(r)
         \/ ProfileCreated(r) \/ Linked(r)
  PROVE  AnswersInv'
<1> USE DEF AnswersInv
<1>1. /\ r.answer.id \in Authenticators /\ r.answer.count <= counter[r.answer.id]
      /\ r.answer.id # Unset
  BY DEF RequestsInv, SignInTypeOK, Requests, Passkeys
<1>2. Attested(r) /\ Counted(r) /\ UNCHANGED counter => OwnerCanSignIn'
  <2> SUFFICES ASSUME Attested(r), Counted(r), UNCHANGED counter, ~overtaken'
               PROVE  stored'.count <= counter'[stored'.id]
    BY DEF OwnerCanSignIn
  <2>1. stored.id = r.answer.id
    BY DEF Attested
  <2>2. stored'.id = stored.id /\ stored'.count = r.answer.count
    BY DEF Counted, RequestsInv, SignInTypeOK, Passkeys
  <2>3. QED
    BY <1>1, <2>1, <2>2
<1>3. CASE LoginVerified(r)
  <2> DEFINE q == [r EXCEPT !.at = "balances"]
  <2>1. q.answer = r.answer /\ q.at = "balances"
    BY DEF RequestsInv, SignInTypeOK, Requests
  <2>2. /\ Attested(r) /\ Counted(r) /\ underway' = (underway \ {r}) \cup {q}
        /\ UNCHANGED <<challenges, answer, counter>>
    BY <1>3 DEF LoginVerified
  <2> HIDE DEF q
  <2>3. QED
    BY <1>1, <1>2, <2>1, <2>2
<1>4. CASE IssueSession(r)
  BY <1>4 DEF IssueSession, OwnerCanSignIn
<1>5. CASE Replaced(r)
  <2>1. underway' = underway \ {r} /\ UNCHANGED counter
    BY <1>5 DEF Replaced
  <2>2. CASE Consumed(r.with, "register") /\ stored' = NewPasskey(r.with)
    <3>1. r.with \in Challenges
      BY <1>5 DEF Replaced, RequestsInv
    <3>2. QED
      BY <2>1, <2>2, <3>1, AnswersConsumed DEF NewPasskey, OwnerCanSignIn
  <2>3. CASE Counted(r) /\ UNCHANGED <<challenges, answer>>
    BY <1>2, <1>5, <2>1, <2>3 DEF Replaced
  <2>4. QED
    BY <1>5, <2>2, <2>3 DEF Replaced
<1>6. CASE Bound(r)
  BY <1>2, <1>6 DEF Bound
<1>7. CASE ProfileCreated(r)
  <2> DEFINE q == [r EXCEPT !.at = "link"]
  <2>1. q.answer = r.answer /\ q.copy = r.copy
    BY DEF RequestsInv, SignInTypeOK, Requests
  <2>2. /\ underway' = (underway \ {r})
             \cup (IF r.answer.id = r.copy.id /\ Advanced(r.answer, r.copy.count)
                   THEN {q} ELSE {})
        /\ UNCHANGED <<stored, challenges, answer, counter, overtaken>>
    BY <1>7 DEF ProfileCreated
  <2> HIDE DEF q
  <2>3. QED
    BY <1>1, <2>1, <2>2 DEF OwnerCanSignIn
<1>8. CASE Linked(r)
  <2>1. /\ stored' = [r.copy EXCEPT !.count = r.answer.count] /\ r.answer.id = r.copy.id
        /\ underway' = underway \ {r} /\ UNCHANGED <<challenges, answer, counter>>
    BY <1>8 DEF Linked
  <2>2. stored'.id = r.answer.id /\ stored'.count = r.answer.count
    BY <2>1 DEF RequestsInv, SignInTypeOK, Requests, Passkeys
  <2>3. QED
    BY <1>1, <2>1, <2>2 DEF OwnerCanSignIn
<1>9. QED
  BY <1>3, <1>4, <1>5, <1>6, <1>7, <1>8

\* So no step leaves the account with a count its authenticator has not reached.
LEMMA AnswersStep ==
  ASSUME RequestsInv, AnswersInv, SignsIn
  PROVE  AnswersInv'
<1>1. ASSUME NEW c \in Challenges, IssueChallenge(c) \/ StartLink(c)
      PROVE  AnswersInv'
  BY <1>1, AnswersOpen, SignInAssumption
  DEF IssueChallenge, StartLink, RequestsInv, SignInTypeOK, Passkeys
<1>2. ASSUME NEW c \in Challenges, ChallengeLapses(c)
      PROVE  AnswersInv'
  BY <1>2, AnswersConsumed DEF ChallengeLapses, AnswersInv, OwnerCanSignIn
<1>3. ASSUME NEW c \in Challenges, Register(c)
      PROVE  AnswersInv'
  BY <1>3, AnswersConsumed DEF Register, NewPasskey, AnswersInv, OwnerCanSignIn
<1>4. ASSUME NEW c \in Challenges, Login(c) \/ \E d \in Challenges : Link(c, d)
      PROVE  AnswersInv'
  BY <1>4, AnswersBegin DEF Login, Link
<1>5. ASSUME NEW c \in Challenges, NEW d,
             StepUp("replace", c, d) \/ StepUp("bind", c, d)
      PROVE  AnswersInv'
  BY <1>5, AnswersBegin DEF StepUp
<1>6. CASE SessionsEnd
  BY <1>6 DEF SessionsEnd, AnswersInv, OwnerCanSignIn
<1>7. QED
  BY <1>1, <1>2, <1>3, <1>4, <1>5, <1>6, AnswersEnd DEF SignsIn, Replace, Bind

\* All three are kept by every step of the account.
LEMMA SignInInvStep ==
  RequestsInv /\ ChallengesInv /\ AnswersInv /\ [Next]_vars =>
     RequestsInv' /\ ChallengesInv' /\ AnswersInv'
<1> SUFFICES ASSUME RequestsInv, ChallengesInv, AnswersInv, UNCHANGED signIn
             PROVE  RequestsInv' /\ ChallengesInv' /\ AnswersInv'
  BY Frames, RequestsStep, ChallengesStep, AnswersStep
<1>1. QED
  BY DEF signIn, RequestsInv, SignInTypeOK, ChallengesInv, AnswersInv, OwnerCanSignIn

\* ApprovedOnce always holds: a challenge is met by one accepted answer at most, and
\* of the requests to link, which share a challenge, each is approved once at most.
THEOREM ApprovedAtMostOnce == Spec => []ApprovedOnce
<1>1. ChallengesInv => ApprovedOnce
  BY DEF ChallengesInv, ApprovedOnce
<1>2. QED
  BY <1>1, SignInInvInit, SignInInvStep, PTL DEF Spec

\* OwnerCanSignIn always holds: the count stored for the passkey is one its
\* authenticator has passed, unless the passkey was replaced during a verification.
THEOREM OwnerIsNotLockedOut == Spec => []OwnerCanSignIn
<1>1. AnswersInv => OwnerCanSignIn
  BY DEF AnswersInv
<1>2. QED
  BY <1>1, SignInInvInit, SignInInvStep, PTL DEF Spec

-----------------------------------------------------------------------------
(***************************************************************************)
(* The Safe.  Operations are prepared for the nonce the Safe has and do    *)
(* nothing at another one, so an operation that is still good allows only  *)
(* what it enables or what is enabled.  Of the modules with code only the  *)
(* configured one is ever planned, enabled or allowed, for a module is     *)
(* replaced only while it has no code.                                     *)
(***************************************************************************)
Operated == {p.operation : p \in pending} \cup {e.operation : e \in errands}

OperationsInv ==
    /\ plan.safe # 0
    /\ plan.module \notin Codeless => plan.module = env.module
    /\ \A s \in Numbers :
          safes[s].allowed \subseteq safes[s].enabled \cap ({env.module} \ Codeless)
    /\ \A o \in Operated :
          /\ o.allows \ Codeless \subseteq {env.module}
          /\ o.nonce <= safes[o.safe].nonce
          /\ o.nonce = safes[o.safe].nonce =>
                o.allows \subseteq o.enables \cup safes[o.safe].enabled
    /\ \A p \in pending \cup errands :
          p.operation.kind = "allowance" => p.plan.module = env.module

\* A plan that was left with a module that has been replaced: allowances for the
\* module there is now come from setups that are not on record.
LeftBehind == plan.module # env.module =>
    /\ \A s \in Numbers : env.module \in safes[s].allowed => s \in unrecorded
    /\ \A o \in Operated : o.kind = "deployment" => env.module \notin o.allows

\* A deployment is for the Safe it was asked for, and the Safe of the plan unless
\* a passkey was replaced meanwhile.
DeploymentInv ==
    /\ \A e \in errands :
          /\ e.at = "asking" =>
                e.operation.safe = e.plan.safe /\ e.operation.kind = "deployment"
          /\ e.at = "included" =>
                e.operation.safe = e.plan.safe /\ safes[e.operation.safe].there
          /\ e.operation.kind = "deployment" /\ ~outpaced => e.plan.safe = plan.safe
    /\ ActiveIsThere

WalletInv == WalletTypeOK /\ OperationsInv /\ LeftBehind /\ DeploymentInv

\* What the configuration plans for a Safe.
LEMMA PlanForType ==
  ASSUME env \in Configurations, NEW s \in 0..MaxSafes
  PROVE  PlanFor(s) \in Plans /\ PlanFor(s).safe = s /\ PlanFor(s).status = "planned"
         /\ PlanFor(s).module = env.module
  BY WalletAssumption DEF PlanFor, Plans, Roles

\* A Safe is planned first, and none is there.
LEMMA WalletInvInit == Init => WalletInv
<1> SUFFICES ASSUME WalletInit PROVE WalletInv
  BY PartsInit
<1> USE WalletAssumption DEF WalletInit
<1>1. WalletTypeOK
  <2>1. plan \in Plans
    BY PlanForType
  <2>2. restarts \in 0..MaxRestarts /\ home \in 0..MaxSafes
    OBVIOUS
  <2>3. safes \in [Numbers -> [there : BOOLEAN, nonce : Nat, allowed : SUBSET Modules,
                               enabled : SUBSET (Modules \cup {RecoveryModule})]]
    OBVIOUS
  <2>4. QED
    BY <2>1, <2>2, <2>3 DEF WalletTypeOK
<1>2. OperationsInv /\ LeftBehind /\ DeploymentInv
  BY DEF OperationsInv, LeftBehind, DeploymentInv, ActiveIsThere, Operated, PlanFor
<1>3. QED
  BY <1>1, <1>2 DEF WalletInv

\* The operation that comes of a plan to deploy, made for the nonce of its Safe.
LEMMA DeploymentOfType ==
  ASSUME WalletTypeOK, NEW p \in Plans, p.safe # 0
  PROVE  /\ DeploymentOf(p) \in Operations /\ DeploymentOf(p).safe = p.safe
         /\ DeploymentOf(p).nonce = safes[p.safe].nonce
         /\ DeploymentOf(p).kind = "deployment"
         /\ DeploymentOf(p).allows \subseteq DeploymentOf(p).enables \cap {p.module}
<1>1. p.safe \in Numbers /\ p.module \in Modules
  BY WalletAssumption DEF Plans, Numbers
<1>2. safes[p.safe].nonce \in Nat
  BY <1>1 DEF WalletTypeOK
<1>3. QED
  BY <1>1, <1>2 DEF DeploymentOf, Operations

\* And the one that comes of a plan to allow.
LEMMA AllowanceOfType ==
  ASSUME WalletTypeOK, NEW p \in Plans, p.safe # 0
  PROVE  /\ AllowanceOf(p) \in Operations /\ AllowanceOf(p).safe = p.safe
         /\ AllowanceOf(p).nonce = safes[p.safe].nonce
         /\ AllowanceOf(p).kind = "allowance" /\ AllowanceOf(p).allows = {p.module}
         /\ p.module \in AllowanceOf(p).enables \cup safes[p.safe].enabled
<1>1. p.safe \in Numbers /\ p.module \in Modules
  BY WalletAssumption DEF Plans, Numbers
<1>2. safes[p.safe].nonce \in Nat
  BY <1>1 DEF WalletTypeOK
<1>3. QED
  BY <1>1, <1>2 DEF AllowanceOf, Operations

\* A new plan, requests and their end.
LEMMA WalletRequests ==
  ASSUME WalletInv,
         \/ PlanNext \/ AskDeployment \/ AskAllowance \/ PolicyPatched
         \/ \E p \in pending : RequestLapses(p) \/ SendsOperation(p)
         \/ \E e \in errands : ErrandThrows(e)
         \/ \E c \in Configurations : Reconfigured(c)
  PROVE  WalletInv'
<1> USE DEF WalletInv
<1>1. plan \in Plans /\ plan.safe \in Numbers /\ env \in Configurations /\ env.module \in Modules
  BY WalletAssumption DEF WalletTypeOK, OperationsInv, Numbers, Plans
<1>2. CASE PlanNext
  <2>1. /\ plan' = PlanFor(plan.safe + 1) /\ plan.safe + 1 \in 0..MaxSafes
        /\ outpaced' = (outpaced \/ Deploying)
        /\ UNCHANGED <<env, restarts, home, safes, pending, errands, unrecorded>>
    BY <1>1, <1>2, WalletAssumption DEF PlanNext, Numbers
  <2>2. /\ plan' \in Plans /\ plan'.safe # 0 /\ plan'.status = "planned"
        /\ plan'.module = env.module
    BY <1>1, <2>1, PlanForType, WalletAssumption DEF Numbers
  <2>3. outpaced' \in BOOLEAN /\ (Deploying \/ outpaced => outpaced')
    BY <2>1 DEF WalletTypeOK
  <2>4. WalletTypeOK'
    BY <2>1, <2>2, <2>3 DEF WalletTypeOK
  <2>5. OperationsInv'
    BY <2>1, <2>2 DEF OperationsInv, Operated
  <2>6. LeftBehind'
    BY <2>1, <2>2 DEF LeftBehind
  <2>7. DeploymentInv'
    BY <2>1, <2>2, <2>3 DEF DeploymentInv, ActiveIsThere, Deploying
  <2>8. QED
    BY <2>4, <2>5, <2>6, <2>7
<1>3. CASE AskDeployment
  <2> DEFINE o == DeploymentOf(plan)
             e == [at |-> "asking", operation |-> o, plan |-> plan]
  <2>1. /\ plan.status # "active" /\ errands' = errands \cup {e}
        /\ UNCHANGED <<env, restarts, plan, home, safes, pending, unrecorded, outpaced>>
    BY <1>3 DEF AskDeployment
  <2>2. /\ o \in Operations /\ o.safe = plan.safe /\ o.nonce = safes[o.safe].nonce
        /\ o.kind = "deployment" /\ o.allows \subseteq o.enables \cap {plan.module}
    BY <1>1, DeploymentOfType DEF OperationsInv
  <2>3. e \in Errands /\ e.at = "asking" /\ e.operation = o /\ e.plan = plan
    BY <1>1, <2>2 DEF Errands
  <2>4. safes[o.safe].nonce \in Nat
    BY <1>1, <2>2 DEF WalletTypeOK
  <2>5. Operated' = Operated \cup {o}
    BY <2>1, <2>3 DEF Operated
  <2> HIDE DEF o, e
  <2>6. WalletTypeOK'
    BY <2>1, <2>3 DEF WalletTypeOK
  <2>7. OperationsInv'
    BY <2>1, <2>2, <2>3, <2>4, <2>5 DEF OperationsInv
  <2>8. LeftBehind'
    BY <2>1, <2>2, <2>5 DEF LeftBehind
  <2>9. DeploymentInv'
    BY <2>1, <2>2, <2>3 DEF DeploymentInv, ActiveIsThere
  <2>10. QED
    BY <2>6, <2>7, <2>8, <2>9
<1>4. CASE AskAllowance
  <2> DEFINE q == [plan EXCEPT !.policy = TRUE, !.module = env.module, !.allows = TRUE]
             o == AllowanceOf(q)
             p == [operation |-> o, plan |-> q]
  <2>1. /\ pending' = pending \cup {p}
        /\ UNCHANGED <<env, restarts, plan, home, safes, errands, unrecorded, outpaced>>
    BY <1>4 DEF AskAllowance
  <2>2. q \in Plans /\ q.safe = plan.safe /\ q.module = env.module
    BY <1>1 DEF Plans
  <2>3. /\ o \in Operations /\ o.safe = plan.safe /\ o.nonce = safes[o.safe].nonce
        /\ o.kind = "allowance" /\ o.allows = {env.module}
        /\ env.module \in o.enables \cup safes[o.safe].enabled
    BY <1>1, <2>2, AllowanceOfType DEF OperationsInv
  <2>4. p.operation = o /\ p.plan = q
    OBVIOUS
  <2>5. safes[o.safe].nonce \in Nat
    BY <1>1, <2>3 DEF WalletTypeOK
  <2>6. Operated' = Operated \cup {o}
    BY <2>1, <2>4 DEF Operated
  <2> HIDE DEF q, o, p
  <2>7. WalletTypeOK'
    BY <2>1, <2>2, <2>3, <2>4 DEF WalletTypeOK
  <2>8. OperationsInv'
    BY <2>1, <2>2, <2>3, <2>4, <2>5, <2>6 DEF OperationsInv
  <2>9. LeftBehind'
    BY <2>1, <2>3, <2>6 DEF LeftBehind
  <2>10. DeploymentInv'
    BY <2>1 DEF DeploymentInv, ActiveIsThere
  <2>11. QED
    BY <2>7, <2>8, <2>9, <2>10
<1>5. CASE PolicyPatched
  <2>1. /\ plan' \in Plans /\ plan'.safe = plan.safe /\ plan'.status = plan.status
        /\ plan'.module = env.module
    BY <1>1, <1>5 DEF PolicyPatched, Plans
  <2>2. UNCHANGED <<env, restarts, home, safes, pending, errands, unrecorded, outpaced>>
    BY <1>5 DEF PolicyPatched
  <2>3. WalletTypeOK'
    BY <2>1, <2>2 DEF WalletTypeOK
  <2>4. OperationsInv' /\ LeftBehind' /\ DeploymentInv'
    BY <2>1, <2>2 DEF OperationsInv, Operated, LeftBehind, DeploymentInv, ActiveIsThere
  <2>5. QED
    BY <2>3, <2>4
<1>6. ASSUME NEW p \in pending, RequestLapses(p)
      PROVE  WalletInv'
  <2>1. /\ pending' \subseteq pending
        /\ UNCHANGED <<env, restarts, plan, home, safes, errands, unrecorded, outpaced>>
    BY <1>6 DEF RequestLapses
  <2>2. QED
    BY <2>1 DEF WalletTypeOK, OperationsInv, Operated, LeftBehind, DeploymentInv, ActiveIsThere
<1>7. ASSUME NEW p \in pending, SendsOperation(p)
      PROVE  WalletInv'
  <2> DEFINE signs == IF p.operation.kind = "deployment" THEN plan ELSE p.plan
             e == [at |-> "sending", operation |-> p.operation, plan |-> signs]
  <2>1. /\ errands' = errands \cup {e}
        /\ UNCHANGED <<env, restarts, plan, home, safes, pending, unrecorded, outpaced>>
    BY <1>7 DEF SendsOperation
  <2>2. p.operation \in Operations /\ signs \in Plans
    BY <1>1 DEF WalletTypeOK
  <2>3. /\ e \in Errands /\ e.at = "sending" /\ e.operation = p.operation
        /\ e.plan = IF p.operation.kind = "deployment" THEN plan ELSE p.plan
    BY <2>2 DEF Errands
  <2>4. Operated' = Operated
    BY <2>1, <2>3 DEF Operated
  <2> HIDE DEF signs, e
  <2>5. WalletTypeOK'
    BY <2>1, <2>3 DEF WalletTypeOK
  <2>6. OperationsInv' /\ LeftBehind'
    BY <2>1, <2>3, <2>4 DEF OperationsInv, LeftBehind
  <2>7. DeploymentInv'
    BY <2>1, <2>3 DEF DeploymentInv, ActiveIsThere
  <2>8. QED
    BY <2>5, <2>6, <2>7
<1>8. ASSUME NEW e \in errands, ErrandThrows(e)
      PROVE  WalletInv'
  <2>1. /\ errands' \subseteq errands
        /\ UNCHANGED <<env, restarts, plan, home, safes, pending, unrecorded, outpaced>>
    BY <1>8 DEF ErrandThrows
  <2>2. QED
    BY <2>1 DEF WalletTypeOK, OperationsInv, Operated, LeftBehind, DeploymentInv, ActiveIsThere
<1>9. ASSUME NEW c \in Configurations, Reconfigured(c)
      PROVE  WalletInv'
  <2>1. /\ restarts' \in 0..MaxRestarts /\ env' = c
        /\ env.module \notin Codeless => c.module = env.module
        /\ pending' = {} /\ errands' = {}
        /\ UNCHANGED <<plan, home, safes, unrecorded, outpaced>>
    BY <1>9, WalletAssumption DEF Reconfigured, WalletTypeOK
  <2>2. Operated' = {}
    BY <2>1 DEF Operated
  <2>3. WalletTypeOK'
    BY <2>1 DEF WalletTypeOK
  <2>4. OperationsInv'
    BY <2>1, <2>2 DEF OperationsInv
  <2>5. LeftBehind'
    BY <2>1, <2>2 DEF LeftBehind, OperationsInv
  <2>6. DeploymentInv'
    BY <2>1 DEF DeploymentInv, ActiveIsThere
  <2>7. QED
    BY <2>3, <2>4, <2>5, <2>6
<1>10. QED
  BY <1>2, <1>3, <1>4, <1>5, <1>6, <1>7, <1>8, <1>9

\* An operation is included: its Safe is there, and allows no more than it enables.
LEMMA WalletIncluded ==
  ASSUME WalletInv, NEW e \in errands, NEW calls \in BOOLEAN, Included(e, calls)
  PROVE  WalletInv'
<1> USE DEF WalletInv
<1> DEFINE o == e.operation
           got == safes[o.safe]
           then == [there |-> TRUE, nonce |-> got.nonce + 1,
                    enabled |-> got.enabled \cup (IF calls THEN o.enables ELSE {}),
                    allowed |-> got.allowed \cup (IF calls THEN o.allows \ Codeless ELSE {})]
           f == [e EXCEPT !.at = "included"]
<1>1. /\ o \in Operations /\ e.plan \in Plans /\ o.safe \in Numbers
      /\ e.at = "sending" /\ o.nonce = got.nonce /\ e.plan.safe = o.safe
      /\ safes' = [safes EXCEPT ![o.safe] = then]
      /\ errands' = (errands \ {e}) \cup {f}
      /\ unrecorded' = unrecorded \cup (IF o.kind = "allowance" THEN {o.safe} ELSE {})
      /\ UNCHANGED <<env, restarts, plan, home, pending, outpaced>>
  <2>1. o \in Operations /\ e.plan \in Plans
    BY DEF WalletTypeOK, Errands
  <2>2. o.safe \in Numbers
    BY <2>1 DEF Operations
  <2>3. QED
    BY <2>1, <2>2, Zenon DEF Included
<1>2. /\ then \in [there : BOOLEAN, nonce : Nat, allowed : SUBSET Modules,
                   enabled : SUBSET (Modules \cup {RecoveryModule})]
      /\ then.there /\ then.nonce = got.nonce + 1
      /\ \/ then.enabled = got.enabled \cup o.enables
            /\ then.allowed = got.allowed \cup (o.allows \ Codeless)
         \/ then.enabled = got.enabled /\ then.allowed = got.allowed
  BY <1>1 DEF Operations, WalletTypeOK
<1>3. f \in Errands /\ f.operation = o /\ f.plan = e.plan /\ f.at = "included"
  BY DEF WalletTypeOK, Errands
<1>4. o \in Operated /\ Operated' = Operated
  BY <1>1, <1>3 DEF Operated
<1>5. \A s \in Numbers : safes[s].nonce \in Nat
  BY DEF WalletTypeOK
<1>6. \A q \in Operated : q.nonce \in Nat /\ q.safe \in Numbers
  BY DEF WalletTypeOK, Operated, Errands, Operations
<1>7. \A s \in Numbers : safes'[s] = IF s = o.safe THEN then ELSE safes[s]
  BY <1>1, <1>2 DEF WalletTypeOK
<1> HIDE DEF o, got, then, f
<1>8. WalletTypeOK'
  <2>1. safes' \in [Numbers -> [there : BOOLEAN, nonce : Nat, allowed : SUBSET Modules,
                                enabled : SUBSET (Modules \cup {RecoveryModule})]]
    BY <1>1, <1>2 DEF WalletTypeOK
  <2>2. unrecorded' \subseteq Numbers
    BY <1>1, <1>2 DEF WalletTypeOK
  <2>3. QED
    BY <1>1, <1>2, <1>3, <2>1, <2>2 DEF WalletTypeOK
<1>9. OperationsInv'
  <2>1. \A s \in Numbers :
           safes'[s].allowed \subseteq safes'[s].enabled \cap ({env'.module} \ Codeless)
    BY <1>1, <1>2, <1>4, <1>7 DEF OperationsInv, got
  <2>2. \A q \in Operated' :
          /\ q.nonce <= safes'[q.safe].nonce
          /\ q.nonce = safes'[q.safe].nonce =>
                q.allows \subseteq q.enables \cup safes'[q.safe].enabled
    BY <1>1, <1>2, <1>4, <1>5, <1>6, <1>7 DEF OperationsInv, got
  <2>3. \A q \in pending' \cup errands' :
           q.operation.kind = "allowance" => q.plan.module = env'.module
    BY <1>1, <1>2, <1>3 DEF OperationsInv, o
  <2>4. QED
    BY <1>1, <1>2, <1>4, <2>1, <2>2, <2>3 DEF OperationsInv
<1>10. LeftBehind'
  <2> SUFFICES ASSUME plan.module # env.module
               PROVE  /\ \A s \in Numbers : env.module \in safes'[s].allowed => s \in unrecorded'
                      /\ \A q \in Operated' : q.kind = "deployment" => env.module \notin q.allows
    BY <1>1 DEF LeftBehind
  <2>1. o.kind \in {"deployment", "allowance"}
    BY <1>1 DEF Operations
  <2>2. env.module \in then.allowed => o.safe \in unrecorded'
    BY <1>1, <1>2, <1>4, <2>1 DEF LeftBehind, got
  <2>3. QED
    BY <1>1, <1>2, <1>4, <1>7, <2>2 DEF LeftBehind
<1>11. DeploymentInv'
  <2>1. \A s \in Numbers : safes[s].there => safes'[s].there
    BY <1>1, <1>2, <1>7
  <2>2. \A d \in errands : d.operation.safe \in Numbers
    BY DEF WalletTypeOK, Errands, Operations
  <2>3. home \in Numbers => (safes[home].there => safes'[home].there)
    BY <2>1
  <2>4. plan.safe \in Numbers
    BY WalletAssumption DEF WalletTypeOK, OperationsInv, Plans, Numbers
  <2>5. \A d \in errands' :
           d.at = "included" => d.operation.safe = d.plan.safe /\ safes'[d.operation.safe].there
    BY <1>1, <1>2, <1>3, <1>7, <2>1, <2>2 DEF DeploymentInv
  <2>6. ActiveIsThere'
    BY <1>1, <2>3, <2>4 DEF DeploymentInv, ActiveIsThere
  <2>7. QED
    BY <1>1, <1>2, <1>3, <2>5, <2>6 DEF DeploymentInv, o
<1>12. QED
  BY <1>8, <1>9, <1>10, <1>11

\* A deployment becomes the account, a setup goes on record.
LEMMA WalletRecorded ==
  ASSUME WalletInv, NEW e \in errands,
         DeploymentAsked(e) \/ DeploymentRecorded(e) \/ AllowanceRecorded(e)
  PROVE  WalletInv'
<1> USE DEF WalletInv
<1>1. plan \in Plans /\ plan.safe \in Numbers /\ env \in Configurations /\ env.module \in Modules
  BY WalletAssumption DEF WalletTypeOK, OperationsInv, Numbers, Plans
<1>2. e.operation \in Operations /\ e.plan \in Plans
  BY DEF WalletTypeOK, Errands
<1>3. ASSUME Settle, errands' = errands \ {e}, pending' \subseteq pending,
             UNCHANGED <<env, restarts, safes, unrecorded, outpaced>>,
             e.operation.kind = "deployment", e.operation.safe = e.plan.safe,
             safes[e.operation.safe].there
      PROVE  WalletInv'
  <2>1. /\ plan' \in Plans /\ plan'.safe = plan.safe /\ plan'.module = plan.module
        /\ home' = plan.safe
    BY <1>1, <1>3 DEF Settle, Plans
  <2>2. \A o \in Operated' : o \in Operated
    BY <1>3 DEF Operated
  <2>3. home' \in 0..MaxSafes
    BY <2>1 DEF Plans
  <2>4. WalletTypeOK'
    BY <1>3, <2>1, <2>3 DEF WalletTypeOK
  <2>5. OperationsInv' /\ LeftBehind'
    BY <1>3, <2>1, <2>2 DEF OperationsInv, LeftBehind
  <2>6. ~outpaced => safes[plan.safe].there
    BY <1>3 DEF DeploymentInv
  <2>7. DeploymentInv'
    BY <1>3, <2>1, <2>6 DEF DeploymentInv, ActiveIsThere
  <2>8. QED
    BY <2>4, <2>5, <2>7
<1>4. CASE DeploymentAsked(e)
  <2> DEFINE q == [operation |-> e.operation, plan |-> e.plan]
  <2>1. /\ e.at = "asking" /\ errands' = errands \ {e}
        /\ UNCHANGED <<env, restarts, safes, unrecorded, outpaced>>
        /\ \/ safes[e.operation.safe].there /\ Settle /\ UNCHANGED pending
           \/ pending' = pending \cup {q} /\ UNCHANGED <<plan, home>>
    BY <1>4 DEF DeploymentAsked
  <2>2. e.operation.kind = "deployment" /\ e.operation.safe = e.plan.safe
    BY <2>1 DEF DeploymentInv
  <2>3. CASE safes[e.operation.safe].there /\ Settle /\ UNCHANGED pending
    BY <1>3, <2>1, <2>2, <2>3
  <2>4. CASE pending' = pending \cup {q} /\ UNCHANGED <<plan, home>>
    <3>1. q.operation = e.operation /\ q.plan = e.plan
      OBVIOUS
    <3>2. \A o \in Operated' : o \in Operated
      BY <2>1, <2>4, <3>1 DEF Operated
    <3> HIDE DEF q
    <3>3. WalletTypeOK'
      BY <1>2, <2>1, <2>4, <3>1 DEF WalletTypeOK
    <3>4. OperationsInv' /\ LeftBehind'
      BY <2>1, <2>2, <2>4, <3>1, <3>2 DEF OperationsInv, LeftBehind
    <3>5. DeploymentInv'
      BY <2>1, <2>4 DEF DeploymentInv, ActiveIsThere
    <3>6. QED
      BY <3>3, <3>4, <3>5
  <2>5. QED
    BY <2>1, <2>3, <2>4
<1>5. CASE DeploymentRecorded(e)
  <2>1. /\ e.at = "included" /\ e.operation.kind = "deployment"
        /\ Settle /\ errands' = errands \ {e} /\ pending' \subseteq pending
        /\ UNCHANGED <<env, restarts, safes, unrecorded, outpaced>>
    BY <1>5 DEF DeploymentRecorded, SeemsIncluded
  <2>2. QED
    BY <1>3, <2>1 DEF DeploymentInv
<1>6. CASE AllowanceRecorded(e)
  <2>1. /\ e.operation.kind = "allowance" /\ errands' = errands \ {e}
        /\ pending' \subseteq pending /\ plan' = WithPolicy(e.plan)
        /\ unrecorded' \subseteq unrecorded
        /\ UNCHANGED <<env, restarts, home, safes, outpaced>>
    BY <1>6 DEF AllowanceRecorded
  <2>2. e.plan.module = env.module
    BY <2>1 DEF OperationsInv
  <2>3. /\ plan' \in Plans /\ plan'.safe = plan.safe /\ plan'.status = plan.status
        /\ plan'.module = env.module
    BY <1>1, <2>1, <2>2 DEF WithPolicy, Plans
  <2>4. \A o \in Operated' : o \in Operated
    BY <2>1 DEF Operated
  <2>5. WalletTypeOK'
    BY <2>1, <2>3 DEF WalletTypeOK
  <2>6. OperationsInv' /\ LeftBehind'
    BY <2>1, <2>3, <2>4 DEF OperationsInv, LeftBehind
  <2>7. DeploymentInv'
    BY <2>1, <2>3 DEF DeploymentInv, ActiveIsThere
  <2>8. QED
    BY <2>5, <2>6, <2>7
<1>7. QED
  BY <1>4, <1>5, <1>6

\* All of it is kept by every step of the account.
LEMMA WalletInvStep == WalletInv /\ [Next]_vars => WalletInv'
<1> SUFFICES ASSUME WalletInv, KeepsSafe \/ UNCHANGED wallet PROVE WalletInv'
  BY Frames
<1>1. CASE KeepsSafe
  BY <1>1, WalletRequests, WalletIncluded, WalletRecorded DEF KeepsSafe
<1>2. CASE UNCHANGED wallet
  BY <1>2 DEF wallet, WalletInv, WalletTypeOK, OperationsInv, Operated, LeftBehind,
              DeploymentInv, ActiveIsThere
<1>3. QED
  BY <1>1, <1>2

\* ShownIsSpendable always holds: where the page shows an allowance a debit finds
\* one, unless a setup went through and its record was lost.
THEOREM ShownAllowanceIsSpendable == Spec => []ShownIsSpendable
<1>1. ASSUME WalletInv, ShownConfigured, home \notin unrecorded
      PROVE  DebitsThrough # {}
  <2>1. home \in Numbers /\ env.module \in safes[home].allowed
    BY <1>1, WalletAssumption
    DEF ShownConfigured, IsActive, WalletInv, WalletTypeOK, OperationsInv, Plans, Numbers
  <2>2. plan.module = env.module
    BY <1>1, <2>1 DEF WalletInv, LeftBehind
  <2>3. env.module \in safes[home].enabled
    BY <1>1, <2>1 DEF WalletInv, OperationsInv
  <2>4. QED
    BY <2>1, <2>2, <2>3 DEF DebitsThrough
<1>2. WalletInv => ShownIsSpendable
  BY <1>1 DEF ShownIsSpendable
<1>3. QED
  BY <1>2, WalletInvInit, WalletInvStep, PTL DEF Spec

\* ActiveIsThere always holds: an active Safe is the account and is on the chain,
\* unless the passkey was replaced while a deployment was under way.
THEOREM ActiveSafeIsThere == Spec => []ActiveIsThere
<1>1. WalletInv => ActiveIsThere
  BY DEF WalletInv, DeploymentInv
<1>2. QED
  BY <1>1, WalletInvInit, WalletInvStep, PTL DEF Spec
-----------------------------------------------------------------------------
(***************************************************************************)
(* Payments.  The quote of a transfer is consumed, no quote that was       *)
(* consumed becomes anything else, and only an open one is consumed: that  *)
(* is asked again after the balance was awaited, in the turn that makes    *)
(* the transfer.  How many requests wait meanwhile does not matter.        *)
(***************************************************************************)
QuotesConsumed ==
    \A p \in Transfers : /\ transfers[p].quote \in Quotes
                         /\ quotes[transfers[p].quote].status = "CONSUMED"

AdmissionInv == AdmissionTypeOK /\ QuotesConsumed /\ QuoteSpentOnce

\* There is no transfer at first.
LEMMA AdmissionInvInit == Init => AdmissionInv
<1> SUFFICES ASSUME AdmissionInit PROVE AdmissionInv
  BY PartsInit
<1>1. NoTransfer \in TransferRecord /\ NoTransfer.state = "none"
  BY AdmissionAssumption DEF NoTransfer, TransferRecord, States
<1>2. Transfers = {}
  BY <1>1 DEF AdmissionInit, Transfers
<1>3. quotes \in [Quotes -> [status : QuoteStatus, late : BOOLEAN]]
  BY DEF AdmissionInit, QuoteStatus
<1>4. bound \in BOOLEAN
  BY DEF AdmissionInit
<1>5. /\ posting \in [Posts -> Quotes \cup {None}] /\ posted \subseteq Posts
      /\ transfers \in [Posts -> TransferRecord]
      /\ submitting \in [Submits -> Posts \cup {None}]
      /\ safe \in Int /\ day \in 0..MaxDay
  BY <1>1, AdmissionAssumption DEF AdmissionInit
<1>6. QED
  BY <1>2, <1>3, <1>4, <1>5 DEF AdmissionInv, AdmissionTypeOK, QuotesConsumed, QuoteSpentOnce

\* A quote is asked for, answered, lapses or expires: none of them is consumed,
\* before or after.
LEMMA QuotesMove ==
  ASSUME AdmissionInv, NEW q \in Quotes,
         \/ AskQuote(q) \/ QuoteAnswered(q) \/ QuoteLapses(q)
         \/ \E p \in Posts : PostLapsed(p, q) \/ Post(p, q)
  PROVE  AdmissionInv'
<1>1. /\ quotes' \in [Quotes -> [status : QuoteStatus, late : BOOLEAN]]
      /\ posting' \in [Posts -> Quotes \cup {None}] /\ posted' \subseteq Posts
      /\ UNCHANGED <<transfers, submitting, bound, safe, day>>
  <2>1. UNCHANGED <<transfers, submitting, bound, safe, day>>
    BY Zenon DEF AskQuote, QuoteAnswered, QuoteLapses, PostLapsed, Post
  <2>2. posting' \in [Posts -> Quotes \cup {None}] /\ posted' \subseteq Posts
    <3>1. CASE UNCHANGED <<posting, posted>>
      BY <3>1 DEF AdmissionInv, AdmissionTypeOK
    <3>2. ASSUME NEW p \in Posts, PostLapsed(p, q) \/ Post(p, q)
          PROVE  posting' \in [Posts -> Quotes \cup {None}] /\ posted' \subseteq Posts
      BY <3>2 DEF PostLapsed, Post, AdmissionInv, AdmissionTypeOK
    <3>3. QED
      BY <3>1, <3>2 DEF AskQuote, QuoteAnswered, QuoteLapses
  <2>3. quotes' \in [Quotes -> [status : QuoteStatus, late : BOOLEAN]]
    <3>1. CASE UNCHANGED quotes
      BY <3>1 DEF AdmissionInv, AdmissionTypeOK
    <3>2. CASE \E status \in QuoteStatus : quotes' = [quotes EXCEPT ![q].status = status]
      BY <3>2 DEF AdmissionInv, AdmissionTypeOK
    <3>3. CASE quotes' = [quotes EXCEPT ![q].late = TRUE]
      BY <3>3 DEF AdmissionInv, AdmissionTypeOK
    <3>4. QED
      BY <3>1, <3>2, <3>3
      DEF AskQuote, QuoteAnswered, QuoteLapses, PostLapsed, Post, QuoteStatus
  <2>4. QED
    BY <2>1, <2>2, <2>3
<1>2. \A k \in Quotes : quotes[k].status = "CONSUMED" => quotes'[k].status = "CONSUMED"
  BY DEF AskQuote, QuoteAnswered, QuoteLapses, PostLapsed, Post, AdmissionInv,
         AdmissionTypeOK
<1>3. AdmissionTypeOK'
  BY <1>1 DEF AdmissionInv, AdmissionTypeOK
<1>4. Transfers' = Transfers
  BY <1>1 DEF Transfers
<1>5. QED
  BY <1>1, <1>2, <1>3, <1>4 DEF AdmissionInv, QuotesConsumed, QuoteSpentOnce

\* A transfer is made of an open quote, which no other transfer has.
LEMMA QuotesConsume ==
  ASSUME AdmissionInv, NEW p \in Posts, PostAnswered(p)
  PROVE  AdmissionInv'
<1> DEFINE q == posting[p]
           made == [NoTransfer EXCEPT !.state = "CREATED", !.quote = q, !.day = day]
<1>1. /\ q \in Quotes
      /\ posting' \in [Posts -> Quotes \cup {None}] /\ posted' \subseteq Posts
      /\ UNCHANGED <<submitting, bound, safe, day>>
  BY Zenon DEF PostAnswered, AdmissionInv, AdmissionTypeOK
<1>2. \/ UNCHANGED <<quotes, transfers>>
      \/ /\ quotes[q].status = "OPEN"
         /\ quotes' = [quotes EXCEPT ![q].status = "CONSUMED"]
         /\ transfers' = [transfers EXCEPT ![p] = made]
  BY Zenon DEF PostAnswered, Consumable
<1>3. CASE UNCHANGED <<quotes, transfers>>
  BY <1>1, <1>3
  DEF AdmissionInv, AdmissionTypeOK, QuotesConsumed, QuoteSpentOnce, Transfers
<1>4. CASE /\ quotes[q].status = "OPEN"
           /\ quotes' = [quotes EXCEPT ![q].status = "CONSUMED"]
           /\ transfers' = [transfers EXCEPT ![p] = made]
  <2>1. made \in TransferRecord /\ made.quote = q
    BY <1>1, AdmissionAssumption
    DEF NoTransfer, TransferRecord, States, AdmissionInv, AdmissionTypeOK
  <2> HIDE DEF made, q
  <2>2. /\ transfers' \in [Posts -> TransferRecord]
        /\ quotes' \in [Quotes -> [status : QuoteStatus, late : BOOLEAN]]
    BY <1>4, <2>1 DEF AdmissionInv, AdmissionTypeOK, QuoteStatus
  <2>3. AdmissionTypeOK'
    BY <1>1, <2>2 DEF AdmissionInv, AdmissionTypeOK
  <2>4. /\ transfers'[p].quote = q /\ quotes'[q].status = "CONSUMED"
        /\ \A k \in Quotes \ {q} : quotes'[k] = quotes[k]
        /\ \A r \in Posts \ {p} : transfers'[r] = transfers[r]
    BY <1>1, <1>4, <2>1 DEF AdmissionInv, AdmissionTypeOK
  <2>5. \A r \in Transfers' \ {p} : r \in Transfers /\ transfers'[r] = transfers[r]
    BY <2>4 DEF Transfers
  <2>6. \A r \in Transfers' \ {p} : /\ transfers'[r].quote \in Quotes
                                    /\ transfers'[r].quote # q
                                    /\ quotes'[transfers'[r].quote].status = "CONSUMED"
    BY <1>4, <2>4, <2>5 DEF AdmissionInv, QuotesConsumed
  <2>7. QED
    BY <1>1, <2>3, <2>4, <2>5, <2>6 DEF AdmissionInv, QuotesConsumed, QuoteSpentOnce
<1>5. QED
  BY <1>2, <1>3, <1>4

\* What else becomes of a transfer leaves it its quote.
LEMMA TransfersMove ==
  ASSUME AdmissionInv, UNCHANGED <<quotes, posting, posted, day>>,
         bound' \in BOOLEAN, safe' \in Int, submitting' \in [Submits -> Posts \cup {None}],
         \/ UNCHANGED transfers
         \/ \E p \in Transfers : \E made \in TransferRecord :
               /\ made.quote = transfers[p].quote
               /\ transfers' = [transfers EXCEPT ![p] = made]
  PROVE  AdmissionInv'
<1>1. CASE UNCHANGED transfers
  BY <1>1 DEF AdmissionInv, AdmissionTypeOK, QuotesConsumed, QuoteSpentOnce, Transfers
<1>2. ASSUME NEW p \in Transfers, NEW made \in TransferRecord,
             made.quote = transfers[p].quote, transfers' = [transfers EXCEPT ![p] = made]
      PROVE  AdmissionInv'
  <2>1. AdmissionTypeOK' /\ p \in Posts
    BY <1>2 DEF AdmissionInv, AdmissionTypeOK, Transfers
  <2>2. \A r \in Transfers' : r \in Transfers /\ transfers'[r].quote = transfers[r].quote
    BY <1>2, <2>1 DEF AdmissionInv, AdmissionTypeOK, Transfers
  <2>3. QED
    BY <2>1, <2>2 DEF AdmissionInv, QuotesConsumed, QuoteSpentOnce
<1>3. QED
  BY <1>1, <1>2

\* An authorization, a payout and a refund are such.
LEMMA TransfersStep ==
  ASSUME AdmissionInv, NEW p \in Posts,
         \/ DeadlinePasses(p) \/ Debit(p) \/ Fail(p) \/ Pay(p) \/ Refund(p)
  PROVE  AdmissionInv'
<1>1. p \in Transfers /\ transfers[p] \in TransferRecord /\ bound \in BOOLEAN
  BY DEF DeadlinePasses, Debit, Fail, Pay, Refund, Transfers, AdmissionInv, AdmissionTypeOK
<1>2. /\ safe \in Int
      /\ \E amount \in Int : amount = AmountOf(p)
  BY <1>1, AdmissionAssumption
  DEF AmountOf, AdmissionInv, AdmissionTypeOK, QuotesConsumed
<1>3. /\ safe' \in Int
      /\ UNCHANGED <<quotes, posting, posted, submitting, bound, day>>
  <2>1. UNCHANGED <<quotes, posting, posted, submitting, bound, day>>
    BY Zenon DEF DeadlinePasses, Debit, Fail, Pay, Refund
  <2>2. CASE DeadlinePasses(p) \/ Fail(p) \/ Pay(p)
    BY <1>2, <2>2 DEF DeadlinePasses, Fail, Pay
  <2>3. CASE Debit(p)
    <3>1. PICK amount \in Int : amount = AmountOf(p)
      BY <1>2
    <3>2. safe' = safe - amount
      BY <2>3, <3>1, Zenon DEF Debit
    <3>3. QED
      BY <1>2, <2>1, <3>2
  <2>4. CASE Refund(p)
    <3>1. PICK amount \in Int : amount = AmountOf(p)
      BY <1>2
    <3>2. safe' = safe + amount \/ safe' = safe
      BY <2>4, <3>1, Zenon DEF Refund
    <3>3. QED
      BY <1>2, <2>1, <3>2
  <2>5. QED
    BY <2>1, <2>2, <2>3, <2>4
<1>4. \E made \in TransferRecord :
          /\ made.quote = transfers[p].quote
          /\ transfers' = [transfers EXCEPT ![p] = made]
  <2>1. /\ [transfers[p] EXCEPT !.late = TRUE] \in TransferRecord
        /\ [transfers[p] EXCEPT !.state = "DEBITED", !.moved = TRUE] \in TransferRecord
        /\ \A state \in States : [transfers[p] EXCEPT !.state = state] \in TransferRecord
    BY <1>1 DEF TransferRecord, States
  <2>2. /\ [transfers[p] EXCEPT !.late = TRUE].quote = transfers[p].quote
        /\ [transfers[p] EXCEPT !.state = "DEBITED", !.moved = TRUE].quote = transfers[p].quote
        /\ \A state \in States :
              [transfers[p] EXCEPT !.state = state].quote = transfers[p].quote
    BY <1>1 DEF TransferRecord
  <2>3. {"FAILED", "PAID", "REFUNDED"} \subseteq States
    BY DEF States, Released
  <2>4. CASE DeadlinePasses(p)
    BY <2>1, <2>2, <2>4 DEF DeadlinePasses
  <2>5. CASE Debit(p)
    BY <2>1, <2>2, <2>5 DEF Debit
  <2>6. CASE Fail(p) \/ Pay(p) \/ Refund(p)
    BY <2>1, <2>2, <2>3, <2>6 DEF Fail, Pay, Refund, SetState
  <2>7. QED
    BY <2>4, <2>5, <2>6
<1>5. QED
  BY <1>1, <1>3, <1>4, TransfersMove DEF AdmissionInv, AdmissionTypeOK

\* So does a claim, whatever became of the transfer that it is for.
LEMMA ClaimsMove ==
  ASSUME AdmissionInv, NEW p \in Posts, Claim(p)
  PROVE  \/ UNCHANGED transfers
         \/ \E r \in Transfers : \E made \in TransferRecord :
               /\ made.quote = transfers[r].quote
               /\ transfers' = [transfers EXCEPT ![r] = made]
<1>1. CASE UNCHANGED transfers
  BY <1>1
<1>2. CASE ~UNCHANGED transfers
  <2>1. PICK claim \in {"in time", "late"} :
            transfers' = [transfers EXCEPT ![p] = [@ EXCEPT !.claim = claim]]
    BY <1>2 DEF Claim
  <2>2. p \in Transfers /\ transfers[p] \in TransferRecord
    BY <1>2 DEF Claim, Transfers, AdmissionInv, AdmissionTypeOK
  <2>3. /\ [transfers[p] EXCEPT !.claim = claim] \in TransferRecord
        /\ [transfers[p] EXCEPT !.claim = claim].quote = transfers[p].quote
    BY <2>2 DEF TransferRecord
  <2>4. QED
    BY <2>1, <2>2, <2>3
<1>3. QED
  BY <1>1, <1>2

\* What the user asks for, and what comes of it, keeps all of it.
LEMMA AdmissionInvStep == AdmissionInv /\ [Next]_vars => AdmissionInv'
<1> SUFFICES ASSUME AdmissionInv, Admit \/ UNCHANGED admission PROVE AdmissionInv'
  BY Frames
<1>1. AdmissionTypeOK
  BY DEF AdmissionInv
<1>2. ASSUME NEW s \in Submits, NEW p \in Posts, Submit(s, p)
      PROVE  AdmissionInv'
  <2>1. /\ UNCHANGED <<quotes, posting, posted, bound, safe, day>>
        /\ submitting' \in [Submits -> Posts \cup {None}]
        /\ Claim(p) \/ UNCHANGED transfers
    BY <1>1, <1>2 DEF Submit, AdmissionTypeOK
  <2>2. QED
    BY <1>1, <2>1, ClaimsMove, TransfersMove DEF AdmissionTypeOK
<1>3. ASSUME NEW s \in Submits, Verified(s)
      PROVE  AdmissionInv'
  <2>1. /\ UNCHANGED <<quotes, posting, posted, bound, safe, day>>
        /\ submitting' \in [Submits -> Posts \cup {None}]
        /\ submitting[s] \in Posts
        /\ Claim(submitting[s]) \/ UNCHANGED transfers
    BY <1>1, <1>3 DEF Verified, AdmissionTypeOK
  <2>2. QED
    BY <1>1, <2>1, ClaimsMove, TransfersMove DEF AdmissionTypeOK
<1>4. CASE BindAuthorizer
  <2>1. bound' \in BOOLEAN
    BY <1>4 DEF BindAuthorizer
  <2>2. QED
    BY <1>1, <1>4, <2>1, TransfersMove DEF BindAuthorizer, AdmissionTypeOK
<1>5. CASE Midnight
  <2>1. day' \in 0..MaxDay
    BY <1>1, <1>5, AdmissionAssumption DEF Midnight, AdmissionTypeOK
  <2>2. AdmissionTypeOK'
    BY <1>1, <1>5, <2>1 DEF Midnight, AdmissionTypeOK
  <2>3. QED
    BY <1>5, <2>2 DEF Midnight, AdmissionInv, QuotesConsumed, QuoteSpentOnce, Transfers
<1>6. CASE UNCHANGED admission
  <2>1. UNCHANGED <<quotes, posting, posted, transfers, submitting, bound, safe, day>>
    BY <1>6 DEF admission
  <2>2. QED
    BY <1>1, <2>1, TransfersMove DEF AdmissionTypeOK
<1>7. QED
  BY <1>2, <1>3, <1>4, <1>5, <1>6, QuotesMove, QuotesConsume, TransfersStep DEF Admit

\* QuoteSpentOnce always holds: of two requests with one quote at most one makes a
\* transfer, however their awaits of the balance overlap.
THEOREM QuoteIsSpentOnce == Spec => []QuoteSpentOnce
<1>1. AdmissionInv => QuoteSpentOnce
  BY DEF AdmissionInv
<1>2. QED
  BY <1>1, AdmissionInvInit, AdmissionInvStep, PTL DEF Spec

(***************************************************************************)
(* The budget of a day.  It is drawn from when a transfer is made, in the  *)
(* turn that checks it, and by nothing else.                               *)
(***************************************************************************)
Spent(d) == Units(AmountsOf(Spending(d)))
CapInv == \A d \in 0..MaxDay : IsFiniteSet(Spent(d)) /\ Cardinality(Spent(d)) <= DailyCap

\* The units a day's transfers take, one by one.
LEMMA SpentUnits ==
  ASSUME NEW d
  PROVE  Spent(d) = UNION {{p} \X (1..AmountOf(p)) : p \in Spending(d)}
  BY DEF Spent, Units, AmountsOf

\* The units of one x.
LEMMA UnitsOfOne ==
  ASSUME NEW x, NEW n \in Nat
  PROVE  IsFiniteSet({x} \X (1..n)) /\ Cardinality({x} \X (1..n)) = n
<1>1. IsFiniteSet({x}) /\ Cardinality({x}) = 1
  BY FS_Singleton
<1>2. IsFiniteSet(1..n) /\ Cardinality(1..n) = n
  BY FS_Interval
<1>3. /\ IsFiniteSet({x} \X (1..n))
      /\ Cardinality({x} \X (1..n)) = Cardinality({x}) * Cardinality(1..n)
  BY <1>1, <1>2, FS_Product
<1>4. QED
  BY <1>1, <1>2, <1>3

LEMMA CapInvInit == Init => CapInv
<1> SUFFICES ASSUME AdmissionInit PROVE CapInv
  BY PartsInit
<1>1. Transfers = {}
  BY DEF AdmissionInit, Transfers, NoTransfer
<1>2. ASSUME NEW d \in 0..MaxDay
      PROVE  IsFiniteSet(Spent(d)) /\ Cardinality(Spent(d)) <= DailyCap
  <2>1. Spent(d) = {}
    BY <1>1, SpentUnits DEF Spending
  <2>2. QED
    BY <2>1, FS_EmptySet, AdmissionAssumption
<1>3. QED
  BY <1>2 DEF CapInv

\* A transfer that keeps its quote and its day, and is not put back from failed or
\* refunded, takes no more than it did.
LEMMA CapKept ==
  ASSUME CapInv,
         \A p \in Transfers' :
            /\ p \in Transfers /\ transfers'[p].quote = transfers[p].quote
            /\ transfers'[p].day = transfers[p].day
            /\ transfers[p].state \in Released => transfers'[p].state \in Released
  PROVE  CapInv'
<1>1. ASSUME NEW d \in 0..MaxDay
      PROVE  /\ IsFiniteSet(Spent(d)) /\ Cardinality(Spent(d)) <= DailyCap
             /\ Spent(d)' \subseteq Spent(d)
  <2>1. \A p \in Spending(d)' : p \in Spending(d) /\ AmountOf(p)' = AmountOf(p)
    BY DEF Spending, AmountOf
  <2>2. Spent(d)' = UNION {{p} \X (1..AmountOf(p)') : p \in Spending(d)'}
    BY DEF Spent, Units, AmountsOf
  <2>3. QED
    BY <1>1, <2>1, <2>2, SpentUnits DEF CapInv
<1>2. ASSUME NEW d \in 0..MaxDay
      PROVE  IsFiniteSet(Spent(d)') /\ Cardinality(Spent(d)') <= DailyCap
  <2>1. /\ IsFiniteSet(Spent(d)')
        /\ Cardinality(Spent(d)') <= Cardinality(Spent(d))
    BY <1>1, FS_Subset
  <2>2. Cardinality(Spent(d)) \in Nat /\ Cardinality(Spent(d)') \in Nat /\ DailyCap \in Nat
    BY <1>1, <2>1, FS_CardinalityType, AdmissionAssumption
  <2>3. QED
    BY <1>1, <2>1, <2>2
<1>3. QED
  BY <1>2 DEF CapInv

\* A new transfer takes its amount out of what the day has left.
LEMMA CapDrawn ==
  ASSUME AdmissionInv, CapInv, NEW p \in Posts, PostAnswered(p)
  PROVE  CapInv'
<1> DEFINE q == posting[p]
           made == [NoTransfer EXCEPT !.state = "CREATED", !.quote = q, !.day = day]
<1>1. CASE UNCHANGED transfers
  BY <1>1, CapKept DEF Transfers
<1>2. CASE transfers' = [transfers EXCEPT ![p] = made] /\ CapAllows(Amount[q])
  <2>1. q \in Quotes /\ day \in 0..MaxDay
    BY Zenon DEF PostAnswered, AdmissionInv, AdmissionTypeOK
  <2>2. Amount[q] \in Nat /\ DailyCap \in Nat
    BY <2>1, AdmissionAssumption
  <2>3. made.day = day /\ made.quote = q
    BY DEF NoTransfer
  <2> HIDE DEF made, q
  <2>4. /\ transfers'[p].quote = q /\ transfers'[p].day = day
        /\ \A r \in Posts \ {p} : transfers'[r] = transfers[r]
    BY <1>2, <2>3 DEF AdmissionInv, AdmissionTypeOK
  <2>5. ASSUME NEW d \in 0..MaxDay
        PROVE  /\ Spent(d)' \subseteq Spent(d) \cup ({p} \X (1..Amount[q]))
               /\ d # day => Spent(d)' \subseteq Spent(d)
    <3>1. \A r \in Spending(d)' : \/ r = p /\ d = day /\ AmountOf(r)' = Amount[q]
                                  \/ r \in Spending(d) /\ AmountOf(r)' = AmountOf(r)
      BY <2>4 DEF Spending, Transfers, AmountOf
    <3>2. Spent(d)' = UNION {{r} \X (1..AmountOf(r)') : r \in Spending(d)'}
      BY DEF Spent, Units, AmountsOf
    <3>3. QED
      BY <3>1, <3>2, SpentUnits
  <2>6. ASSUME NEW d \in 0..MaxDay
        PROVE  IsFiniteSet(Spent(d)') /\ Cardinality(Spent(d)') <= DailyCap
    <3>1. IsFiniteSet(Spent(d)) /\ Cardinality(Spent(d)) \in Nat
      BY FS_CardinalityType DEF CapInv
    <3>2. CASE d # day
      <4>1. IsFiniteSet(Spent(d)') /\ Cardinality(Spent(d)') <= Cardinality(Spent(d))
        BY <2>5, <3>1, <3>2, FS_Subset
      <4>2. Cardinality(Spent(d)') \in Nat /\ Cardinality(Spent(d)) <= DailyCap
        BY <4>1, FS_CardinalityType DEF CapInv
      <4>3. QED
        BY <2>2, <3>1, <4>1, <4>2
    <3>3. CASE d = day
      <4> DEFINE new == {p} \X (1..Amount[q])
      <4>1. IsFiniteSet(new) /\ Cardinality(new) = Amount[q]
        BY <2>2, UnitsOfOne
      <4>2. Spent(d)' \subseteq Spent(d) \cup new
        BY <2>5
      <4> HIDE DEF new
      <4>3. /\ IsFiniteSet(Spent(d) \cup new)
            /\ Cardinality(Spent(d) \cup new)
                 = Cardinality(Spent(d)) + Cardinality(new) - Cardinality(Spent(d) \cap new)
        BY <3>1, <4>1, FS_Union
      <4>4. Cardinality(Spent(d) \cap new) \in Nat
        BY <3>1, FS_Subset, FS_CardinalityType
      <4>5. /\ IsFiniteSet(Spent(d)')
            /\ Cardinality(Spent(d)') <= Cardinality(Spent(d) \cup new)
        BY <4>2, <4>3, FS_Subset
      <4>6. /\ Cardinality(Spent(d)') \in Nat
            /\ Cardinality(Spent(d) \cup new) \in Nat
        BY <4>3, <4>5, FS_CardinalityType
      <4>7. Cardinality(Spent(d)) + Amount[q] <= DailyCap
        BY <1>2, <3>3 DEF CapAllows, UsedToday, Total, Spent
      <4>8. QED
        BY <2>2, <3>1, <4>1, <4>3, <4>4, <4>5, <4>6, <4>7
    <3>4. QED
      BY <3>2, <3>3
  <2>7. QED
    BY <2>6 DEF CapInv
<1>3. QED
  BY <1>1, <1>2 DEF PostAnswered

\* Nothing else draws on the budget: transfers go on, fail or are refunded.
LEMMA CapInvStep == AdmissionInv /\ CapInv /\ [Next]_vars => CapInv'
<1> SUFFICES ASSUME AdmissionInv, CapInv, Admit \/ UNCHANGED admission PROVE CapInv'
  BY Frames
<1>1. CASE UNCHANGED transfers
  BY <1>1, CapKept DEF Transfers
<1>2. ASSUME NEW p \in Posts, NEW made,
             transfers' = [transfers EXCEPT ![p] = made],
             made.quote = transfers[p].quote, made.day = transfers[p].day,
             made.state # "none" => transfers[p].state # "none",
             transfers[p].state \in Released => made.state \in Released
      PROVE  CapInv'
  <2>1. /\ transfers'[p] = made
        /\ \A r \in Posts \ {p} : transfers'[r] = transfers[r]
    BY <1>2 DEF AdmissionInv, AdmissionTypeOK
  <2>2. QED
    BY <1>2, <2>1, CapKept DEF Transfers
<1>3. ASSUME NEW p \in Posts, Claim(p)
      PROVE  CapInv'
  <2>1. CASE UNCHANGED transfers
    BY <1>1, <2>1
  <2>2. CASE ~UNCHANGED transfers
    <3>1. PICK claim \in {"in time", "late"} :
              transfers' = [transfers EXCEPT ![p] = [@ EXCEPT !.claim = claim]]
      BY <1>3, <2>2 DEF Claim
    <3>2. transfers[p] \in TransferRecord
      BY DEF AdmissionInv, AdmissionTypeOK
    <3>3. /\ [transfers[p] EXCEPT !.claim = claim].quote = transfers[p].quote
          /\ [transfers[p] EXCEPT !.claim = claim].day = transfers[p].day
          /\ [transfers[p] EXCEPT !.claim = claim].state = transfers[p].state
      BY <3>2 DEF TransferRecord
    <3>4. transfers[p].state = "CREATED" /\ "CREATED" \notin Released
      BY <1>3, <2>2 DEF Claim, Released
    <3> DEFINE made == [transfers[p] EXCEPT !.claim = claim]
    <3>5. transfers' = [transfers EXCEPT ![p] = made]
      BY <3>1
    <3>6. /\ made.quote = transfers[p].quote /\ made.day = transfers[p].day
          /\ made.state = transfers[p].state
      BY <3>3
    <3> HIDE DEF made
    <3>7. QED
      BY <1>2, <3>4, <3>5, <3>6
  <2>3. QED
    BY <2>1, <2>2
<1>4. ASSUME NEW p \in Posts,
             \/ DeadlinePasses(p) \/ Debit(p) \/ Fail(p) \/ Pay(p) \/ Refund(p)
      PROVE  CapInv'
  <2>1. transfers[p] \in TransferRecord
    BY DEF AdmissionInv, AdmissionTypeOK
  <2>2. CASE DeadlinePasses(p)
    <3>1. /\ [transfers[p] EXCEPT !.late = TRUE].quote = transfers[p].quote
          /\ [transfers[p] EXCEPT !.late = TRUE].day = transfers[p].day
          /\ [transfers[p] EXCEPT !.late = TRUE].state = transfers[p].state
      BY <2>1 DEF TransferRecord
    <3>2. QED
      BY <1>2, <2>2, <3>1 DEF DeadlinePasses
  <2>3. CASE Debit(p)
    <3> DEFINE made == [transfers[p] EXCEPT !.state = "DEBITED", !.moved = TRUE]
    <3>1. /\ made.quote = transfers[p].quote /\ made.day = transfers[p].day
          /\ transfers[p].state = "CREATED"
      BY <2>1, <2>3 DEF TransferRecord, Debit
    <3>2. transfers' = [transfers EXCEPT ![p] = made]
      BY <2>3 DEF Debit
    <3>3. "CREATED" \notin Released /\ "CREATED" # "none"
      BY DEF Released
    <3> HIDE DEF made
    <3>4. QED
      BY <1>2, <3>1, <3>2, <3>3
  <2>4. CASE Fail(p) \/ Pay(p) \/ Refund(p)
    <3>1. PICK state \in {"FAILED", "PAID", "REFUNDED"} :
              /\ transfers' = [transfers EXCEPT ![p] = [@ EXCEPT !.state = state]]
              /\ transfers[p].state # "none"
              /\ transfers[p].state \in Released => state \in Released
      BY <2>4 DEF Fail, Pay, Refund, SetState, Released
    <3>2. /\ [transfers[p] EXCEPT !.state = state].quote = transfers[p].quote
          /\ [transfers[p] EXCEPT !.state = state].day = transfers[p].day
          /\ [transfers[p] EXCEPT !.state = state].state = state
      BY <2>1 DEF TransferRecord
    <3>3. QED
      BY <1>2, <3>1, <3>2
  <2>5. QED
    BY <1>4, <2>2, <2>3, <2>4
<1>5. ASSUME NEW s \in Submits, Verified(s)
      PROVE  CapInv'
  <2>1. submitting[s] \in Posts /\ (Claim(submitting[s]) \/ UNCHANGED transfers)
    BY <1>5 DEF Verified, AdmissionInv, AdmissionTypeOK
  <2>2. QED
    BY <1>1, <1>3, <2>1
<1>6. ASSUME NEW s \in Submits, NEW p \in Posts, Submit(s, p)
      PROVE  CapInv'
  <2>1. Claim(p) \/ UNCHANGED transfers
    BY <1>6, Zenon DEF Submit
  <2>2. QED
    BY <1>1, <1>3, <2>1
<1>7. ASSUME \/ \E q \in Quotes : AskQuote(q) \/ QuoteAnswered(q) \/ QuoteLapses(q)
             \/ \E p \in Posts, q \in Quotes : PostLapsed(p, q) \/ Post(p, q)
             \/ BindAuthorizer \/ Midnight \/ UNCHANGED admission
      PROVE  UNCHANGED transfers
  BY <1>7, Zenon
  DEF AskQuote, QuoteAnswered, QuoteLapses, PostLapsed, Post, BindAuthorizer, Midnight,
      admission
<1>8. QED
  BY <1>1, <1>4, <1>5, <1>6, <1>7, CapDrawn, Zenon DEF Admit

\* CapIsKept always holds: what the transfers of one day take, and have not given
\* back by failing, is within the daily cap, however many requests overlap.
THEOREM DailyCapHolds == Spec => []CapIsKept
<1>1. CapInv => CapIsKept
  BY DEF CapInv, CapIsKept, Spent, Total
<1>2. QED
  BY <1>1, AdmissionInvInit, AdmissionInvStep, CapInvInit, CapInvStep, PTL DEF Spec

-----------------------------------------------------------------------------
(***************************************************************************)
(* Opening.  The account only ever moves to the Safe of a later passkey,   *)
(* so that Monerium is asked for the IBANs of Safes that were it.  What an *)
(* activation has read and what a poll has found was issued, and an IBAN   *)
(* that was issued stays so.  What is shown and what a poll asks for is of *)
(* the account itself, unless it has moved on since.                       *)
(***************************************************************************)
AccountTypeOK == kyc \in Standings /\ active \in BOOLEAN /\ OnboardingTypeOK

RoutingInv ==
    /\ address <= passkey
    /\ \A w \in Activations : /\ activation[w].at = "linking" => address > 0
                              /\ activation[w].seen \subseteq issued \cup {Stranger}
    /\ \A c \in Completions : completion[c].at = "deploying" => completion[c].safe > 0
    /\ polling.asks <= address
    /\ polling.found => polling.asks \in issued
    /\ iban # NoIban => iban \in issued /\ iban <= address

SettledInv ==
    ~moved => /\ iban # NoIban => iban = address
              /\ polling.asks # 0 => polling.asks = address

\* The account is without an IBAN at first, and nothing is under way.
LEMMA AccountInvInit == Init => AccountTypeOK /\ RoutingInv /\ SettledInv
<1> SUFFICES ASSUME Init PROVE AccountTypeOK /\ RoutingInv /\ SettledInv
  OBVIOUS
<1>1. OnboardingInit /\ kyc \in {"pending", "approved"}
  BY PartsInit DEF Init
<1>2. active \in BOOLEAN
  BY Zenon DEF Init
<1>3. passkey \in {0, 1} /\ address = passkey
  BY <1>1 DEF OnboardingInit
<1>4. /\ passkey \in 0..MaxPasskeys /\ deployed \subseteq Safes /\ Safes \subseteq Int
  BY <1>1, <1>3, OnboardingAssumption DEF OnboardingInit, Safes
<1>5. setting \in [meets : BOOLEAN]
  BY <1>1 DEF OnboardingInit
<1>6. /\ activation \in [Activations -> [at : {"idle", "linking", "reading", "answering"},
                                viaApp : BOOLEAN, seen : SUBSET (Safes \cup {Stranger})]]
      /\ \A w \in Activations : activation[w].at = "idle" /\ activation[w].seen = {}
  BY <1>1 DEF OnboardingInit, Idle
<1>7. /\ polling \in [asks : 0..MaxPasskeys, found : BOOLEAN]
      /\ polling.asks = 0 /\ polling.found = FALSE
  BY <1>1, OnboardingAssumption DEF OnboardingInit
<1>8. /\ hooks \in [Hooks -> {"sent", "approved", "rejected", "manual_review", "done"}]
      /\ completion \in [Completions -> [at : {"idle", "deploying", "granting", "done"},
                                         safe : 0..MaxPasskeys]]
      /\ \A c \in Completions : completion[c].at = "idle"
  BY <1>1, OnboardingAssumption DEF OnboardingInit
<1>9. RoutingInv
  BY <1>1, <1>3, <1>6, <1>7, <1>8 DEF OnboardingInit, RoutingInv
<1>10. {connected, oauth, exchanging} \subseteq BOOLEAN /\ faucet \in BOOLEAN
  BY <1>1, Zenon DEF OnboardingInit
<1>11. /\ iban = NoIban /\ funding \in FundingStatus /\ provisioning = 0 /\ moved \in BOOLEAN
       /\ linked = {} /\ issued = {} /\ reviews = 0 /\ connects = 0
  BY <1>1, Zenon DEF OnboardingInit, FundingStatus
<1>12. OnboardingTypeOK
  BY <1>3, <1>4, <1>5, <1>6, <1>7, <1>8, <1>10, <1>11, OnboardingAssumption
  DEF OnboardingTypeOK
<1>13. SettledInv
  BY <1>7, <1>11 DEF SettledInv
<1>14. QED
  BY <1>1, <1>2, <1>9, <1>12, <1>13 DEF AccountTypeOK, Standings, Decisions

\* A decision sets the standing, and may take the IBAN away.
LEMMA DecisionsDecide ==
  ASSUME AccountTypeOK, NEW d \in Decisions, Decide(d)
  PROVE  /\ kyc' \in Standings /\ funding' \in FundingStatus /\ provisioning' \in Nat
         /\ iban' \in {iban, NoIban}
<1>1. CASE d = "approved"
  <2>1. \/ funding' = "error" /\ iban' = NoIban /\ provisioning' = provisioning + 0
        \/ funding' = "provisioning" /\ iban' = iban /\ provisioning' = provisioning + 1
    <3>1. CASE CustodyBlocked
      BY <1>1, <3>1, Zenon DEF Decide, fundableUserPatch, queueSandboxProvisioning
    <3>2. CASE ~CustodyBlocked
      BY <1>1, <3>2, Zenon DEF Decide, fundableUserPatch, queueSandboxProvisioning
    <3>3. QED
      BY <3>1, <3>2
  <2>2. QED
    BY <2>1 DEF Decide, Standings, FundingStatus, AccountTypeOK, OnboardingTypeOK
<1>2. CASE d # "approved"
  BY <1>2 DEF Decide, Standings, FundingStatus, AccountTypeOK, OnboardingTypeOK
<1>3. QED
  BY <1>1, <1>2

\* Reviews and what runs in the background leave the account and Monerium alone.
LEMMA ReviewsKeep ==
  ASSUME AccountTypeOK, RoutingInv, SettledInv,
         \/ \E d \in Decisions : Review(d) \/ \E h \in Hooks : HookArrives(h, d)
         \/ \E h \in Hooks : HookDecides(h)
         \/ Provisioned \/ ChoosePath
  PROVE  AccountTypeOK' /\ RoutingInv' /\ SettledInv'
<1>1. /\ UNCHANGED <<setting, person, monerium, activation, polling, granting, connects>>
  BY Zenon DEF Review, HookArrives, HookDecides, Provisioned, ChoosePath
<1>2. hooks' \in [Hooks -> {"sent", "approved", "rejected", "manual_review", "done"}]
  <2>1. CASE UNCHANGED hooks
    BY <2>1 DEF AccountTypeOK, OnboardingTypeOK
  <2>2. CASE \E h \in Hooks : \E at \in Decisions \cup {"done"} :
                hooks' = [hooks EXCEPT ![h] = at]
    BY <2>2 DEF AccountTypeOK, OnboardingTypeOK, Decisions
  <2>3. QED
    BY <2>1, <2>2, Zenon DEF Review, HookArrives, HookDecides, Provisioned, ChoosePath
<1>3. reviews' \in 0..MaxReviews
  <2>1. reviews' = reviews \/ (reviews < MaxReviews /\ reviews' = reviews + 1)
    BY Zenon DEF Review, HookArrives, HookDecides, Provisioned, ChoosePath
  <2>2. QED
    BY <2>1, OnboardingAssumption DEF AccountTypeOK, OnboardingTypeOK
<1>4. /\ kyc' \in Standings /\ funding' \in FundingStatus /\ provisioning' \in Nat
      /\ iban' \in {iban, NoIban}
  <2>1. CASE UNCHANGED <<kyc, routing, provisioning>>
    BY <2>1 DEF routing, AccountTypeOK, OnboardingTypeOK
  <2>2. CASE Provisioned
    BY <2>2 DEF Provisioned, AccountTypeOK, OnboardingTypeOK, FundingStatus
  <2>3. CASE ChoosePath
    BY <2>3 DEF ChoosePath, AccountTypeOK, OnboardingTypeOK, FundingStatus
  <2>4. CASE \E d \in Decisions : Decide(d)
    BY <2>4, DecisionsDecide
  <2>5. QED
    BY <2>1, <2>2, <2>3, <2>4 DEF Review, HookArrives, HookDecides
<1>5. UNCHANGED moved
  BY Zenon DEF Review, HookArrives, HookDecides, Provisioned, ChoosePath, Decide, routing
<1>6. RoutingInv' /\ SettledInv'
  BY <1>1, <1>4, <1>5 DEF RoutingInv, SettledInv, person, monerium, granting
<1>7. AccountTypeOK'
  BY <1>1, <1>2, <1>3, <1>4, <1>5
  DEF AccountTypeOK, OnboardingTypeOK, person, monerium, granting
<1>8. QED
  BY <1>6, <1>7
\* A passkey is registered, and the Safe of the latest one becomes the account.
LEMMA SafesKeep ==
  ASSUME AccountTypeOK, RoutingInv, SettledInv,
         \/ RegisterPasskey \/ AdoptDeployed
         \/ \E c \in Completions :
               Complete(c) \/ Completed(c) \/ CompletionFails(c) \/ FaucetAnswers(c)
  PROVE  AccountTypeOK' /\ RoutingInv' /\ SettledInv'
<1> USE DEF AccountTypeOK, OnboardingTypeOK
<1>1. /\ UNCHANGED <<kyc, setting, connected, oauth, exchanging, iban, monerium, activation,
                     provisioning, polling, hooks, reviews, connects>>
  BY Zenon DEF RegisterPasskey, AdoptDeployed, Complete, Completed, CompletionFails,
               FaucetAnswers, Settles, person, routing, monerium, granting
<1>2. active' \in BOOLEAN
  BY Zenon DEF RegisterPasskey, AdoptDeployed, Complete, Completed, CompletionFails,
               FaucetAnswers, Settles, person
<1>3. faucet' \in BOOLEAN
  BY Zenon DEF RegisterPasskey, AdoptDeployed, Complete, Completed, CompletionFails,
               FaucetAnswers, granting, FaucetClaims
<1>4. /\ passkey' \in 0..MaxPasskeys /\ passkey <= passkey'
      /\ address' \in {address, passkey}
  <2>1. \/ passkey < MaxPasskeys /\ passkey' = passkey + 1 /\ address' = address
        \/ passkey' = passkey /\ address' \in {address, passkey}
    BY Zenon DEF RegisterPasskey, AdoptDeployed, Complete, Completed, CompletionFails,
                 FaucetAnswers, Settles, person
  <2>2. QED
    BY <2>1, OnboardingAssumption
<1>5. funding' \in FundingStatus
  <2>1. funding' \in {funding, "provisioning"}
    BY Zenon DEF RegisterPasskey, AdoptDeployed, Complete, Completed, CompletionFails,
                 FaucetAnswers, routing
  <2>2. QED
    BY <2>1 DEF FundingStatus
<1>6. completion' \in [Completions -> [at : {"idle", "deploying", "granting", "done"},
                                       safe : 0..MaxPasskeys]]
  <2>1. CASE UNCHANGED completion
    BY <2>1
  <2>2. CASE \E c \in Completions : Complete(c) \/ CompletionFails(c)
    BY <2>2, OnboardingAssumption DEF Complete, CompletionFails
  <2>3. CASE \E c \in Completions : Completed(c) \/ FaucetAnswers(c)
    <3>1. \E c \in Completions : \E at \in {"granting", "done"} :
             completion' = [completion EXCEPT ![c].at = at]
      BY <2>3, Zenon DEF Completed, FaucetAnswers, FaucetClaims
    <3>2. QED
      BY <3>1
  <2>4. QED
    BY <2>1, <2>2, <2>3, Zenon DEF RegisterPasskey, AdoptDeployed, granting
<1>7. deployed' \subseteq Safes
  <2>1. CASE UNCHANGED deployed
    BY <2>1
  <2>2. ASSUME NEW c \in Completions, completion[c].at = "deploying",
               deployed' \in {deployed, deployed \cup {completion[c].safe}}
        PROVE  deployed' \subseteq Safes
    <3>1. completion[c].safe \in Safes
      BY <2>2 DEF RoutingInv, Safes
    <3>2. QED
      BY <2>2, <3>1
  <2>3. QED
    BY <2>1, <2>2, Zenon DEF RegisterPasskey, AdoptDeployed, Complete, Completed,
                             CompletionFails, FaucetAnswers, person
<1>8. \A c \in Completions : completion'[c].at = "deploying" => completion'[c].safe > 0
  <2>1. CASE UNCHANGED completion
    BY <2>1 DEF RoutingInv
  <2>2. CASE \E c \in Completions : Complete(c) \/ CompletionFails(c)
    BY <2>2 DEF Complete, CompletionFails, RoutingInv
  <2>3. CASE \E c \in Completions : Completed(c) \/ FaucetAnswers(c)
    <3>1. \E c \in Completions : \E at \in {"granting", "done"} :
             completion' = [completion EXCEPT ![c].at = at]
      BY <2>3, Zenon DEF Completed, FaucetAnswers, FaucetClaims
    <3>2. QED
      BY <3>1 DEF RoutingInv
  <2>4. QED
    BY <2>1, <2>2, <2>3, Zenon DEF RegisterPasskey, AdoptDeployed, granting
<1>9. RoutingInv'
  <2>1. /\ {address, address', passkey, passkey', iban} \subseteq Int /\ polling.asks \in Int
        /\ passkey' <= MaxPasskeys /\ MaxPasskeys \in Int
    BY <1>4, OnboardingAssumption DEF Safes, NoIban, Stranger
  <2>2. address <= address' /\ address' <= passkey'
    BY <1>4, <2>1 DEF RoutingInv
  <2>3. UNCHANGED <<iban, issued, activation, polling>>
    BY <1>1 DEF monerium
  <2>4. QED
    BY <1>8, <2>1, <2>2, <2>3 DEF RoutingInv
<1>10. /\ moved' \in BOOLEAN
       /\ \/ UNCHANGED <<moved, address>>
          \/ ~moved' => ~moved /\ (address' = address \/ (iban = NoIban /\ polling.asks = 0))
  <2>1. CASE UNCHANGED <<moved, address>>
    BY <2>1
  <2>2. CASE Settles
    <3>1. moved' = (moved \/ (address # passkey /\ (iban # NoIban \/ polling.asks # 0)))
      BY <2>2, Zenon DEF Settles
    <3>2. address' = passkey
      BY <2>2 DEF Settles
    <3>3. QED
      BY <3>1, <3>2, Zenon
  <2>3. QED
    BY <2>1, <2>2, Zenon DEF RegisterPasskey, AdoptDeployed, Complete, Completed,
                             CompletionFails, FaucetAnswers, person, routing
<1>11. SettledInv'
  BY <1>1, <1>10 DEF SettledInv
<1>12. AccountTypeOK'
  BY <1>1, <1>2, <1>3, <1>4, <1>5, <1>6, <1>7, <1>10 DEF monerium
<1>13. QED
  BY <1>9, <1>11, <1>12

\* The user's connection to Monerium is not the account's.
LEMMA ConnectionsKeep ==
  ASSUME AccountTypeOK, RoutingInv, SettledInv,
         ConnectStart \/ Callback \/ Disconnect \/ \E succeeds \in BOOLEAN : CallbackEnds(succeeds)
  PROVE  AccountTypeOK' /\ RoutingInv' /\ SettledInv'
<1> USE DEF AccountTypeOK, OnboardingTypeOK
<1>1. UNCHANGED <<kyc, setting, passkey, active, address, deployed, iban, monerium,
                  activation, provisioning, polling, hooks, granting, reviews>>
  BY Zenon DEF ConnectStart, Callback, Disconnect, CallbackEnds, routing
<1>2. connected' \in BOOLEAN /\ oauth' \in BOOLEAN /\ exchanging' \in BOOLEAN
  <2>1. CASE ConnectStart
    BY <2>1, Zenon DEF ConnectStart
  <2>2. CASE Callback
    BY <2>2, Zenon DEF Callback
  <2>3. CASE Disconnect
    BY <2>3, Zenon DEF Disconnect
  <2>4. ASSUME NEW succeeds \in BOOLEAN, CallbackEnds(succeeds)
        PROVE  connected' \in BOOLEAN /\ oauth' \in BOOLEAN /\ exchanging' \in BOOLEAN
    BY <2>4 DEF CallbackEnds
  <2>5. QED
    BY <2>1, <2>2, <2>3, <2>4
<1>3. funding' \in FundingStatus
  <2>1. funding' \in {funding, "kyc_pending", "provisioning"}
    BY Zenon DEF ConnectStart, Callback, Disconnect, CallbackEnds, routing
  <2>2. QED
    BY <2>1 DEF FundingStatus
<1>4. connects' \in 0..MaxConnects
  <2>1. connects' = connects \/ (connects < MaxConnects /\ connects' = connects + 1)
    BY Zenon DEF ConnectStart, Callback, Disconnect, CallbackEnds
  <2>2. QED
    BY <2>1, OnboardingAssumption
<1>5. UNCHANGED moved
  BY Zenon DEF ConnectStart, Callback, Disconnect, CallbackEnds, routing
<1>6. RoutingInv' /\ SettledInv'
  BY <1>1, <1>5 DEF RoutingInv, SettledInv, monerium, granting
<1>7. {connected', oauth', exchanging'} \subseteq BOOLEAN
  BY <1>2, Zenon
<1>8. AccountTypeOK'
  BY <1>1, <1>3, <1>4, <1>5, <1>7 DEF monerium, granting
<1>9. QED
  BY <1>6, <1>8
\* What an activation and a poll have heard of Monerium was issued.
LEMMA ActivationsKeep ==
  ASSUME AccountTypeOK, RoutingInv, SettledInv,
         \/ \E w \in Activations :
               Activate(w) \/ RenewsToken(w) \/ Links(w) \/ LinkFails(w) \/ ReadsSnapshot(w)
                 \/ Activated(w)
         \/ \E s \in Safes : Issue(s)
         \/ Polls \/ Polled
  PROVE  AccountTypeOK' /\ RoutingInv' /\ SettledInv'
<1> USE DEF AccountTypeOK, OnboardingTypeOK
<1> DEFINE Wheres == {"idle", "linking", "reading", "answering"}
           Walks == [at : Wheres, viaApp : BOOLEAN, seen : SUBSET (Safes \cup {Stranger})]
           ActivationsFine ==
               /\ activation' \in [Activations -> Walks]
               /\ \A w \in Activations : /\ activation'[w].at = "linking" => address > 0
                                         /\ activation'[w].seen \subseteq issued \cup {Stranger}
           IbanFine ==
               /\ iban' \in Safes \cup {NoIban, Stranger}
               /\ iban' # NoIban => iban' \in issued /\ iban' <= address
<1>1. /\ UNCHANGED <<setting, passkey, active, address, oauth, exchanging, deployed,
                     provisioning, hooks, granting, reviews, connects>>
  BY Zenon DEF Activate, RenewsToken, Links, LinkFails, ReadsSnapshot, Activated, Issue,
               Polls, Polled, person
<1>2. connected' \in BOOLEAN
  BY Zenon DEF Activate, RenewsToken, Links, LinkFails, ReadsSnapshot, Activated, Issue,
               Polls, Polled, person
<1>3. {connected', oauth', exchanging'} \subseteq BOOLEAN
  BY <1>1, <1>2, Zenon
<1>4. kyc' \in Standings
  BY Zenon DEF Activate, RenewsToken, Links, LinkFails, ReadsSnapshot, Activated, Issue,
               Polls, Polled, Standings, Decisions
<1>5. funding' \in FundingStatus
  <2>1. funding' \in {funding, "error", "active", "iban_pending"}
    BY Zenon DEF Activate, RenewsToken, Links, LinkFails, ReadsSnapshot, Activated, Issue,
                 Polls, Polled, routing
  <2>2. QED
    BY <2>1 DEF FundingStatus
<1>6. /\ linked' \subseteq Safes /\ issued' \subseteq linked' /\ issued \subseteq issued'
  <2>1. CASE UNCHANGED monerium
    BY <2>1 DEF monerium
  <2>2. ASSUME NEW w \in Activations, Links(w)
        PROVE  /\ linked' \subseteq Safes /\ issued' \subseteq linked' /\ issued \subseteq issued'
    <3>1. address \in Safes
      BY <2>2, OnboardingAssumption DEF Links, RoutingInv, Safes
    <3>2. QED
      BY <2>2, <3>1 DEF Links
  <2>3. ASSUME NEW s \in Safes, Issue(s)
        PROVE  /\ linked' \subseteq Safes /\ issued' \subseteq linked' /\ issued \subseteq issued'
    BY <2>3 DEF Issue
  <2>4. QED
    BY <2>1, <2>2, <2>3, Zenon DEF Activate, RenewsToken, LinkFails, ReadsSnapshot,
                                   Activated, Polls, Polled
<1>7. ActivationsFine
  <2>1. CASE UNCHANGED activation
    BY <2>1 DEF RoutingInv
  <2>2. ASSUME NEW w \in Activations, Activate(w)
        PROVE  ActivationsFine
    <3>1. address > 0
      BY <2>2, OnboardingAssumption DEF Activate, CustodyBlocked
    <3>2. activation' = [activation EXCEPT ![w] = [Idle EXCEPT !.at = "linking", !.viaApp = ViaApp]]
      BY <2>2, Zenon DEF Activate
    <3>3. ViaApp = TRUE \/ ViaApp = FALSE
      BY Zenon DEF ViaApp
    <3>4. PICK via \in BOOLEAN :
             activation' = [activation EXCEPT ![w] = [Idle EXCEPT !.at = "linking", !.viaApp = via]]
      BY <3>2, <3>3, Zenon
    <3>5. QED
      BY <3>1, <3>4 DEF RoutingInv, Idle
  <2>3. ASSUME NEW w \in Activations, Links(w)
        PROVE  ActivationsFine
    BY <2>3 DEF Links, RoutingInv
  <2>4. ASSUME NEW w \in Activations, LinkFails(w) \/ Activated(w)
        PROVE  ActivationsFine
    <3>1. activation' = [activation EXCEPT ![w] = Idle]
      BY <2>4, Zenon DEF LinkFails, Activated
    <3>2. QED
      BY <3>1 DEF RoutingInv, Idle
  <2>5. ASSUME NEW w \in Activations, ReadsSnapshot(w)
        PROVE  ActivationsFine
    BY <2>5, <1>6 DEF ReadsSnapshot, RoutingInv
  <2>6. QED
    BY <2>1, <2>2, <2>3, <2>4, <2>5, Zenon DEF RenewsToken, Issue, Polls, Polled
<1>8. /\ polling' \in [asks : 0..MaxPasskeys, found : BOOLEAN]
      /\ polling'.asks <= address
      /\ polling'.found => polling'.asks \in issued
  <2>1. CASE UNCHANGED polling
    BY <2>1 DEF RoutingInv
  <2>2. CASE Polls
    <3>1. CASE address \in issued
      <4>1. polling' = [asks |-> address, found |-> TRUE]
        <5>1. (address \in issued) = TRUE
          BY <3>1, Zenon
        <5>2. QED
          BY <2>2, <5>1, Zenon DEF Polls
      <4>2. QED
        BY <3>1, <4>1, OnboardingAssumption
    <3>2. CASE address \notin issued
      <4>1. polling' = [asks |-> address, found |-> FALSE]
        <5>1. (address \in issued) = FALSE
          BY <3>2, SMT
        <5>2. QED
          BY <2>2, <5>1, Zenon DEF Polls
      <4>2. QED
        BY <4>1, OnboardingAssumption
    <3>3. QED
      BY <3>1, <3>2
  <2>3. CASE Polled
    BY <2>3, OnboardingAssumption DEF Polled, RoutingInv
  <2>4. QED
    BY <2>1, <2>2, <2>3, Zenon DEF Activate, RenewsToken, Links, LinkFails, ReadsSnapshot,
                                   Activated, Issue
<1>9. IbanFine
  <2>1. CASE UNCHANGED iban
    BY <2>1 DEF RoutingInv
  <2>2. ASSUME NEW w \in Activations, Activated(w)
        PROVE  IbanFine
    <3>1. iban' = NoIban \/ (iban' = address /\ address \in activation[w].seen)
      BY <2>2 DEF Activated, IbanFor
    <3>2. address # Stranger /\ address <= address
      BY OnboardingAssumption DEF Stranger
    <3>3. QED
      BY <3>1, <3>2 DEF RoutingInv, NoIban
  <2>3. CASE Polled
    <3>1. iban' = iban \/ (polling.found /\ iban' = polling.asks)
      BY <2>3, Zenon DEF Polled, routing
    <3>2. QED
      BY <3>1 DEF RoutingInv
  <2>4. QED
    BY <2>1, <2>2, <2>3, Zenon DEF Activate, RenewsToken, Links, LinkFails, ReadsSnapshot,
                                   Issue, Polls, routing
<1>10. RoutingInv'
  <2>1. UNCHANGED <<passkey, address, completion>>
    BY <1>1 DEF granting
  <2>2. QED
    BY <1>6, <1>7, <1>8, <1>9, <2>1 DEF RoutingInv
<1>11. moved' \in BOOLEAN /\ SettledInv'
  <2>1. CASE UNCHANGED <<moved, iban, polling>>
    BY <1>1, <2>1 DEF SettledInv
  <2>2. ASSUME NEW w \in Activations, Activated(w)
        PROVE  moved' \in BOOLEAN /\ SettledInv'
    <3>1. moved' = (moved /\ polling.asks \notin {0, address}) /\ UNCHANGED polling
      BY <2>2, Zenon DEF Activated
    <3>2. iban' = NoIban \/ iban' = address
      BY <2>2 DEF Activated, IbanFor
    <3>3. moved' \in BOOLEAN
      BY <3>1, Zenon
    <3>4. ~moved' => ~moved \/ polling.asks \in {0, address}
      BY <3>1, Zenon
    <3>5. QED
      BY <1>1, <3>1, <3>2, <3>3, <3>4 DEF SettledInv
  <2>3. CASE Polls
    <3>1. UNCHANGED <<moved, iban>>
      BY <2>3, Zenon DEF Polls, routing
    <3>2. polling'.asks = address
      BY <2>3 DEF Polls
    <3>3. QED
      BY <1>1, <3>1, <3>2 DEF SettledInv
  <2>4. CASE Polled
    <3>1. UNCHANGED moved /\ polling.asks # 0 /\ iban' \in {iban, polling.asks}
      BY <2>4, Zenon DEF Polled, routing
    <3>2. polling'.asks = 0
      BY <2>4 DEF Polled
    <3>3. QED
      BY <1>1, <3>1, <3>2 DEF SettledInv
  <2>5. QED
    BY <2>1, <2>2, <2>3, <2>4, Zenon DEF Activate, RenewsToken, Links, LinkFails,
                                         ReadsSnapshot, Issue, routing
<1>12. AccountTypeOK'
  BY <1>1, <1>3, <1>4, <1>5, <1>6, <1>7, <1>8, <1>9, <1>11 DEF granting
<1>13. QED
  BY <1>10, <1>11, <1>12

\* All of it is kept by every step of the account.
LEMMA AccountInvStep ==
  AccountTypeOK /\ RoutingInv /\ SettledInv /\ [Next]_vars =>
     AccountTypeOK' /\ RoutingInv' /\ SettledInv'
<1> SUFFICES ASSUME AccountTypeOK, RoutingInv, SettledInv,
                    Onboard \/ Reviewed \/ UNCHANGED <<onboarding, kyc>>
             PROVE  AccountTypeOK' /\ RoutingInv' /\ SettledInv'
  BY Frames
<1>1. CASE Onboard
  BY <1>1, ReviewsKeep, SafesKeep, ConnectionsKeep, ActivationsKeep DEF Onboard
<1>2. CASE Reviewed
  BY <1>2, ReviewsKeep DEF Reviewed
<1>3. CASE UNCHANGED <<onboarding, kyc>>
  <2>1. UNCHANGED <<setting, passkey, active, address, connected, oauth, exchanging,
                    deployed, iban, funding, moved, linked, issued, activation, provisioning,
                    polling, hooks, completion, faucet, reviews, connects, kyc>>
    BY <1>3, Zenon DEF onboarding, person, routing, monerium, granting
  <2>2. QED
    BY <2>1 DEF AccountTypeOK, OnboardingTypeOK, RoutingInv, SettledInv
<1>4. QED
  BY <1>1, <1>2, <1>3

\* IbanIsOwn always holds: an IBAN that is shown was issued for a Safe that is the
\* account or was, and for the account itself unless it went on to another Safe
\* while the IBAN was shown or asked for.
THEOREM IbanStaysOwn == Spec => []IbanIsOwn
<1>1. ASSUME AccountTypeOK, RoutingInv, SettledInv
      PROVE  IbanIsOwn
  BY <1>1, OnboardingAssumption
  DEF AccountTypeOK, OnboardingTypeOK, RoutingInv, SettledInv, Safes, IbanIsOwn
<1>2. QED
  BY <1>1, AccountInvInit, AccountInvStep, PTL DEF Spec

-----------------------------------------------------------------------------
(***************************************************************************)
(* Least and greatest.  A set of natural numbers has a least element, and  *)
(* a greatest one if it is bounded: what Min and Max choose is there.      *)
(***************************************************************************)
Less == {ss \in Nat \X Nat : ss[1] < ss[2]}

\* There is no endless descent in the natural numbers, so a set has a least one.
LEMMA HasLeast ==
  ASSUME NEW S, S \subseteq Nat, S # {}
  PROVE  \E least \in S : \A y \in S : ~(y < least)
<1>1. IsWellFoundedOn(Less, Nat)
  BY NatLessThanWellFounded DEF OpToRel, Less
<1>2. \E least \in S : \A y \in S : <<y, least>> \notin Less
  BY <1>1, WFMin
<1>3. QED
  BY <1>2 DEF Less

\* Min chooses it.
LEMMA MinIsThere ==
  ASSUME NEW S \in SUBSET Nat, S # {}
  PROVE  Min(S) \in S
<1>1. PICK least \in S : \A y \in S : ~(y < least)
  BY HasLeast
<1>2. \A y \in S : least <= y
  BY <1>1
<1>3. QED
  BY <1>2 DEF Min

\* The greatest of a set is the least distance from a bound: Max chooses it.
LEMMA MaxIsThere ==
  ASSUME NEW S \in SUBSET Nat, NEW n \in Nat, \A x \in S : x <= n, S # {}
  PROVE  Max(S) \in S /\ \A y \in S : y <= Max(S)
<1> DEFINE T == {d \in Nat : n - d \in S}
<1>1. T \subseteq Nat /\ T # {}
  <2>1. PICK x \in S : TRUE
    OBVIOUS
  <2>2. n - x \in Nat /\ n - (n - x) = x
    OBVIOUS
  <2>3. QED
    BY <2>2
<1>2. PICK d \in T : \A y \in T : ~(y < d)
  <2> HIDE DEF T
  <2>1. QED
    BY <1>1, HasLeast
<1>3. ASSUME NEW y \in S
      PROVE  n - d >= y
  <2>1. n - y \in Nat /\ n - (n - y) = y
    OBVIOUS
  <2>2. n - y \in T
    BY <2>1
  <2>3. QED
    BY <1>2, <2>2
<1>4. n - d \in S
  OBVIOUS
<1>5. QED
  BY <1>3, <1>4 DEF Max

-----------------------------------------------------------------------------
(***************************************************************************)
(* Receipts.  What is edited is the last share of a transfer, the only one  *)
(* that is not revoked, and what is reopened is the last one too: the last  *)
(* share has every field as the sender last said it, and is all that        *)
(* strangers can read.                                                      *)
(***************************************************************************)
Names == {"sender", "recipient", "account", "fx", "showRate", "showRef", "route"}
Said == UNION {Modes[f] : f \in Names}
Fields == {fields \in [Names -> Said] : \A f \in Names : fields[f] \in Modes[f]}
ShareRecord ==
    [transfer : Receipted, fields : Fields, revoked : BOOLEAN, expired : BOOLEAN]

SharesType ==
    /\ shares \in Seq(ShareRecord) /\ Len(shares) <= MaxShares
    /\ chosen \in [Receipted -> [Names -> Said \cup {"unsaid"}]]

IsLast(t, i) == i \in SharesOf(t) /\ \A j \in SharesOf(t) : j <= i

\* Do these fields say what the sender last said?
Follows(fields, said) == \A f \in Names : said[f] # "unsaid" => fields[f] = said[f]

SharesInv ==
    /\ SharesType
    /\ \A t \in Receipted :
          /\ \A i \in Unrevoked(t) : IsLast(t, i)
          /\ \A i \in SharesOf(t) : IsLast(t, i) => Follows(shares[i].fields, chosen[t])
          /\ SharesOf(t) = {} => \A f \in Names : chosen[t][f] = "unsaid"

\* The fields of a receipt, by their names.
LEMMA FieldsNamed == DOMAIN Modes = Names
  BY DEF Modes, Names

\* The fields a receipt begins with are fields.
LEMMA DefaultsAreFields == DefaultFields \in Fields
<1>1. \A f \in Names : DefaultFields[f] \in Modes[f]
  BY DEF DefaultFields, Names, Modes
<1>2. \A f \in Names : DefaultFields[f] \in Said
  BY <1>1 DEF Said
<1>3. DefaultFields = [f \in Names |-> DefaultFields[f]]
  BY DEF DefaultFields, Names
<1>4. QED
  BY <1>1, <1>2, <1>3 DEF Fields

\* What a request says is said, and what it leaves unsaid stays.
LEMMA ParsedFields ==
  ASSUME NEW body \in Bodies, NEW base \in Fields
  PROVE  /\ parseShareFields(body, base) \in Fields
         /\ \A f \in Names : /\ body[f] \in Modes[f] \cup {"unsaid"}
                             /\ body[f] # "unsaid" => parseShareFields(body, base)[f] = body[f]
<1>1. \A f \in Names : body[f] \in Modes[f] \cup {"unsaid"}
  BY ReceiptsAssumption, FieldsNamed
<1>2. \A f \in Names : parseShareFields(body, base)[f] =
                          IF body[f] \in Modes[f] THEN body[f] ELSE base[f]
  BY FieldsNamed DEF parseShareFields
<1>3. parseShareFields(body, base) = [f \in Names |-> parseShareFields(body, base)[f]]
  BY FieldsNamed DEF parseShareFields
<1>4. \A f \in Names : parseShareFields(body, base)[f] \in Modes[f]
  BY <1>2 DEF Fields
<1>5. \A f \in Names : parseShareFields(body, base)[f] \in Said
  BY <1>4 DEF Said
<1>6. parseShareFields(body, base) \in Fields
  <2> HIDE DEF parseShareFields
  <2>1. QED
    BY <1>3, <1>4, <1>5 DEF Fields
<1>7. QED
  BY <1>1, <1>2, <1>6

\* What a request says is remembered,
LEMMA SaidIsKept ==
  ASSUME SharesType, NEW t \in Receipted, NEW body \in Bodies
  PROVE  /\ Chosen(t, body) \in [Receipted -> [Names -> Said \cup {"unsaid"}]]
         /\ \A s \in Receipted \ {t} : Chosen(t, body)[s] = chosen[s]
         /\ \A f \in Names : Chosen(t, body)[t][f] =
               IF body[f] = "unsaid" THEN chosen[t][f] ELSE body[f]
<1> DEFINE says == [f \in Names |-> IF body[f] = "unsaid" THEN chosen[t][f] ELSE body[f]]
<1>1. \A f \in Names : body[f] \in Said \cup {"unsaid"}
  BY ParsedFields, DefaultsAreFields DEF Said
<1>2. says \in [Names -> Said \cup {"unsaid"}]
  BY <1>1 DEF SharesType
<1>3. Chosen(t, body) = [chosen EXCEPT ![t] = says]
  BY FieldsNamed DEF Chosen
<1>4. \A f \in Names : says[f] = IF body[f] = "unsaid" THEN chosen[t][f] ELSE body[f]
  OBVIOUS
<1> HIDE DEF says
<1>5. QED
  BY <1>2, <1>3, <1>4 DEF SharesType

\* and fields that said what was said before say it after the request.
LEMMA StillFollows ==
  ASSUME SharesType, NEW t \in Receipted, NEW body \in Bodies, NEW base \in Fields,
         Follows(base, chosen[t])
  PROVE  Follows(parseShareFields(body, base), Chosen(t, body)[t])
<1>1. ASSUME NEW f \in Names
      PROVE  /\ body[f] \in Modes[f] \cup {"unsaid"}
             /\ parseShareFields(body, base)[f] = IF body[f] \in Modes[f] THEN body[f] ELSE base[f]
             /\ "unsaid" \notin Modes[f]
             /\ Chosen(t, body)[t][f] = IF body[f] = "unsaid" THEN chosen[t][f] ELSE body[f]
  <2>1. "unsaid" \notin Modes[f]
    BY DEF Modes, Names
  <2>2. parseShareFields(body, base)[f] = IF body[f] \in Modes[f] THEN body[f] ELSE base[f]
    BY FieldsNamed DEF parseShareFields
  <2>3. QED
    BY <2>1, <2>2, ParsedFields, SaidIsKept
<1>2. QED
  BY <1>1 DEF Follows

\* The share that a request finds is the last.
LEMMA ShareIsFound ==
  ASSUME SharesInv, NEW t \in Receipted, SharesOf(t) # {}
  PROVE  /\ IsLast(t, FindShare(t)) /\ FindShare(t) \in DOMAIN shares
         /\ shares[FindShare(t)] \in ShareRecord /\ shares[FindShare(t)].transfer = t
         /\ Unrevoked(t) # {} => FindShare(t) \in Unrevoked(t)
<1>1. /\ SharesOf(t) \in SUBSET Nat /\ Unrevoked(t) \subseteq SharesOf(t)
      /\ \A i \in SharesOf(t) : i <= MaxShares
      /\ MaxShares \in Nat
  BY ReceiptsAssumption DEF SharesInv, SharesType, SharesOf, Unrevoked
<1>2. CASE Unrevoked(t) # {}
  <2>1. FindShare(t) \in Unrevoked(t)
    BY <1>1, <1>2, MinIsThere DEF FindShare
  <2>2. QED
    BY <1>1, <2>1 DEF SharesInv, SharesType, SharesOf
<1>3. CASE Unrevoked(t) = {}
  <2>1. FindShare(t) \in SharesOf(t) /\ \A j \in SharesOf(t) : j <= FindShare(t)
    BY <1>1, <1>3, MaxIsThere DEF FindShare
  <2>2. QED
    BY <1>3, <2>1 DEF IsLast, SharesInv, SharesType, SharesOf
<1>4. QED
  BY <1>2, <1>3

\* There are no shares at first.
LEMMA SharesInvInit == Init => SharesInv
<1> SUFFICES ASSUME ReceiptsInit PROVE SharesInv
  BY PartsInit
<1>1. shares = <<>> /\ chosen = [t \in Receipted |-> [f \in Names |-> "unsaid"]]
  BY FieldsNamed DEF ReceiptsInit
<1>2. \A t : SharesOf(t) = {} /\ Unrevoked(t) = {}
  BY <1>1 DEF SharesOf, Unrevoked
<1>3. \A t \in Receipted : \A f \in Names : chosen[t][f] = "unsaid"
  BY <1>1
<1>4. SharesType
  BY <1>1, ReceiptsAssumption DEF SharesType
<1>5. QED
  BY <1>2, <1>3, <1>4 DEF SharesInv

\* One share is changed, and its fields say what is said of its transfer now.
LEMMA ShareChanges ==
  ASSUME SharesInv, SharesType', NEW i \in DOMAIN shares, NEW share \in ShareRecord,
         share.transfer = shares[i].transfer, shares[i].revoked => share.revoked,
         shares' = [shares EXCEPT ![i] = share],
         \A s \in Receipted \ {share.transfer} : chosen'[s] = chosen[s],
         IsLast(share.transfer, i) => Follows(share.fields, chosen'[share.transfer]),
         ~IsLast(share.transfer, i) => chosen'[share.transfer] = chosen[share.transfer]
  PROVE  SharesInv'
<1>1. /\ DOMAIN shares' = DOMAIN shares
      /\ \A j \in DOMAIN shares : shares'[j] = IF j = i THEN share ELSE shares[j]
      /\ \A j \in DOMAIN shares : shares[j] \in ShareRecord
  BY DEF SharesInv, SharesType
<1>2. ASSUME NEW t \in Receipted
      PROVE  /\ SharesOf(t)' = SharesOf(t) /\ Unrevoked(t)' \subseteq Unrevoked(t)
             /\ \A j : IsLast(t, j)' <=> IsLast(t, j)
  BY <1>1 DEF SharesOf, Unrevoked, IsLast
<1>3. ASSUME NEW t \in Receipted, NEW j \in SharesOf(t), IsLast(t, j)
      PROVE  Follows(shares'[j].fields, chosen'[t])
  <2>1. j \in DOMAIN shares /\ shares[j].transfer = t /\ i \in Nat /\ j \in Nat
    BY <1>3 DEF SharesOf, SharesInv, SharesType
  <2>2. Follows(shares[j].fields, chosen[t])
    BY <1>3 DEF SharesInv
  <2>3. CASE j = i
    BY <1>1, <1>3, <2>1, <2>3
  <2>4. CASE j # i
    <3>1. shares'[j] = shares[j]
      BY <1>1, <2>1, <2>4
    <3>2. chosen'[t] = chosen[t]
      <4>1. CASE t = share.transfer
        <5>1. ~IsLast(t, i)
          BY <1>3, <2>1, <2>4 DEF IsLast
        <5>2. QED
          BY <4>1, <5>1
      <4>2. CASE t # share.transfer
        BY <4>2
      <4>3. QED
        BY <4>1, <4>2
    <3>3. QED
      BY <2>2, <3>1, <3>2
  <2>5. QED
    BY <2>3, <2>4
<1>4. ASSUME NEW t \in Receipted, SharesOf(t) = {}
      PROVE  \A f \in Names : chosen'[t][f] = "unsaid"
  <2>1. t # share.transfer
    BY <1>4 DEF SharesOf
  <2>2. QED
    BY <1>4, <2>1 DEF SharesInv
<1>5. \A t \in Receipted : \A j \in Unrevoked(t)' : IsLast(t, j)'
  BY <1>2 DEF SharesInv
<1>6. \A t \in Receipted : \A j \in SharesOf(t)' :
         IsLast(t, j)' => Follows(shares'[j].fields, chosen'[t])
  BY <1>2, <1>3
<1>7. \A t \in Receipted : SharesOf(t)' = {} => \A f \in Names : chosen'[t][f] = "unsaid"
  BY <1>2, <1>4
<1>8. QED
  BY <1>5, <1>6, <1>7 DEF SharesInv, Follows

\* An edit is of the last share, and leaves it the one there is.
LEMMA SharesEdited ==
  ASSUME SharesInv, NEW t \in Receipted, NEW body \in Bodies, EditShare(t, body)
  PROVE  SharesInv'
<1> DEFINE i == FindShare(t)
           share == [shares[i] EXCEPT !.fields = parseShareFields(body, @)]
<1>1. /\ Unrevoked(t) # {} /\ SharesOf(t) # {}
      /\ shares' = [shares EXCEPT ![i] = share]
      /\ chosen' = Chosen(t, body)
  BY Zenon DEF EditShare, Unrevoked
<1>2. /\ i \in DOMAIN shares /\ shares[i] \in ShareRecord /\ shares[i].transfer = t
      /\ IsLast(t, i) /\ i \in SharesOf(t)
  BY <1>1, ShareIsFound DEF IsLast
<1>3. shares[i].fields \in Fields /\ parseShareFields(body, shares[i].fields) \in Fields
  BY <1>2, ParsedFields DEF ShareRecord
<1>4. /\ share \in ShareRecord /\ share.transfer = t
      /\ share.revoked = shares[i].revoked
      /\ share.fields = parseShareFields(body, shares[i].fields)
  BY <1>2, <1>3 DEF ShareRecord
<1> HIDE DEF i, share
<1>5. Follows(share.fields, chosen'[t])
  BY <1>1, <1>2, <1>3, <1>4, StillFollows DEF SharesInv
<1>6. SharesType'
  BY <1>1, <1>2, <1>4, SaidIsKept DEF SharesInv, SharesType
<1>7. \A s \in Receipted \ {t} : chosen'[s] = chosen[s]
  BY <1>1, SaidIsKept DEF SharesInv
<1>8. QED
  BY <1>1, <1>2, <1>4, <1>5, <1>6, <1>7, ShareChanges

\* A share is opened where none is left, after the others and with the last one's
\* fields.
LEMMA SharesOpened ==
  ASSUME SharesInv, NEW t \in Receipted, NEW body \in Bodies, OpenShare(t, body)
  PROVE  SharesInv'
<1>1. PICK base \in Fields :
         /\ Follows(base, chosen[t])
         /\ Unrevoked(t) = {} /\ Len(shares) < MaxShares
         /\ shares' = Append(shares, [transfer |-> t, fields |-> parseShareFields(body, base),
                                      revoked |-> FALSE, expired |-> FALSE])
         /\ chosen' = Chosen(t, body)
  <2>1. CASE SharesOf(t) = {}
    <3>1. Follows(DefaultFields, chosen[t])
      BY <2>1 DEF SharesInv, Follows
    <3>2. QED
      BY <2>1, <3>1, DefaultsAreFields, Zenon DEF OpenShare
  <2>2. CASE SharesOf(t) # {}
    <3>1. shares[FindShare(t)] \in ShareRecord /\ IsLast(t, FindShare(t))
      BY <2>2, ShareIsFound
    <3>2. shares[FindShare(t)].fields \in Fields
      BY <3>1 DEF ShareRecord
    <3>3. Follows(shares[FindShare(t)].fields, chosen[t])
      BY <3>1 DEF SharesInv, IsLast
    <3>4. QED
      BY <2>2, <3>2, <3>3, Zenon DEF OpenShare
  <2>3. QED
    BY <2>1, <2>2
<1> DEFINE share == [transfer |-> t, fields |-> parseShareFields(body, base),
                     revoked |-> FALSE, expired |-> FALSE]
<1>2. /\ share \in ShareRecord /\ share.transfer = t
      /\ share.fields = parseShareFields(body, base)
  BY ParsedFields DEF ShareRecord
<1>3. shares' = Append(shares, share)
  BY <1>1
<1>4. Follows(share.fields, chosen'[t])
  BY <1>1, <1>2, StillFollows DEF SharesInv
<1> HIDE DEF share
<1>n. PICK n : n = Len(shares) + 1
  OBVIOUS
<1>5. /\ shares' \in Seq(ShareRecord) /\ Len(shares') = n
      /\ \A j \in DOMAIN shares : shares'[j] = shares[j] /\ j < n /\ j \in Nat
      /\ shares'[n] = share
      /\ DOMAIN shares' = DOMAIN shares \cup {n}
      /\ n \in Nat /\ n \notin DOMAIN shares
  BY <1>2, <1>3, <1>n DEF SharesInv, SharesType
<1>6. SharesType'
  <2>1. chosen' \in [Receipted -> [Names -> Said \cup {"unsaid"}]]
    BY <1>1, SaidIsKept DEF SharesInv
  <2>2. Len(shares') <= MaxShares
    BY <1>1, <1>5, <1>n, ReceiptsAssumption DEF SharesInv, SharesType
  <2>3. QED
    BY <1>5, <2>1, <2>2 DEF SharesType
<1>7. /\ SharesOf(t)' = SharesOf(t) \cup {n}
      /\ Unrevoked(t)' \subseteq {n} /\ IsLast(t, n)'
      /\ \A j : IsLast(t, j)' => j = n
  <2>1. SharesOf(t)' = SharesOf(t) \cup {n}
    BY <1>2, <1>5 DEF SharesOf
  <2>2. \A j \in SharesOf(t) : j < n /\ j \in Nat
    BY <1>5 DEF SharesOf
  <2>3. n \in SharesOf(t)' /\ \A j \in SharesOf(t)' : j <= n /\ (n <= j => j = n)
    BY <1>5, <2>1, <2>2
  <2>4. IsLast(t, n)' /\ \A j : IsLast(t, j)' => j = n
    BY <2>3 DEF IsLast
  <2>5. Unrevoked(t)' \subseteq {n}
    BY <1>1, <1>5, <2>1 DEF Unrevoked, SharesOf
  <2>6. QED
    BY <2>1, <2>4, <2>5
<1>8. ASSUME NEW s \in Receipted \ {t}
      PROVE  /\ SharesOf(s)' = SharesOf(s) /\ Unrevoked(s)' = Unrevoked(s)
             /\ \A j : IsLast(s, j)' <=> IsLast(s, j)
             /\ \A j \in SharesOf(s) : shares'[j] = shares[j]
             /\ chosen'[s] = chosen[s]
  <2>1. SharesOf(s)' = SharesOf(s)
    BY <1>2, <1>5 DEF SharesOf
  <2>2. \A j \in SharesOf(s) : shares'[j] = shares[j]
    BY <1>5 DEF SharesOf
  <2>3. Unrevoked(s)' = Unrevoked(s) /\ \A j : IsLast(s, j)' <=> IsLast(s, j)
    BY <2>1, <2>2 DEF Unrevoked, IsLast
  <2>4. chosen'[s] = chosen[s]
    BY <1>1, SaidIsKept DEF SharesInv
  <2>5. QED
    BY <2>1, <2>2, <2>3, <2>4
<1>9. ASSUME NEW s \in Receipted
      PROVE  /\ \A i \in Unrevoked(s)' : IsLast(s, i)'
             /\ \A i \in SharesOf(s)' : IsLast(s, i)' => Follows(shares'[i].fields, chosen'[s])
             /\ SharesOf(s)' = {} => \A f \in Names : chosen'[s][f] = "unsaid"
  <2>1. CASE s = t
    BY <1>2, <1>4, <1>5, <1>7, <2>1
  <2>2. CASE s # t
    <3>1. s \in Receipted \ {t}
      BY <2>2
    <3>2. /\ \A i \in Unrevoked(s)' : IsLast(s, i)'
          /\ SharesOf(s)' = {} => \A f \in Names : chosen'[s][f] = "unsaid"
      BY <1>8, <3>1 DEF SharesInv
    <3>3. ASSUME NEW i \in SharesOf(s)', IsLast(s, i)'
          PROVE  Follows(shares'[i].fields, chosen'[s])
      <4>1. i \in SharesOf(s) /\ IsLast(s, i) /\ shares'[i] = shares[i] /\ chosen'[s] = chosen[s]
        BY <1>8, <3>1, <3>3
      <4>2. Follows(shares[i].fields, chosen[s])
        BY <4>1 DEF SharesInv
      <4>3. QED
        BY <4>1, <4>2
    <3>4. QED
      BY <3>2, <3>3
  <2>3. QED
    BY <2>1, <2>2
<1>10. QED
  BY <1>6, <1>9 DEF SharesInv, Follows

\* A share that is changed in something else than its fields follows as before.
LEMMA ShareMarked ==
  ASSUME SharesInv, NEW i \in DOMAIN shares, NEW share \in ShareRecord,
         share.transfer = shares[i].transfer, shares[i].revoked => share.revoked,
         share.fields = shares[i].fields,
         shares' = [shares EXCEPT ![i] = share], UNCHANGED chosen
  PROVE  SharesInv'
<1>1. SharesType'
  <2>1. shares' \in Seq(ShareRecord) /\ Len(shares') = Len(shares)
    BY DEF SharesInv, SharesType
  <2>2. QED
    BY <2>1 DEF SharesInv, SharesType
<1>2. shares[i] \in ShareRecord /\ i \in SharesOf(share.transfer) /\ share.transfer \in Receipted
  <2>1. shares[i] \in ShareRecord
    BY DEF SharesInv, SharesType
  <2>2. share.transfer \in Receipted
    BY DEF ShareRecord
  <2>3. QED
    BY <2>1, <2>2 DEF SharesOf
<1>3. IsLast(share.transfer, i) => Follows(share.fields, chosen[share.transfer])
  BY <1>2 DEF SharesInv
<1>4. chosen' = chosen /\ i \in DOMAIN shares /\ share \in ShareRecord
  OBVIOUS
<1>5. /\ \A s \in Receipted \ {share.transfer} : chosen'[s] = chosen[s]
      /\ IsLast(share.transfer, i) => Follows(share.fields, chosen'[share.transfer])
      /\ ~IsLast(share.transfer, i) => chosen'[share.transfer] = chosen[share.transfer]
  BY <1>3, <1>4
<1>6. QED
  BY <1>1, <1>4, <1>5, ShareChanges

\* Shares are edited, opened, revoked and expire.
LEMMA SharesInvStep == SharesInv /\ [Next]_vars => SharesInv'
<1> SUFFICES ASSUME SharesInv, Receipt \/ UNCHANGED sharing PROVE SharesInv'
  BY Frames
<1>1. ASSUME NEW t \in Receipted, RevokeShare(t)
      PROVE  SharesInv'
  <2> DEFINE i == FindShare(t)
             share == [shares[i] EXCEPT !.revoked = TRUE]
  <2>1. SharesOf(t) # {} /\ shares' = [shares EXCEPT ![i] = share] /\ UNCHANGED chosen
    BY <1>1, Zenon DEF RevokeShare
  <2>2. i \in DOMAIN shares /\ shares[i] \in ShareRecord
    BY <2>1, ShareIsFound
  <2>3. /\ share \in ShareRecord /\ share.transfer = shares[i].transfer /\ share.revoked
        /\ share.fields = shares[i].fields
    BY <2>2 DEF ShareRecord
  <2> HIDE DEF i, share
  <2>4. QED
    BY <2>1, <2>2, <2>3, ShareMarked
<1>2. ASSUME NEW i, ShareExpires(i)
      PROVE  SharesInv'
  <2> DEFINE share == [shares[i] EXCEPT !.expired = TRUE]
  <2>1. i \in DOMAIN shares /\ shares' = [shares EXCEPT ![i] = share] /\ UNCHANGED chosen
    BY <1>2, Zenon DEF ShareExpires
  <2>2. shares[i] \in ShareRecord
    BY <2>1 DEF SharesInv, SharesType
  <2>3. /\ share \in ShareRecord /\ share.transfer = shares[i].transfer
        /\ share.revoked = shares[i].revoked /\ share.fields = shares[i].fields
    BY <2>2 DEF ShareRecord
  <2> HIDE DEF share
  <2>4. QED
    BY <2>1, <2>3, ShareMarked
<1>3. CASE UNCHANGED sharing
  <2>1. shares' = shares /\ chosen' = chosen
    BY <1>3 DEF sharing
  <2>2. QED
    BY <2>1 DEF SharesInv, SharesType, Unrevoked, SharesOf, IsLast, Follows
<1>4. QED
  BY <1>1, <1>2, <1>3, SharesEdited, SharesOpened DEF Receipt

\* What the fields must be for a page to tell a fact.
Lets(fields, fact) ==
    /\ fact # <<"sender", "pickup code">>
    /\ fact = <<"sender", "first">> => fields.sender \in {"full", "first"}
    /\ fact = <<"sender", "last">> => fields.sender \in {"full", "last"}
    /\ fact = <<"recipient", "first">> => fields.recipient \in {"full", "first"}
    /\ fact = <<"recipient", "last">> => fields.recipient \in {"full", "last"}
    /\ fact = <<"recipient", "pickup code">> =>
          fields.recipient # "hidden" /\ fields.route = "on"
    /\ fact = <<"account", "whole">> => fields.account = "full"
    /\ fact = <<"account", "ends">> => fields.account = "short"
    /\ fact = <<"account", "order">> => fields.account # "hidden" /\ fields.route = "on"
    /\ fact = <<"amount", "received">> => fields.fx # "sender"
    /\ fact = <<"amount", "sent">> => fields.fx # "recipient"
    /\ fact \in {<<"rate", "quoted">>, <<"rate", "fee">>} => fields.showRate = "on"
    /\ fact = <<"rate", "venue">> => fields.showRate = "on" /\ fields.route = "on"
    /\ fact = <<"reference", "text">> => fields.showRef = "on"
    /\ fact = <<"reference", "memo">> => fields.showRef = "on" /\ fields.route = "on"

\* The names on a page are those the sender lets be told.
LEMMA NamesLet ==
  ASSUME NEW d, NEW fields, NEW fact,
         \/ fact \in nameFor(fields.sender, "sender", d.sender)
         \/ fact \in nameFor(fields.recipient, "recipient", d.recipient)
  PROVE  Lets(fields, fact)
<1>1. CASE fact \in nameFor(fields.sender, "sender", d.sender)
  <2>1. CASE fact = <<"sender", "first">> /\ fields.sender \in {"full", "first"}
    BY <2>1 DEF Lets
  <2>2. CASE fact = <<"sender", "last">> /\ fields.sender \in {"full", "last"}
    BY <2>2 DEF Lets
  <2>3. QED
    BY <1>1, <2>1, <2>2 DEF nameFor, When
<1>2. CASE fact \in nameFor(fields.recipient, "recipient", d.recipient)
  <2>1. CASE fact = <<"recipient", "first">> /\ fields.recipient \in {"full", "first"}
    BY <2>1 DEF Lets
  <2>2. CASE fact = <<"recipient", "last">> /\ fields.recipient \in {"full", "last"}
    BY <2>2 DEF Lets
  <2>3. QED
    BY <1>2, <2>1, <2>2 DEF nameFor, When
<1>3. QED
  BY <1>1, <1>2

\* So are the headline and the figures,
LEMMA FiguresLet ==
  ASSUME NEW fields, NEW fact,
         \/ fact = IF fields.fx = "recipient" THEN <<"amount", "received">> ELSE <<"amount", "sent">>
         \/ fact \in Figures(fields)
  PROVE  Lets(fields, fact)
<1>1. CASE fact = <<"amount", "received">> /\ fields.fx # "sender"
  BY <1>1 DEF Lets
<1>2. CASE fact = <<"amount", "sent">> /\ fields.fx # "recipient"
  BY <1>2 DEF Lets
<1>3. QED
  BY <1>1, <1>2 DEF Figures, When

\* the account,
LEMMA AccountLets ==
  ASSUME NEW d, NEW fields, NEW fact \in accountFor(fields.account, d.account)
  PROVE  Lets(fields, fact)
<1>1. CASE fact = <<"account", "whole">> /\ fields.account = "full"
  BY <1>1 DEF Lets
<1>2. CASE fact = <<"account", "ends">> /\ fields.account = "short"
  BY <1>2 DEF Lets
<1>3. QED
  BY <1>1, <1>2 DEF accountFor, When

\* the other rows,
LEMMA RowsLet ==
  ASSUME NEW d, NEW fields, NEW row \in Rows(d, fields), NEW fact \in row
  PROVE  Lets(fields, fact)
<1>1. Lets(fields, <<"partner", "name">>) /\ Lets(fields, <<"amount", "refunded">>)
  BY DEF Lets
<1>2. CASE fact = <<"reference", "text">> /\ fields.showRef = "on"
  BY <1>2 DEF Lets
<1>3. fields.showRate = "on" => /\ Lets(fields, <<"rate", "fee">>)
                                /\ Lets(fields, <<"rate", "quoted">>)
  BY DEF Lets
<1>4. \/ row = accountFor(fields.account, d.account)
      \/ row = Figures(fields)
      \/ row = {<<"partner", "name">>}
      \/ row = {<<"reference", "text">>} /\ fields.showRef = "on"
      \/ row \in {{<<"rate", "fee">>}, {<<"rate", "quoted">>}} /\ fields.showRate = "on"
      \/ row = {<<"amount", "refunded">>}
  BY DEF Rows, When
<1>5. QED
  BY <1>1, <1>2, <1>3, <1>4, AccountLets, FiguresLet

\* and the hops of the route, where it is shown.
LEMMA RouteLets ==
  ASSUME NEW d, NEW fields, NEW issues \in BOOLEAN, fields.route = "on",
         NEW hop \in receiptRoute(d, fields, issues), NEW fact \in hop.tells
  PROVE  Lets(fields, fact)
<1>1. CASE fact = <<"rate", "venue">> /\ fields.showRate = "on"
  BY <1>1 DEF Lets
<1>2. CASE fact = <<"account", "order">> /\ fields.account # "hidden"
  BY <1>2 DEF Lets
<1>3. CASE fact = <<"reference", "memo">> /\ fields.showRef = "on"
  BY <1>3 DEF Lets
<1>4. CASE fact = <<"recipient", "pickup code">> /\ fields.recipient # "hidden"
  BY <1>4 DEF Lets
<1>5. \/ hop = Hop("Zold Safe", {}, FALSE)
      \/ hop = Hop("Liquidity", When(fields.showRate = "on", {<<"rate", "venue">>}),
                   d.liquidity = "planned")
      \/ hop = Hop("Circle CCTP", {}, d.cctp = "plan")
      \/ hop = Hop("Monerium EMI", When(fields.account # "hidden", {<<"account", "order">>}),
                   d.sepa = "mock")
      \/ hop = Hop("SEPA credit transfer",
                   When(fields.showRef = "on" /\ d.memo, {<<"reference", "memo">>}), ~issues)
      \/ hop = Hop("Stellar anchor", {}, d.anchor = "opened")
      \/ hop = Hop("Payout", When(fields.recipient # "hidden" /\ d.code,
                                  {<<"recipient", "pickup code">>}), d.pickup # "PAID")
  BY DEF receiptRoute, When
<1>6. \/ hop.tells = {}
      \/ hop.tells = When(fields.showRate = "on", {<<"rate", "venue">>})
      \/ hop.tells = When(fields.account # "hidden", {<<"account", "order">>})
      \/ hop.tells = When(fields.showRef = "on" /\ d.memo, {<<"reference", "memo">>})
      \/ hop.tells = When(fields.recipient # "hidden" /\ d.code,
                          {<<"recipient", "pickup code">>})
  <2>1. CASE \/ hop = Hop("Zold Safe", {}, FALSE)
             \/ hop = Hop("Circle CCTP", {}, d.cctp = "plan")
             \/ hop = Hop("Stellar anchor", {}, d.anchor = "opened")
    <3>1. CASE hop = Hop("Zold Safe", {}, FALSE)
      BY <3>1 DEF Hop
    <3>2. CASE hop = Hop("Circle CCTP", {}, d.cctp = "plan")
      BY <3>2 DEF Hop
    <3>3. CASE hop = Hop("Stellar anchor", {}, d.anchor = "opened")
      BY <3>3 DEF Hop
    <3>4. QED
      BY <2>1, <3>1, <3>2, <3>3
  <2>2. CASE hop = Hop("Liquidity", When(fields.showRate = "on", {<<"rate", "venue">>}),
                       d.liquidity = "planned")
    BY <2>2 DEF Hop
  <2>3. CASE hop = Hop("Monerium EMI", When(fields.account # "hidden", {<<"account", "order">>}),
                       d.sepa = "mock")
    BY <2>3 DEF Hop
  <2>4. CASE hop = Hop("SEPA credit transfer",
                       When(fields.showRef = "on" /\ d.memo, {<<"reference", "memo">>}), ~issues)
    <3>1. \A tells : Hop("SEPA credit transfer", tells, ~issues).tells = tells
      BY DEF Hop
    <3>2. QED
      BY <2>4, <3>1
  <2>5. CASE hop = Hop("Payout", When(fields.recipient # "hidden" /\ d.code,
                                      {<<"recipient", "pickup code">>}), d.pickup # "PAID")
    <3>1. \A tells : Hop("Payout", tells, d.pickup # "PAID").tells = tells
      BY DEF Hop
    <3>2. QED
      BY <2>5, <3>1
  <2>6. QED
    BY <1>5, <2>1, <2>2, <2>3, <2>4, <2>5
<1>7. QED
  BY <1>1, <1>2, <1>3, <1>4, <1>6 DEF When

\* A page tells what its fields let it tell.
LEMMA PageLets ==
  ASSUME NEW d, NEW fields, NEW issues \in BOOLEAN,
         NEW fact \in Told(buildReceipt(d, fields, issues))
  PROVE  Lets(fields, fact)
<1> DEFINE page == buildReceipt(d, fields, issues)
<1>1. /\ page.hero = IF fields.fx = "recipient" THEN <<"amount", "received">>
                                                ELSE <<"amount", "sent">>
      /\ page.from = nameFor(fields.sender, "sender", d.sender)
      /\ page.to = nameFor(fields.recipient, "recipient", d.recipient)
      /\ page.rows = Rows(d, fields)
      /\ page.route = When(fields.route = "on", receiptRoute(d, fields, issues))
  BY DEF buildReceipt
<1> HIDE DEF page
<1>2. \/ fact = page.hero \/ fact \in page.from \/ fact \in page.to
      \/ \E row \in page.rows : fact \in row
      \/ \E hop \in page.route : fact \in hop.tells
  BY DEF Told, page
<1>3. CASE \E hop \in page.route : fact \in hop.tells
  <2>1. fields.route = "on" /\ page.route = receiptRoute(d, fields, issues)
    BY <1>1, <1>3 DEF When
  <2>2. QED
    BY <1>3, <2>1, RouteLets
<1>4. CASE \E row \in page.rows : fact \in row
  BY <1>1, <1>4, RowsLet
<1>5. CASE fact = page.hero
  BY <1>1, <1>5, FiguresLet
<1>6. CASE fact \in page.from \/ fact \in page.to
  BY <1>1, <1>6, NamesLet
<1>7. QED
  BY <1>2, <1>3, <1>4, <1>5, <1>6

\* What a mode promises to keep back, and is not told anyway, is not among it,
\* whatever the other fields.
LEMMA ModesWithhold ==
  ASSUME NEW d, NEW fields \in Fields, NEW f \in Names,
         NEW fact \in Withholds(d, f, fields[f]) \ ToldAnyway(d, f, fields[f])
  PROVE  ~Lets(fields, fact)
<1> USE DEF Lets
<1>1. CASE f = "sender"
  <2>1. \/ fact = <<"sender", "first">> /\ fields.sender \in {"hidden", "last"}
        \/ fact = <<"sender", "last">> /\ fields.sender \in {"hidden", "first"}
        \/ fact = <<"sender", "pickup code">> /\ fields.sender = "hidden"
    BY <1>1 DEF Withholds, ToldAnyway, When
  <2>2. QED
    BY <2>1
<1>2. CASE f = "recipient"
  <2>1. \/ fact = <<"recipient", "first">> /\ fields.recipient \in {"hidden", "last"}
        \/ fact = <<"recipient", "last">> /\ fields.recipient \in {"hidden", "first"}
        \/ fact = <<"recipient", "pickup code">> /\ fields.recipient = "hidden"
    BY <1>2 DEF Withholds, ToldAnyway, When
  <2>2. QED
    BY <2>1
<1>3. CASE f = "account"
  <2>1. \/ fact = <<"account", "whole">> /\ fields.account # "full"
        \/ fact \in {<<"account", "ends">>, <<"account", "order">>} /\ fields.account = "hidden"
    BY <1>3 DEF Withholds, When
  <2>2. QED
    BY <2>1
<1>4. CASE f = "fx"
  <2>1. \/ fact = <<"amount", "received">> /\ fields.fx = "sender"
        \/ fact = <<"amount", "sent">> /\ fields.fx = "recipient"
    BY <1>4 DEF Withholds, ToldAnyway, When
  <2>2. QED
    BY <2>1
<1>5. CASE f = "showRate"
  <2>1. /\ fact \in {<<"rate", "quoted">>, <<"rate", "fee">>, <<"rate", "venue">>}
        /\ fields.showRate = "off"
    BY <1>5 DEF Withholds, When
  <2>2. QED
    BY <2>1
<1>6. CASE f = "showRef"
  <2>1. /\ fact \in {<<"reference", "text">>, <<"reference", "memo">>}
        /\ fields.showRef = "off"
    BY <1>6 DEF Withholds, When
  <2>2. QED
    BY <2>1
<1>7. CASE f = "route"
  <2>1. /\ fact \in {<<"rate", "venue">>, <<"account", "order">>,
                     <<"reference", "memo">>, <<"recipient", "pickup code">>}
        /\ fields.route = "off"
    BY <1>7 DEF Withholds, When
  <2>2. QED
    BY <2>1
<1>8. QED
  BY <1>1, <1>2, <1>3, <1>4, <1>5, <1>6, <1>7 DEF Names

\* NarrowingNarrows: what the sender's last choice of a field promises to keep back
\* can be read on no link to the transfer that still works, except where the page
\* tells it anyway: a name of one word under "first", and a cash payment's rows in
\* the currency that was taken off.
THEOREM SharingNarrows == Spec => []NarrowingNarrows
<1>1. ASSUME SharesInv, NEW t \in Receipted, NEW f \in DOMAIN Modes,
             NEW fact \in Withholds(Shape[t], f, chosen[t][f]), fact \in Public(t)
      PROVE  fact \in ToldAnyway(Shape[t], f, chosen[t][f])
  <2>1. PICK i \in Unrevoked(t) : fact \in Told(buildReceipt(Shape[t], shares[i].fields, Issues))
    BY <1>1 DEF Public
  <2> DEFINE fields == shares[i].fields
  <2>2. /\ fields \in Fields /\ Follows(fields, chosen[t])
    <3>1. i \in SharesOf(t) /\ IsLast(t, i) /\ shares[i] \in ShareRecord
      BY <1>1, <2>1 DEF SharesInv, SharesType, Unrevoked, SharesOf
    <3>2. Follows(shares[i].fields, chosen[t])
      BY <1>1, <3>1 DEF SharesInv
    <3>3. QED
      BY <3>1, <3>2 DEF ShareRecord
  <2>3. Lets(fields, fact)
    BY <2>1, PageLets, ReceiptsAssumption
  <2> HIDE DEF fields
  <2>4. chosen[t][f] # "unsaid"
    BY <1>1 DEF Withholds, When
  <2>5. fields[f] = chosen[t][f]
    BY <2>2, <2>4, FieldsNamed DEF Follows
  <2>6. QED
    BY <1>1, <2>2, <2>3, <2>5, ModesWithhold, FieldsNamed
<1>2. SharesInv => NarrowingNarrows
  BY <1>1 DEF NarrowingNarrows
<1>3. QED
  BY <1>2, SharesInvInit, SharesInvStep, PTL DEF Spec
=============================================================================
