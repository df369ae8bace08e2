-------------------------------- MODULE SignIn --------------------------------
(***************************************************************************)
(* Passkeys and sessions of one account: challenges (webauthn.ts), sign-in *)
(* and step-up, the registration and the replacement of the passkey, the   *)
(* binding of a device key, and the link to Monerium as far as it takes a  *)
(* passkey ceremony (server.ts).                                           *)
(*                                                                         *)
(* A handler that verifies an assertion is suspended, and the account goes *)
(* on.  Its user is the store's own object: what it reads of it after the  *)
(* await is what holds by then, except where it took a copy before.        *)
(*                                                                         *)
(* A challenge is issued to a client whose authenticator answers it at     *)
(* once; clients may submit the answer more than once.  Challenges bound   *)
(* to other accounts, wrong origins and bad signatures are left out, and   *)
(* every passkey's Safe is taken to be deployed at once.  Each challenge   *)
(* is random but the one for a link, which is the Safe's hash of a fixed   *)
(* message: the requests to link a Safe share it, and what was signed for  *)
(* one of them fits the others.  A challenge issued for a link stands for  *)
(* the request, which is good for one submission whatever was signed.      *)
(***************************************************************************)
EXTENDS Standing, Integers, FiniteSets

CONSTANTS
    Authenticators,
    Counting,       \* those that count their signatures; others report 0
    Challenges,
    Purpose,        \* what each challenge is issued for
    Registered,     \* the authenticator that a registration's challenge is shown to
    DeviceKeys,     \* addresses that may be bound as user.authorizerAddress
    Unset,
    MaxOpen,        \* bound: challenges waiting for their answer at once
    MaxUnderway     \* bound: requests suspended at once

Purposes == {"register", "login", "step_up", "link"}

ASSUME SignInAssumption ==
    /\ Purpose \in [Challenges -> Purposes] /\ Counting \subseteq Authenticators
    /\ Registered \in [Challenges -> Authenticators]
    /\ Unset \notin Authenticators \cup DeviceKeys \cup Challenges
    /\ MaxOpen \in Nat /\ MaxUnderway \in Nat

VARIABLES
    stored,         \* user.passkey
    authorizer,     \* user.authorizerAddress
    signedIn,       \* has the account an open session?
    challenges,     \* of each: "new", in the map ("open"), or "gone"
    answer,         \* what the authenticator made of a challenge that may be submitted
    counter,        \* how often each authenticator has signed
    underway,       \* requests, each with the await it is suspended at
    accepted,       \* history: how often each challenge was met with an answer
    overtaken       \* history: the passkey was replaced during a verification

signIn == <<stored, authorizer, signedIn, challenges, answer, counter, underway, accepted,
            overtaken>>

NoPasskey == [id |-> Unset, count |-> 0]
Passkeys == [id : Authenticators \cup {Unset}, count : Nat]

\* A request holds the answer to a challenge, what else it was called with (a
\* challenge to register under, or a device key), and its copy of the passkey.
Requests ==
    [at : {"login", "balances", "replace", "bind", "profile", "link"},
     challenge : Challenges, answer : Passkeys,
     with : Challenges \cup DeviceKeys \cup {Unset}, copy : Passkeys]

SignInTypeOK ==
    /\ stored \in Passkeys /\ authorizer \in DeviceKeys \cup {Unset} /\ signedIn \in BOOLEAN
    /\ challenges \in [Challenges -> {"new", "open", "gone"}]
    /\ answer \in [Challenges -> Passkeys] /\ counter \in [Authenticators -> Nat]
    /\ underway \subseteq Requests
    /\ accepted \in [Challenges -> Nat] /\ overtaken \in BOOLEAN

\* The account was opened, with a session and no passkey.
SignInInit ==
    /\ stored = NoPasskey /\ authorizer = Unset /\ signedIn = TRUE
    /\ challenges = [c \in Challenges |-> "new"]
    /\ answer = [c \in Challenges |-> NoPasskey] /\ counter = [a \in Authenticators |-> 0]
    /\ underway = {} /\ accepted = [c \in Challenges |-> 0] /\ overtaken = FALSE

-----------------------------------------------------------------------------
(* Challenges and sessions.                                                *)

\* Authenticator a answers a new challenge.
Opens(c, a) ==
    /\ challenges[c] = "new" /\ a # Unset
    /\ Cardinality({x \in Challenges : challenges[x] = "open"}) < MaxOpen
    /\ challenges' = [challenges EXCEPT ![c] = "open"]
    /\ counter' = [counter EXCEPT ![a] = @ + 1]
    /\ answer' = [answer EXCEPT ![c] =
                    [id |-> a, count |-> IF a \in Counting THEN counter[a] + 1 ELSE 0]]
    /\ UNCHANGED <<stored, authorizer, signedIn, underway, accepted, overtaken>>

\* POST /webauthn/challenge: only a sign-in begins without a session.
IssueChallenge(c) ==
    /\ Purpose[c] # "link" /\ (Purpose[c] # "login" => signedIn)
    /\ Opens(c, IF Purpose[c] = "register" THEN Registered[c] ELSE stored.id)

\* POST /monerium/link-signature/start: one more request over the Safe's hash of
\* Monerium's message, kept under an id of its own.
StartLink(c) ==
    /\ Purpose[c] = "link" /\ signedIn /\ active
    /\ Opens(c, stored.id)

\* The last session is signed out, or its sessionTtlMs are over.
SessionsEnd ==
    /\ signedIn /\ signedIn' = FALSE
    /\ UNCHANGED <<stored, authorizer, challenges, answer, counter, underway, accepted,
                   overtaken>>

\* Mutant: a challenge that was good for one ceremony stays in the map.
ConsumedKept(c, purpose) ==
    /\ challenges[c] = "open" /\ Purpose[c] = purpose
    /\ UNCHANGED <<challenges, answer>>

\* consumeChallenge: the challenge is gone, whatever it was for, and its answer is
\* worth nothing; of a request to link only the request is gone.
Consumed(c, purpose) ==
    /\ challenges[c] = "open" /\ Purpose[c] = purpose
    /\ challenges' = [challenges EXCEPT ![c] = "gone"]
    /\ answer' = IF purpose = "link" THEN answer ELSE [answer EXCEPT ![c] = NoPasskey]

\* CHALLENGE_TTL_MS are over; or a request that is refused used it up.
ChallengeLapses(c) ==
    /\ Consumed(c, Purpose[c])
    /\ UNCHANGED <<stored, authorizer, signedIn, counter, underway, accepted, overtaken>>

\* verifyAssertionBytes, up to its first await.
Advanced(a, count) == count > 0 /\ a.count > 0 => a.count > count

Suspend(label, c, reply, with, copy) ==
    /\ Cardinality(underway) < MaxUnderway
    /\ underway' = underway \cup {[at |-> label, challenge |-> c, answer |-> reply,
                                   with |-> with, copy |-> copy]}

-----------------------------------------------------------------------------
(* Ceremonies: up to the await, and from there.                            *)

Login(c) ==
    /\ stored.id # Unset /\ answer[c].id = stored.id
    /\ Consumed(c, "login") /\ Advanced(answer[c], stored.count)
    /\ Suspend("login", c, answer[c], Unset, NoPasskey)
    /\ UNCHANGED <<stored, authorizer, signedIn, counter, accepted, overtaken>>

\* verifyPasskeyStepUp, for the handlers that go on with label.
StepUp(label, c, with) ==
    /\ signedIn /\ stored.id # Unset /\ answer[c].id = stored.id
    /\ Consumed(c, "step_up") /\ Advanced(answer[c], stored.count)
    /\ Suspend(label, c, answer[c], with, NoPasskey)
    /\ UNCHANGED <<stored, authorizer, signedIn, counter, accepted, overtaken>>

Accept(cs) == accepted' = [c \in Challenges |-> accepted[c] + IF c \in cs THEN 1 ELSE 0]

\* The assertion is good.
Attested(r) == overtaken' = (overtaken \/ stored.id # r.answer.id)

\* Its count is stored, in whatever passkey the user has by now.
Counted(r) == stored' = [stored EXCEPT !.count = r.answer.count]

LoginVerified(r) ==
    /\ r.at = "login"
    /\ Attested(r) /\ Counted(r) /\ Accept({r.challenge})
    /\ underway' = (underway \ {r}) \cup {[r EXCEPT !.at = "balances"]}
    /\ UNCHANGED <<authorizer, signedIn, challenges, answer, counter>>

IssueSession(r) ==
    /\ r.at = "balances"
    /\ signedIn' = TRUE
    /\ underway' = underway \ {r}
    /\ UNCHANGED <<stored, authorizer, challenges, answer, counter, accepted, overtaken>>

\* Mutant: a new passkey goes on with the old one's count.
NewPasskeyKeepsCount(d) == [stored EXCEPT !.id = answer[d].id]

NewPasskey(d) == answer[d]

\* The first passkey of the account.
Register(d) ==
    /\ signedIn /\ stored.id = Unset
    /\ Consumed(d, "register")
    /\ stored' = NewPasskey(d) /\ Accept({d})
    /\ UNCHANGED <<authorizer, signedIn, counter, underway, overtaken>>

\* The current passkey approves another one.
Replace(c, d) == answer[d].id \notin {Unset, stored.id} /\ StepUp("replace", c, d)

Replaced(r) ==
    /\ r.at = "replace"
    /\ Attested(r)
    /\ \/ /\ Consumed(r.with, "register")
          /\ stored' = NewPasskey(r.with) /\ Accept({r.challenge, r.with})
       \/ /\ challenges[r.with] # "open" \/ Purpose[r.with] # "register"
          /\ Counted(r) /\ Accept({r.challenge})
          /\ UNCHANGED <<challenges, answer>>
    /\ underway' = underway \ {r}
    /\ UNCHANGED <<authorizer, signedIn, counter>>

Bind(c, k) == Approved /\ StepUp("bind", c, k)

Bound(r) ==
    /\ r.at = "bind"
    /\ Attested(r) /\ Counted(r) /\ Accept({r.challenge})
    /\ authorizer' = (IF authorizer = Unset THEN r.with ELSE authorizer)
    /\ underway' = underway \ {r}
    /\ UNCHANGED <<signedIn, challenges, answer, counter>>

\* Linking the Safe takes a copy of the passkey, then waits for a Monerium profile.
\* What comes with request c was signed for it, or for request d of the same Safe.
Link(c, d) ==
    /\ signedIn /\ stored.id # Unset /\ active
    /\ Purpose[d] = "link" /\ answer[d].id = answer[c].id
    /\ Consumed(c, "link")
    /\ Suspend("profile", c, answer[d], Unset, stored)
    /\ UNCHANGED <<stored, authorizer, signedIn, counter, accepted, overtaken>>

\* The assertion is held against the copy.
ProfileCreated(r) ==
    LET good == r.answer.id = r.copy.id /\ Advanced(r.answer, r.copy.count)
    IN  /\ r.at = "profile"
        /\ underway' = (underway \ {r}) \cup (IF good THEN {[r EXCEPT !.at = "link"]} ELSE {})
        /\ UNCHANGED <<stored, authorizer, signedIn, challenges, answer, counter, accepted,
                       overtaken>>

\* What is stored is the copy.
Linked(r) ==
    /\ r.at = "link"
    /\ Attested(r) /\ Accept({r.challenge})
    /\ stored' = [r.copy EXCEPT !.count = r.answer.count]
    /\ underway' = underway \ {r}
    /\ UNCHANGED <<authorizer, signedIn, challenges, answer, counter>>

SignsIn ==
    \/ \E c \in Challenges :
          \/ IssueChallenge(c) \/ StartLink(c) \/ ChallengeLapses(c)
          \/ Register(c) \/ Login(c)
          \/ \E d \in Challenges : Replace(c, d) \/ Link(c, d)
          \/ \E k \in DeviceKeys : Bind(c, k)
    \/ SessionsEnd
    \/ \E r \in underway :
          \/ LoginVerified(r) \/ IssueSession(r) \/ Replaced(r) \/ Bound(r)
          \/ ProfileCreated(r) \/ Linked(r)

-----------------------------------------------------------------------------
(* Correctness.                                                            *)

(***************************************************************************)
(* A challenge is met by one accepted answer at most, however often        *)
(* answers are submitted and whatever else is being verified; and as each  *)
(* answer is to one challenge, what an authenticator signed approves one   *)
(* thing.  Except for a link: there it is the request that is good for one *)
(* approval, and one answer may approve several requests of its Safe,      *)
(* whose challenge is the same (server.ts:1562).                           *)
(***************************************************************************)
ApprovedOnce == \A c \in Challenges : accepted[c] <= 1

(***************************************************************************)
(* The count stored for the account's passkey is one its authenticator has *)
(* passed: its next signature will be accepted.  Unless the passkey was    *)
(* replaced while an assertion of the old one was being verified: then the *)
(* old count is stored in the new passkey (Counted), or the old passkey    *)
(* itself comes back (Linked).                                             *)
(***************************************************************************)
OwnerCanSignIn ==
    ~overtaken /\ stored.id # Unset => stored.count <= counter[stored.id]
=============================================================================
