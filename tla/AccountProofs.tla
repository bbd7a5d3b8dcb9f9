--------------------------- MODULE AccountProofs ---------------------------
(***************************************************************************)
(* What is proved of sessions for any number of phones, addresses and      *)
(* sign-ins, of referrals for every set of accounts, every cooldown and    *)
(* every choice of codes, and of verified identities for every set of      *)
(* people, documents and claims.                                           *)
(*                                                                         *)
(* Sessions: the key is that tokens are handed out in order (Handed): the  *)
(* next one was never anybody's, so that a token refused once stays        *)
(* refused, and a phone that hears of a 401 hears the truth however late.  *)
(*                                                                         *)
(* Referrals: that two credits are never for the same friend needs more    *)
(* than the credits: each is for a friend who has been evaluated, and      *)
(* belongs to the one referrer that friend was linked to when the profile  *)
(* was made, which never changes afterwards.                               *)
(*                                                                         *)
(* Identities: between requests, unless one about them was cut off,        *)
(* whoever is marked verified has exactly one valid badge, for the claims  *)
(* of the profile, and no document has verified two people.  The tables    *)
(* disagree while a handler is under way, so the invariant says of each    *)
(* point in it what is true there (SubjectOK); a request that is cut off   *)
(* leaves anything, which is why an attestation must not rely on what it   *)
(* finds: it starts from the badges that are valid, however many.          *)
(*                                                                         *)
(* Onboarding, for every number of saves in flight: an answer that a       *)
(* screen takes for saved is stored, although replies come late and their  *)
(* screens go.  What is kept of a save says whose it is: one that outlives *)
(* its screen or its app may be lost, but it is not taken for another.     *)
(*                                                                         *)
(* The phone's own check of a photographed ID, for every set of papers,    *)
(* names and answers: a badge stands on an ID that was compared with the   *)
(* row as it is now, unless the app had missed a change (BadgeOK).  It     *)
(* takes that what the review shows stays compared (ReviewOK): the days    *)
(* pass and the profile can be edited meanwhile.  nameMatches chooses      *)
(* greedily, token by token; what its choices add up to is that every      *)
(* part of the name has a place of its own on the ID (MatchesAreNamed).    *)
(*                                                                         *)
(* Navigation, for every length of the stack and number of calls: from     *)
(* wherever the app is, going back leads Home.  A reply may push a screen  *)
(* when the one that asked for it is gone, so the invariant speaks of the  *)
(* whole stack and of every call that can still change it.                 *)
(***************************************************************************)
EXTENDS Sessions, Referrals, Identity, Onboarding, Navigation, VerifyId, FiniteSetTheorems,
        SequenceTheorems, WellFoundedInduction, TLAPS

Poll == [token : Token, answer : {"none", "ok", "401"}]
Attempt ==
    [at : {"idle", "login", "unknown", "signup", "hashing", "signed"},
     email : Email \cup {NoEmail}, token : Token \cup {NoToken}]

Typed ==
    /\ SessionsTypeOK
    /\ attempt \in [Phone -> Attempt]
    /\ polls \in [Phone -> SUBSET Poll]

(* Tokens are given out in order.                                          *)
Handed == \E n \in 0 .. MaxTokens : IssuedTokens = 1 .. n

(* An account's session is one that was given to it.                       *)
Owned == \A e \in Email : token[e] \in Token => owner[token[e]] = e

(* What phones hold and hear.                                              *)
PhonesTruthful ==
    /\ stored = session
    /\ logouts \subseteq ended
    /\ \A p \in Phone :
        /\ attempt[p].at # "idle" => attempt[p].email \in Email
        /\ attempt[p].at = "signed" => attempt[p].token \in IssuedTokens
        /\ session[p] # NoToken => session[p] \in IssuedTokens
        /\ \A c \in polls[p] :
            /\ c.token \in IssuedTokens
            /\ c.answer = "401" => ~ValidToken(c.token)

SessionsInv == Typed /\ Handed /\ Owned /\ PhonesTruthful /\ SessionsTraced

(* The parts of the action property.                                       *)
StepForCause ==
    /\ \A e \in Email : EndsForCause(e)
    /\ \A p \in Phone : MadeOnFreeAddress(p) /\ LeavesForCause(p)

-----------------------------------------------------------------------------
(* The next token is one more than the last.                               *)
LEMMA NextIsNew ==
    ASSUME NEW n \in 0 .. MaxTokens, IssuedTokens = 1 .. n
    PROVE  NextToken = n + 1
<1>1. n \in Nat /\ n + 1 \in 1 .. MaxTokens + 1
  BY SessionsAssumption
<1>2. n + 1 \notin IssuedTokens /\ \A u \in 1 .. (n + 1) - 1 : u \in IssuedTokens
  BY <1>1
<1>3. ASSUME NEW t \in 1 .. MaxTokens + 1, t \notin IssuedTokens,
             \A u \in 1 .. t - 1 : u \in IssuedTokens
      PROVE  t = n + 1
  <2>1. ~(t <= n)
    BY <1>1, <1>3
  <2>2. ~(n + 1 <= t - 1)
    BY <1>1, <1>2, <1>3
  <2> QED BY <1>1, <2>1, <2>2
<1> QED BY <1>1, <1>2, <1>3 DEF NextToken

LEMMA InitHolds == SessionsInit => SessionsInv
<1> SUFFICES ASSUME SessionsInit PROVE SessionsInv
  OBVIOUS
<1>1. IssuedTokens = {}
  BY DEF SessionsInit, IssuedTokens
<1>2. Handed
  <2>1. 0 \in 0 .. MaxTokens /\ 1 .. 0 = {}
    BY SessionsAssumption
  <2> QED BY <1>1, <2>1 DEF Handed
<1>3. Typed
  BY DEF SessionsInit, Typed, SessionsTypeOK, Attempt, NoAttempt, Poll
<1>4. Owned
  BY SessionsAssumption DEF SessionsInit, Owned, Token, NoAccount
<1>5. PhonesTruthful
  BY DEF SessionsInit, PhonesTruthful, NoAttempt
<1>6. SessionsTraced
  BY <1>1 DEF SessionsTraced
<1> QED BY <1>2, <1>3, <1>4, <1>5, <1>6 DEF SessionsInv

(* A step that gives out no session and ends none leaves the accounts as   *)
(* they are.                                                               *)
LEMMA AccountsStay ==
    ASSUME SessionsInv, UNCHANGED <<token, owner>>, ended \subseteq ended'
    PROVE  /\ Handed' /\ Owned' /\ SessionsTraced'
           /\ IssuedTokens' = IssuedTokens
           /\ \A t : ValidToken(t)' <=> ValidToken(t)
           /\ \A e \in Email : EndsForCause(e)
BY DEF SessionsInv, Handed, Owned, SessionsTraced, IssuedTokens, ValidToken, Replaced, EndsForCause

(* A session that is given out is new; it replaces one of its own account. *)
LEMMA GivenSession ==
    ASSUME SessionsInv, NEW p \in Phone, NEW e \in Email, attempt[p].email = e, GiveSession(p, e),
           UNCHANGED <<ended, session, stored, asked, polls, logouts>>
    PROVE  SessionsInv' /\ \A d \in Email : EndsForCause(d)
<1>1. PICK n \in 0 .. MaxTokens : IssuedTokens = 1 .. n
  BY DEF SessionsInv, Handed
<1> DEFINE new == n + 1
<1>2. NextToken = new /\ n \in Nat
  BY <1>1, NextIsNew, SessionsAssumption
<1>3. /\ new \in Token
      /\ token' = [token EXCEPT ![e] = new] /\ owner' = [owner EXCEPT ![new] = e]
      /\ attempt' = [attempt EXCEPT ![p].at = "signed", ![p].token = new]
  BY <1>2 DEF GiveSession
<1> HIDE DEF new
<1>4. new \notin IssuedTokens
  BY <1>1, <1>2 DEF new
<1>5. IssuedTokens' = IssuedTokens \cup {new}
  BY <1>3, SessionsAssumption DEF SessionsInv, Typed, SessionsTypeOK, IssuedTokens
<1>6. Handed'
  <2>1. new \in 0 .. MaxTokens /\ 1 .. new = (1 .. n) \cup {new}
    BY <1>2, <1>3 DEF new, Token
  <2> QED BY <1>1, <1>5, <2>1 DEF Handed
<1>7. Typed'
  <2>1. attempt' \in [Phone -> Attempt]
    BY <1>3 DEF SessionsInv, Typed, Attempt
  <2> QED BY <1>3, <2>1 DEF SessionsInv, Typed, SessionsTypeOK
<1>8. \A d \in Email : token[d] \in Token => token[d] \in IssuedTokens /\ token[d] # new
  BY <1>4, SessionsAssumption DEF SessionsInv, Owned, IssuedTokens
<1>9. Owned'
  BY <1>3, <1>8 DEF SessionsInv, Owned, Typed, SessionsTypeOK
<1>10. \A t \in IssuedTokens : ~ValidToken(t) => ~ValidToken(t)'
  BY <1>3, <1>4 DEF ValidToken, SessionsInv, Typed, SessionsTypeOK
<1>11. PhonesTruthful'
  <2>1. stored' = session' /\ logouts' \subseteq ended'
    BY DEF SessionsInv, PhonesTruthful
  <2> SUFFICES ASSUME NEW q \in Phone
               PROVE  /\ attempt'[q].at # "idle" => attempt'[q].email \in Email
                      /\ attempt'[q].at = "signed" => attempt'[q].token \in IssuedTokens'
                      /\ session'[q] # NoToken => session'[q] \in IssuedTokens'
                      /\ \A c \in polls'[q] :
                            /\ c.token \in IssuedTokens'
                            /\ c.answer = "401" => ~ValidToken(c.token)'
    BY <2>1 DEF PhonesTruthful
  <2>2. q # p => attempt'[q] = attempt[q]
    BY <1>3 DEF SessionsInv, Typed
  <2>3. attempt'[p].token = new /\ attempt'[p].email = attempt[p].email
    BY <1>3 DEF SessionsInv, Typed, Attempt
  <2>4. /\ attempt'[q].at # "idle" => attempt'[q].email \in Email
        /\ attempt'[q].at = "signed" => attempt'[q].token \in IssuedTokens'
    BY <1>5, <2>2, <2>3 DEF SessionsInv, PhonesTruthful
  <2>5. session'[q] # NoToken => session'[q] \in IssuedTokens'
    BY <1>5 DEF SessionsInv, PhonesTruthful
  <2>6. \A c \in polls'[q] :
            c.token \in IssuedTokens' /\ (c.answer = "401" => ~ValidToken(c.token)')
    BY <1>5, <1>10 DEF SessionsInv, PhonesTruthful
  <2> QED BY <2>4, <2>5, <2>6
<1>12. \A d \in Email : EndsForCause(d)
  <2> SUFFICES ASSUME NEW d \in Email, token[d] \in Token, token'[d] # token[d]
               PROVE  token'[d] > token[d]
    BY DEF EndsForCause
  <2>1. d = e /\ token'[d] = new
    BY <1>3 DEF SessionsInv, Typed, SessionsTypeOK
  <2>2. token[d] \in 1 .. n
    BY <1>1, <1>8
  <2> QED BY <1>2, <2>1, <2>2 DEF new
<1>13. SessionsTraced'
  <2> SUFFICES ASSUME NEW t \in IssuedTokens'
               PROVE  token'[owner'[t]] = t \/ Replaced(t)' \/ t \in ended
    BY DEF SessionsTraced
  <2>1. CASE t = new
    BY <1>3, <2>1 DEF SessionsInv, Typed, SessionsTypeOK
  <2>2. CASE t # new
    <3>1. t \in IssuedTokens /\ owner'[t] = owner[t] /\ t \in 1 .. n
      BY <1>1, <1>3, <1>5, <2>2 DEF SessionsInv, Typed, SessionsTypeOK, IssuedTokens
    <3>2. Replaced(t) => Replaced(t)'
      <4> SUFFICES ASSUME NEW u \in IssuedTokens, u > t, owner[u] = owner[t]
                   PROVE  Replaced(t)'
        BY DEF Replaced
      <4>1. u \in IssuedTokens' /\ owner'[u] = owner[u]
        BY <1>3, <1>4, <1>5 DEF SessionsInv, Typed, SessionsTypeOK, IssuedTokens
      <4> QED BY <3>1, <4>1 DEF Replaced
    <3>3. owner[t] = e => Replaced(t)'
      <4> SUFFICES ASSUME owner[t] = e PROVE Replaced(t)'
        OBVIOUS
      <4>1. new > t
        BY <1>2, <3>1 DEF new
      <4>2. owner'[new] = e /\ new \in IssuedTokens'
        BY <1>3, <1>5 DEF SessionsInv, Typed, SessionsTypeOK
      <4> QED BY <3>1, <4>1, <4>2 DEF Replaced
    <3>4. owner[t] \in Email
      BY <3>1 DEF IssuedTokens, SessionsInv, Typed, SessionsTypeOK
    <3>5. owner[t] # e => token'[owner[t]] = token[owner[t]]
      BY <1>3, <3>4 DEF SessionsInv, Typed, SessionsTypeOK
    <3> QED BY <3>1, <3>2, <3>3, <3>5 DEF SessionsInv, SessionsTraced
  <2> QED BY <2>1, <2>2
<1> QED BY <1>6, <1>7, <1>9, <1>11, <1>12, <1>13 DEF SessionsInv

-----------------------------------------------------------------------------
(* The steps of the form before an answer, which move the attempt of one   *)
(* phone and what it was asked.                                            *)
LEMMA AttemptStep ==
    ASSUME SessionsInv, NEW p \in Phone, NEW next \in Attempt,
           attempt' = [attempt EXCEPT ![p] = next],
           next.at \in {"idle", "login", "unknown", "signup", "hashing"},
           next.at # "idle" => next.email \in Email,
           asked' \in [Phone -> Email \cup {NoEmail}],
           UNCHANGED <<token, owner, ended, session, stored, polls, logouts>>
    PROVE  SessionsInv' /\ StepForCause
<1>1. /\ Handed' /\ Owned' /\ SessionsTraced' /\ IssuedTokens' = IssuedTokens
      /\ \A t : ValidToken(t)' <=> ValidToken(t)
      /\ \A e \in Email : EndsForCause(e)
  BY AccountsStay
<1>2. Typed'
  BY DEF SessionsInv, Typed, SessionsTypeOK
<1>3. \A q \in Phone : attempt'[q] = IF q = p THEN next ELSE attempt[q]
  BY DEF SessionsInv, Typed
<1>4. PhonesTruthful'
  <2>1. \A q \in Phone :
            /\ attempt'[q].at # "idle" => attempt'[q].email \in Email
            /\ attempt'[q].at = "signed" => attempt'[q].token \in IssuedTokens
    BY <1>3 DEF SessionsInv, PhonesTruthful
  <2> QED BY <1>1, <2>1 DEF SessionsInv, PhonesTruthful
<1>5. \A q \in Phone : MadeOnFreeAddress(q) /\ LeavesForCause(q)
  BY <1>3 DEF MadeOnFreeAddress, LeavesForCause
<1> QED BY <1>1, <1>2, <1>4, <1>5 DEF SessionsInv, StepForCause

(* The sign-in of an account, and the insert of a new one.                 *)
LEMMA GivenStep ==
    ASSUME SessionsInv, NEW p \in Phone, NEW e \in Email, attempt[p].email = e,
           GiveSession(p, e), attempt[p].at = "hashing" => token[e] = NoAccount,
           UNCHANGED <<ended, session, stored, asked, polls, logouts>>
    PROVE  SessionsInv' /\ StepForCause
<1>1. SessionsInv' /\ \A d \in Email : EndsForCause(d)
  BY GivenSession
<1>2. \A q \in Phone : q # p => attempt'[q] = attempt[q]
  BY DEF GiveSession, SessionsInv, Typed
<1>3. \A q \in Phone : MadeOnFreeAddress(q) /\ LeavesForCause(q)
  BY <1>2 DEF MadeOnFreeAddress, LeavesForCause
<1> QED BY <1>1, <1>3 DEF StepForCause

LEMMA FormStep ==
    ASSUME SessionsInv, NEW p \in Phone,
           \/ \E e \in Email : handleContinue(p, e)
           \/ NoSuchAccount(p) \/ SignupFree(p) \/ SignInFails(p)
    PROVE  SessionsInv' /\ StepForCause
<1>1. NoAttempt \in Attempt /\ NoAttempt.at = "idle"
  BY DEF NoAttempt, Attempt
<1>2. attempt[p] \in Attempt /\ asked \in [Phone -> Email \cup {NoEmail}]
  BY DEF SessionsInv, Typed, SessionsTypeOK
<1>3. attempt[p].at # "idle" => attempt[p].email \in Email
  BY DEF SessionsInv, PhonesTruthful
<1>4. ASSUME NEW e \in Email, handleContinue(p, e) PROVE SessionsInv' /\ StepForCause
  <2> DEFINE next == [NoAttempt EXCEPT !.at = "login", !.email = e]
  <2>1. next \in Attempt /\ next.at = "login" /\ next.email = e
    BY DEF NoAttempt, Attempt
  <2>2. attempt' = [attempt EXCEPT ![p] = next]
    BY <1>4 DEF handleContinue
  <2> HIDE DEF next
  <2> QED BY <1>2, <1>4, <2>1, <2>2, AttemptStep DEF handleContinue
<1>5. CASE NoSuchAccount(p)
  <2>1. CASE asked[p] = attempt[p].email
    <3> DEFINE next == [attempt[p] EXCEPT !.at = "signup"]
    <3>1. next \in Attempt /\ next.at = "signup" /\ next.email = attempt[p].email
      BY <1>2 DEF Attempt
    <3>2. attempt' = [attempt EXCEPT ![p] = next] /\ asked' = asked
      BY <1>5, <2>1 DEF NoSuchAccount, SessionsInv, Typed
    <3>3. next.email \in Email
      BY <1>3, <1>5, <3>1 DEF NoSuchAccount
    <3> HIDE DEF next
    <3> QED BY <1>2, <1>5, <3>1, <3>2, <3>3, AttemptStep DEF NoSuchAccount
  <2>2. CASE asked[p] # attempt[p].email
    <3>1. attempt' = [attempt EXCEPT ![p] = NoAttempt]
      BY <1>5, <2>2 DEF NoSuchAccount
    <3>2. asked' \in [Phone -> Email \cup {NoEmail}]
      BY <1>2, <1>3, <1>5, <2>2 DEF NoSuchAccount
    <3> QED BY <1>1, <1>5, <3>1, <3>2, AttemptStep DEF NoSuchAccount
  <2> QED BY <2>1, <2>2
<1>6. CASE SignupFree(p)
  <2>1. CASE token[attempt[p].email] = NoAccount
    <3> DEFINE next == [attempt[p] EXCEPT !.at = "hashing"]
    <3>1. next \in Attempt /\ next.at = "hashing" /\ next.email = attempt[p].email
      BY <1>2 DEF Attempt
    <3>2. attempt' = [attempt EXCEPT ![p] = next]
      BY <1>6, <2>1 DEF SignupFree, SessionsInv, Typed
    <3>3. next.email \in Email
      BY <1>3, <1>6, <3>1 DEF SignupFree
    <3> HIDE DEF next
    <3> QED BY <1>2, <1>6, <3>1, <3>2, <3>3, AttemptStep DEF SignupFree
  <2>2. CASE token[attempt[p].email] # NoAccount
    <3>1. attempt' = [attempt EXCEPT ![p] = NoAttempt]
      BY <1>6, <2>2 DEF SignupFree
    <3> QED BY <1>1, <1>2, <1>6, <3>1, AttemptStep DEF SignupFree
  <2> QED BY <2>1, <2>2
<1>7. CASE SignInFails(p)
  BY <1>1, <1>2, <1>7, AttemptStep DEF SignInFails
<1> QED BY <1>4, <1>5, <1>6, <1>7

LEMMA LoginStep ==
    ASSUME SessionsInv, NEW p \in Phone, Login(p) \/ SignupInsert(p)
    PROVE  SessionsInv' /\ StepForCause
<1> DEFINE e == attempt[p].email
<1>1. attempt[p] \in Attempt /\ e \in Email /\ asked \in [Phone -> Email \cup {NoEmail}]
  BY DEF Login, SignupInsert, SessionsInv, Typed, SessionsTypeOK, PhonesTruthful
<1>2. UNCHANGED <<ended, session, stored, asked, polls, logouts>>
  BY DEF Login, SignupInsert
<1>3. CASE Login(p) /\ token[e] = NoAccount
  <2> DEFINE next == [attempt[p] EXCEPT !.at = "unknown"]
  <2>1. next \in Attempt /\ next.at = "unknown" /\ next.email = e
    BY <1>1 DEF Attempt
  <2>2. attempt' = [attempt EXCEPT ![p] = next] /\ UNCHANGED <<token, owner>>
    BY <1>3 DEF Login, SessionsInv, Typed
  <2> HIDE DEF next
  <2> QED BY <1>1, <1>2, <2>1, <2>2, AttemptStep
<1>4. CASE Login(p) /\ token[e] # NoAccount
  <2>1. GiveSession(p, e) /\ attempt[p].at = "login"
    BY <1>4 DEF Login
  <2> QED BY <1>1, <1>2, <2>1, GivenStep
<1>5. CASE SignupInsert(p) /\ token[e] = NoAccount
  <2>1. GiveSession(p, e)
    BY <1>5 DEF SignupInsert, AddressFree
  <2> QED BY <1>1, <1>2, <1>5, <2>1, GivenStep
<1>6. CASE SignupInsert(p) /\ token[e] # NoAccount
  <2>1. NoAttempt \in Attempt /\ NoAttempt.at = "idle"
    BY DEF NoAttempt, Attempt
  <2>2. attempt' = [attempt EXCEPT ![p] = NoAttempt] /\ UNCHANGED <<token, owner>>
    BY <1>6 DEF SignupInsert, AddressFree
  <2> QED BY <1>1, <1>2, <2>1, <2>2, AttemptStep
<1> QED BY <1>3, <1>4, <1>5, <1>6

-----------------------------------------------------------------------------
(* What the phone keeps: saved and cleared in its store and in the app at  *)
(* once.                                                                   *)
LEMMA SignedInStep ==
    ASSUME SessionsInv, NEW p \in Phone, SignedIn(p)
    PROVE  SessionsInv' /\ StepForCause
<1> DEFINE t == attempt[p].token
<1>1. /\ Handed' /\ Owned' /\ SessionsTraced' /\ IssuedTokens' = IssuedTokens
      /\ \A x : ValidToken(x)' <=> ValidToken(x)
      /\ \A e \in Email : EndsForCause(e)
  BY AccountsStay DEF SignedIn
<1>2. attempt[p].at = "signed" /\ t \in IssuedTokens /\ t \in Token /\ t # NoToken
  BY SessionsAssumption DEF SignedIn, SessionsInv, PhonesTruthful, IssuedTokens, Token, NoToken
<1>3. /\ session' = [session EXCEPT ![p] = t] /\ stored' = session'
      /\ attempt' = [attempt EXCEPT ![p] = NoAttempt]
      /\ asked' = [asked EXCEPT ![p] = NoEmail]
      /\ UNCHANGED <<token, owner, ended, polls, logouts>>
  BY DEF SignedIn
<1>4. NoAttempt \in Attempt /\ NoAttempt.at = "idle"
  BY DEF NoAttempt, Attempt
<1>5. \A q \in Phone : /\ attempt'[q] = IF q = p THEN NoAttempt ELSE attempt[q]
                       /\ session'[q] = IF q = p THEN t ELSE session[q]
  BY <1>3 DEF SessionsInv, Typed, SessionsTypeOK
<1>6. Typed'
  BY <1>2, <1>3, <1>4 DEF SessionsInv, Typed, SessionsTypeOK
<1>7. PhonesTruthful'
  <2>1. \A q \in Phone :
            /\ attempt'[q].at # "idle" => attempt'[q].email \in Email
            /\ attempt'[q].at = "signed" => attempt'[q].token \in IssuedTokens
            /\ session'[q] # NoToken => session'[q] \in IssuedTokens
    BY <1>2, <1>4, <1>5 DEF SessionsInv, PhonesTruthful
  <2> QED BY <1>1, <1>3, <2>1 DEF SessionsInv, PhonesTruthful
<1>8. \A q \in Phone : MadeOnFreeAddress(q) /\ LeavesForCause(q)
  BY <1>2, <1>4, <1>5 DEF MadeOnFreeAddress, LeavesForCause
<1> QED BY <1>1, <1>6, <1>7, <1>8 DEF SessionsInv, StepForCause

(* Calls and answers; a refusal tells the truth when it is given, and      *)
(* stays true.                                                             *)
LEMMA CallStep ==
    ASSUME SessionsInv, NEW p \in Phone, NEW C \in SUBSET Poll,
           polls' = [polls EXCEPT ![p] = C],
           \A c \in C : c.token \in IssuedTokens /\ (c.answer = "401" => ~ValidToken(c.token)),
           UNCHANGED <<token, owner, ended, session, stored, asked, attempt, logouts>>
    PROVE  SessionsInv' /\ StepForCause
<1>1. /\ Handed' /\ Owned' /\ SessionsTraced' /\ IssuedTokens' = IssuedTokens
      /\ \A t : ValidToken(t)' <=> ValidToken(t)
      /\ \A e \in Email : EndsForCause(e)
  BY AccountsStay
<1>2. Typed'
  BY DEF SessionsInv, Typed, SessionsTypeOK
<1>3. \A q \in Phone : polls'[q] = IF q = p THEN C ELSE polls[q]
  BY DEF SessionsInv, Typed
<1>4. PhonesTruthful'
  <2>1. \A q \in Phone : \A c \in polls'[q] :
            c.token \in IssuedTokens /\ (c.answer = "401" => ~ValidToken(c.token))
    BY <1>3 DEF SessionsInv, PhonesTruthful
  <2> QED BY <1>1, <2>1 DEF SessionsInv, PhonesTruthful
<1>5. \A q \in Phone : MadeOnFreeAddress(q) /\ LeavesForCause(q)
  BY DEF MadeOnFreeAddress, LeavesForCause
<1> QED BY <1>1, <1>2, <1>4, <1>5 DEF SessionsInv, StepForCause

LEMMA ApiStep ==
    ASSUME SessionsInv, NEW p \in Phone,
           CallApi(p) \/ \E c \in polls[p] : AnswerApi(p, c)
    PROVE  SessionsInv' /\ StepForCause
<1>1. CASE CallApi(p)
  <2> DEFINE call == [token |-> session[p], answer |-> "none"]
  <2>1. session[p] \in IssuedTokens /\ session[p] \in Token
    BY <1>1 DEF CallApi, SessionsInv, PhonesTruthful, IssuedTokens
  <2>2. call \in Poll
    BY <2>1 DEF Poll
  <2>3. polls' = [polls EXCEPT ![p] = {call}] /\ call.token \in IssuedTokens /\ call.answer = "none"
    BY <1>1, <2>1 DEF CallApi
  <2> HIDE DEF call
  <2>4. /\ {call} \in SUBSET Poll
        /\ \A c \in {call} : c.token \in IssuedTokens /\ (c.answer = "401" => ~ValidToken(c.token))
    BY <2>2, <2>3
  <2>5. UNCHANGED <<token, owner, ended, session, stored, asked, attempt, logouts>>
    BY <1>1 DEF CallApi
  <2> QED BY <2>3, <2>4, <2>5, CallStep
<1>2. ASSUME NEW c \in polls[p], AnswerApi(p, c) PROVE SessionsInv' /\ StepForCause
  <2> DEFINE said == [c EXCEPT !.answer = IF ValidToken(c.token) THEN "ok" ELSE "401"]
  <2>1. c \in Poll /\ c.token \in IssuedTokens
    BY DEF SessionsInv, Typed, PhonesTruthful
  <2>2. said \in Poll /\ said.token = c.token /\ (said.answer = "401" => ~ValidToken(c.token))
    BY <2>1 DEF Poll
  <2>3. polls' = [polls EXCEPT ![p] = {said}]
    BY <1>2 DEF AnswerApi
  <2> HIDE DEF said
  <2>4. /\ {said} \in SUBSET Poll
        /\ \A d \in {said} : d.token \in IssuedTokens /\ (d.answer = "401" => ~ValidToken(d.token))
    BY <2>1, <2>2
  <2>5. UNCHANGED <<token, owner, ended, session, stored, asked, attempt, logouts>>
    BY <1>2 DEF AnswerApi
  <2> QED BY <2>3, <2>4, <2>5, CallStep
<1> QED BY <1>1, <1>2

(* A phone forgets its session: the answer was a refusal of a session that *)
(* is no more, or its user logged out.                                     *)
LEMMA ForgetStep ==
    ASSUME SessionsInv, NEW p \in Phone,
           handleLogOut(p) \/ \E c \in polls[p] : HearAnswer(p, c)
    PROVE  SessionsInv' /\ StepForCause
<1>1. ended \subseteq ended' /\ UNCHANGED <<token, owner, asked, attempt>>
  BY DEF handleLogOut, HearAnswer
<1>2. /\ Handed' /\ Owned' /\ SessionsTraced' /\ IssuedTokens' = IssuedTokens
      /\ \A t : ValidToken(t)' <=> ValidToken(t)
      /\ \A e \in Email : EndsForCause(e)
  BY <1>1, AccountsStay
<1>3. \/ UNCHANGED <<session, stored>>
      \/ /\ session' = [session EXCEPT ![p] = NoToken]
         /\ stored' = [stored EXCEPT ![p] = NoToken]
  BY DEF handleLogOut, HearAnswer
<1>4. \A q \in Phone : session'[q] = session[q] \/ (q = p /\ session'[q] = NoToken)
  BY <1>3 DEF SessionsInv, Typed, SessionsTypeOK
<1>5. session[p] # NoToken => session[p] \in Token
  BY DEF SessionsInv, Typed, SessionsTypeOK
<1>6. ended' \subseteq Token /\ logouts' \subseteq ended'
  BY <1>5 DEF handleLogOut, HearAnswer, SessionsInv, Typed, SessionsTypeOK, PhonesTruthful
<1>7. polls' \in [Phone -> SUBSET Poll] /\ \A q \in Phone : polls'[q] \subseteq polls[q]
  BY DEF handleLogOut, HearAnswer, SessionsInv, Typed
<1>8. Typed'
  <2>1. session' \in [Phone -> Token \cup {NoToken}] /\ stored' \in [Phone -> Token \cup {NoToken}]
    BY <1>3 DEF SessionsInv, Typed, SessionsTypeOK
  <2>2. logouts' \subseteq Token
    BY <1>6
  <2> QED BY <1>1, <1>6, <1>7, <2>1, <2>2 DEF SessionsInv, Typed, SessionsTypeOK
<1>9. PhonesTruthful'
  <2>1. stored' = session'
    BY <1>3 DEF SessionsInv, PhonesTruthful
  <2>2. \A q \in Phone : session'[q] # NoToken => session'[q] \in IssuedTokens
    BY <1>4 DEF SessionsInv, PhonesTruthful
  <2>3. \A q \in Phone : \A c \in polls'[q] :
            c.token \in IssuedTokens /\ (c.answer = "401" => ~ValidToken(c.token))
    BY <1>7 DEF SessionsInv, PhonesTruthful
  <2> QED BY <1>1, <1>2, <1>6, <2>1, <2>2, <2>3 DEF SessionsInv, PhonesTruthful
<1>10. \A q \in Phone : MadeOnFreeAddress(q)
  BY <1>1 DEF MadeOnFreeAddress
<1>11. \A q \in Phone : LeavesForCause(q)
  <2> SUFFICES ASSUME session[p] # NoToken, session'[p] = NoToken
               PROVE  session[p] \in ended' \/ \E c \in polls[p] : c.answer = "401" /\ ~ValidToken(c.token)
    BY <1>4 DEF LeavesForCause
  <2>1. CASE handleLogOut(p)
    BY <2>1 DEF handleLogOut
  <2>2. ASSUME NEW c \in polls[p], HearAnswer(p, c)
        PROVE  \E d \in polls[p] : d.answer = "401" /\ ~ValidToken(d.token)
    <3>1. c.answer = "401"
      BY <2>2 DEF HearAnswer
    <3> QED BY <3>1 DEF SessionsInv, PhonesTruthful
  <2> QED BY <2>1, <2>2
<1> QED BY <1>2, <1>8, <1>9, <1>10, <1>11 DEF SessionsInv, StepForCause

LEMMA RestartStep ==
    ASSUME SessionsInv, NEW p \in Phone, RestartApp(p)
    PROVE  SessionsInv' /\ StepForCause
<1>1. session' = session /\ UNCHANGED <<token, owner, ended, stored, logouts>>
  <2>1. session' = [session EXCEPT ![p] = session[p]]
    BY DEF RestartApp, SessionsInv, PhonesTruthful
  <2> QED BY <2>1 DEF RestartApp, SessionsInv, Typed, SessionsTypeOK
<1>2. /\ Handed' /\ Owned' /\ SessionsTraced' /\ IssuedTokens' = IssuedTokens
      /\ \A t : ValidToken(t)' <=> ValidToken(t)
      /\ \A e \in Email : EndsForCause(e)
  BY <1>1, AccountsStay
<1>3. /\ asked' = [asked EXCEPT ![p] = NoEmail] /\ attempt' = [attempt EXCEPT ![p] = NoAttempt]
      /\ polls' = [polls EXCEPT ![p] = {}]
  BY DEF RestartApp
<1>4. NoAttempt \in Attempt /\ NoAttempt.at = "idle"
  BY DEF NoAttempt, Attempt
<1>5. Typed'
  BY <1>1, <1>3, <1>4 DEF SessionsInv, Typed, SessionsTypeOK
<1>6. \A q \in Phone : /\ attempt'[q] = IF q = p THEN NoAttempt ELSE attempt[q]
                       /\ polls'[q] \subseteq polls[q]
  BY <1>3 DEF SessionsInv, Typed
<1>7. PhonesTruthful'
  <2>1. \A q \in Phone :
            /\ attempt'[q].at # "idle" => attempt'[q].email \in Email
            /\ attempt'[q].at = "signed" => attempt'[q].token \in IssuedTokens
            /\ \A c \in polls'[q] :
                    c.token \in IssuedTokens /\ (c.answer = "401" => ~ValidToken(c.token))
    BY <1>4, <1>6 DEF SessionsInv, PhonesTruthful
  <2> QED BY <1>1, <1>2, <2>1 DEF SessionsInv, PhonesTruthful
<1>8. \A q \in Phone : MadeOnFreeAddress(q) /\ LeavesForCause(q)
  BY <1>1, <1>4, <1>6 DEF MadeOnFreeAddress, LeavesForCause
<1> QED BY <1>2, <1>5, <1>7, <1>8 DEF SessionsInv, StepForCause

(* A logout that arrives ends the session it names, if the account still   *)
(* has it, and no other.                                                   *)
LEMMA LogoutStep ==
    ASSUME SessionsInv, NEW t \in logouts, Logout(t)
    PROVE  SessionsInv' /\ StepForCause
<1>1. /\ logouts' = logouts \ {t}
      /\ token' = [e \in Email |-> IF token[e] # NoAccount /\ token[e] = t THEN NoToken ELSE token[e]]
      /\ UNCHANGED <<owner, ended, session, stored, asked, attempt, polls>>
  BY DEF Logout, Ends
<1>2. t \in ended /\ t \in Token
  BY DEF SessionsInv, PhonesTruthful, Typed, SessionsTypeOK
<1>3. IssuedTokens' = IssuedTokens /\ Handed'
  BY <1>1 DEF SessionsInv, Handed, IssuedTokens
<1>4. Typed'
  BY <1>1 DEF SessionsInv, Typed, SessionsTypeOK
<1>5. NoToken \notin Token
  BY SessionsAssumption DEF Token, NoToken
<1>6. Owned'
  BY <1>1, <1>5 DEF SessionsInv, Owned
<1>7. PhonesTruthful'
  <2>1. \A x \in Token : ~ValidToken(x) => ~ValidToken(x)'
    BY <1>1, <1>5 DEF ValidToken
  <2>2. IssuedTokens \subseteq Token
    BY DEF IssuedTokens
  <2>3. \A q \in Phone : \A c \in polls[q] :
            c.token \in IssuedTokens /\ (c.answer = "401" => ~ValidToken(c.token)')
    BY <2>1, <2>2 DEF SessionsInv, PhonesTruthful
  <2> QED BY <1>1, <1>3, <2>3 DEF SessionsInv, PhonesTruthful
<1>8. SessionsTraced'
  <2> SUFFICES ASSUME NEW x \in IssuedTokens
               PROVE  token'[owner[x]] = x \/ Replaced(x) \/ x \in ended
    BY <1>1, <1>3 DEF SessionsTraced, Replaced
  <2>1. token[owner[x]] = x \/ Replaced(x) \/ x \in ended
    BY DEF SessionsInv, SessionsTraced
  <2>2. owner[x] \in Email
    BY DEF IssuedTokens, SessionsInv, Typed, SessionsTypeOK
  <2> QED BY <1>1, <1>2, <2>1, <2>2
<1>9. \A e \in Email : EndsForCause(e)
  BY <1>1, <1>2 DEF EndsForCause
<1>10. \A q \in Phone : MadeOnFreeAddress(q) /\ LeavesForCause(q)
  BY <1>1 DEF MadeOnFreeAddress, LeavesForCause
<1> QED BY <1>3, <1>4, <1>6, <1>7, <1>8, <1>9, <1>10 DEF SessionsInv, StepForCause

LEMMA LogoutLostStep ==
    ASSUME SessionsInv, NEW t \in logouts, LogoutLost(t)
    PROVE  SessionsInv' /\ StepForCause
<1>1. /\ logouts' = logouts \ {t}
      /\ UNCHANGED <<token, owner, ended, session, stored, asked, attempt, polls>>
  BY DEF LogoutLost
<1>2. /\ Handed' /\ Owned' /\ SessionsTraced' /\ IssuedTokens' = IssuedTokens
      /\ \A x : ValidToken(x)' <=> ValidToken(x)
      /\ \A e \in Email : EndsForCause(e)
  BY <1>1, AccountsStay
<1>3. Typed' /\ PhonesTruthful'
  BY <1>1, <1>2 DEF SessionsInv, Typed, SessionsTypeOK, PhonesTruthful
<1>4. \A q \in Phone : MadeOnFreeAddress(q) /\ LeavesForCause(q)
  BY <1>1 DEF MadeOnFreeAddress, LeavesForCause
<1> QED BY <1>2, <1>3, <1>4 DEF SessionsInv, StepForCause

-----------------------------------------------------------------------------
LEMMA StepHolds ==
    ASSUME SessionsInv, [SessionsNext]_sessionVars
    PROVE  SessionsInv' /\ [StepForCause]_sessionVars
<1>1. CASE UNCHANGED sessionVars
  <2>1. SessionsInv'
    BY <1>1 DEF sessionVars, SessionsInv, Typed, SessionsTypeOK, Handed, Owned, PhonesTruthful,
                SessionsTraced, IssuedTokens, ValidToken, Replaced
  <2> QED BY <1>1, <2>1
<1>2. ASSUME NEW p \in Phone,
             \/ \E e \in Email : handleContinue(p, e)
             \/ NoSuchAccount(p) \/ SignupFree(p) \/ SignInFails(p)
      PROVE  SessionsInv' /\ StepForCause
  BY <1>2, FormStep
<1>3. ASSUME NEW p \in Phone, Login(p) \/ SignupInsert(p) PROVE SessionsInv' /\ StepForCause
  BY <1>3, LoginStep
<1>4. ASSUME NEW p \in Phone, SignedIn(p) PROVE SessionsInv' /\ StepForCause
  BY <1>4, SignedInStep
<1>5. ASSUME NEW p \in Phone, CallApi(p) \/ \E c \in polls[p] : AnswerApi(p, c)
      PROVE  SessionsInv' /\ StepForCause
  BY <1>5, ApiStep
<1>6. ASSUME NEW p \in Phone, handleLogOut(p) \/ \E c \in polls[p] : HearAnswer(p, c)
      PROVE  SessionsInv' /\ StepForCause
  BY <1>6, ForgetStep
<1>7. ASSUME NEW p \in Phone, RestartApp(p) PROVE SessionsInv' /\ StepForCause
  BY <1>7, RestartStep
<1>8. ASSUME NEW t \in logouts, Logout(t) \/ LogoutLost(t) PROVE SessionsInv' /\ StepForCause
  BY <1>8, LogoutStep, LogoutLostStep
<1>9. SessionsNext => SessionsInv' /\ StepForCause
  BY <1>2, <1>3, <1>4, <1>5, <1>6, <1>7, <1>8 DEF SessionsNext
<1> QED BY <1>1, <1>9

(* A session ends only because its phone logged out or its account signed  *)
(* in again, whatever order sign-ups, sign-ins and late logouts come in;   *)
(* an account is made on an address that is free when it is stored; and no *)
(* phone is signed out but by its user or after a true refusal             *)
(* (index.js, lib/auth.js, api/client.js).                                 *)
THEOREM SessionsEndOnlyForCause == SessionsSpec => SessionsEndForCause
<1>1. SessionsInv => SessionsTraced
  BY DEF SessionsInv
<1>2. SessionsInv' => SessionsTraced'
  BY DEF SessionsInv
<1>3. SessionsInv /\ [SessionsNext]_sessionVars => SessionsInv'
  BY StepHolds
<1>4. SessionsInv /\ [SessionsNext]_sessionVars =>
        [ /\ SessionsTraced'
          /\ \A e \in Email : EndsForCause(e)
          /\ \A p \in Phone : MadeOnFreeAddress(p) /\ LeavesForCause(p) ]_sessionVars
  BY StepHolds, <1>2 DEF StepForCause
<1> QED BY <1>1, <1>3, <1>4, InitHolds, PTL DEF SessionsSpec, SessionsEndForCause

-----------------------------------------------------------------------------
(* Referrals. *)

Credit == [friend : Member, day : 0 .. MaxDay]

(* Whom a credit is for, and when it was given.                            *)
CreditsTraced ==
    \A r \in Member : \A i \in DOMAIN earned[r] :
        /\ earned[r][i].friend \in evaluated
        /\ referredBy[earned[r][i].friend] = r
        /\ earned[r][i].day <= today

(* A referrer's credits are for different friends, a cooldown apart.       *)
CreditsApart ==
    \A r \in Member : \A i, j \in DOMAIN earned[r] :
        /\ earned[r][i].friend = earned[r][j].friend => i = j
        /\ i > 1 => earned[r][i].day >= earned[r][i - 1].day + Cooldown

NobodyRefersThemselves == \A u \in Member : referredBy[u] # u

ReferralsInv == ReferralsTypeOK /\ NobodyRefersThemselves /\ CreditsTraced /\ CreditsApart

-----------------------------------------------------------------------------
(* What a referrer has earned is a list of credits.                        *)
LEMMA CreditsListed ==
    ASSUME ReferralsTypeOK, NEW r \in Member
    PROVE  /\ earned[r] \in Seq(Credit)
           /\ DOMAIN earned[r] = 1 .. Len(earned[r]) /\ Len(earned[r]) \in Nat
           /\ \A i \in DOMAIN earned[r] : earned[r][i] \in Credit
<1>1. earned[r] \in Seq(Credit)
  BY DEF ReferralsTypeOK, Credit
<1> HIDE DEF Credit
<1> QED BY <1>1

LEMMA InvGivesEarnOnce == ReferralsInv => ReferralsEarnOnce
<1> SUFFICES ASSUME ReferralsInv PROVE ReferralsEarnOnce
  OBVIOUS
<1>1. ASSUME NEW r \in Member, NEW s \in Member, NEW i \in DOMAIN earned[r],
             NEW j \in DOMAIN earned[s], earned[r][i].friend = earned[s][j].friend
      PROVE  r = s /\ i = j
  <2>1. r = s
    BY <1>1 DEF ReferralsInv, CreditsTraced
  <2> QED BY <1>1, <2>1 DEF ReferralsInv, CreditsApart
<1>2. ASSUME NEW r \in Member, NEW i \in DOMAIN earned[r]
      PROVE  earned[r][i].friend # r
  <2>1. earned[r][i] \in Credit
    BY CreditsListed DEF ReferralsInv
  <2> QED BY <2>1 DEF ReferralsInv, CreditsTraced, NobodyRefersThemselves, Credit
<1>3. ASSUME NEW r \in Member, NEW i \in DOMAIN earned[r], i > 1
      PROVE  earned[r][i].day >= earned[r][i - 1].day + Cooldown
  BY <1>3 DEF ReferralsInv, CreditsApart
<1> QED BY <1>1, <1>2, <1>3 DEF ReferralsEarnOnce

LEMMA ReferralsInitHolds == ReferralsInit => ReferralsInv
<1> SUFFICES ASSUME ReferralsInit PROVE ReferralsInv
  OBVIOUS
<1>1. ReferralsTypeOK
  BY ReferralsAssumption DEF ReferralsInit, ReferralsTypeOK
<1>2. NobodyRefersThemselves
  BY ReferralsAssumption DEF ReferralsInit, NobodyRefersThemselves
<1>3. \A r \in Member : DOMAIN earned[r] = {}
  BY DEF ReferralsInit
<1> QED BY <1>1, <1>2, <1>3 DEF ReferralsInv, CreditsTraced, CreditsApart

(* A step that writes no credit and no link keeps what is said of them.    *)
LEMMA CreditsKept ==
    ASSUME ReferralsInv, ReferralsTypeOK', UNCHANGED <<today, referredBy, earned>>,
           evaluated \subseteq evaluated'
    PROVE  ReferralsInv'
<1>1. NobodyRefersThemselves'
  BY DEF ReferralsInv, NobodyRefersThemselves
<1>2. CreditsTraced'
  <2>1. ASSUME NEW r \in Member, NEW i \in DOMAIN earned[r]
        PROVE  /\ earned[r][i].friend \in evaluated'
               /\ referredBy[earned[r][i].friend] = r
               /\ earned[r][i].day <= today
    BY <2>1 DEF ReferralsInv, CreditsTraced
  <2> QED BY <2>1 DEF CreditsTraced
<1>3. CreditsApart'
  BY DEF ReferralsInv, CreditsApart
<1> QED BY <1>1, <1>2, <1>3 DEF ReferralsInv

(* A profile is linked once, before it can have been evaluated.            *)
LEMMA CreateProfileStep ==
    ASSUME ReferralsInv, NEW u \in Member, CreateProfile(u)
    PROVE  ReferralsInv'
<1>1. ReferrerOf(u) \in (Member \ {u}) \cup {Nobody}
  BY DEF ReferrerOf, ReferralsInv, ReferralsTypeOK
<1>2. /\ u \notin profile /\ profile' = profile \cup {u}
      /\ referredBy' = [referredBy EXCEPT ![u] = ReferrerOf(u)]
      /\ UNCHANGED <<today, codeUsed, coded, evaluated, earned>>
  BY DEF CreateProfile
<1>3. ReferralsTypeOK'
  BY <1>1, <1>2 DEF ReferralsInv, ReferralsTypeOK
<1>4. NobodyRefersThemselves'
  BY <1>1, <1>2, ReferralsAssumption DEF ReferralsInv, ReferralsTypeOK, NobodyRefersThemselves
<1>5. CreditsTraced'
  <2> SUFFICES ASSUME NEW r \in Member, NEW i \in DOMAIN earned[r]
               PROVE  /\ earned[r][i].friend \in evaluated
                      /\ referredBy'[earned[r][i].friend] = r
                      /\ earned[r][i].day <= today
    BY <1>2 DEF CreditsTraced
  <2>1. /\ earned[r][i].friend \in evaluated /\ referredBy[earned[r][i].friend] = r
        /\ earned[r][i].day <= today
    BY DEF ReferralsInv, CreditsTraced
  <2>2. earned[r][i].friend # u
    BY <1>2, <2>1 DEF ReferralsInv, ReferralsTypeOK
  <2> QED BY <1>2, <2>1, <2>2 DEF ReferralsInv, ReferralsTypeOK
<1>6. CreditsApart'
  BY <1>2 DEF ReferralsInv, CreditsApart
<1> QED BY <1>3, <1>4, <1>5, <1>6 DEF ReferralsInv

(* The first verification is the only one that earns, and only when the    *)
(* last credit of the referrer is a cooldown old.                          *)
LEMMA VerifiedStep ==
    ASSUME ReferralsInv, NEW u \in Member, Verified(u)
    PROVE  ReferralsInv'
<1> DEFINE r == referredBy[u]
           new == [friend |-> u, day |-> today]
<1>1. u \in profile /\ UNCHANGED <<today, codeUsed, profile, coded, referredBy>>
  BY DEF Verified
<1>2. CASE ~FirstVerification(u)
  <2>1. UNCHANGED <<evaluated, earned>>
    BY <1>2 DEF Verified
  <2>2. ReferralsTypeOK'
    BY <1>1, <2>1 DEF ReferralsInv, ReferralsTypeOK
  <2> QED BY <1>1, <2>1, <2>2, CreditsKept
<1>3. CASE FirstVerification(u) /\ CoolingDown(r)
  <2>1. evaluated' = evaluated \cup {u} /\ UNCHANGED earned
    BY <1>3 DEF Verified
  <2>2. ReferralsTypeOK'
    BY <1>1, <2>1 DEF ReferralsInv, ReferralsTypeOK
  <2> QED BY <1>1, <2>1, <2>2, CreditsKept
<1>4. CASE FirstVerification(u) /\ ~CoolingDown(r)
  <2>1. r \in Member /\ u \notin evaluated
    BY <1>4 DEF FirstVerification, ReferralsInv, ReferralsTypeOK
  <2>2. /\ evaluated' = evaluated \cup {u}
        /\ earned' = [earned EXCEPT ![r] = Append(@, new)]
    BY <1>4 DEF Verified
  <2>3. new \in Credit /\ earned[r] \in Seq(Credit)
    BY <2>1 DEF ReferralsInv, ReferralsTypeOK, Credit
  <2>4. /\ DOMAIN earned'[r] = 1 .. Len(earned[r]) + 1
        /\ \A i \in 1 .. Len(earned[r]) : earned'[r][i] = earned[r][i]
        /\ earned'[r][Len(earned[r]) + 1] = new
        /\ DOMAIN earned[r] = 1 .. Len(earned[r]) /\ Len(earned[r]) \in Nat
    BY <2>1, <2>2, <2>3 DEF ReferralsInv, ReferralsTypeOK
  <2>5. \A s \in Member : s # r => earned'[s] = earned[s]
    BY <2>2 DEF ReferralsInv, ReferralsTypeOK
  <2>6. ReferralsTypeOK'
    <3>1. Append(earned[r], new) \in Seq(Credit)
      BY <2>3
    <3>2. earned' \in [Member -> Seq(Credit)]
      BY <2>1, <2>2, <3>1 DEF ReferralsInv, ReferralsTypeOK, Credit
    <3> QED BY <1>1, <2>2, <3>2 DEF ReferralsInv, ReferralsTypeOK, Credit
  <2>7. CreditsTraced'
    <3> SUFFICES ASSUME NEW s \in Member, NEW i \in DOMAIN earned'[s]
                 PROVE  /\ earned'[s][i].friend \in evaluated'
                        /\ referredBy[earned'[s][i].friend] = s
                        /\ earned'[s][i].day <= today
      BY <1>1 DEF CreditsTraced
    <3>1. CASE s = r /\ i = Len(earned[r]) + 1
      BY <2>1, <2>2, <2>4, <3>1 DEF ReferralsInv, ReferralsTypeOK
    <3>2. CASE ~(s = r /\ i = Len(earned[r]) + 1)
      <4>1. i \in DOMAIN earned[s] /\ earned'[s][i] = earned[s][i]
        BY <2>4, <2>5, <3>2
      <4> QED BY <2>2, <4>1 DEF ReferralsInv, CreditsTraced
    <3> QED BY <3>1, <3>2
  <2>8. CreditsApart'
    <3> SUFFICES ASSUME NEW s \in Member, NEW i \in DOMAIN earned'[s], NEW j \in DOMAIN earned'[s]
                 PROVE  /\ earned'[s][i].friend = earned'[s][j].friend => i = j
                        /\ i > 1 => earned'[s][i].day >= earned'[s][i - 1].day + Cooldown
      BY DEF CreditsApart
    <3>1. CASE s # r
      BY <2>5, <3>1 DEF ReferralsInv, CreditsApart
    <3>2. CASE s = r
      <4> DEFINE n == Len(earned[r])
      <4>1. \A k \in 1 .. n : earned[r][k].friend # u
        BY <2>1, <2>4 DEF ReferralsInv, CreditsTraced
      <4>2. earned'[s][i].friend = earned'[s][j].friend => i = j
        <5>1. \A k \in 1 .. n : \A l \in 1 .. n :
                earned[r][k].friend = earned[r][l].friend => k = l
          BY <2>1, <2>4 DEF ReferralsInv, CreditsApart
        <5>2. i \in 1 .. n \/ (i = n + 1 /\ earned'[s][i] = new)
          BY <2>4, <3>2
        <5>3. j \in 1 .. n \/ (j = n + 1 /\ earned'[s][j] = new)
          BY <2>4, <3>2
        <5>4. \A k \in 1 .. n : earned'[s][k] = earned[r][k]
          BY <2>4, <3>2
        <5> QED BY <4>1, <5>1, <5>2, <5>3, <5>4
      <4>3. ASSUME i > 1
            PROVE  earned'[s][i].day >= earned'[s][i - 1].day + Cooldown
        <5>1. CASE i = n + 1
          <6>1. n >= 1 /\ earned[r] # <<>>
            BY <2>4, <4>3, <5>1
          <6>2. ~(today - earned[r][n].day < Cooldown)
            BY <1>4, <6>1 DEF CoolingDown
          <6>3. earned[r][n].day \in Nat /\ today \in Nat /\ Cooldown \in Nat
            <7>1. earned[r][n] \in Credit
              BY <2>3, <2>4, <6>1
            <7> QED BY <7>1, ReferralsAssumption DEF Credit, ReferralsInv, ReferralsTypeOK
          <6>4. earned'[s][i] = new /\ earned'[s][i - 1] = earned[r][n]
            BY <2>4, <3>2, <5>1, <6>1
          <6> QED BY <6>2, <6>3, <6>4
        <5>2. CASE i # n + 1
          <6>1. /\ i \in 1 .. n /\ i - 1 \in 1 .. n
                /\ earned'[s][i] = earned[r][i] /\ earned'[s][i - 1] = earned[r][i - 1]
            <7>1. i \in 1 .. n /\ i - 1 \in 1 .. n
              <8>1. i \in 1 .. n + 1 /\ n \in Nat
                BY <2>4, <3>2
              <8> QED BY <4>3, <5>2, <8>1
            <7> QED BY <2>4, <3>2, <7>1
          <6> QED BY <2>1, <2>4, <4>3, <6>1 DEF ReferralsInv, CreditsApart
        <5> QED BY <5>1, <5>2
      <4> QED BY <4>2, <4>3
    <3> QED BY <3>1, <3>2
  <2>9. NobodyRefersThemselves'
    BY <1>1 DEF ReferralsInv, NobodyRefersThemselves
  <2> QED BY <2>6, <2>7, <2>8, <2>9 DEF ReferralsInv
<1> QED BY <1>2, <1>3, <1>4

LEMMA ReferralsStepHolds == ReferralsInv /\ [ReferralsNext]_referralVars => ReferralsInv'
<1> SUFFICES ASSUME ReferralsInv, [ReferralsNext]_referralVars PROVE ReferralsInv'
  OBVIOUS
<1>1. CASE NewDay
  <2>1. today' \in 0 .. MaxDay /\ today <= today'
    BY <1>1, ReferralsAssumption DEF NewDay, ReferralsInv, ReferralsTypeOK
  <2>2. UNCHANGED <<codeUsed, profile, coded, referredBy, evaluated, earned>>
    BY <1>1 DEF NewDay
  <2>3. CreditsTraced'
    <3> SUFFICES ASSUME NEW r \in Member, NEW i \in DOMAIN earned[r]
                 PROVE  /\ earned[r][i].friend \in evaluated
                        /\ referredBy[earned[r][i].friend] = r
                        /\ earned[r][i].day <= today'
      BY <2>2 DEF CreditsTraced
    <3>1. /\ earned[r][i].friend \in evaluated /\ referredBy[earned[r][i].friend] = r
          /\ earned[r][i].day <= today
      BY DEF ReferralsInv, CreditsTraced
    <3>2. earned[r][i] \in Credit
      BY CreditsListed DEF ReferralsInv
    <3>3. earned[r][i].day <= today'
      BY <2>1, <3>1, <3>2 DEF Credit, ReferralsInv, ReferralsTypeOK
    <3> QED BY <3>1, <3>3
  <2> QED BY <2>1, <2>2, <2>3 DEF ReferralsInv, ReferralsTypeOK, NobodyRefersThemselves,
                                  CreditsApart
<1>2. ASSUME NEW u \in Member, CreateProfile(u) PROVE ReferralsInv'
  BY <1>2, CreateProfileStep
<1>3. ASSUME NEW u \in Member, EnsureCode(u) PROVE ReferralsInv'
  <2>1. /\ u \in profile /\ coded' = coded \cup {u}
        /\ UNCHANGED <<today, codeUsed, profile, referredBy, evaluated, earned>>
    BY <1>3 DEF EnsureCode
  <2>2. ReferralsTypeOK'
    BY <2>1 DEF ReferralsInv, ReferralsTypeOK
  <2> QED BY <2>1, <2>2, CreditsKept
<1>4. ASSUME NEW u \in Member, Verified(u) PROVE ReferralsInv'
  BY <1>4, VerifiedStep
<1>5. CASE UNCHANGED referralVars
  <2>1. UNCHANGED <<today, codeUsed, profile, coded, referredBy, evaluated, earned>>
    BY <1>5 DEF referralVars
  <2>2. ReferralsTypeOK'
    BY <2>1 DEF ReferralsInv, ReferralsTypeOK
  <2> QED BY <2>1, <2>2, CreditsKept
<1> QED BY <1>1, <1>2, <1>3, <1>4, <1>5 DEF ReferralsNext

(* However often users verify, a new user is worth one credit to one other *)
(* account, and a referrer earns one per cooldown                          *)
(* (lib/referrals.js creditOnVerification).                                *)
THEOREM OneCreditPerFriend == ReferralsSpec => []ReferralsEarnOnce
BY ReferralsInitHolds, ReferralsStepHolds, InvGivesEarnOnce, PTL DEF ReferralsSpec

-----------------------------------------------------------------------------
Tables ==
    /\ claims \in [Subject -> Claims] /\ claimant \in [Document -> SUBSET Subject]
    /\ staged \in [Subject -> Document \cup {NoDocument}]
    /\ badges \in [Subject -> Seq(Badge)] /\ verified \in [Subject -> BOOLEAN]
    /\ proof \in [Subject -> Document \cup {NoDocument}]
    /\ attested \in [Subject -> SUBSET Claims] /\ crashed \in [Subject -> BOOLEAN]
    /\ job.at = "idle" <=> job = Idle

(* Where the request under way is, as far as it is about the subject.      *)
Phase(s) == IF job.at # "idle" /\ job.of = s THEN job.at ELSE "idle"

Single(s) ==
    /\ verified[s] => \E i \in Valid(s) : Valid(s) = {i}
    /\ ~verified[s] => Valid(s) = {}
Backed(s) == Single(s) /\ \A i \in Valid(s) : badges[s][i].claims = claims[s]
Proven(s) == staged[s] \in Document /\ claimant[staged[s]] = {s}
NewBadge(s, n) ==
    /\ n \notin job.old /\ Valid(s) = job.old \cup {n}
    /\ badges[s][n].claims = claims[s] /\ claims[s] \in attested[s]

SubjectOK(s) ==
    /\ Phase(s) \in {"idle", "issue"} /\ ~crashed[s] => Backed(s)
    /\ Phase(s) = "edited" /\ ~crashed[s] => Single(s)
    /\ Phase(s) = "revoked" /\ ~crashed[s] => Valid(s) = {}
    /\ Phase(s) = "issue" => Proven(s) /\ job.old = Valid(s)
    /\ Phase(s) = "supersede" => Proven(s) /\ \E n \in Valid(s) : NewBadge(s, n)
    /\ ~crashed[s] => \A i \in Valid(s) : badges[s][i].claims \in attested[s]
    /\ proof[s] # NoDocument => claimant[proof[s]] = {s}
IdentityInv == Tables /\ \A s \in Subject : SubjectOK(s)

-----------------------------------------------------------------------------
(* Nobody but the one a step is about notices it.                          *)
LEMMA OthersKeep ==
    ASSUME NEW s, SubjectOK(s), Phase(s) = "idle", Phase(s)' = "idle",
           badges'[s] = badges[s], verified'[s] = verified[s], claims'[s] = claims[s],
           crashed'[s] = crashed[s], attested'[s] = attested[s], proof'[s] = proof[s],
           proof[s] # NoDocument /\ claimant[proof[s]] = {s} => claimant'[proof[s]] = {s}
    PROVE  SubjectOK(s)'
<1>1. Valid(s)' = Valid(s)
  BY DEF Valid
<1>2. Single(s)' <=> Single(s)
  BY <1>1 DEF Single
<1>3. Backed(s)' <=> Backed(s)
  BY <1>1, <1>2 DEF Backed
<1> QED BY <1>1, <1>3 DEF SubjectOK

(* Badges that are revoked are no longer valid; all else stays.            *)
LEMMA Revoking ==
    ASSUME Tables, NEW s \in Subject, NEW ids, badges' = Revoke(s, ids)
    PROVE  /\ badges' \in [Subject -> Seq(Badge)]
           /\ Valid(s)' = Valid(s) \ ids
           /\ \A i \in Valid(s) : badges'[s][i].claims = badges[s][i].claims
           /\ \A t \in Subject \ {s} : badges'[t] = badges[t]
<1> DEFINE mine == [i \in DOMAIN badges[s] |->
                       IF i \in ids THEN [badges[s][i] EXCEPT !.valid = FALSE] ELSE badges[s][i]]
<1>1. /\ badges \in [Subject -> Seq(Badge)] /\ badges' = [badges EXCEPT ![s] = mine]
  BY DEF Tables, Revoke
<1>2. badges[s] \in Seq(Badge) /\ DOMAIN badges[s] = 1 .. Len(badges[s]) /\ Len(badges[s]) \in Nat
  BY <1>1
<1>3. ASSUME NEW i \in DOMAIN badges[s]
      PROVE  /\ mine[i] \in Badge /\ mine[i].claims = badges[s][i].claims
             /\ mine[i].valid <=> badges[s][i].valid /\ i \notin ids
  <2>1. badges[s][i] \in Badge
    BY <1>2
  <2>2. CASE i \in ids
    <3>1. mine[i] = [badges[s][i] EXCEPT !.valid = FALSE]
      BY <2>2
    <3> HIDE DEF mine
    <3>2. mine[i] \in Badge
      BY <2>1, <3>1 DEF Badge
    <3>3. mine[i].claims = badges[s][i].claims /\ mine[i].valid = FALSE
      BY <2>1, <3>1 DEF Badge
    <3> QED BY <2>2, <3>2, <3>3
  <2>3. CASE i \notin ids
    BY <2>1, <2>3
  <2> QED BY <2>2, <2>3
<1>4. DOMAIN mine = 1 .. Len(badges[s])
  BY <1>2
<1>5. mine = [i \in 1 .. Len(badges[s]) |-> mine[i]]
  BY <1>2
<1> HIDE DEF mine
<1>6. mine \in Seq(Badge)
  <2>1. mine \in [1 .. Len(badges[s]) -> Badge]
    BY <1>2, <1>3, <1>5
  <2> QED BY <1>2, <2>1
<1>7. /\ badges' \in [Subject -> Seq(Badge)] /\ badges'[s] = mine
      /\ \A t \in Subject \ {s} : badges'[t] = badges[t]
  BY <1>1, <1>6
<1>8. Valid(s)' = Valid(s) \ ids
  BY <1>2, <1>3, <1>4, <1>7 DEF Valid
<1>9. \A i \in Valid(s) : badges'[s][i].claims = badges[s][i].claims
  BY <1>3, <1>7 DEF Valid
<1> QED BY <1>7, <1>8, <1>9

(* A badge that is issued is valid and for the claims of the profile.      *)
LEMMA Issuing ==
    ASSUME Tables, NEW s \in Subject
    PROVE  /\ Issued(badges, s) \in Seq(Badge)
           /\ \E n : /\ n \notin Valid(s)
                     /\ {i \in DOMAIN Issued(badges, s) : Issued(badges, s)[i].valid} = Valid(s) \cup {n}
                     /\ Issued(badges, s)[n].claims = claims[s]
                     /\ \A i \in Valid(s) : Issued(badges, s)[i] = badges[s][i]
<1> DEFINE new == [claims |-> claims[s], valid |-> TRUE]
           n == Len(badges[s]) + 1
<1>1. badges[s] \in Seq(Badge) /\ new \in Badge /\ new.claims = claims[s] /\ new.valid = TRUE
  BY DEF Tables, Badge
<1>2. Issued(badges, s) = Append(badges[s], new)
  BY DEF Issued
<1> HIDE DEF new
<1>3. /\ Append(badges[s], new) \in Seq(Badge)
      /\ DOMAIN Append(badges[s], new) = 1 .. n /\ DOMAIN badges[s] = 1 .. Len(badges[s])
      /\ Append(badges[s], new)[n] = new /\ Len(badges[s]) \in Nat
      /\ \A i \in 1 .. Len(badges[s]) : Append(badges[s], new)[i] = badges[s][i]
  BY <1>1
<1>4. n \notin Valid(s)
  BY <1>3 DEF Valid
<1>5. {i \in 1 .. n : Append(badges[s], new)[i].valid} = Valid(s) \cup {n}
  BY <1>1, <1>3 DEF Valid
<1>6. \A i \in Valid(s) : Append(badges[s], new)[i] = badges[s][i]
  BY <1>3 DEF Valid
<1> HIDE DEF n
<1> QED BY <1>1, <1>2, <1>3, <1>4, <1>5, <1>6

-----------------------------------------------------------------------------
(* One lemma per step.  What it is about is checked by hand, everybody     *)
(* else by OthersKeep.                                                     *)
LEMMA DocumentCheckKeeps ==
    ASSUME IdentityInv, NEW s \in Subject, NEW d \in Document, DocumentCheck(s, d)
    PROVE  IdentityInv'
<1>1. /\ job.at = "idle" /\ job' = job
      /\ UNCHANGED <<claims, badges, verified, proof, attested, crashed>>
  BY DEF DocumentCheck, Idle, histories
<1>2. Tables' /\ \A e \in Document, t \in Subject : claimant[e] = {t} => claimant'[e] = {t}
  <2>1. CASE TakenByOther(d, s)
    BY <1>1, <2>1 DEF IdentityInv, Tables, DocumentCheck
  <2>2. CASE ~TakenByOther(d, s)
    <3>1. /\ claimant' = [claimant EXCEPT ![d] = {s}] /\ staged' = [staged EXCEPT ![s] = d]
          /\ claimant[d] \subseteq {s}
      BY <2>2 DEF DocumentCheck, TakenByOther
    <3> QED BY <1>1, <3>1 DEF IdentityInv, Tables
  <2> QED BY <2>1, <2>2
<1>3. ASSUME NEW t \in Subject PROVE SubjectOK(t)'
  <2>1. SubjectOK(t) /\ Phase(t) = "idle" /\ Phase(t)' = "idle" /\ proof[t] \in Document \cup {NoDocument}
    BY <1>1 DEF IdentityInv, Tables, Phase
  <2> QED BY <1>1, <1>2, <2>1, OthersKeep
<1> QED BY <1>2, <1>3 DEF IdentityInv

LEMMA StagedExpiresKeeps ==
    ASSUME IdentityInv, NEW s \in Subject, StagedExpires(s)
    PROVE  IdentityInv'
<1>1. /\ job.at = "idle" /\ job' = job /\ staged' = [staged EXCEPT ![s] = NoDocument]
      /\ UNCHANGED <<claims, claimant, badges, verified, proof, attested, crashed>>
  BY DEF StagedExpires, Idle, histories
<1>2. Tables'
  BY <1>1 DEF IdentityInv, Tables
<1>3. ASSUME NEW t \in Subject PROVE SubjectOK(t)'
  <2>1. SubjectOK(t) /\ Phase(t) = "idle" /\ Phase(t)' = "idle"
    BY <1>1 DEF IdentityInv, Phase
  <2> QED BY <1>1, <2>1, OthersKeep
<1> QED BY <1>2, <1>3 DEF IdentityInv

LEMMA EditProfileKeeps ==
    ASSUME IdentityInv, NEW s \in Subject, NEW c \in Claims, EditProfile(s, c)
    PROVE  IdentityInv'
<1>1. /\ job.at = "idle" /\ job' = [at |-> "edited", of |-> s] /\ claims' = [claims EXCEPT ![s] = c]
      /\ UNCHANGED <<claimant, staged, badges, verified, proof, attested, crashed>>
  BY DEF EditProfile, Idle, histories
<1>2. job'.at = "edited" /\ job'.of = s
  BY <1>1
<1>3. Tables'
  BY <1>1, <1>2 DEF IdentityInv, Tables, Idle
<1>4. ASSUME NEW t \in Subject PROVE SubjectOK(t)'
  <2>1. SubjectOK(t) /\ Phase(t) = "idle"
    BY <1>1 DEF IdentityInv, Phase
  <2>2. CASE t = s
    <3>1. Phase(s)' = "edited" /\ Valid(s)' = Valid(s)
      BY <1>1, <1>2 DEF Phase, Valid
    <3>2. Single(s)' <=> Single(s)
      BY <1>1, <3>1 DEF Single
    <3> QED BY <1>1, <2>1, <2>2, <3>1, <3>2 DEF SubjectOK, Backed
  <2>3. CASE t # s
    <3>1. Phase(t)' = "idle" /\ claims'[t] = claims[t]
      BY <1>1, <1>2, <2>3 DEF Phase, IdentityInv, Tables
    <3> QED BY <1>1, <2>1, <3>1, OthersKeep
  <2> QED BY <2>2, <2>3
<1> QED BY <1>3, <1>4 DEF IdentityInv

LEMMA ClaimsChangedKeeps ==
    ASSUME IdentityInv, NEW s \in Subject, ClaimsChanged(s)
    PROVE  IdentityInv'
<1>1. /\ job = [at |-> "edited", of |-> s] /\ badges' = Revoke(s, Stale(s))
      /\ job' = IF Stale(s) # {} THEN [at |-> "revoked", of |-> s] ELSE Idle
      /\ UNCHANGED <<claims, claimant, staged, verified, proof, attested, crashed>>
  BY DEF ClaimsChanged, histories
<1>2. job.at = "edited" /\ job.of = s /\ Tables
  BY <1>1 DEF IdentityInv
<1>3. /\ badges' \in [Subject -> Seq(Badge)] /\ Valid(s)' = Valid(s) \ Stale(s)
      /\ \A i \in Valid(s) : badges'[s][i].claims = badges[s][i].claims
      /\ \A t \in Subject \ {s} : badges'[t] = badges[t]
  BY <1>1, <1>2, Revoking
<1>4. \/ job'.at = "revoked" /\ job'.of = s /\ Stale(s) # {}
      \/ job'.at = "idle" /\ job' = Idle /\ Stale(s) = {}
  BY <1>1 DEF Idle
<1>5. Tables'
  BY <1>1, <1>2, <1>3, <1>4 DEF Tables, Idle
<1>6. SubjectOK(s)'
  <2>1. SubjectOK(s) /\ Phase(s) = "edited"
    BY <1>2 DEF IdentityInv, Phase
  <2>2. Phase(s)' = IF Stale(s) # {} THEN "revoked" ELSE "idle"
    BY <1>4 DEF Phase
  <2>3. \A i \in Valid(s) : i \in Stale(s) <=> badges[s][i].claims # claims[s]
    BY DEF Stale
  <2>4. ~crashed[s] => Single(s) /\ \A i \in Valid(s) : badges[s][i].claims \in attested[s]
    BY <2>1 DEF SubjectOK
  <2>5. ~crashed[s] => \A i \in Valid(s)' : badges'[s][i].claims \in attested[s]
    BY <1>3, <2>4
  <2>6. ~crashed[s] /\ Stale(s) # {} => Valid(s)' = {}
    <3>1. Stale(s) \subseteq Valid(s)
      BY DEF Stale
    <3> QED BY <1>3, <2>4, <3>1 DEF Single
  <2>7. ~crashed[s] /\ Stale(s) = {} => Backed(s)'
    <3>1. SUFFICES ASSUME ~crashed[s], Stale(s) = {} PROVE Backed(s)'
      OBVIOUS
    <3>2. Valid(s)' = Valid(s) /\ verified'[s] = verified[s] /\ Single(s)
      BY <1>1, <1>3, <2>4, <3>1
    <3>3. \A i \in Valid(s)' : badges'[s][i].claims = claims'[s]
      BY <1>1, <1>3, <2>3, <3>1, <3>2
    <3> QED BY <3>2, <3>3 DEF Backed, Single
  <2>8. proof'[s] # NoDocument => claimant'[proof'[s]] = {s}
    BY <1>1, <2>1 DEF SubjectOK
  <2> QED BY <1>1, <2>2, <2>5, <2>6, <2>7, <2>8 DEF SubjectOK
<1>7. ASSUME NEW t \in Subject \ {s} PROVE SubjectOK(t)'
  <2>1. SubjectOK(t) /\ Phase(t) = "idle" /\ Phase(t)' = "idle"
    BY <1>2, <1>4 DEF IdentityInv, Phase
  <2> QED BY <1>1, <1>3, <2>1, OthersKeep
<1> QED BY <1>5, <1>6, <1>7 DEF IdentityInv

LEMMA UnverifyKeeps ==
    ASSUME IdentityInv, NEW s \in Subject, Unverify(s)
    PROVE  IdentityInv'
<1>1. /\ job = [at |-> "revoked", of |-> s] /\ job' = Idle /\ verified' = [verified EXCEPT ![s] = FALSE]
      /\ UNCHANGED <<claims, claimant, staged, badges, proof, attested, crashed>>
  BY DEF Unverify, FlagCleared, histories
<1>2. job.at = "revoked" /\ job.of = s /\ job'.at = "idle"
  BY <1>1 DEF Idle
<1>3. Tables'
  BY <1>1, <1>2 DEF IdentityInv, Tables
<1>4. SubjectOK(s)'
  <2>1. SubjectOK(s) /\ Phase(s) = "revoked" /\ Phase(s)' = "idle" /\ Valid(s)' = Valid(s) /\ verified'[s] = FALSE
    BY <1>1, <1>2 DEF IdentityInv, Phase, Valid, Tables
  <2> QED BY <1>1, <2>1 DEF SubjectOK, Backed, Single
<1>5. ASSUME NEW t \in Subject \ {s} PROVE SubjectOK(t)'
  <2>1. SubjectOK(t) /\ Phase(t) = "idle" /\ Phase(t)' = "idle" /\ verified'[t] = verified[t]
    BY <1>1, <1>2 DEF IdentityInv, Phase, Tables
  <2> QED BY <1>1, <2>1, OthersKeep
<1> QED BY <1>3, <1>4, <1>5 DEF IdentityInv

LEMMA AttestKeeps ==
    ASSUME IdentityInv, NEW s \in Subject, Attest(s)
    PROVE  IdentityInv'
<1>1. /\ job.at = "idle" /\ job = Idle /\ staged[s] \in Document
      /\ UNCHANGED <<claims, claimant, badges, verified, proof, attested, crashed>>
  BY DEF Attest, Idle, histories, IdentityInv, Tables
<1>2. ASSUME NEW t \in Subject
      PROVE  SubjectOK(t) /\ Phase(t) = "idle" /\ Valid(t)' = Valid(t) /\ (Single(t)' <=> Single(t)) /\ (Backed(t)' <=> Backed(t))
  BY <1>1 DEF IdentityInv, Phase, Valid, Single, Backed
<1>3. CASE claimant[staged[s]] = {s}
  <2>1. job' = [at |-> "issue", of |-> s, old |-> Valid(s)] /\ staged' = staged
    BY <1>3 DEF Attest
  <2>2. job'.at = "issue" /\ job'.of = s /\ job'.old = Valid(s)
    BY <2>1
  <2>3. Tables'
    BY <1>1, <2>1, <2>2 DEF IdentityInv, Tables, Idle
  <2>4. Phase(s)' = "issue" /\ Proven(s)'
    BY <1>1, <1>3, <2>1, <2>2 DEF Phase, Proven
  <2>5. SubjectOK(s)'
    BY <1>1, <1>2, <2>2, <2>4 DEF SubjectOK
  <2>6. ASSUME NEW t \in Subject \ {s} PROVE SubjectOK(t)'
    <3>1. Phase(t)' = "idle"
      BY <2>2 DEF Phase
    <3> QED BY <1>1, <1>2, <3>1, OthersKeep
  <2> QED BY <2>3, <2>5, <2>6 DEF IdentityInv
<1>4. CASE claimant[staged[s]] # {s}
  <2>1. job' = job /\ staged' = [staged EXCEPT ![s] = NoDocument]
    BY <1>4 DEF Attest
  <2>2. Tables'
    BY <1>1, <2>1 DEF IdentityInv, Tables
  <2>3. ASSUME NEW t \in Subject PROVE SubjectOK(t)'
    <3>1. Phase(t)' = "idle"
      BY <1>1, <2>1 DEF Phase
    <3> QED BY <1>1, <1>2, <3>1, OthersKeep
  <2> QED BY <2>2, <2>3 DEF IdentityInv
<1> QED BY <1>3, <1>4

LEMMA IssueFailsKeeps ==
    ASSUME IdentityInv, NEW s \in Subject, IssueFails(s)
    PROVE  IdentityInv'
<1>1. /\ job.at = "issue" /\ job.of = s /\ job' = Idle /\ job'.at = "idle"
      /\ UNCHANGED <<claims, claimant, staged, badges, verified, proof, attested, crashed>>
  BY DEF IssueFails, Idle, histories
<1>2. Tables'
  BY <1>1 DEF IdentityInv, Tables
<1>3. SubjectOK(s)'
  <2>1. SubjectOK(s) /\ Phase(s) = "issue" /\ Phase(s)' = "idle" /\ Valid(s)' = Valid(s)
    BY <1>1 DEF IdentityInv, Phase, Valid
  <2>2. Backed(s)' <=> Backed(s)
    BY <1>1, <2>1 DEF Backed, Single
  <2> QED BY <1>1, <2>1, <2>2 DEF SubjectOK
<1>4. ASSUME NEW t \in Subject \ {s} PROVE SubjectOK(t)'
  <2>1. SubjectOK(t) /\ Phase(t) = "idle" /\ Phase(t)' = "idle"
    BY <1>1 DEF IdentityInv, Phase
  <2> QED BY <1>1, <2>1, OthersKeep
<1> QED BY <1>2, <1>3, <1>4 DEF IdentityInv

LEMMA IssueKeeps ==
    ASSUME IdentityInv, NEW s \in Subject, Issue(s)
    PROVE  IdentityInv'
<1>1. /\ job.at = "issue" /\ job.of = s /\ job' = [at |-> "supersede", of |-> s, old |-> job.old]
      /\ badges' = [badges EXCEPT ![s] = Issued(badges, s)]
      /\ attested' = [attested EXCEPT ![s] = @ \cup {claims[s]}]
      /\ UNCHANGED <<claims, claimant, staged, verified, proof, crashed>>
  BY DEF Issue, Superseded
<1>2. job'.at = "supersede" /\ job'.of = s /\ job'.old = job.old /\ Tables
  BY <1>1 DEF IdentityInv
<1>3. SubjectOK(s) /\ Phase(s) = "issue" /\ Phase(s)' = "supersede"
  BY <1>1, <1>2 DEF IdentityInv, Phase
<1>4. /\ badges' \in [Subject -> Seq(Badge)] /\ badges'[s] = Issued(badges, s)
      /\ \A t \in Subject \ {s} : badges'[t] = badges[t]
  BY <1>1, <1>2, Issuing DEF Tables
<1>5. PICK n : /\ n \notin Valid(s) /\ Valid(s)' = Valid(s) \cup {n} /\ badges'[s][n].claims = claims[s]
               /\ \A i \in Valid(s) : badges'[s][i] = badges[s][i]
  BY <1>2, <1>4, Issuing DEF Valid
<1>6. /\ attested' \in [Subject -> SUBSET Claims] /\ attested'[s] = attested[s] \cup {claims[s]}
      /\ \A t \in Subject \ {s} : attested'[t] = attested[t]
  BY <1>1, <1>2 DEF Tables
<1>7. Tables'
  BY <1>1, <1>2, <1>4, <1>6 DEF Tables, Idle
<1>8. SubjectOK(s)'
  <2>1. Proven(s)' /\ job'.old = Valid(s)
    BY <1>1, <1>2, <1>3 DEF SubjectOK, Proven
  <2>2. n \in Valid(s)' /\ NewBadge(s, n)'
    BY <1>1, <1>5, <1>6, <2>1 DEF NewBadge
  <2>3. ~crashed'[s] => \A i \in Valid(s)' : badges'[s][i].claims \in attested'[s]
    BY <1>1, <1>3, <1>5, <1>6 DEF SubjectOK
  <2> QED BY <1>1, <1>3, <2>1, <2>2, <2>3 DEF SubjectOK
<1>9. ASSUME NEW t \in Subject \ {s} PROVE SubjectOK(t)'
  <2>1. SubjectOK(t) /\ Phase(t) = "idle" /\ Phase(t)' = "idle"
    BY <1>1, <1>2 DEF IdentityInv, Phase
  <2> QED BY <1>1, <1>4, <1>6, <2>1, OthersKeep
<1> QED BY <1>7, <1>8, <1>9 DEF IdentityInv

LEMMA SupersedeKeeps ==
    ASSUME IdentityInv, NEW s \in Subject, Supersede(s)
    PROVE  IdentityInv'
<1>1. PICK i \in job.old : /\ badges' = Revoke(s, {i})
                           /\ job' = [at |-> "supersede", of |-> s, old |-> job.old \ {i}]
  BY DEF Supersede, Superseded
<1>2. /\ job.at = "supersede" /\ job.of = s /\ Tables
      /\ job'.at = "supersede" /\ job'.of = s /\ job'.old = job.old \ {i}
      /\ UNCHANGED <<claims, claimant, staged, verified, proof, attested, crashed>>
  BY <1>1 DEF Supersede, IdentityInv, histories
<1>3. /\ badges' \in [Subject -> Seq(Badge)] /\ Valid(s)' = Valid(s) \ {i}
      /\ \A k \in Valid(s) : badges'[s][k].claims = badges[s][k].claims
      /\ \A t \in Subject \ {s} : badges'[t] = badges[t]
  BY <1>1, <1>2, Revoking
<1>4. Tables'
  BY <1>2, <1>3 DEF Tables, Idle
<1>5. SubjectOK(s)'
  <2>1. SubjectOK(s) /\ Phase(s) = "supersede" /\ Phase(s)' = "supersede"
    BY <1>2 DEF IdentityInv, Phase
  <2>2. PICK n \in Valid(s) : NewBadge(s, n)
    BY <2>1 DEF SubjectOK
  <2>3. n \in Valid(s)' /\ NewBadge(s, n)'
    BY <1>1, <1>2, <1>3, <2>2 DEF NewBadge
  <2>4. Proven(s)'
    BY <1>2, <2>1 DEF SubjectOK, Proven
  <2>5. ~crashed'[s] => \A k \in Valid(s)' : badges'[s][k].claims \in attested'[s]
    BY <1>2, <1>3, <2>1 DEF SubjectOK
  <2> QED BY <1>2, <2>1, <2>3, <2>4, <2>5 DEF SubjectOK
<1>6. ASSUME NEW t \in Subject \ {s} PROVE SubjectOK(t)'
  <2>1. SubjectOK(t) /\ Phase(t) = "idle" /\ Phase(t)' = "idle"
    BY <1>2 DEF IdentityInv, Phase
  <2> QED BY <1>2, <1>3, <2>1, OthersKeep
<1> QED BY <1>4, <1>5, <1>6 DEF IdentityInv

LEMMA AttestedKeeps ==
    ASSUME IdentityInv, NEW s \in Subject, Attested(s)
    PROVE  IdentityInv'
<1>1. /\ job = [at |-> "supersede", of |-> s, old |-> {}] /\ job' = Idle
      /\ verified' = [verified EXCEPT ![s] = TRUE] /\ staged' = [staged EXCEPT ![s] = NoDocument]
      /\ proof' = [proof EXCEPT ![s] = staged[s]] /\ crashed' = [crashed EXCEPT ![s] = FALSE]
      /\ UNCHANGED <<claims, claimant, badges, attested>>
  BY DEF Attested, Superseded
<1>2. job.at = "supersede" /\ job.of = s /\ job.old = {} /\ job'.at = "idle" /\ Tables
  BY <1>1 DEF Idle, IdentityInv
<1>3. /\ Tables' /\ verified'[s] = TRUE /\ proof'[s] = staged[s]
      /\ \A t \in Subject \ {s} : verified'[t] = verified[t] /\ proof'[t] = proof[t] /\ crashed'[t] = crashed[t]
  BY <1>1, <1>2 DEF Tables
<1>4. SubjectOK(s)'
  <2>1. SubjectOK(s) /\ Phase(s) = "supersede" /\ Phase(s)' = "idle" /\ Valid(s)' = Valid(s)
    BY <1>1, <1>2 DEF IdentityInv, Phase, Valid
  <2>2. PICK n \in Valid(s) : NewBadge(s, n)
    BY <2>1 DEF SubjectOK
  <2>3. Valid(s) = {n} /\ badges[s][n].claims = claims[s] /\ claims[s] \in attested[s]
    BY <1>2, <2>2 DEF NewBadge
  <2>4. Backed(s)' /\ \A i \in Valid(s)' : badges'[s][i].claims \in attested'[s]
    BY <1>1, <1>3, <2>1, <2>3 DEF Backed, Single
  <2>5. claimant'[proof'[s]] = {s}
    BY <1>1, <1>3, <2>1 DEF SubjectOK, Proven
  <2> QED BY <2>1, <2>4, <2>5 DEF SubjectOK
<1>5. ASSUME NEW t \in Subject \ {s} PROVE SubjectOK(t)'
  <2>1. SubjectOK(t) /\ Phase(t) = "idle" /\ Phase(t)' = "idle"
    BY <1>2 DEF IdentityInv, Phase
  <2> QED BY <1>1, <1>3, <2>1, OthersKeep
<1> QED BY <1>3, <1>4, <1>5 DEF IdentityInv

LEMMA PartnerLooksKeeps ==
    ASSUME IdentityInv, NEW s \in Subject, NEW i \in DOMAIN badges[s], PartnerLooks(s, i)
    PROVE  IdentityInv'
<1>1. /\ job.at = "idle" /\ job' = job /\ badges' = Revoke(s, {i} \cap Stale(s)) /\ Tables
      /\ UNCHANGED <<claims, claimant, staged, verified, proof, attested, crashed>>
  BY DEF PartnerLooks, Idle, IdentityInv, histories
<1>2. /\ badges' \in [Subject -> Seq(Badge)] /\ Valid(s)' = Valid(s) \ ({i} \cap Stale(s))
      /\ \A k \in Valid(s) : badges'[s][k].claims = badges[s][k].claims
      /\ \A t \in Subject \ {s} : badges'[t] = badges[t]
  BY <1>1, Revoking
<1>3. Tables'
  BY <1>1, <1>2 DEF Tables
<1>4. ASSUME NEW t \in Subject PROVE SubjectOK(t) /\ Phase(t) = "idle" /\ Phase(t)' = "idle"
  BY <1>1 DEF IdentityInv, Phase
<1>5. SubjectOK(s)'
  <2>1. ~crashed[s] => Backed(s) /\ \A k \in Valid(s) : badges[s][k].claims \in attested[s]
    BY <1>4 DEF SubjectOK
  <2>2. ~crashed[s] => Valid(s)' = Valid(s)
    BY <1>2, <2>1 DEF Backed, Stale
  <2>3. ~crashed[s] => Backed(s)' /\ \A k \in Valid(s)' : badges'[s][k].claims \in attested'[s]
    BY <1>1, <1>2, <2>1, <2>2 DEF Backed, Single
  <2>4. proof'[s] # NoDocument => claimant'[proof'[s]] = {s}
    BY <1>1, <1>4 DEF SubjectOK
  <2> QED BY <1>1, <1>4, <2>3, <2>4 DEF SubjectOK
<1>6. ASSUME NEW t \in Subject \ {s} PROVE SubjectOK(t)'
  BY <1>1, <1>2, <1>4, OthersKeep
<1> QED BY <1>3, <1>5, <1>6 DEF IdentityInv

(* A restart notices nobody whose tables agree: upgradeLegacyBadges finds  *)
(* a badge of theirs, and no request of theirs was under way.              *)
LEMMA RestartKeeps ==
    ASSUME IdentityInv, Restart
    PROVE  IdentityInv'
<1>1. /\ badges' = [s \in Subject |-> IF s \in Legacy THEN Issued(badges, s) ELSE badges[s]]
      /\ staged' = [s \in Subject |-> NoDocument] /\ job' = Idle /\ job'.at = "idle"
      /\ crashed' = [s \in Subject |-> crashed[s] \/ (job # Idle /\ job.of = s)]
      /\ UNCHANGED <<claims, claimant, verified, proof, attested>> /\ Tables
  BY DEF Restart, Idle, IdentityInv
<1>2. Tables'
  <2>1. badges' \in [Subject -> Seq(Badge)]
    <3>1. \A s \in Subject : Issued(badges, s) \in Seq(Badge) /\ badges[s] \in Seq(Badge)
      BY <1>1, Issuing DEF Tables
    <3> QED BY <1>1, <3>1
  <2>2. crashed' \in [Subject -> BOOLEAN]
    BY <1>1 DEF Tables
  <2> QED BY <1>1, <2>1, <2>2 DEF Tables
<1>3. ASSUME NEW t \in Subject PROVE SubjectOK(t)'
  <2>1. SubjectOK(t) /\ Phase(t)' = "idle"
    BY <1>1 DEF IdentityInv, Phase
  <2>2. CASE Phase(t) = "idle" /\ ~crashed[t]
    <3>1. Backed(t)
      BY <2>1, <2>2 DEF SubjectOK
    <3>2. t \notin Legacy
      BY <3>1 DEF Backed, Single, Legacy
    <3>3. badges'[t] = badges[t]
      BY <1>1, <3>2
    <3>4. ~(job # Idle /\ job.of = t)
      <4>1. job # Idle => job.at # "idle"
        BY <1>1 DEF Tables
      <4> QED BY <1>1, <2>2, <4>1 DEF Phase
    <3>5. crashed'[t] = crashed[t]
      BY <1>1, <3>4, Zenon DEF Tables
    <3> QED BY <1>1, <2>1, <2>2, <3>3, <3>5, OthersKeep
  <2>3. CASE ~(Phase(t) = "idle" /\ ~crashed[t])
    <3>1. crashed'[t] = TRUE
      <4>1. Phase(t) # "idle" => job # Idle /\ job.of = t
        BY <1>1 DEF Phase, Tables
      <4> QED BY <1>1, <2>3, <4>1
    <3>2. proof'[t] # NoDocument => claimant'[proof'[t]] = {t}
      BY <1>1, <2>1 DEF SubjectOK
    <3> QED BY <2>1, <3>1, <3>2 DEF SubjectOK
  <2> QED BY <2>2, <2>3
<1> QED BY <1>2, <1>3 DEF IdentityInv

LEMMA IdentityNextKeeps ==
    ASSUME IdentityInv, IdentityNext
    PROVE  IdentityInv'
BY DocumentCheckKeeps, StagedExpiresKeeps, EditProfileKeeps, ClaimsChangedKeeps, UnverifyKeeps,
   AttestKeeps, IssueKeeps, IssueFailsKeeps, SupersedeKeeps, AttestedKeeps, PartnerLooksKeeps,
   RestartKeeps DEF IdentityNext

-----------------------------------------------------------------------------
(* Verified means what it says, whichever requests were cut off in between *)
(* (index.js, recryption/badgeStore.js): a settled profile that is marked  *)
(* verified has one valid badge, for its claims of now, and no document    *)
(* has verified two people.                                                *)
THEOREM VerifiedMeansBacked == IdentitySpec => []VerifiedIsBacked
<1>1. IdentityInit => IdentityInv
  <2> SUFFICES ASSUME IdentityInit PROVE IdentityInv
    OBVIOUS
  <2>1. /\ badges = [s \in Subject |-> <<>>] /\ verified = [s \in Subject |-> FALSE] /\ job = Idle
        /\ proof = [s \in Subject |-> NoDocument] /\ attested = [s \in Subject |-> {}]
        /\ crashed = [s \in Subject |-> FALSE] /\ staged = [s \in Subject |-> NoDocument]
        /\ claims \in [Subject -> Claims] /\ claimant = [d \in Document |-> {}] /\ job.at = "idle"
    BY DEF IdentityInit, Idle
  <2>2. Tables
    <3>1. badges \in [Subject -> Seq(Badge)] /\ claimant \in [Document -> SUBSET Subject]
      BY <2>1
    <3>2. verified \in [Subject -> BOOLEAN] /\ crashed \in [Subject -> BOOLEAN]
      BY <2>1
    <3>3. attested \in [Subject -> SUBSET Claims]
      BY <2>1
    <3> QED BY <2>1, <3>1, <3>2, <3>3 DEF Tables
  <2>3. ASSUME NEW s \in Subject PROVE SubjectOK(s)
    <3>1. Phase(s) = "idle" /\ Valid(s) = {} /\ ~verified[s] /\ proof[s] = NoDocument
      BY <2>1 DEF Phase, Valid
    <3> QED BY <3>1 DEF SubjectOK, Backed, Single
  <2> QED BY <2>2, <2>3 DEF IdentityInv
<1>2. IdentityInv /\ [IdentityNext]_identityVars => IdentityInv'
  <2> SUFFICES ASSUME IdentityInv, [IdentityNext]_identityVars PROVE IdentityInv'
    OBVIOUS
  <2>1. CASE IdentityNext
    BY <2>1, IdentityNextKeeps
  <2>2. CASE UNCHANGED identityVars
    <3>1. /\ UNCHANGED <<claims, claimant, staged, badges, verified>>
          /\ UNCHANGED <<job, proof, attested, crashed>>
      BY <2>2 DEF identityVars
    <3>2. Tables'
      BY <3>1 DEF IdentityInv, Tables
    <3>3. ASSUME NEW s \in Subject PROVE SubjectOK(s)'
      <4>1. SubjectOK(s) /\ Phase(s)' = Phase(s) /\ Valid(s)' = Valid(s)
        BY <3>1 DEF IdentityInv, Phase, Valid
      <4>2. (Single(s)' <=> Single(s)) /\ (Proven(s)' <=> Proven(s))
        BY <3>1, <4>1 DEF Single, Proven
      <4>3. (Backed(s)' <=> Backed(s)) /\ \A n \in Valid(s) : NewBadge(s, n)' <=> NewBadge(s, n)
        BY <3>1, <4>1, <4>2 DEF Backed, NewBadge
      <4> QED BY <3>1, <4>1, <4>2, <4>3 DEF SubjectOK
    <3> QED BY <3>2, <3>3 DEF IdentityInv
  <2> QED BY <2>1, <2>2
<1>3. IdentityInv => VerifiedIsBacked
  <2> SUFFICES ASSUME IdentityInv PROVE VerifiedIsBacked
    OBVIOUS
  <2>1. ASSUME NEW s \in Subject, Settled(s)
        PROVE  /\ verified[s] => Cardinality(Valid(s)) = 1 /\ claims[s] \in attested[s]
               /\ ~verified[s] => Valid(s) = {}
               /\ Stale(s) = {}
    <3>1. SubjectOK(s) /\ ~crashed[s] /\ Phase(s) = "idle"
      BY <2>1 DEF IdentityInv, Settled, Phase, Idle
    <3>2. Backed(s) /\ \A i \in Valid(s) : badges[s][i].claims \in attested[s]
      BY <3>1 DEF SubjectOK
    <3>3. Stale(s) = {} /\ (~verified[s] => Valid(s) = {})
      BY <3>2 DEF Backed, Single, Stale
    <3>4. ASSUME verified[s] PROVE Cardinality(Valid(s)) = 1 /\ claims[s] \in attested[s]
      <4>1. PICK i \in Valid(s) : Valid(s) = {i}
        BY <3>2, <3>4 DEF Backed, Single
      <4>2. claims[s] \in attested[s]
        BY <3>2, <4>1 DEF Backed
      <4>3. Cardinality({i}) = 1
        BY FS_Singleton
      <4> QED BY <4>1, <4>2, <4>3, Zenon
    <3> QED BY <3>3, <3>4
  <2>2. ASSUME NEW s \in Subject, NEW t \in Subject, proof[s] = proof[t]
        PROVE  s = t \/ proof[s] = NoDocument
    <3>1. SubjectOK(s) /\ SubjectOK(t)
      BY DEF IdentityInv
    <3> QED BY <2>2, <3>1 DEF SubjectOK
  <2> QED BY <2>1, <2>2 DEF VerifiedIsBacked
<1> QED BY <1>1, <1>2, <1>3, PTL DEF IdentitySpec

-----------------------------------------------------------------------------
(* Onboarding and the settings.                                            *)

(* A save of the onboarding itself, of an app that still runs; and one of  *)
(* the settings.                                                           *)
StepSave(s) == saves[s].owner # "gone" /\ saves[s].edit = FALSE
EditSave(s) == saves[s].owner # "gone" /\ saves[s].edit = TRUE
AllDone == \A i \in 0 .. Done - 1 : StepDone(saved, causes, i)

SaveRec ==
    [screen : Section \cup {NoSection}, edit : BOOLEAN, tags : 0 .. 12,
     at : {"idle", "sent", "saved"}, owner : {"mounted", "left", "gone"}]

(* What a call in flight carries, and what is stored once it was served.   *)
SaveOK(c) ==
    /\ c.at = "sent" => c.screen \in Section
    /\ c.screen = "causes" => c.tags >= MIN_CAUSES
    /\ c.at = "saved" => c.screen \in saved /\ c.owner # "gone"
SavesOK == \A s \in Slot : SaveOK(saves[s])
CausesKept == "causes" \in saved <=> causes >= MIN_CAUSES
LoadOK ==
    resume # NoStep =>
        phase = "loading" /\ \A i \in 0 .. resume - 1 : StepDone(saved, causes, i)
SettingsOK == settings = TRUE => phase = "app" /\ stepIndex >= Done

(* Unless the user left a step during its save, a save of the onboarding   *)
(* is the only one and that of the step that is shown, and while one of    *)
(* the settings is on its way the onboarding is behind the user.           *)
Behind ==
    phase = "app" =>
        stepIndex <= Done /\ \A i \in 0 .. stepIndex - 1 : i # 2 => Flow[i + 1] \in saved
OnStep ==
    \A s \in Slot : StepSave(s) =>
        /\ phase = "app" /\ settings = FALSE /\ stepIndex < Done
        /\ saves[s].screen = Flow[stepIndex + 1] /\ saves[s].owner = "mounted"
        /\ \A t \in Slot : StepSave(t) => t = s
OnSettings ==
    \A s \in Slot : EditSave(s) =>
        /\ AllDone /\ (phase = "app" => stepIndex = Done) /\ (resume # NoStep => resume = Done)
Patient == hasty = FALSE => Behind /\ OnStep /\ OnSettings
OnbIInv ==
    /\ OnboardingTypeOK /\ SavesOK /\ CausesKept /\ LoadOK /\ SettingsOK /\ Patient

LEMMA FlowSteps ==
    /\ Flow[1] = "quickProfile" /\ Flow[2] = "location" /\ Flow[3] = "orgOrCause"
    /\ Flow[4] = "causes" /\ Flow[5] = "partnerPrefs" /\ Flow[6] = "availability"
    /\ \A i \in 0 .. 5 : Flow[i + 1] \in Section
    /\ \A i \in 0 .. 5 : Flow[i + 1] = "orgOrCause" => i = 2
    /\ \A i \in 0 .. 5 : Flow[i + 1] = "causes" => i = 3
    /\ NoSection \notin Section /\ "causes" \in Section /\ "orgOrCause" \in Section
<1>1. /\ Flow[1] = "quickProfile" /\ Flow[2] = "location" /\ Flow[3] = "orgOrCause"
      /\ Flow[4] = "causes" /\ Flow[5] = "partnerPrefs" /\ Flow[6] = "availability"
  BY DEF Flow
<1>2. Section = {"quickProfile", "location", "orgOrCause", "causes", "partnerPrefs", "availability"}
  <2> HIDE DEF Flow
  <2> QED BY <1>1 DEF Section
<1>3. \A i \in 0 .. 5 : i \in {0, 1, 2, 3, 4, 5} OBVIOUS
<1> HIDE DEF Flow, Section
<1>4. \A i \in {0, 1, 2, 3, 4, 5} :
        /\ Flow[i + 1] \in Section /\ (Flow[i + 1] = "orgOrCause" => i = 2)
        /\ (Flow[i + 1] = "causes" => i = 3)
  BY <1>1, <1>2
<1> QED BY <1>1, <1>2, <1>3, <1>4 DEF NoSection

(* What is stored is never taken back, so no step that is done is undone.  *)
LEMMA StepDoneGrows ==
    ASSUME NEW f, NEW g, f \subseteq g, NEW n \in Int, NEW m \in Int, n >= 2 => m >= 2,
           NEW i, StepDone(f, n, i)
    PROVE  StepDone(g, m, i)
BY DEF StepDone, CausesDone, HasCauses

LEMMA ResumeStepIs ==
    ASSUME NEW f, NEW n \in Int
    PROVE  /\ ResumeStep(f, n) \in 0 .. Done
           /\ \A j \in 0 .. ResumeStep(f, n) - 1 : StepDone(f, n, j)
           /\ ResumeStep(f, n) = Done \/ ~StepDone(f, n, ResumeStep(f, n))
<1> DEFINE First(i) == /\ \A j \in 0 .. i - 1 : StepDone(f, n, j)
                       /\ i = Done \/ ~StepDone(f, n, i)
<1>1. \E i \in 0 .. Done : First(i)
  <2>1. /\ \A j \in 0 .. 0 - 1 : FALSE
        /\ \A j \in 0 .. 1 - 1 : j = 0
        /\ \A j \in 0 .. 2 - 1 : j \in {0, 1}
        /\ \A j \in 0 .. 3 - 1 : j \in {0, 1, 2}
        /\ \A j \in 0 .. 4 - 1 : j \in {0, 1, 2, 3}
        /\ \A j \in 0 .. 5 - 1 : j \in {0, 1, 2, 3, 4}
        /\ \A j \in 0 .. 6 - 1 : j \in {0, 1, 2, 3, 4, 5}
    OBVIOUS
  <2>2. Done = 6 /\ {0, 1, 2, 3, 4, 5, 6} \subseteq 0 .. Done BY DEF Done
  <2> HIDE DEF StepDone, Done
  <2>3. CASE ~StepDone(f, n, 0) BY <2>1, <2>2, <2>3
  <2>4. CASE StepDone(f, n, 0) /\ ~StepDone(f, n, 1) BY <2>1, <2>2, <2>4
  <2>5. CASE StepDone(f, n, 0) /\ StepDone(f, n, 1) /\ ~StepDone(f, n, 2) BY <2>1, <2>2, <2>5
  <2>6. CASE /\ StepDone(f, n, 0) /\ StepDone(f, n, 1) /\ StepDone(f, n, 2)
             /\ ~StepDone(f, n, 3)
    BY <2>1, <2>2, <2>6
  <2>7. CASE /\ StepDone(f, n, 0) /\ StepDone(f, n, 1) /\ StepDone(f, n, 2)
             /\ StepDone(f, n, 3) /\ ~StepDone(f, n, 4)
    BY <2>1, <2>2, <2>7
  <2>8. CASE /\ StepDone(f, n, 0) /\ StepDone(f, n, 1) /\ StepDone(f, n, 2)
             /\ StepDone(f, n, 3) /\ StepDone(f, n, 4) /\ ~StepDone(f, n, 5)
    BY <2>1, <2>2, <2>8
  <2>9. CASE /\ StepDone(f, n, 0) /\ StepDone(f, n, 1) /\ StepDone(f, n, 2)
             /\ StepDone(f, n, 3) /\ StepDone(f, n, 4) /\ StepDone(f, n, 5)
    BY <2>1, <2>2, <2>9
  <2> QED BY <2>3, <2>4, <2>5, <2>6, <2>7, <2>8, <2>9
<1>2. ResumeStep(f, n) = CHOOSE i \in 0 .. Done : First(i) BY DEF ResumeStep
<1> HIDE DEF First
<1>3. ResumeStep(f, n) \in 0 .. Done /\ First(ResumeStep(f, n)) BY <1>1, <1>2
<1> QED BY <1>3 DEF First

LEMMA ResumeStepGrows ==
    ASSUME NEW f, NEW g, f \subseteq g, NEW n \in Int, NEW m \in Int, n >= 2 => m >= 2
    PROVE  ResumeStep(f, n) <= ResumeStep(g, m)
<1> DEFINE a == ResumeStep(f, n)
           b == ResumeStep(g, m)
<1>1. a \in 0 .. Done /\ \A j \in 0 .. a - 1 : StepDone(f, n, j) BY ResumeStepIs
<1>2. b \in 0 .. Done /\ (b = Done \/ ~StepDone(g, m, b)) BY ResumeStepIs
<1> HIDE DEF a, b
<1>3. Done \in Int BY DEF Done
<1>4. ASSUME b < a PROVE FALSE
  <2>1. b \in 0 .. a - 1 /\ b # Done BY <1>1, <1>2, <1>3, <1>4
  <2>2. StepDone(f, n, b) BY <1>1, <2>1
  <2>3. StepDone(g, m, b) BY <2>2, StepDoneGrows
  <2> QED BY <1>2, <2>1, <2>3
<1> QED BY <1>1, <1>2, <1>3, <1>4 DEF a, b

LEMMA InitOnb == OnboardingInit => OnbIInv
<1> SUFFICES ASSUME OnboardingInit PROVE OnbIInv OBVIOUS
<1>1. NoSave \in SaveRec /\ NoSave.screen = NoSection /\ NoSave.at = "idle" /\ NoSave.owner = "gone"
  BY DEF NoSave, SaveRec
<1>2. saves = [s \in Slot |-> NoSave] BY DEF OnboardingInit
<1> HIDE DEF NoSave
<1>3. \A s \in Slot : saves[s] = NoSave BY <1>2
<1>4. OnboardingTypeOK
  <2>1. saves \in [Slot -> SaveRec] BY <1>1, <1>2
  <2>2. stepIndex \in Nat /\ resume \in 0 .. Done \cup {NoStep} /\ causes \in 0 .. 12
    BY DEF OnboardingInit
  <2> QED BY <2>1, <2>2 DEF OnboardingTypeOK, OnboardingInit, SaveRec
<1>5. SavesOK BY <1>1, <1>3 DEF SavesOK, SaveOK, NoSection
<1>6. CausesKept /\ LoadOK /\ SettingsOK
  BY DEF OnboardingInit, CausesKept, LoadOK, SettingsOK, MIN_CAUSES
<1>7. Patient BY <1>1, <1>3 DEF Patient, Behind, OnStep, OnSettings, StepSave, EditSave, OnboardingInit
<1> QED BY <1>4, <1>5, <1>6, <1>7 DEF OnbIInv

LEMMA OnbInv == OnbIInv => OnboardingTypeOK /\ AnswersSaved
<1> SUFFICES ASSUME OnbIInv PROVE AnswersSaved BY DEF OnbIInv
<1> SUFFICES ASSUME phase = "app", hasty = FALSE, NEW i \in 0 .. stepIndex - 1, i < Done, i # 2
    PROVE  Flow[i + 1] \in saved /\ (i = 3 => causes >= MIN_CAUSES)
  BY DEF AnswersSaved, OnbIInv, OnboardingTypeOK
<1>1. Flow[i + 1] \in saved BY DEF OnbIInv, Patient, Behind
<1>2. Flow[4] = "causes" BY FlowSteps
<1> QED BY <1>1, <1>2 DEF OnbIInv, CausesKept

-----------------------------------------------------------------------------
(* The saves after a step that only drops some or leaves their screen.     *)
Kept(f) ==
    /\ f \in [Slot -> SaveRec]
    /\ \A s \in Slot :
        \/ f[s] = NoSave
        \/ /\ f[s].screen = saves[s].screen /\ f[s].edit = saves[s].edit
           /\ f[s].tags = saves[s].tags /\ f[s].at = saves[s].at
           /\ f[s].owner # "gone" <=> saves[s].owner # "gone"

LEMMA NoSaveIs ==
    /\ NoSave \in SaveRec /\ NoSave.screen = NoSection /\ NoSave.screen # "causes"
    /\ NoSave.at = "idle" /\ NoSave.owner = "gone"
BY DEF NoSave, SaveRec, NoSection

LEMMA LeaveKept ==
    ASSUME NEW ss \in [Slot -> SaveRec]
    PROVE  /\ LeaveScreen(ss) \in [Slot -> SaveRec]
           /\ \A s \in Slot : LET c == LeaveScreen(ss)[s]
                             IN  /\ c.screen = ss[s].screen /\ c.edit = ss[s].edit
                                 /\ c.tags = ss[s].tags /\ c.at = ss[s].at
                                 /\ c.owner # "gone" <=> ss[s].owner # "gone"
<1>1. \A c \in SaveRec : c.owner = "mounted" =>
        LET d == [c EXCEPT !.owner = "left"]
        IN  /\ d \in SaveRec /\ d.screen = c.screen /\ d.edit = c.edit /\ d.tags = c.tags
            /\ d.at = c.at /\ d.owner = "left"
  BY DEF SaveRec
<1>2. \A s \in Slot : ss[s] \in SaveRec OBVIOUS
<1>3. LeaveScreen(ss) = [s \in Slot |-> IF ss[s].owner = "mounted"
                                       THEN [ss[s] EXCEPT !.owner = "left"] ELSE ss[s]]
  BY DEF LeaveScreen
<1> HIDE DEF SaveRec
<1> QED BY <1>1, <1>2, <1>3

LEMMA SavesTyped ==
    ASSUME OnboardingTypeOK
    PROVE  saves \in [Slot -> SaveRec] /\ causes \in Int
BY DEF OnboardingTypeOK, SaveRec

LEMMA KeptAll ==
    ASSUME OnboardingTypeOK
    PROVE  Kept(saves) /\ Kept(LeaveScreen(saves))
BY SavesTyped, LeaveKept DEF Kept

LEMMA KeptDropping ==
    ASSUME OnboardingTypeOK, NEW t \in Slot,
           NEW f, f \in {[saves EXCEPT ![t] = NoSave], LeaveScreen([saves EXCEPT ![t] = NoSave])}
    PROVE  Kept(f) /\ f[t] = NoSave
<1>1. saves \in [Slot -> SaveRec] BY SavesTyped
<1>2. PICK d \in [Slot -> SaveRec] : d = [saves EXCEPT ![t] = NoSave] BY <1>1, NoSaveIs
<1>3. \A s \in Slot : d[s] = IF s = t THEN NoSave ELSE saves[s] BY <1>1, <1>2
<1>4. CASE f = d
  <2>1. d[t] = NoSave BY <1>3
  <2> QED BY <1>3, <1>4, <2>1 DEF Kept
<1>5. CASE f = LeaveScreen(d)
  <2>1. /\ f \in [Slot -> SaveRec]
        /\ \A s \in Slot : /\ f[s].screen = d[s].screen /\ f[s].edit = d[s].edit
                           /\ f[s].tags = d[s].tags /\ f[s].at = d[s].at
                           /\ f[s].owner # "gone" <=> d[s].owner # "gone"
    BY <1>5, LeaveKept
  <2>2. f[t] = NoSave
    <3>1. f = [s \in Slot |-> IF d[s].owner = "mounted"
                              THEN [d[s] EXCEPT !.owner = "left"] ELSE d[s]]
      BY <1>5 DEF LeaveScreen
    <3>2. d[t] = NoSave /\ d[t].owner # "mounted" BY <1>3, NoSaveIs
    <3> QED BY <3>1, <3>2
  <2>3. \A s \in Slot : s # t => d[s] = saves[s] BY <1>3
  <2>4. Kept(f) BY <2>1, <2>2, <2>3 DEF Kept
  <2> QED BY <2>2, <2>4
<1> QED BY <1>2, <1>4, <1>5

(* Such a step keeps what holds of the calls, and makes no new one.        *)
LEMMA KeptSaves ==
    ASSUME OnbIInv, Kept(saves'), saved' = saved
    PROVE  /\ SavesOK' /\ saves' \in [Slot -> SaveRec]
           /\ \A s \in Slot : StepSave(s)' => StepSave(s)
           /\ \A s \in Slot : EditSave(s)' => EditSave(s)
<1>1. PICK f : f = saves' OBVIOUS
<1>2. Kept(f) BY <1>1
<1>3. \A s \in Slot : SaveOK(saves[s]) BY DEF OnbIInv, SavesOK
<1>4. \A s \in Slot : SaveOK(f[s]) BY <1>2, <1>3, NoSaveIs DEF Kept, SaveOK
<1>5. SavesOK' BY <1>1, <1>4 DEF SavesOK, SaveOK
<1>6. \A s \in Slot : f[s].owner # "gone" => saves[s].owner # "gone" /\ f[s].edit = saves[s].edit
  BY <1>2, NoSaveIs DEF Kept
<1> QED BY <1>1, <1>2, <1>5, <1>6 DEF Kept, StepSave, EditSave

(* A step that stores nothing, drops or leaves saves, and after which, if  *)
(* the user was patient, none of the onboarding is left.                   *)
LEMMA QuietStep ==
    ASSUME OnbIInv, Kept(saves'), UNCHANGED <<saved, causes>>,
           phase' \in {"signedOut", "loading", "app"}, resume' \in {resume, NoStep},
           stepIndex' \in Nat, settings' \in BOOLEAN, editing' \in Section \cup {NoSection},
           hasty' \in BOOLEAN, hasty' = FALSE => hasty = FALSE,
           resume' = NoStep \/ phase' = phase,
           SettingsOK',
           hasty' = FALSE => \A s \in Slot : ~StepSave(s) \/ saves'[s] = NoSave,
           hasty' = FALSE => Behind',
           hasty' = FALSE => \/ \A s \in Slot : ~EditSave(s)
                             \/ phase' # "app"
                             \/ stepIndex' = stepIndex /\ phase = "app"
                             \/ stepIndex' = Done
    PROVE  OnbIInv'
<1>1. /\ SavesOK' /\ saves' \in [Slot -> SaveRec]
      /\ \A s \in Slot : StepSave(s)' => StepSave(s)
      /\ \A s \in Slot : EditSave(s)' => EditSave(s)
  BY KeptSaves
<1>2. OnboardingTypeOK' BY <1>1 DEF OnbIInv, OnboardingTypeOK, SaveRec
<1>3. CausesKept' BY DEF OnbIInv, CausesKept
<1>4. LoadOK' BY DEF OnbIInv, LoadOK
<1>5. Patient'
  <2> SUFFICES ASSUME hasty' = FALSE PROVE Behind' /\ OnStep' /\ OnSettings' BY DEF Patient
  <2>1. OnStep'
    <3>1. \A s \in Slot : ~StepSave(s)' BY <1>1, NoSaveIs DEF StepSave
    <3> QED BY <3>1 DEF OnStep
  <2>2. OnSettings'
    <3> SUFFICES ASSUME NEW s \in Slot, EditSave(s)'
        PROVE  AllDone' /\ (phase' = "app" => stepIndex' = Done) /\ (resume' # NoStep => resume' = Done)
      BY DEF OnSettings
    <3>1. EditSave(s) BY <1>1
    <3>2. AllDone /\ (phase = "app" => stepIndex = Done) /\ (resume # NoStep => resume = Done)
      BY <3>1 DEF OnbIInv, Patient, OnSettings
    <3>3. AllDone' BY <3>2 DEF AllDone
    <3> QED BY <3>1, <3>2, <3>3
  <2> QED BY <2>1, <2>2
<1> QED BY <1>1, <1>2, <1>3, <1>4, <1>5 DEF OnbIInv

LEMMA NotBoth ==
    ASSUME OnbIInv, hasty = FALSE, NEW s \in Slot, NEW t \in Slot, StepSave(s), EditSave(t)
    PROVE  FALSE
BY DEF OnbIInv, Patient, OnStep, OnSettings, OnboardingTypeOK, Done

LEMMA NoStepSave ==
    ASSUME OnbIInv, hasty = FALSE,
           phase # "app" \/ settings = TRUE \/ stepIndex >= Done \/ ~SaveInFlight
    PROVE  \A s \in Slot : ~StepSave(s)
<1> SUFFICES ASSUME NEW s \in Slot, StepSave(s) PROVE FALSE OBVIOUS
<1>1. phase = "app" /\ settings = FALSE /\ stepIndex < Done BY DEF OnbIInv, Patient, OnStep
<1>2. SaveInFlight BY DEF StepSave, SaveInFlight
<1>3. stepIndex \in Nat /\ Done \in Nat BY DEF OnbIInv, OnboardingTypeOK, Done
<1>4. ~(stepIndex >= Done) BY <1>1, <1>3
<1> QED BY <1>1, <1>2, <1>4

LEMMA NoEditSave ==
    ASSUME OnbIInv, hasty = FALSE, phase = "app", stepIndex < Done
    PROVE  \A s \in Slot : ~EditSave(s)
<1> SUFFICES ASSUME NEW s \in Slot, EditSave(s) PROVE FALSE OBVIOUS
<1>1. stepIndex = Done BY DEF OnbIInv, Patient, OnSettings
<1> QED BY <1>1 DEF Done

LEMMA OnbFacts ==
    ASSUME OnbIInv
    PROVE  /\ saved \subseteq Section /\ causes \in 0 .. 12
           /\ phase \in {"signedOut", "loading", "app"} /\ resume \in 0 .. Done \cup {NoStep}
           /\ stepIndex \in Nat /\ settings \in BOOLEAN /\ editing \in Section \cup {NoSection}
           /\ hasty \in BOOLEAN /\ saves \in [Slot -> SaveRec] /\ Done = 6 /\ Done \in Nat
           /\ resume # NoStep => phase = "loading"
           /\ settings = TRUE => phase = "app" /\ stepIndex >= Done
           /\ hasty = FALSE => Behind
           /\ Kept(saves) /\ Kept(LeaveScreen(saves)) /\ OnboardingTypeOK
<1>1. OnboardingTypeOK BY DEF OnbIInv
<1>2. Kept(saves) /\ Kept(LeaveScreen(saves)) BY <1>1, KeptAll
<1> QED BY <1>1, <1>2 DEF OnbIInv, OnboardingTypeOK, SaveRec, LoadOK, SettingsOK, Patient, Done

LEMMA SignInOnb ==
    ASSUME OnbIInv, SignIn
    PROVE  OnbIInv'
<1>1. /\ phase = "signedOut" /\ phase' = "loading" /\ resume = NoStep /\ settings = FALSE
      /\ UNCHANGED <<saved, causes, resume, stepIndex, settings, editing, saves, hasty>>
  BY OnbFacts DEF SignIn
<1>2. SettingsOK' /\ Behind' BY <1>1 DEF SettingsOK, Behind
<1>3. hasty' = FALSE => \A s \in Slot : ~StepSave(s) BY <1>1, NoStepSave
<1>4. Kept(saves') BY <1>1, OnbFacts DEF Kept
<1> QED BY <1>1, <1>2, <1>3, <1>4, OnbFacts, QuietStep

(* A step that is done is saved, but for the choice that saves nothing.    *)
LEMMA DoneIsSaved ==
    ASSUME OnbIInv, NEW i \in 0 .. Done - 1, StepDone(saved, causes, i), i # 2
    PROVE  Flow[i + 1] \in saved
<1>1. CASE i = 3
  <2>1. causes >= 2 BY <1>1 DEF StepDone, CausesDone, HasCauses
  <2>2. "causes" \in saved BY <2>1 DEF OnbIInv, CausesKept, MIN_CAUSES
  <2> QED BY <1>1, <2>2, FlowSteps
<1>2. CASE i # 3
  <2> HIDE DEF Flow
  <2> QED BY <1>2 DEF StepDone
<1> QED BY <1>1, <1>2

LEMMA LoadedOnb ==
    ASSUME OnbIInv, Loaded
    PROVE  OnbIInv'
<1>1. /\ resume # NoStep /\ phase' = "app" /\ stepIndex' = resume /\ resume' = NoStep
      /\ UNCHANGED <<saved, causes, settings, editing, saves, hasty>>
      /\ phase = "loading" /\ settings = FALSE /\ resume \in 0 .. Done
  BY OnbFacts DEF Loaded
<1>2. SettingsOK' BY <1>1 DEF SettingsOK
<1>3. hasty' = FALSE => \A s \in Slot : ~StepSave(s) BY <1>1, NoStepSave
<1>4. Kept(saves') BY <1>1, OnbFacts DEF Kept
<1>5. Behind'
  <2>1. \A i \in 0 .. resume - 1 : StepDone(saved, causes, i) BY <1>1 DEF OnbIInv, LoadOK
  <2>2. \A i \in 0 .. resume - 1 : i \in 0 .. Done - 1 BY <1>1, OnbFacts
  <2>3. \A i \in 0 .. resume - 1 : i # 2 => Flow[i + 1] \in saved BY <2>1, <2>2, DoneIsSaved
  <2>4. resume <= Done BY <1>1, OnbFacts
  <2> HIDE DEF Flow
  <2> QED BY <1>1, <2>3, <2>4 DEF Behind, Done
<1>6. hasty' = FALSE => (\A s \in Slot : ~EditSave(s)) \/ stepIndex' = Done
  BY <1>1 DEF OnbIInv, Patient, OnSettings
<1>7. stepIndex' \in Nat BY <1>1, OnbFacts
<1> QED BY <1>1, <1>2, <1>3, <1>4, <1>5, <1>6, <1>7, OnbFacts, QuietStep

LEMMA LoadServedOnb ==
    ASSUME OnbIInv, LoadServed
    PROVE  OnbIInv'
<1>1. /\ phase = "loading" /\ resume = NoStep /\ resume' = ResumeStep(saved, causes)
      /\ UNCHANGED <<saved, causes, phase, stepIndex, settings, editing, saves, hasty>>
  BY DEF LoadServed
<1> DEFINE r == ResumeStep(saved, causes)
<1>2. /\ r \in 0 .. Done /\ \A j \in 0 .. r - 1 : StepDone(saved, causes, j)
      /\ r = Done \/ ~StepDone(saved, causes, r)
  BY OnbFacts, ResumeStepIs
<1> HIDE DEF r
<1>3. resume' = r BY <1>1 DEF r
<1>4. OnboardingTypeOK' BY <1>1, <1>2, <1>3 DEF OnbIInv, OnboardingTypeOK
<1>5. SavesOK' /\ CausesKept' /\ SettingsOK'
  BY <1>1 DEF OnbIInv, SavesOK, SaveOK, CausesKept, SettingsOK
<1>6. LoadOK' BY <1>1, <1>2, <1>3 DEF LoadOK
<1>7. Patient'
  <2> SUFFICES ASSUME hasty' = FALSE PROVE Behind' /\ OnStep' /\ OnSettings' BY DEF Patient
  <2>1. Behind /\ OnStep /\ OnSettings BY <1>1 DEF OnbIInv, Patient
  <2>2. Behind' /\ OnStep' BY <1>1, <2>1 DEF Behind, OnStep, StepSave
  <2>3. OnSettings'
    <3> SUFFICES ASSUME NEW s \in Slot, EditSave(s)' PROVE AllDone' /\ resume' = Done
      BY <1>1 DEF OnSettings
    <3>1. AllDone BY <1>1, <2>1 DEF EditSave, OnSettings
    <3>2. Done \in Nat BY OnbFacts
    <3>3. r = Done
      <4> SUFFICES ASSUME r # Done PROVE FALSE OBVIOUS
      <4>1. r \in 0 .. Done - 1 BY <1>2, <3>2
      <4> QED BY <1>2, <3>1, <4>1 DEF AllDone
    <3> QED BY <1>1, <1>3, <3>1, <3>3 DEF AllDone
  <2> QED BY <2>2, <2>3
<1> QED BY <1>4, <1>5, <1>6, <1>7 DEF OnbIInv

LEMMA BrowseByCauseOnb ==
    ASSUME OnbIInv, BrowseByCause
    PROVE  OnbIInv'
<1>1. /\ Shown = "orgOrCause" /\ saves' = LeaveScreen(saves)
      /\ hasty' = (hasty \/ SaveInFlight)
      /\ UNCHANGED <<saved, causes, phase, resume, settings>>
  BY DEF BrowseByCause
<1>2. hasty' \in BOOLEAN /\ (hasty' = FALSE => hasty = FALSE /\ ~SaveInFlight)
  BY <1>1, OnbFacts
<1>3. phase = "app" BY <1>1, FlowSteps DEF Shown, NoSection
<1>4. hasty' = FALSE => \A s \in Slot : ~StepSave(s) BY <1>2, NoStepSave
<1>5. Kept(saves') BY <1>1, OnbFacts DEF Kept
<1>6. CASE settings
  <2>1. editing' = "causes" /\ stepIndex' = stepIndex BY <1>6 DEF BrowseByCause
  <2>2. SettingsOK' BY <1>1, <2>1 DEF OnbIInv, SettingsOK
  <2>3. hasty' = FALSE => Behind' BY <1>1, <1>2, <2>1, OnbFacts DEF Behind
  <2>4. editing' \in Section \cup {NoSection} BY <2>1, FlowSteps
  <2> QED BY <1>1, <1>2, <1>3, <1>4, <1>5, <2>1, <2>2, <2>3, <2>4, OnbFacts, QuietStep
<1>7. CASE ~settings
  <2>1. stepIndex' = stepIndex + 1 /\ editing' = editing BY <1>7 DEF BrowseByCause
  <2>2. stepIndex < Done /\ Flow[stepIndex + 1] = "orgOrCause"
    BY <1>1, <1>3, <1>7, FlowSteps DEF Shown, NoSection
  <2>3. stepIndex \in 0 .. 5 BY <2>2, OnbFacts
  <2>4. stepIndex = 2 BY <2>2, <2>3, FlowSteps
  <2>5. SettingsOK' BY <1>1, <1>7 DEF SettingsOK
  <2>6. hasty' = FALSE => Behind'
    <3> SUFFICES ASSUME hasty' = FALSE PROVE Behind' OBVIOUS
    <3>1. \A i \in 0 .. 1 : Flow[i + 1] \in saved
      <4>1. Behind BY <1>2, OnbFacts
      <4>2. \A i \in 0 .. 1 : i \in 0 .. stepIndex - 1 /\ i # 2 BY <2>4
      <4> HIDE DEF Flow
      <4> QED BY <1>3, <4>1, <4>2 DEF Behind
    <3>2. stepIndex' = 3 /\ \A i \in 0 .. 2 : i # 2 => i \in 0 .. 1 BY <2>1, <2>4
    <3> HIDE DEF Flow
    <3> QED BY <1>1, <3>1, <3>2 DEF Behind, Done
  <2>7. hasty' = FALSE => \A s \in Slot : ~EditSave(s) BY <1>2, <1>3, <2>2, NoEditSave
  <2>8. stepIndex' \in Nat BY <2>1, OnbFacts
  <2> QED BY <1>1, <1>2, <1>3, <1>4, <1>5, <2>1, <2>5, <2>6, <2>7, <2>8, OnbFacts, QuietStep
<1> QED BY <1>6, <1>7

LEMMA StepBackOnb ==
    ASSUME OnbIInv, StepBack
    PROVE  OnbIInv'
<1>1. /\ phase = "app" /\ ~settings /\ stepIndex < Done
      /\ saves' = LeaveScreen(saves) /\ hasty' = (hasty \/ SaveInFlight)
      /\ UNCHANGED <<saved, causes>>
  BY DEF StepBack, SignedOut
<1>2. hasty' \in BOOLEAN /\ (hasty' = FALSE => hasty = FALSE /\ ~SaveInFlight)
  BY <1>1, OnbFacts
<1>3. hasty' = FALSE => \A s \in Slot : ~StepSave(s) BY <1>2, NoStepSave
<1>4. Kept(saves') BY <1>1, OnbFacts DEF Kept
<1>5. hasty' = FALSE => \A s \in Slot : ~EditSave(s) BY <1>1, <1>2, NoEditSave
<1>6. CASE SignsOut
  <2>1. SignedOut BY <1>6 DEF StepBack
  <2>2. SettingsOK' /\ Behind' BY <2>1 DEF SettingsOK, Behind, SignedOut
  <2> QED BY <1>2, <1>3, <1>4, <1>5, <2>1, <2>2, OnbFacts, QuietStep DEF SignedOut
<1>7. CASE ~SignsOut
  <2>1. /\ stepIndex' = stepIndex - 1 /\ UNCHANGED <<saved, causes, phase, resume, settings, editing>>
        /\ stepIndex # 0
    BY <1>7 DEF StepBack, SignsOut
  <2>2. SettingsOK' BY <1>1, <2>1 DEF SettingsOK
  <2>3. stepIndex' \in Nat /\ stepIndex' <= stepIndex BY <2>1, OnbFacts
  <2>4. hasty' = FALSE => Behind'
    <3> SUFFICES ASSUME hasty' = FALSE PROVE Behind' OBVIOUS
    <3>1. \A i \in 0 .. stepIndex - 1 : i # 2 => Flow[i + 1] \in saved
      BY <1>1, <1>2, OnbFacts DEF Behind
    <3>2. \A i \in 0 .. stepIndex' - 1 : i \in 0 .. stepIndex - 1
      <4>1. stepIndex \in Nat BY OnbFacts
      <4>2. PICK n \in Nat : n = stepIndex' /\ n <= stepIndex BY <2>3
      <4>3. \A k \in Nat : n <= k => \A i \in 0 .. n - 1 : i \in 0 .. k - 1 OBVIOUS
      <4> QED BY <4>1, <4>2, <4>3
    <3>3. stepIndex' <= Done BY <1>1, <2>3, OnbFacts
    <3> HIDE DEF Flow
    <3> QED BY <2>1, <3>1, <3>2, <3>3 DEF Behind, Done
  <2> QED BY <1>1, <1>2, <1>3, <1>4, <1>5, <2>1, <2>2, <2>3, <2>4, OnbFacts, QuietStep
<1> QED BY <1>6, <1>7

LEMMA UnauthorizedOnb ==
    ASSUME OnbIInv, NEW s \in Slot, Unauthorized(s)
    PROVE  OnbIInv'
<1>1. /\ saves[s].owner # "gone" /\ saves' = LeaveScreen([saves EXCEPT ![s] = NoSave])
      /\ hasty' = hasty
      /\ phase = "signedOut" => UNCHANGED <<saved, causes, phase, resume, stepIndex, settings, editing>>
      /\ phase # "signedOut" => SignedOut
  BY DEF Unauthorized
<1>2. OnboardingTypeOK BY OnbFacts
<1>3. PICK f : f = saves' OBVIOUS
<1>4. Kept(f) /\ f[s] = NoSave BY <1>1, <1>2, <1>3, KeptDropping
<1>5. Kept(saves') /\ saves'[s] = NoSave BY <1>3, <1>4
<1>6. StepSave(s) \/ EditSave(s)
  <2>1. saves[s] \in SaveRec BY OnbFacts
  <2>2. saves[s].edit \in BOOLEAN BY <2>1 DEF SaveRec
  <2> QED BY <1>1, <2>2 DEF StepSave, EditSave
<1>7. hasty' = FALSE => \A t \in Slot : ~StepSave(t) \/ saves'[t] = NoSave
  <2> SUFFICES ASSUME hasty' = FALSE, NEW t \in Slot, StepSave(t) PROVE t = s
    BY <1>5
  <2>1. StepSave(s) BY <1>1, <1>6, NotBoth
  <2> QED BY <1>1, <2>1 DEF OnbIInv, Patient, OnStep
<1>8. SettingsOK'
  <2>1. CASE phase = "signedOut" BY <1>1, <2>1 DEF OnbIInv, SettingsOK
  <2>2. CASE phase # "signedOut" BY <1>1, <2>2 DEF SettingsOK, SignedOut
  <2> QED BY <2>1, <2>2
<1>9. phase' = "signedOut" BY <1>1 DEF SignedOut
<1>10. Behind' BY <1>9 DEF Behind
<1>11. /\ UNCHANGED <<saved, causes>> /\ resume' \in {resume, NoStep}
       /\ stepIndex' \in Nat /\ settings' \in BOOLEAN /\ editing' \in Section \cup {NoSection}
       /\ resume' = NoStep \/ phase' = phase
  <2>1. CASE phase = "signedOut" BY <1>1, <2>1, OnbFacts
  <2>2. CASE phase # "signedOut"
    <3>1. SignedOut BY <1>1, <2>2
    <3>2. /\ UNCHANGED <<saved, causes>> /\ resume' = NoStep /\ stepIndex' = 0
          /\ settings' = FALSE /\ editing' = NoSection
      BY <3>1 DEF SignedOut
    <3> QED BY <3>2
  <2> QED BY <2>1, <2>2
<1>12. hasty' \in BOOLEAN BY <1>1, OnbFacts
<1> QED BY <1>1, <1>5, <1>7, <1>8, <1>9, <1>10, <1>11, <1>12, QuietStep

(* The settings: the onboarding is behind the user.                        *)
LEMMA SettingsOnb ==
    ASSUME OnbIInv, \/ OpenSettings \/ SettingsBack \/ LogOut
                    \/ \E section \in EditSection : EditSettings(section)
    PROVE  OnbIInv'
<1>1. phase = "app" /\ stepIndex >= Done
  BY DEF OpenSettings, SettingsBack, LogOut, EditSettings, InApp
<1>2. /\ hasty' = hasty /\ saves' \in {saves, LeaveScreen(saves)}
      /\ UNCHANGED <<saved, causes>>
  BY DEF OpenSettings, SettingsBack, LogOut, EditSettings, SignedOut
<1>3. hasty' = FALSE => \A t \in Slot : ~StepSave(t) BY <1>1, <1>2, NoStepSave
<1>4. Kept(saves')
  <2>1. CASE saves' = saves BY <2>1, OnbFacts DEF Kept
  <2>2. CASE saves' = LeaveScreen(saves)
    <3>1. PICK f : f = LeaveScreen(saves) OBVIOUS
    <3>2. Kept(f) BY <3>1, OnbFacts
    <3> QED BY <2>2, <3>1, <3>2 DEF Kept
  <2> QED BY <1>2, <2>1, <2>2
<1>5. CASE LogOut
  <2>1. SignedOut BY <1>5 DEF LogOut
  <2>2. SettingsOK' /\ Behind' BY <2>1 DEF SettingsOK, Behind, SignedOut
  <2> QED BY <1>2, <1>3, <1>4, <2>1, <2>2, OnbFacts, QuietStep DEF SignedOut
<1>6. CASE \/ OpenSettings \/ SettingsBack \/ \E section \in EditSection : EditSettings(section)
  <2>1. UNCHANGED <<phase, resume, stepIndex>>
    BY <1>6 DEF OpenSettings, SettingsBack, EditSettings
  <2>2. settings' \in BOOLEAN /\ editing' \in Section \cup {NoSection}
    BY <1>6, OnbFacts, OnboardingAssumption DEF OpenSettings, SettingsBack, EditSettings
  <2>3. SettingsOK' BY <1>1, <2>1 DEF SettingsOK
  <2>4. hasty' = FALSE => Behind' BY <1>2, <2>1, OnbFacts DEF Behind
  <2> QED BY <1>1, <1>2, <1>3, <1>4, <2>1, <2>2, <2>3, <2>4, OnbFacts, QuietStep
<1> QED BY <1>5, <1>6

(* What is left of the calls when the app is killed is only the server's.  *)
LEMMA RelaunchOnb ==
    ASSUME OnbIInv, Relaunch
    PROVE  OnbIInv'
<1>1. /\ phase' = "loading" /\ resume' = NoStep /\ stepIndex' = 0 /\ settings' = FALSE
      /\ editing' = NoSection /\ hasty' = FALSE /\ UNCHANGED <<saved, causes>>
      /\ saves' = [s \in Slot |-> IF saves[s].at = "sent" THEN [saves[s] EXCEPT !.owner = "gone"]
                                  ELSE NoSave]
  BY DEF Relaunch
<1>2. \A c \in SaveRec :
        LET d == [c EXCEPT !.owner = "gone"]
        IN  /\ d \in SaveRec /\ d.screen = c.screen /\ d.tags = c.tags /\ d.at = c.at
            /\ d.owner = "gone"
  BY DEF SaveRec
<1>3. \A s \in Slot : saves[s] \in SaveRec /\ SaveOK(saves[s]) BY OnbFacts DEF OnbIInv, SavesOK
<1>4. PICK f : f = saves' OBVIOUS
<1>5. \A s \in Slot : f[s] \in SaveRec /\ f[s].owner = "gone" /\ SaveOK(f[s])
  BY <1>1, <1>2, <1>3, <1>4, NoSaveIs DEF SaveOK
<1>6. saves' \in [Slot -> SaveRec]
  <2>1. \A s \in Slot : saves'[s] \in SaveRec BY <1>4, <1>5
  <2> QED BY <1>1, <2>1
<1>7. OnboardingTypeOK' BY <1>1, <1>6, OnbFacts DEF OnboardingTypeOK, SaveRec
<1>8. SavesOK' BY <1>1, <1>4, <1>5 DEF SavesOK, SaveOK
<1>9. CausesKept' /\ LoadOK' /\ SettingsOK' BY <1>1 DEF OnbIInv, CausesKept, LoadOK, SettingsOK
<1>10. Patient'
  <2>1. \A s \in Slot : ~StepSave(s)' /\ ~EditSave(s)' BY <1>4, <1>5 DEF StepSave, EditSave
  <2> QED BY <1>1, <2>1 DEF Patient, Behind, OnStep, OnSettings
<1> QED BY <1>7, <1>8, <1>9, <1>10 DEF OnbIInv

LEMMA ReplyOnb ==
    ASSUME OnbIInv, NEW s \in Slot, NEW ok \in BOOLEAN, Reply(s, ok)
    PROVE  OnbIInv'
<1> DEFINE c == saves[s]
           done == [saves EXCEPT ![s] = NoSave]
<1>1. /\ ok = TRUE => c.at = "saved"
      /\ UNCHANGED <<saved, causes, phase, resume, settings, hasty>>
      /\ saves' = IF Shown' = Shown THEN done ELSE LeaveScreen(done)
  BY DEF Reply
<1>2. OnboardingTypeOK BY OnbFacts
<1>3. PICK f : f = saves' OBVIOUS
<1>4. f \in {done, LeaveScreen(done)} BY <1>1, <1>3
<1>5. Kept(f) /\ f[s] = NoSave BY <1>2, <1>4, KeptDropping
<1>6. Kept(saves') /\ saves'[s] = NoSave BY <1>3, <1>5
<1>7. c \in SaveRec /\ SaveOK(c) BY OnbFacts DEF OnbIInv, SavesOK
<1>8. CASE ok = FALSE
  <2>1. UNCHANGED <<stepIndex, editing>> BY <1>8 DEF Reply
  <2>2. Shown' = Shown BY <1>1, <2>1 DEF Shown
  <2>3. saves' = done BY <1>1, <2>2
  <2>4. \A t \in Slot : saves'[t] = IF t = s THEN NoSave ELSE saves[t]
    <3>1. saves \in [Slot -> SaveRec] BY OnbFacts
    <3> QED BY <2>3, <3>1
  <2>5. \A t \in Slot : /\ StepSave(t)' => StepSave(t) /\ saves'[t] = saves[t]
                        /\ EditSave(t)' => EditSave(t)
    BY <2>4, NoSaveIs DEF StepSave, EditSave
  <2>6. SavesOK' /\ saves' \in [Slot -> SaveRec] BY <1>1, <1>6, KeptSaves
  <2>7. OnboardingTypeOK' BY <1>1, <2>1, <2>6, OnbFacts DEF OnboardingTypeOK, SaveRec
  <2>8. CausesKept' /\ LoadOK' /\ SettingsOK'
    BY <1>1, <2>1 DEF OnbIInv, CausesKept, LoadOK, SettingsOK
  <2>9. Patient'
    <3> SUFFICES ASSUME hasty' = FALSE PROVE Behind' /\ OnStep' /\ OnSettings' BY DEF Patient
    <3>1. Behind /\ OnStep /\ OnSettings BY <1>1 DEF OnbIInv, Patient
    <3>2. Behind' BY <1>1, <2>1, <3>1 DEF Behind
    <3>3. OnStep' BY <1>1, <2>1, <2>5, <3>1 DEF OnStep
    <3>4. AllDone' <=> AllDone BY <1>1 DEF AllDone
    <3>5. OnSettings' BY <1>1, <2>1, <2>5, <3>1, <3>4 DEF OnSettings
    <3> QED BY <3>2, <3>3, <3>5
  <2> QED BY <2>6, <2>7, <2>8, <2>9 DEF OnbIInv
<1>9. CASE ok = TRUE /\ c.edit = TRUE
  <2>1. /\ editing' = IF c.screen = "orgOrCause" THEN "causes" ELSE NoSection
        /\ stepIndex' = stepIndex
    BY <1>9 DEF Reply
  <2>2. EditSave(s) BY <1>1, <1>7, <1>9 DEF SaveOK, EditSave
  <2>3. hasty' = FALSE => \A t \in Slot : ~StepSave(t) BY <1>1, <2>2, NotBoth
  <2>4. SettingsOK' BY <1>1, <2>1 DEF OnbIInv, SettingsOK
  <2>5. hasty' = FALSE => Behind' BY <1>1, <2>1, OnbFacts DEF Behind
  <2>6. editing' \in Section \cup {NoSection} BY <2>1, FlowSteps
  <2> QED BY <1>1, <1>6, <2>1, <2>3, <2>4, <2>5, <2>6, OnbFacts, QuietStep
<1>10. CASE ok = TRUE /\ c.edit = FALSE
  <2>1. stepIndex' = stepIndex + 1 /\ editing' = editing BY <1>10 DEF Reply
  <2>2. StepSave(s) /\ c.screen \in saved BY <1>1, <1>7, <1>10 DEF SaveOK, StepSave
  <2>3. hasty' = FALSE =>
            /\ phase = "app" /\ settings = FALSE /\ stepIndex < Done
            /\ c.screen = Flow[stepIndex + 1]
            /\ \A t \in Slot : StepSave(t) => t = s
    BY <1>1, <2>2 DEF OnbIInv, Patient, OnStep
  <2>4. hasty' = FALSE => \A t \in Slot : ~StepSave(t) \/ saves'[t] = NoSave BY <1>6, <2>3
  <2>5. hasty' = FALSE => \A t \in Slot : ~EditSave(t) BY <1>1, <2>2, NotBoth
  <2>6. SettingsOK' BY <1>1, <2>1, OnbFacts DEF SettingsOK
  <2>7. hasty' = FALSE => Behind'
    <3> SUFFICES ASSUME hasty' = FALSE PROVE Behind' OBVIOUS
    <3>1. \A i \in 0 .. stepIndex - 1 : i # 2 => Flow[i + 1] \in saved
      BY <1>1, <2>3, OnbFacts DEF Behind
    <3>2. Flow[stepIndex + 1] \in saved BY <2>2, <2>3
    <3>3. stepIndex \in Nat BY OnbFacts
    <3>4. \A i \in 0 .. stepIndex' - 1 : i \in 0 .. stepIndex - 1 \/ i = stepIndex BY <2>1, <3>3
    <3>5. stepIndex' <= Done BY <2>1, <2>3, <3>3 DEF Done
    <3> HIDE DEF Flow
    <3> QED BY <1>1, <3>1, <3>2, <3>4, <3>5 DEF Behind
  <2>8. stepIndex' \in Nat BY <2>1, OnbFacts
  <2> QED BY <1>1, <1>6, <2>1, <2>4, <2>5, <2>6, <2>7, <2>8, OnbFacts, QuietStep
<1>11. c.edit \in BOOLEAN BY <1>7 DEF SaveRec
<1> QED BY <1>8, <1>9, <1>10, <1>11

LEMMA ServeOnb ==
    ASSUME OnbIInv, NEW s \in Slot, Serve(s)
    PROVE  OnbIInv' /\ saved \subseteq saved' /\ (causes >= 2 => causes' >= 2)
<1> DEFINE c == saves[s]
           new == IF c.owner = "gone" THEN NoSave ELSE [c EXCEPT !.at = "saved"]
<1>1. /\ c.at = "sent" /\ saved' = saved \cup {c.screen}
      /\ causes' = IF c.screen = "causes" THEN c.tags ELSE causes
      /\ saves' = [saves EXCEPT ![s] = new]
      /\ UNCHANGED <<phase, resume, stepIndex, settings, editing, hasty>>
  BY DEF Serve
<1>2. /\ c \in SaveRec /\ SaveOK(c) /\ causes \in 0 .. 12 /\ saved \subseteq Section
      /\ saves \in [Slot -> SaveRec]
  BY OnbFacts DEF OnbIInv, SavesOK
<1>3. c.screen \in Section /\ c.tags \in 0 .. 12 /\ (c.screen = "causes" => c.tags >= 2)
  BY <1>1, <1>2 DEF SaveOK, SaveRec, MIN_CAUSES
<1>4. /\ saved' \subseteq Section /\ saved \subseteq saved' /\ c.screen \in saved'
      /\ causes' \in 0 .. 12 /\ (causes >= 2 => causes' >= 2)
  BY <1>1, <1>2, <1>3
<1>5. /\ new \in SaveRec /\ new.edit \in {c.edit, FALSE}
      /\ new = NoSave \/ /\ c.owner # "gone" /\ new.screen = c.screen /\ new.edit = c.edit
                         /\ new.tags = c.tags /\ new.owner = c.owner /\ new.at = "saved"
  <2>1. [c EXCEPT !.at = "saved"] \in SaveRec BY <1>2 DEF SaveRec
  <2>2. /\ [c EXCEPT !.at = "saved"].screen = c.screen /\ [c EXCEPT !.at = "saved"].edit = c.edit
        /\ [c EXCEPT !.at = "saved"].tags = c.tags /\ [c EXCEPT !.at = "saved"].owner = c.owner
        /\ [c EXCEPT !.at = "saved"].at = "saved"
    BY <1>2 DEF SaveRec
  <2>3. NoSave.edit = FALSE BY DEF NoSave
  <2> QED BY <2>1, <2>2, <2>3, NoSaveIs
<1> HIDE DEF new
<1>6. \A t \in Slot : saves'[t] = IF t = s THEN new ELSE saves[t] BY <1>1, <1>2
<1>7. saves' \in [Slot -> SaveRec] BY <1>1, <1>2, <1>5
<1>8. OnboardingTypeOK' BY <1>1, <1>4, <1>7, OnbFacts DEF OnboardingTypeOK, SaveRec
<1>9. SavesOK'
  <2> SUFFICES ASSUME NEW t \in Slot PROVE SaveOK(saves[t])' BY DEF SavesOK
  <2>1. SaveOK(saves[t]) BY DEF OnbIInv, SavesOK
  <2>2. CASE t = s BY <1>2, <1>4, <1>5, <1>6, <2>2, NoSaveIs DEF SaveOK
  <2>3. CASE t # s BY <1>4, <1>6, <2>1, <2>3 DEF SaveOK
  <2> QED BY <2>2, <2>3
<1>10. CausesKept'
  <2>1. "causes" \in saved <=> causes >= 2 BY DEF OnbIInv, CausesKept, MIN_CAUSES
  <2>2. CASE c.screen = "causes" BY <1>1, <1>3, <2>2 DEF CausesKept, MIN_CAUSES
  <2>3. CASE c.screen # "causes" BY <1>1, <2>1, <2>3 DEF CausesKept, MIN_CAUSES
  <2> QED BY <2>2, <2>3
<1>11. \A i : StepDone(saved, causes, i) => StepDone(saved', causes', i)
  <2>1. causes \in Int /\ causes' \in Int BY <1>2, <1>4
  <2>2. PICK g, m : g = saved' /\ m = causes' OBVIOUS
  <2>3. \A i : StepDone(saved, causes, i) => StepDone(g, m, i)
    BY <1>4, <2>1, <2>2, StepDoneGrows
  <2> QED BY <2>2, <2>3
<1>12. LoadOK' /\ SettingsOK'
  <2>1. LoadOK /\ SettingsOK BY DEF OnbIInv
  <2>2. LoadOK' BY <1>1, <1>11, <2>1 DEF LoadOK
  <2> QED BY <1>1, <2>1, <2>2 DEF SettingsOK
<1>13. Patient'
  <2> SUFFICES ASSUME hasty' = FALSE PROVE Behind' /\ OnStep' /\ OnSettings' BY DEF Patient
  <2>1. Behind /\ OnStep /\ OnSettings BY <1>1 DEF OnbIInv, Patient
  <2>2. Behind' BY <1>1, <1>4, <2>1 DEF Behind
  <2>3. \A t \in Slot : /\ StepSave(t)' => /\ StepSave(t) /\ saves'[t].screen = saves[t].screen
                                            /\ saves'[t].owner = saves[t].owner
                        /\ EditSave(t)' => EditSave(t)
    BY <1>5, <1>6, NoSaveIs DEF StepSave, EditSave
  <2>4. OnStep' BY <1>1, <2>1, <2>3 DEF OnStep
  <2>5. AllDone => AllDone' BY <1>11 DEF AllDone
  <2>6. OnSettings' BY <1>1, <2>1, <2>3, <2>5 DEF OnSettings
  <2> QED BY <2>2, <2>4, <2>6
<1> QED BY <1>4, <1>8, <1>9, <1>10, <1>12, <1>13 DEF OnbIInv

LEMMA ContinueOnb ==
    ASSUME OnbIInv, NEW s \in Slot, Continue(s)
    PROVE  OnbIInv'
<1>1. PICK n \in IF Shown = "causes" THEN {k \in 0 .. 2 : MayPick(k)} ELSE {0} :
        saves' = [saves EXCEPT ![s] = [screen |-> Shown, edit |-> settings, tags |-> n,
                                       at |-> "sent", owner |-> "mounted"]]
  BY DEF Continue
<1> DEFINE new == [screen |-> Shown, edit |-> settings, tags |-> n, at |-> "sent", owner |-> "mounted"]
<1>2. /\ Shown \in Section /\ ~Submitting /\ saves[s] = NoSave
      /\ UNCHANGED <<saved, causes, phase, resume, stepIndex, settings, editing, hasty>>
  BY DEF Continue
<1>3. n \in 0 .. 12 /\ (Shown = "causes" => n >= 2) BY <1>1 DEF MayPick, MIN_CAUSES
<1>4. saves \in [Slot -> SaveRec] /\ settings \in BOOLEAN BY OnbFacts
<1>5. new \in SaveRec BY <1>2, <1>3, <1>4 DEF SaveRec
<1>6. SaveOK(new) BY <1>2, <1>3 DEF SaveOK, MIN_CAUSES
<1>7. /\ new.edit = settings /\ new.owner = "mounted" /\ new.owner # "gone" /\ new.screen = Shown
  OBVIOUS
<1>8. PICK c \in SaveRec : c = new BY <1>5
<1>9. saves' = [saves EXCEPT ![s] = c] /\ SaveOK(c) BY <1>1, <1>6, <1>8
<1>10. c.edit = settings /\ c.owner = "mounted" /\ c.screen = Shown BY <1>7, <1>8
<1> HIDE DEF new
<1>11. \A t \in Slot : saves'[t] = IF t = s THEN c ELSE saves[t] BY <1>4, <1>9
<1>12. saves' \in [Slot -> SaveRec] BY <1>4, <1>9
<1>13. OnboardingTypeOK' BY <1>2, <1>12, OnbFacts DEF OnboardingTypeOK, SaveRec
<1>14. SavesOK'
  <2>1. \A t \in Slot : SaveOK(saves'[t]) BY <1>9, <1>11 DEF OnbIInv, SavesOK
  <2> QED BY <1>2, <2>1 DEF SavesOK, SaveOK
<1>15. CausesKept' /\ LoadOK' /\ SettingsOK'
  BY <1>2 DEF OnbIInv, CausesKept, LoadOK, SettingsOK
<1>16. phase = "app" BY <1>2, FlowSteps DEF Shown
<1>17. Patient'
  <2> SUFFICES ASSUME hasty' = FALSE PROVE Behind' /\ OnStep' /\ OnSettings' BY DEF Patient
  <2>1. Behind /\ OnStep /\ OnSettings BY <1>2 DEF OnbIInv, Patient
  <2>2. Behind' BY <1>2, <2>1 DEF Behind
  <2>3. \A t \in Slot : ~StepSave(t) BY <1>2, <2>1 DEF OnStep, Submitting
  <2>4. OnStep'
    <3>1. CASE settings = TRUE
      <4>1. \A t \in Slot : ~StepSave(t)' BY <1>10, <1>11, <2>3, <3>1 DEF StepSave
      <4> QED BY <4>1 DEF OnStep
    <3>2. CASE settings = FALSE
      <4>1. stepIndex < Done /\ Shown = Flow[stepIndex + 1]
        BY <1>2, <1>16, <3>2, FlowSteps DEF Shown
      <4>2. \A t \in Slot : StepSave(t)' => t = s BY <1>11, <2>3 DEF StepSave
      <4>3. saves'[s].screen = Flow[stepIndex + 1] /\ saves'[s].owner = "mounted"
        BY <1>10, <1>11, <4>1
      <4> HIDE DEF Flow
      <4> QED BY <1>2, <1>16, <3>2, <4>1, <4>2, <4>3 DEF OnStep
    <3> QED BY <1>4, <3>1, <3>2
  <2>5. OnSettings'
    <3> SUFFICES ASSUME NEW t \in Slot, EditSave(t)'
        PROVE  AllDone /\ (phase = "app" => stepIndex = Done) /\ (resume # NoStep => resume = Done)
      BY <1>2 DEF OnSettings, AllDone
    <3>1. CASE t # s
      <4>1. EditSave(t) BY <1>11, <3>1 DEF EditSave
      <4> QED BY <2>1, <4>1 DEF OnSettings
    <3>2. CASE t = s
      <4>1. settings = TRUE BY <1>10, <1>11, <3>2 DEF EditSave
      <4>2. stepIndex >= Done /\ stepIndex <= Done BY <1>16, <2>1, <4>1, OnbFacts DEF Behind
      <4>3. stepIndex = Done BY <4>2, OnbFacts
      <4>4. resume = NoStep BY <1>16, OnbFacts
      <4>5. AllDone
        <5> SUFFICES ASSUME NEW i \in 0 .. Done - 1 PROVE StepDone(saved, causes, i) BY DEF AllDone
        <5>1. \A j \in 0 .. Done - 1 : j # 2 => Flow[j + 1] \in saved
          BY <1>16, <2>1, <4>3 DEF Behind
        <5>2. 3 \in 0 .. Done - 1 BY OnbFacts
        <5>3. Flow[4] \in saved BY <5>1, <5>2
        <5>4. causes >= 2 BY <5>3, FlowSteps DEF OnbIInv, CausesKept, MIN_CAUSES
        <5> HIDE DEF Flow
        <5> QED BY <5>1, <5>4 DEF StepDone, CausesDone, HasCauses
      <4> QED BY <4>3, <4>4, <4>5
    <3> QED BY <3>1, <3>2
  <2> QED BY <2>2, <2>4, <2>5
<1> QED BY <1>13, <1>14, <1>15, <1>17 DEF OnbIInv

LEMMA StepOnb ==
    ASSUME OnbIInv, [OnboardingNext]_appVars
    PROVE  OnbIInv' /\ saved \subseteq saved' /\ (causes >= 2 => causes' >= 2)
<1>1. CASE UNCHANGED appVars
  BY <1>1 DEF appVars, OnbIInv, OnboardingTypeOK, SavesOK, SaveOK, CausesKept, LoadOK, SettingsOK,
       Patient, Behind, OnStep, OnSettings, StepSave, EditSave, AllDone
<1>2. CASE SignIn BY <1>2, SignInOnb DEF SignIn
<1>3. CASE LoadServed BY <1>3, LoadServedOnb DEF LoadServed
<1>4. CASE Loaded BY <1>4, LoadedOnb DEF Loaded
<1>5. CASE BrowseByCause BY <1>5, BrowseByCauseOnb DEF BrowseByCause
<1>6. CASE StepBack BY <1>6, StepBackOnb DEF StepBack, SignedOut
<1>7. CASE Relaunch BY <1>7, RelaunchOnb DEF Relaunch
<1>8. CASE \/ OpenSettings \/ SettingsBack \/ LogOut
           \/ \E section \in EditSection : EditSettings(section)
  BY <1>8, SettingsOnb DEF OpenSettings, SettingsBack, LogOut, EditSettings, SignedOut
<1>9. CASE \E s \in Slot : Continue(s) BY <1>9, ContinueOnb DEF Continue
<1>10. CASE \E s \in Slot : Serve(s) BY <1>10, ServeOnb
<1>11. CASE \E s \in Slot : Unauthorized(s)
  BY <1>11, UnauthorizedOnb DEF Unauthorized, SignedOut
<1>12. CASE \E s \in Slot : \E ok \in BOOLEAN : Reply(s, ok)
  <2>1. PICK s \in Slot, ok \in BOOLEAN : Reply(s, ok) BY <1>12
  <2>2. UNCHANGED <<saved, causes>> BY <2>1 DEF Reply
  <2>3. OnbIInv' BY <2>1, ReplyOnb
  <2> QED BY <2>2, <2>3
<1> QED BY <1>1, <1>2, <1>3, <1>4, <1>5, <1>6, <1>7, <1>8, <1>9, <1>10, <1>11, <1>12
     DEF OnboardingNext

(* A fresh start resumes no earlier after a step than before it.           *)
LEMMA ResumesLater ==
    ASSUME OnbIInv, [OnboardingNext]_appVars
    PROVE  ResumeStep(saved, causes) <= ResumeStep(saved, causes)'
<1>1. OnbIInv' /\ saved \subseteq saved' /\ (causes >= 2 => causes' >= 2) BY StepOnb
<1>3. causes \in Int /\ causes' \in Int BY <1>1 DEF OnbIInv, OnboardingTypeOK
<1>4. PICK g, m : g = saved' /\ m = causes' OBVIOUS
<1>5. ResumeStep(saved, causes) <= ResumeStep(g, m) BY <1>1, <1>3, <1>4, ResumeStepGrows
<1> QED BY <1>4, <1>5

(* A user who waits for a save has no step behind them whose answers are   *)
(* not stored, and the step a fresh start resumes at never goes back.      *)
THEOREM AnswersAreSaved == OnboardingSpec => []OnboardingTypeOK /\ []AnswersSaved /\ StepsSaved
<1>1. OnboardingInit => OnbIInv BY InitOnb
<1>2. OnbIInv /\ [OnboardingNext]_appVars => OnbIInv' BY StepOnb
<1>3. OnbIInv => OnboardingTypeOK /\ AnswersSaved BY OnbInv
<1>4. OnbIInv /\ [OnboardingNext]_appVars
        => ResumeStep(saved, causes) <= ResumeStep(saved, causes)'
  BY ResumesLater
<1> QED BY <1>1, <1>2, <1>3, <1>4, PTL DEF OnboardingSpec, StepsSaved

-----------------------------------------------------------------------------
(* The screens.                                                            *)

Call ==
    [from : DOMAIN Opens \cup {"none"}, mine : BOOLEAN, shown : BOOLEAN,
     then : {"pairing", "waiting", "booking", "startMatching", "back", "none"}]
Entry == [name : DOMAIN Opens, mine : BOOLEAN]

(* The stack is never empty, Home is only at its bottom, and whatever is   *)
(* above it is of this session, unless a reply has strayed.                *)
LeadsHome(s) ==
    /\ s \in Seq(Entry) /\ Len(s) > 0
    /\ \A i \in 2 .. Len(s) : s[i].name # "home"
Home1(s) == s[1].name = "home" /\ \A i \in 1 .. Len(s) : s[i].mine = TRUE
StackOK == LeadsHome(stack) /\ (~strayed => Home1(stack))

(* A call whose screen is still shown: it is of this session and of the    *)
(* screen on top, which is not Home and has nothing over it.               *)
ShownOK(call) ==
    /\ call.mine = TRUE /\ overlays = {}
    /\ call.from = stack[Len(stack)].name /\ call.from # "home"
CallsOK ==
    /\ inFlight \in [InFlight -> Call]
    /\ \A c \in InFlight : inFlight[c] # NothingSent => inFlight[c].then # "none"
ShownCallsOK == \A c \in InFlight : inFlight[c].shown = TRUE => ShownOK(inFlight[c])
FlagsOK ==
    /\ signedIn \in BOOLEAN /\ sessionAlive \in BOOLEAN /\ strayed \in BOOLEAN
    /\ overlays \subseteq Overlay
NavIInv == FlagsOK /\ StackOK /\ CallsOK /\ ShownCallsOK

LEMMA NavInv == NavIInv => BackLeadsHome /\ NavTypeOK
<1> SUFFICES ASSUME NavIInv PROVE BackLeadsHome /\ NavTypeOK OBVIOUS
<1>1. BackLeadsHome
  BY DEF NavIInv, StackOK, LeadsHome, Home1, BackLeadsHome, Entry
<1>2. \A i \in DOMAIN stack : stack[i].name \in DOMAIN Opens /\ stack[i].mine \in BOOLEAN
  <2>1. stack \in Seq(Entry) BY DEF NavIInv, StackOK, LeadsHome
  <2>2. \A e \in Entry : e.name \in DOMAIN Opens /\ e.mine \in BOOLEAN BY DEF Entry
  <2>3. \A i \in DOMAIN stack : stack[i] \in Entry BY <2>1
  <2> QED BY <2>2, <2>3
<1>3. \A c \in InFlight :
        /\ inFlight[c].from \in DOMAIN Opens \cup {"none"} /\ inFlight[c].mine \in BOOLEAN
        /\ inFlight[c].then \in {"pairing", "waiting", "booking", "startMatching", "back", "none"}
  BY DEF NavIInv, CallsOK, Call
<1> QED BY <1>1, <1>2, <1>3 DEF NavIInv, FlagsOK, NavTypeOK

LEMMA FrontOf ==
    ASSUME NEW s \in Seq(Entry), Len(s) > 0
    PROVE  /\ Front(s) \in Seq(Entry) /\ Len(Front(s)) = Len(s) - 1
           /\ \A i \in 1 .. Len(s) - 1 : Front(s)[i] = s[i]
<1> DEFINE n == Len(s) - 1
<1>1. Len(s) \in Nat /\ n \in Int /\ n >= 0 OBVIOUS
<1>2. 1 \in Int /\ \A i \in 1 .. n : s[i] \in Entry BY <1>1
<1> HIDE DEF n
<1>3. /\ SubSeq(s, 1, n) \in Seq(Entry)
      /\ Len(SubSeq(s, 1, n)) = IF 1 <= n THEN n - 1 + 1 ELSE 0
      /\ \A i \in 1 .. n - 1 + 1 : SubSeq(s, 1, n)[i] = s[1 + i - 1]
  BY <1>1, <1>2, SubSeqProperties
<1>4. Front(s) = SubSeq(s, 1, n) BY DEF Front, n
<1>5. Len(Front(s)) = n BY <1>1, <1>3, <1>4
<1>6. \A i \in 1 .. n : Front(s)[i] = s[i]
  <2> TAKE i \in 1 .. n
  <2>1. i \in 1 .. n - 1 + 1 /\ 1 + i - 1 = i BY <1>1
  <2> QED BY <1>3, <1>4, <2>1
<1> QED BY <1>3, <1>4, <1>5, <1>6 DEF n

LEMMA OneScreenMore ==
    ASSUME NEW s, LeadsHome(s), NEW name \in DOMAIN Opens \ {"home"}, NEW mine \in BOOLEAN
    PROVE  LET t == Append(s, [name |-> name, mine |-> mine])
           IN  /\ LeadsHome(t)
               /\ Home1(s) /\ mine = TRUE => Home1(t)
<1> DEFINE e == [name |-> name, mine |-> mine]
           t == Append(s, e)
<1>1. e \in Entry BY DEF Entry
<1>2. e.name # "home" /\ e.mine = mine OBVIOUS
<1>3. s \in Seq(Entry) /\ Len(s) \in Nat /\ Len(s) > 0 BY DEF LeadsHome
<1> HIDE DEF e
<1>4. /\ t \in Seq(Entry) /\ Len(t) = Len(s) + 1 /\ t[Len(t)] = e
      /\ \A i \in 1 .. Len(s) : t[i] = s[i]
  BY <1>1, <1>3
<1> HIDE DEF t
<1>5. LeadsHome(t) BY <1>2, <1>3, <1>4 DEF LeadsHome
<1>6. ASSUME Home1(s), mine = TRUE PROVE Home1(t)
  <2>1. t[1].name = "home" BY <1>3, <1>4, <1>6 DEF Home1
  <2>2. \A i \in 1 .. Len(s) : t[i].mine = TRUE BY <1>3, <1>4, <1>6 DEF Home1
  <2>3. t[Len(t)].mine = TRUE BY <1>2, <1>4, <1>6
  <2> QED BY <1>3, <1>4, <2>1, <2>2, <2>3 DEF Home1
<1> QED BY <1>5, <1>6 DEF t, e

LEMMA OneScreenLess ==
    ASSUME NEW s, LeadsHome(s), Len(s) > 1
    PROVE  LeadsHome(Front(s)) /\ (Home1(s) => Home1(Front(s)))
<1>1. s \in Seq(Entry) /\ Len(s) \in Nat BY DEF LeadsHome
<1>2. /\ Front(s) \in Seq(Entry) /\ Len(Front(s)) = Len(s) - 1
      /\ \A i \in 1 .. Len(s) - 1 : Front(s)[i] = s[i]
  BY <1>1, FrontOf
<1> QED BY <1>1, <1>2 DEF LeadsHome, Home1

LEMMA OtherScreen ==
    ASSUME NEW s, LeadsHome(s), NEW name \in DOMAIN Opens \ {"home"}, NEW mine \in BOOLEAN
    PROVE  LET t == Append(Front(s), [name |-> name, mine |-> mine])
           IN  /\ LeadsHome(t)
               /\ Len(s) > 1 /\ Home1(s) /\ mine = TRUE => Home1(t)
<1> DEFINE e == [name |-> name, mine |-> mine]
           t == Append(Front(s), e)
<1>1. e \in Entry BY DEF Entry
<1>2. e.name # "home" /\ e.mine = mine OBVIOUS
<1>3. s \in Seq(Entry) /\ Len(s) \in Nat /\ Len(s) > 0 BY DEF LeadsHome
<1> HIDE DEF e
<1>4. /\ t \in Seq(Entry) /\ Len(t) = Len(s) /\ t[Len(t)] = e
      /\ \A i \in 1 .. Len(s) - 1 : t[i] = s[i]
  <2> DEFINE f == Front(s)
  <2>1. /\ f \in Seq(Entry) /\ Len(f) = Len(s) - 1
        /\ \A i \in 1 .. Len(s) - 1 : f[i] = s[i]
    BY <1>3, FrontOf
  <2> HIDE DEF f
  <2>2. /\ Append(f, e) \in Seq(Entry) /\ Len(Append(f, e)) = Len(f) + 1
        /\ Append(f, e)[Len(f) + 1] = e /\ \A i \in 1 .. Len(f) : Append(f, e)[i] = f[i]
    BY <1>1, <2>1
  <2> QED BY <1>3, <2>1, <2>2 DEF f
<1> HIDE DEF t
<1>5. LeadsHome(t) BY <1>2, <1>3, <1>4 DEF LeadsHome
<1>6. ASSUME Len(s) > 1, Home1(s), mine = TRUE PROVE Home1(t)
  <2>1. t[1].name = "home" BY <1>3, <1>4, <1>6 DEF Home1
  <2>2. \A i \in 1 .. Len(s) - 1 : t[i].mine = TRUE BY <1>3, <1>4, <1>6 DEF Home1
  <2>3. t[Len(t)].mine = TRUE BY <1>2, <1>4, <1>6
  <2> QED BY <1>3, <1>4, <2>1, <2>2, <2>3 DEF Home1
<1> QED BY <1>5, <1>6 DEF t, e

LEMMA OnTop ==
    ASSUME StackOK, overlays \subseteq Overlay
    PROVE  /\ OnScreen \in DOMAIN Opens
                => signedIn /\ OnScreen = stack[Len(stack)].name /\ overlays = {}
           /\ OnScreen \in DOMAIN Opens \ {"home"} /\ ~strayed => Len(stack) > 1
           /\ OnScreen \in Overlay => OnScreen \in overlays
<1>1. stack \in Seq(Entry) /\ Len(stack) \in Nat /\ Len(stack) > 0 BY DEF StackOK, LeadsHome
<1>2. ASSUME OnScreen \in DOMAIN Opens
      PROVE  signedIn /\ OnScreen = stack[Len(stack)].name /\ overlays = {}
  <2>1. "signIn" \notin DOMAIN Opens /\ Overlay \cap DOMAIN Opens = {} BY DEF Opens, Overlay
  <2> HIDE DEF Opens
  <2>2. signedIn BY <1>2, <2>1 DEF OnScreen
  <2>3. "settings" \notin overlays BY <1>2, <2>1, <2>2 DEF OnScreen, Overlay
  <2>4. "verify" \notin overlays BY <1>2, <2>1, <2>2, <2>3 DEF OnScreen, Overlay
  <2>5. overlays # {"deeds"} BY <1>2, <2>1, <2>2, <2>3, <2>4 DEF OnScreen, Overlay
  <2>6. overlays = {} BY <2>3, <2>4, <2>5 DEF Overlay
  <2>7. OnScreen = Last(stack).name BY <2>2, <2>6 DEF OnScreen
  <2> QED BY <2>2, <2>6, <2>7 DEF Last
<1>3. ASSUME OnScreen \in DOMAIN Opens \ {"home"}, ~strayed PROVE Len(stack) > 1
  <2>1. OnScreen = stack[Len(stack)].name BY <1>2, <1>3
  <2>2. stack[1].name = "home" BY <1>3 DEF StackOK, Home1
  <2> QED BY <1>1, <1>3, <2>1, <2>2
<1>4. ASSUME OnScreen \in Overlay PROVE OnScreen \in overlays
  <2>1. "signIn" \notin Overlay /\ Overlay \cap DOMAIN Opens = {} BY DEF Opens, Overlay
  <2>2. Last(stack).name \in DOMAIN Opens
    <3>1. Last(stack) \in Entry BY <1>1 DEF Last
    <3>2. \A e \in Entry : e.name \in DOMAIN Opens BY DEF Entry
    <3> QED BY <3>1, <3>2
  <2> HIDE DEF Opens
  <2> QED BY <1>4, <2>1, <2>2 DEF OnScreen
<1> QED BY <1>2, <1>3, <1>4

LEMMA NothingIsACall == NothingSent \in Call
<1>1. "none" \in DOMAIN Opens \cup {"none"} OBVIOUS
<1> HIDE DEF Opens
<1> QED BY <1>1 DEF Call, NothingSent

(* What leaving a screen, or a session, makes of the calls.                *)
LEMMA Left ==
    ASSUME CallsOK, NEW f, f \in {Unmounted, Orphaned}
    PROVE  /\ f \in [InFlight -> Call]
           /\ \A c \in InFlight : f[c] # NothingSent => f[c].then # "none"
           /\ \A c \in InFlight : f[c].shown = FALSE
<1>1. \A call \in Call :
        /\ [call EXCEPT !.shown = FALSE] \in Call
        /\ [call EXCEPT !.shown = FALSE].shown = FALSE
        /\ [call EXCEPT !.shown = FALSE].then = call.then
        /\ [[call EXCEPT !.shown = FALSE] EXCEPT !.mine = FALSE] \in Call
        /\ [[call EXCEPT !.shown = FALSE] EXCEPT !.mine = FALSE].shown = FALSE
        /\ [[call EXCEPT !.shown = FALSE] EXCEPT !.mine = FALSE].then = call.then
  BY DEF Call
<1>2. /\ [NothingSent EXCEPT !.shown = FALSE] = NothingSent
      /\ [[NothingSent EXCEPT !.shown = FALSE] EXCEPT !.mine = FALSE] = NothingSent
  <2>1. NothingSent \in Call /\ NothingSent.shown = FALSE /\ NothingSent.mine = FALSE
    BY NothingIsACall DEF NothingSent
  <2>2. \A call \in Call : call.shown = FALSE => [call EXCEPT !.shown = FALSE] = call
    BY DEF Call
  <2>3. \A call \in Call : call.mine = FALSE => [call EXCEPT !.mine = FALSE] = call
    BY DEF Call
  <2>4. [NothingSent EXCEPT !.shown = FALSE] = NothingSent BY <2>1, <2>2
  <2>5. [NothingSent EXCEPT !.mine = FALSE] = NothingSent BY <2>1, <2>3
  <2> QED BY <2>4, <2>5
<1>3. \A c \in InFlight : /\ inFlight[c] \in Call
                          /\ inFlight[c] # NothingSent => inFlight[c].then # "none"
  BY DEF CallsOK
<1>4. /\ Unmounted = [c \in InFlight |-> [inFlight[c] EXCEPT !.shown = FALSE]]
      /\ Orphaned = [c \in InFlight |-> [[inFlight[c] EXCEPT !.shown = FALSE] EXCEPT !.mine = FALSE]]
  BY DEF Unmounted, Orphaned
<1> HIDE DEF Unmounted, Orphaned, Call, NothingSent
<1>5. CASE f = Unmounted BY <1>1, <1>2, <1>3, <1>4, <1>5
<1>6. CASE f = Orphaned BY <1>1, <1>2, <1>3, <1>4, <1>6
<1> QED BY <1>5, <1>6

LEMMA JustHome == LeadsHome(<<Home>>) /\ Home1(<<Home>>)
<1>1. <<Home>> \in Seq(Entry) /\ Len(<<Home>>) = 1 BY DEF Home, Entry, Opens
<1> QED BY <1>1 DEF LeadsHome, Home1, Home

LEMMA PoppedOK ==
    ASSUME StackOK
    PROVE  /\ LeadsHome(Popped) /\ (~strayed => Home1(Popped))
           /\ Len(stack) > 1 => Popped # stack
           /\ Len(stack) = 1 => Popped = stack
<1>1. stack \in Seq(Entry) /\ Len(stack) \in Nat /\ Len(stack) > 0 BY DEF StackOK, LeadsHome
<1>2. CASE Len(stack) > 1
  <2>1. Popped = Front(stack) BY <1>2 DEF Popped
  <2>2. LeadsHome(Front(stack)) /\ (Home1(stack) => Home1(Front(stack)))
    BY <1>2, OneScreenLess DEF StackOK
  <2>3. Len(Front(stack)) = Len(stack) - 1 BY <1>1, FrontOf
  <2> QED BY <1>1, <1>2, <2>1, <2>2, <2>3 DEF StackOK
<1>3. CASE Len(stack) = 1
  BY <1>1, <1>3 DEF Popped, StackOK
<1>4. Len(stack) > 1 \/ Len(stack) = 1
  <2>1. PICK n \in Nat : n = Len(stack) /\ n > 0 BY <1>1
  <2>2. n > 1 \/ n = 1 BY <2>1
  <2> QED BY <2>1, <2>2
<1> QED BY <1>2, <1>3, <1>4

LEMMA InitNav == NavInit => NavIInv
<1> SUFFICES ASSUME NavInit PROVE NavIInv OBVIOUS
<1>1. FlagsOK /\ StackOK BY JustHome DEF NavInit, FlagsOK, StackOK
<1>2. NothingSent \in Call /\ NothingSent.shown = FALSE BY NothingIsACall DEF NothingSent
<1>3. inFlight = [c \in InFlight |-> NothingSent] BY DEF NavInit
<1>4. CallsOK /\ ShownCallsOK
  <2> HIDE DEF NothingSent
  <2> QED BY <1>2, <1>3 DEF CallsOK, ShownCallsOK
<1> QED BY <1>1, <1>4 DEF NavIInv

(* A step that leaves the screen: nothing that is sent is shown any more.  *)
LEMMA ScreenLeft ==
    ASSUME NavIInv, FlagsOK', StackOK', inFlight' \in {Unmounted, Orphaned}
    PROVE  NavIInv'
<1>1. CallsOK BY DEF NavIInv
<1>2. PICK f : f = inFlight' OBVIOUS
<1>3. /\ f \in [InFlight -> Call]
      /\ \A c \in InFlight : f[c] # NothingSent => f[c].then # "none"
      /\ \A c \in InFlight : f[c].shown = FALSE
  BY <1>1, <1>2, Left
<1>4. CallsOK' BY <1>2, <1>3 DEF CallsOK, NothingSent
<1>5. ShownCallsOK' BY <1>2, <1>3 DEF ShownCallsOK
<1> QED BY <1>4, <1>5 DEF NavIInv

LEMMA SignOutNav ==
    ASSUME NavIInv, SignOut, UNCHANGED strayed
    PROVE  FlagsOK' /\ StackOK'
BY JustHome DEF NavIInv, FlagsOK, StackOK, SignOut, StackAfterSignOut

LEMMA OpensNav ==
    /\ \A s \in DOMAIN Opens : Opens[s] \subseteq DOMAIN Opens \ {"home"}
    /\ \A s \in DOMAIN Opens : OpensOver[s] \subseteq Overlay
    /\ \A s \in DOMAIN Opens : ReplacedBy[s] \subseteq {"startMatching"}
    /\ ReplacedBy["home"] = {} /\ AfterAnswer["home"] = {}
    /\ \A s \in DOMAIN Opens :
            AfterAnswer[s] \subseteq {"waiting", "booking", "startMatching", "back"}
    /\ {"premium", "startMatching", "pairing", "booking", "waiting"} \subseteq DOMAIN Opens \ {"home"}
BY DEF Opens, OpensOver, ReplacedBy, AfterAnswer, Overlay

LEMMA SignOutsNav ==
    ASSUME NavIInv, LogOutTap \/ SessionLost
    PROVE  NavIInv'
<1>1. SignOut /\ inFlight' = Orphaned /\ UNCHANGED strayed BY DEF LogOutTap, SessionLost
<1> QED BY <1>1, SignOutNav, ScreenLeft

LEMMA SignInsNav ==
    ASSUME NavIInv, SignInHere \/ SignInElsewhere
    PROVE  NavIInv'
BY DEF NavIInv, FlagsOK, StackOK, CallsOK, ShownCallsOK, ShownOK, SignInHere, SignInElsewhere

LEMMA OpenScreenNav ==
    ASSUME NavIInv, NEW name \in DOMAIN Opens, OpenScreen(name)
    PROVE  NavIInv'
<1>1. /\ OnScreen \in DOMAIN Opens /\ name \in Opens[OnScreen]
      /\ stack' = Append(stack, [name |-> name, mine |-> TRUE])
      /\ overlays' \subseteq overlays /\ inFlight' = Unmounted
      /\ UNCHANGED <<signedIn, sessionAlive, strayed>>
  BY DEF OpenScreen, Pushed, AfterNavigate, Stays
<1>2. name \in DOMAIN Opens \ {"home"} BY <1>1, OpensNav
<1>3. StackOK BY DEF NavIInv
<1>4. LeadsHome(stack') /\ (Home1(stack) => Home1(stack'))
  BY <1>1, <1>2, <1>3, OneScreenMore DEF StackOK
<1>5. StackOK' BY <1>1, <1>3, <1>4 DEF StackOK
<1>6. FlagsOK' BY <1>1 DEF NavIInv, FlagsOK
<1> QED BY <1>1, <1>5, <1>6, ScreenLeft

LEMMA OpenOverNav ==
    ASSUME NavIInv, NEW flag \in Overlay, OpenOver(flag)
    PROVE  NavIInv'
<1>1. StackOK' /\ FlagsOK'
  BY DEF NavIInv, FlagsOK, StackOK, OpenOver, Stays
<1> QED BY <1>1, ScreenLeft DEF OpenOver

LEMMA ReplaceScreenNav ==
    ASSUME NavIInv, NEW name \in DOMAIN Opens, ReplaceScreen(name)
    PROVE  NavIInv'
<1>1. /\ OnScreen \in DOMAIN Opens /\ name \in ReplacedBy[OnScreen]
      /\ stack' = Append(Front(stack), [name |-> name, mine |-> TRUE])
      /\ overlays' \subseteq overlays /\ inFlight' = Unmounted
      /\ UNCHANGED <<signedIn, sessionAlive, strayed>>
  BY DEF ReplaceScreen, ReplacedTop, AfterNavigate, Stays
<1>2. name \in DOMAIN Opens \ {"home"} /\ OnScreen # "home" BY <1>1, OpensNav
<1>3. StackOK /\ overlays \subseteq Overlay BY DEF NavIInv, FlagsOK
<1>4. ~strayed => Len(stack) > 1 BY <1>1, <1>2, <1>3, OnTop
<1>5. /\ LeadsHome(stack')
      /\ Len(stack) > 1 /\ Home1(stack) => Home1(stack')
  BY <1>1, <1>2, <1>3, OtherScreen DEF StackOK
<1>6. StackOK' BY <1>1, <1>3, <1>4, <1>5 DEF StackOK
<1>7. FlagsOK' BY <1>1 DEF NavIInv, FlagsOK
<1> QED BY <1>1, <1>6, <1>7, ScreenLeft

LEMMA HomeTapNav ==
    ASSUME NavIInv, HomeTap
    PROVE  NavIInv'
<1>1. FlagsOK' /\ StackOK' BY JustHome DEF NavIInv, FlagsOK, StackOK, HomeTap, AfterNavigate, Stays
<1> QED BY <1>1, ScreenLeft DEF HomeTap

LEMMA BackTapNav ==
    ASSUME NavIInv, BackTap
    PROVE  NavIInv'
<1>1. StackOK /\ Len(stack) \in Nat /\ Len(stack) > 0 BY DEF NavIInv, StackOK, LeadsHome
<1>2. stack' = Popped /\ UNCHANGED <<overlays, signedIn, sessionAlive, strayed>> BY DEF BackTap, Stays
<1>3. FlagsOK' /\ StackOK' BY <1>1, <1>2, PoppedOK DEF NavIInv, FlagsOK, StackOK
<1>4. CASE Len(stack) > 1
  <2>1. inFlight' = Unmounted BY <1>4 DEF BackTap
  <2> QED BY <1>3, <2>1, ScreenLeft
<1>5. CASE Len(stack) = 1
  <2>1. UNCHANGED <<inFlight, stack, overlays>> BY <1>1, <1>2, <1>5, PoppedOK DEF BackTap
  <2> QED BY <1>3, <2>1 DEF NavIInv, CallsOK, ShownCallsOK, ShownOK
<1>6. Len(stack) > 1 \/ Len(stack) = 1
  <2>1. PICK n \in Nat : n = Len(stack) /\ n > 0 BY <1>1
  <2>2. n > 1 \/ n = 1 BY <2>1
  <2> QED BY <2>1, <2>2
<1> QED BY <1>4, <1>5, <1>6

(* While something is over the screen, no call is of the screen on top.    *)
LEMMA OversNav ==
    ASSUME NavIInv, CloseOver \/ VerifyFromSettings \/ PremiumFromDeeds
    PROVE  NavIInv'
<1>1. StackOK /\ FlagsOK /\ overlays \subseteq Overlay BY DEF NavIInv, FlagsOK
<1>2. OnScreen \in Overlay BY DEF CloseOver, VerifyFromSettings, PremiumFromDeeds, Overlay
<1>3. overlays # {} BY <1>1, <1>2, OnTop
<1>4. \A c \in InFlight : inFlight[c].shown # TRUE BY <1>3 DEF NavIInv, ShownCallsOK, ShownOK
<1>5. /\ UNCHANGED <<inFlight, signedIn, sessionAlive, strayed>> /\ overlays' \subseteq Overlay
      /\ stack' \in {stack, Pushed("premium")}
  BY <1>1 DEF CloseOver, VerifyFromSettings, PremiumFromDeeds, Stays, AfterNavigate, Overlay
<1>6. StackOK'
  <2>1. CASE stack' = stack BY <1>1, <1>5, <2>1 DEF StackOK
  <2>2. CASE stack' = Pushed("premium")
    <3>1. stack' = Append(stack, [name |-> "premium", mine |-> TRUE]) BY <2>2 DEF Pushed
    <3>2. "premium" \in DOMAIN Opens \ {"home"} BY OpensNav
    <3>3. LeadsHome(stack') /\ (Home1(stack) => Home1(stack'))
      BY <1>1, <3>1, <3>2, OneScreenMore DEF StackOK
    <3> QED BY <1>1, <1>5, <3>3 DEF StackOK
  <2> QED BY <1>5, <2>1, <2>2
<1>7. FlagsOK' BY <1>1, <1>5 DEF FlagsOK
<1>8. CallsOK' /\ ShownCallsOK' BY <1>4, <1>5 DEF NavIInv, CallsOK, ShownCallsOK
<1> QED BY <1>6, <1>7, <1>8 DEF NavIInv

LEMMA SendCallNav ==
    ASSUME NavIInv, NEW c \in InFlight, PollScreen(c) \/ Press(c)
    PROVE  NavIInv'
<1>1. StackOK /\ FlagsOK /\ CallsOK /\ ShownCallsOK /\ overlays \subseteq Overlay
  BY DEF NavIInv, FlagsOK
<1>2. PICK then \in {"pairing", "waiting", "booking", "startMatching", "back"} :
        OnScreen \in DOMAIN Opens \ {"home"} /\ SendCall(c, then)
  <2>1. CASE PollScreen(c)
    <3>1. "waiting" \in DOMAIN Opens \ {"home"} /\ "booking" \in DOMAIN Opens \ {"home"}
      BY OpensNav
    <3> QED BY <2>1, <3>1 DEF PollScreen, Polls
  <2>2. CASE Press(c)
    <3>1. PICK then \in AfterAnswer[OnScreen] : OnScreen \in DOMAIN Opens /\ SendCall(c, then)
      BY <2>2 DEF Press
    <3>2. OnScreen # "home" /\ then \in {"waiting", "booking", "startMatching", "back"}
      BY <3>1, OpensNav
    <3> QED BY <3>1, <3>2
  <2> QED BY <2>1, <2>2
<1>3. OnScreen = stack[Len(stack)].name /\ overlays = {} BY <1>1, <1>2, OnTop
<1> DEFINE new == [from |-> OnScreen, then |-> then, shown |-> TRUE, mine |-> TRUE]
<1>4. new \in Call /\ new.then # "none" /\ ShownOK(new)
  <2> HIDE DEF Opens, OnScreen
  <2> QED BY <1>2, <1>3 DEF Call, ShownOK
<1>5. /\ inFlight' = [inFlight EXCEPT ![c] = new]
      /\ UNCHANGED <<signedIn, sessionAlive, strayed, stack, overlays>>
  BY <1>2 DEF SendCall, Stays
<1> HIDE DEF new
<1>6. CallsOK' BY <1>1, <1>4, <1>5 DEF CallsOK, NothingSent
<1>7. ShownCallsOK' BY <1>1, <1>4, <1>5 DEF ShownCallsOK, ShownOK, CallsOK
<1>8. FlagsOK' /\ StackOK' BY <1>1, <1>5 DEF FlagsOK, StackOK
<1> QED BY <1>6, <1>7, <1>8 DEF NavIInv

LEMMA FollowsNav ==
    ASSUME NavIInv, NEW c \in InFlight
    PROVE  /\ Follows(c) \in Call
           /\ Follows(c) # NothingSent => Follows(c).then # "none"
           /\ Follows(c).shown = TRUE => /\ stack' = stack /\ inFlight[c].shown = TRUE
                                         /\ Follows(c).mine = inFlight[c].mine
                                         /\ Follows(c).from = inFlight[c].from
<1> DEFINE call == inFlight[c]
           b == (call.shown /\ stack' = stack)
<1>1. call \in Call BY DEF NavIInv, CallsOK
<1>2. b \in BOOLEAN /\ (b = TRUE => call.shown = TRUE /\ stack' = stack) BY <1>1 DEF Call
<1>3. PICK d \in BOOLEAN : d = b BY <1>2
<1>4. /\ [call EXCEPT !.then = "pairing", !.shown = d] \in Call
      /\ [call EXCEPT !.then = "pairing", !.shown = d].then = "pairing"
      /\ [call EXCEPT !.then = "pairing", !.shown = d].shown = d
      /\ [call EXCEPT !.then = "pairing", !.shown = d].mine = call.mine
      /\ [call EXCEPT !.then = "pairing", !.shown = d].from = call.from
  BY <1>1 DEF Call
<1>5. Follows(c) \in {[call EXCEPT !.then = "pairing", !.shown = d], NothingSent}
  BY <1>3 DEF Follows
<1>6. NothingSent \in Call /\ NothingSent.shown = FALSE BY NothingIsACall DEF NothingSent
<1> HIDE DEF call, b, NothingSent
<1> PICK new : new = Follows(c) OBVIOUS
<1>7. CASE new = NothingSent BY <1>6, <1>7
<1>8. CASE new = [call EXCEPT !.then = "pairing", !.shown = d] BY <1>2, <1>3, <1>4, <1>8 DEF call
<1> QED BY <1>5, <1>7, <1>8

LEMMA AnswerMovesNav ==
    ASSUME NavIInv, NEW c \in InFlight, AnswerMoves(c)
    PROVE  NavIInv'
<1> DEFINE call == inFlight[c]
<1>1. StackOK /\ FlagsOK /\ CallsOK /\ ShownCallsOK /\ overlays \subseteq Overlay
  BY DEF NavIInv, FlagsOK
<1>2. /\ call \in Call
      /\ call.then \in {"pairing", "waiting", "booking", "startMatching", "back"}
  BY <1>1 DEF AnswerMoves, CallsOK, Call
<1>3. /\ overlays' \subseteq overlays
      /\ UNCHANGED <<signedIn, sessionAlive>> /\ strayed' \in BOOLEAN
      /\ ~strayed' => ~strayed
      /\ inFlight' = [IF stack' = stack THEN inFlight ELSE Unmounted EXCEPT ![c] = Follows(c)]
  BY <1>1 DEF AnswerMoves, AfterNavigate, FlagsOK
<1>4. FlagsOK' BY <1>1, <1>3 DEF FlagsOK
<1>5. StackOK'
  <2>1. CASE call.then = "back"
    <3>1. stack' = Popped BY <2>1 DEF AnswerMoves
    <3> QED BY <1>1, <1>3, <3>1, PoppedOK DEF StackOK
  <2>2. CASE call.then # "back"
    <3>1. stack' = Append(Front(stack), [name |-> call.then, mine |-> call.mine])
      BY <2>2 DEF AnswerMoves, ReplacedTop
    <3>2. call.then \in DOMAIN Opens \ {"home"} BY <1>2, <2>2, OpensNav
    <3>3. call.mine \in BOOLEAN BY <1>2 DEF Call
    <3>4. PICK name \in DOMAIN Opens \ {"home"} : name = call.then BY <3>2
    <3>5. PICK mine \in BOOLEAN : mine = call.mine BY <3>3
    <3>6. /\ LeadsHome(stack')
          /\ Len(stack) > 1 /\ Home1(stack) /\ mine = TRUE => Home1(stack')
      BY <1>1, <3>1, <3>4, <3>5, OtherScreen DEF StackOK
    <3>7. ASSUME ~strayed' PROVE Home1(stack')
      <4>1. ~strayed BY <1>3, <3>7
      <4>2. Home1(stack) BY <1>1, <4>1 DEF StackOK
      <4>3. call.shown \/ (Len(stack) # 1 /\ call.mine) BY <2>2, <3>7 DEF AnswerMoves
      <4>4. stack[1].name = "home" /\ Len(stack) \in Nat /\ Len(stack) > 0
        BY <1>1, <4>2 DEF Home1, StackOK, LeadsHome
      <4>5. ASSUME call.shown PROVE Len(stack) # 1 /\ call.mine
        <5>1. call.shown = TRUE BY <1>2, <4>5 DEF Call
        <5>2. ShownOK(call) BY <1>1, <5>1 DEF ShownCallsOK
        <5> QED BY <4>4, <5>2 DEF ShownOK
      <4>6. Len(stack) # 1 /\ mine = TRUE BY <3>3, <3>5, <4>3, <4>5
      <4>7. Len(stack) > 1
        <5>1. PICK n \in Nat : n = Len(stack) /\ n > 0 /\ n # 1 BY <4>4, <4>6
        <5>2. n > 1 BY <5>1
        <5> QED BY <5>1, <5>2
      <4> QED BY <3>6, <4>2, <4>6, <4>7
    <3> QED BY <3>6, <3>7 DEF StackOK
  <2> QED BY <2>1, <2>2
<1>6. CallsOK' /\ ShownCallsOK'
  <2>1. /\ Follows(c) \in Call
        /\ Follows(c) # NothingSent => Follows(c).then # "none"
        /\ Follows(c).shown = TRUE => /\ stack' = stack /\ call.shown = TRUE
                                      /\ Follows(c).mine = call.mine
                                      /\ Follows(c).from = call.from
    BY FollowsNav
  <2>2. PICK new : new = Follows(c) OBVIOUS
  <2>3. PICK f : f = IF stack' = stack THEN inFlight ELSE Unmounted OBVIOUS
  <2>4. inFlight' = [f EXCEPT ![c] = new] BY <1>3, <2>2, <2>3
  <2>5. /\ f \in [InFlight -> Call]
        /\ \A o \in InFlight : f[o] # NothingSent => f[o].then # "none"
        /\ \A o \in InFlight : f[o].shown = TRUE => stack' = stack /\ ShownOK(f[o])
    <3>1. CASE stack' = stack BY <1>1, <2>3, <3>1 DEF CallsOK, ShownCallsOK
    <3>2. CASE stack' # stack
      <4>1. f = Unmounted BY <2>3, <3>2
      <4>2. /\ f \in [InFlight -> Call]
            /\ \A o \in InFlight : f[o] # NothingSent => f[o].then # "none"
            /\ \A o \in InFlight : f[o].shown = FALSE
        BY <1>1, <4>1, Left
      <4> QED BY <4>2
    <3> QED BY <3>1, <3>2
  <2>6. new.shown = TRUE => stack' = stack /\ ShownOK(new)
    <3> SUFFICES ASSUME new.shown = TRUE PROVE stack' = stack /\ ShownOK(new) OBVIOUS
    <3>1. /\ stack' = stack /\ call.shown = TRUE /\ new.mine = call.mine /\ new.from = call.from
      BY <2>1, <2>2
    <3>2. ShownOK(call) BY <1>1, <3>1 DEF ShownCallsOK
    <3> QED BY <3>1, <3>2 DEF ShownOK
  <2>7. \A x : ShownOK(x) /\ stack' = stack => ShownOK(x)'
    BY <1>3 DEF ShownOK
  <2>8. CallsOK' BY <2>1, <2>2, <2>4, <2>5 DEF CallsOK, NothingSent
  <2>9. ShownCallsOK'
    <3> SUFFICES ASSUME NEW o \in InFlight, inFlight'[o].shown = TRUE PROVE ShownOK(inFlight[o])'
      BY DEF ShownCallsOK
    <3>1. inFlight'[o] = IF o = c THEN new ELSE f[o] BY <2>4, <2>5
    <3>2. stack' = stack /\ ShownOK(inFlight'[o]) BY <2>5, <2>6, <3>1
    <3> QED BY <1>3, <3>2 DEF ShownOK
  <2> QED BY <2>8, <2>9
<1> QED BY <1>4, <1>5, <1>6 DEF NavIInv

LEMMA AnswerEndsNav ==
    ASSUME NavIInv, NEW c \in InFlight, AnswerIdle(c) \/ AnswerRefused(c)
    PROVE  NavIInv'
<1>1. CallsOK BY DEF NavIInv
<1>2. NothingSent \in Call /\ NothingSent.shown = FALSE BY NothingIsACall DEF NothingSent
<1>3. CASE AnswerIdle(c)
  <2>1. FlagsOK' /\ StackOK' BY <1>3 DEF NavIInv, FlagsOK, StackOK, AnswerIdle, Stays
  <2>2. inFlight' = [inFlight EXCEPT ![c] = NothingSent] /\ UNCHANGED <<stack, overlays>>
    BY <1>3 DEF AnswerIdle
  <2> HIDE DEF NothingSent
  <2>3. CallsOK' BY <1>1, <1>2, <2>2 DEF CallsOK
  <2>4. ShownCallsOK' BY <1>1, <1>2, <2>2 DEF NavIInv, CallsOK, ShownCallsOK, ShownOK
  <2> QED BY <2>1, <2>3, <2>4 DEF NavIInv
<1>4. CASE AnswerRefused(c)
  <2>1. FlagsOK' /\ StackOK' BY <1>4, SignOutNav DEF AnswerRefused
  <2>2. PICK f : f = Orphaned OBVIOUS
  <2>3. inFlight' = [f EXCEPT ![c] = NothingSent] BY <1>4, <2>2 DEF AnswerRefused
  <2>4. /\ f \in [InFlight -> Call]
        /\ \A o \in InFlight : f[o] # NothingSent => f[o].then # "none"
        /\ \A o \in InFlight : f[o].shown = FALSE
    BY <1>1, <2>2, Left
  <2> HIDE DEF NothingSent
  <2>5. CallsOK' BY <1>2, <2>3, <2>4 DEF CallsOK
  <2>6. ShownCallsOK' BY <1>2, <2>3, <2>4 DEF ShownCallsOK
  <2> QED BY <2>1, <2>5, <2>6 DEF NavIInv
<1> QED BY <1>3, <1>4

LEMMA StepNav == NavIInv /\ [NavNext]_navVars => NavIInv'
<1> SUFFICES ASSUME NavIInv, [NavNext]_navVars PROVE NavIInv' OBVIOUS
<1>1. CASE UNCHANGED navVars
  BY <1>1 DEF navVars, NavIInv, FlagsOK, StackOK, CallsOK, ShownCallsOK, ShownOK
<1>2. CASE NavNext
  <2>1. CASE SignInHere \/ SignInElsewhere BY <2>1, SignInsNav
  <2>2. CASE LogOutTap \/ SessionLost BY <2>2, SignOutsNav
  <2>3. CASE \E name \in DOMAIN Opens : OpenScreen(name) \/ ReplaceScreen(name)
    <3>1. PICK name \in DOMAIN Opens : OpenScreen(name) \/ ReplaceScreen(name) BY <2>3
    <3> QED BY <3>1, OpenScreenNav, ReplaceScreenNav
  <2>4. CASE \E flag \in Overlay : OpenOver(flag) BY <2>4, OpenOverNav
  <2>5. CASE HomeTap BY <2>5, HomeTapNav
  <2>6. CASE BackTap BY <2>6, BackTapNav
  <2>7. CASE CloseOver \/ VerifyFromSettings \/ PremiumFromDeeds BY <2>7, OversNav
  <2>8. CASE \E c \in InFlight :
                PollScreen(c) \/ Press(c) \/ AnswerMoves(c) \/ AnswerIdle(c) \/ AnswerRefused(c)
    <3>1. PICK c \in InFlight :
            PollScreen(c) \/ Press(c) \/ AnswerMoves(c) \/ AnswerIdle(c) \/ AnswerRefused(c)
      BY <2>8
    <3> QED BY <3>1, SendCallNav, AnswerMovesNav, AnswerEndsNav
  <2> QED BY <1>2, <2>1, <2>2, <2>3, <2>4, <2>5, <2>6, <2>7, <2>8 DEF NavNext
<1> QED BY <1>1, <1>2

(* From wherever the app is, going back leads Home, whatever replies come  *)
(* late and push or replace screens (App.js, screens/).                    *)
THEOREM BackAlwaysLeadsHome == NavSpec => [](BackLeadsHome /\ NavTypeOK)
<1>1. NavInit => NavIInv BY InitNav
<1>2. NavIInv /\ [NavNext]_navVars => NavIInv' BY StepNav
<1>3. NavIInv => BackLeadsHome /\ NavTypeOK BY NavInv
<1> QED BY <1>1, <1>2, <1>3, PTL DEF NavSpec

-----------------------------------------------------------------------------
LEMMA LeastNatural ==
    ASSUME NEW T, T \subseteq Nat, T # {}
    PROVE  \E x \in T : \A y \in T : x <= y
<1> DEFINE R == OpToRel(<, Nat)
<1>1. IsWellFoundedOn(R, Nat) BY NatLessThanWellFounded
<1>2. \A x, y \in Nat : x < y => <<x, y>> \in R BY DEF OpToRel
<1> HIDE DEF R
<1>3. \E x \in T : \A y \in T : ~(<<y, x>> \in R) BY <1>1, WFMin
<1>4. PICK x \in T : \A y \in T : ~(<<y, x>> \in R) BY <1>3
<1>5. ASSUME NEW y \in T PROVE x <= y
  <2>1. x \in Nat /\ y \in Nat OBVIOUS
  <2>2. ~(y < x) BY <1>2, <1>4, <2>1
  <2> QED BY <2>1, <2>2
<1> QED BY <1>5

(* A name without one of its tokens.                                       *)
LEMMA WithoutOne ==
    ASSUME NEW T, NEW ts \in Seq(T), NEW i \in DOMAIN ts
    PROVE  /\ Without(ts, i) \in Seq(T)
           /\ Len(Without(ts, i)) = Len(ts) - 1
           /\ \A k \in 1 .. Len(ts) - 1 :
                Without(ts, i)[k] = IF k < i THEN ts[k] ELSE ts[k + 1]
<1>1. /\ Len(ts) \in Nat /\ DOMAIN ts = 1 .. Len(ts) /\ i \in 1 .. Len(ts)
      /\ \A k \in 1 .. Len(ts) : ts[k] \in T
  BY LenProperties
<1> DEFINE front == SubSeq(ts, 1, i - 1)
           back == SubSeq(ts, i + 1, Len(ts))
<1>2. /\ front \in Seq(T) /\ Len(front) = i - 1 /\ \A k \in 1 .. i - 1 : front[k] = ts[k]
  <2>1. \A k \in 1 .. i - 1 : ts[k] \in T
    BY <1>1
  <2>2. /\ front \in Seq(T) /\ Len(front) = (IF 1 <= i - 1 THEN i - 1 - 1 + 1 ELSE 0)
        /\ \A k \in 1 .. i - 1 - 1 + 1 : front[k] = ts[1 + k - 1]
    BY <1>1, <2>1, SubSeqProperties
  <2> HIDE DEF front
  <2>3. Len(front) = i - 1
    BY <1>1, <2>2
  <2>4. ASSUME NEW k \in 1 .. i - 1 PROVE front[k] = ts[k]
    <3>1. k \in 1 .. i - 1 - 1 + 1 /\ 1 + k - 1 = k
      BY <1>1
    <3>2. front[k] = ts[1 + k - 1]
      BY <2>2, <3>1
    <3> QED BY <3>1, <3>2
  <2> QED BY <2>2, <2>3, <2>4
<1>3. /\ back \in Seq(T) /\ Len(back) = Len(ts) - i
      /\ \A k \in 1 .. Len(ts) - i : back[k] = ts[i + k]
  <2>1. \A k \in i + 1 .. Len(ts) : ts[k] \in T
    BY <1>1
  <2>2. /\ back \in Seq(T) /\ Len(back) = (IF i + 1 <= Len(ts) THEN Len(ts) - (i + 1) + 1 ELSE 0)
        /\ \A k \in 1 .. Len(ts) - (i + 1) + 1 : back[k] = ts[i + 1 + k - 1]
    BY <1>1, <2>1, SubSeqProperties
  <2> HIDE DEF back
  <2>3. Len(back) = Len(ts) - i
    BY <1>1, <2>2
  <2>4. ASSUME NEW k \in 1 .. Len(ts) - i PROVE back[k] = ts[i + k]
    <3>1. k \in 1 .. Len(ts) - (i + 1) + 1 /\ i + 1 + k - 1 = i + k
      BY <1>1
    <3>2. back[k] = ts[i + 1 + k - 1]
      BY <2>2, <3>1
    <3> QED BY <3>1, <3>2
  <2> QED BY <2>2, <2>3, <2>4
<1>4. Without(ts, i) = front \o back
  BY DEF Without
<1> HIDE DEF front, back
<1>5. /\ front \o back \in Seq(T) /\ Len(front \o back) = Len(front) + Len(back)
      /\ \A k \in 1 .. Len(front) + Len(back) :
            (front \o back)[k] = IF k <= Len(front) THEN front[k] ELSE back[k - Len(front)]
  BY <1>2, <1>3, ConcatProperties
<1>6. ASSUME NEW k \in 1 .. Len(ts) - 1
      PROVE  (front \o back)[k] = IF k < i THEN ts[k] ELSE ts[k + 1]
  <2>1. CASE k < i
    BY <1>1, <1>2, <1>3, <1>5, <2>1
  <2>2. CASE ~(k < i)
    <3>1. (front \o back)[k] = back[k - (i - 1)]
      <4>1. k \in 1 .. Len(front) + Len(back) /\ ~(k <= Len(front)) /\ Len(front) = i - 1
        BY <1>1, <1>2, <1>3, <2>2
      <4> QED BY <1>5, <4>1
    <3>2. k - (i - 1) \in 1 .. Len(ts) - i /\ i + (k - (i - 1)) = k + 1
      BY <1>1, <2>2
    <3> QED BY <1>3, <2>2, <3>1, <3>2
  <2> QED BY <2>1, <2>2
<1> QED BY <1>1, <1>2, <1>3, <1>4, <1>5, <1>6

(* The tokens of the ID that are left, as the recursion of nameMatches     *)
(* computes them: a function g of the number of tokens that have theirs.   *)
LeftStep(w, p, n, g) ==
    IF n = 0 THEN [ok |-> TRUE, tokens |-> p] ELSE TakenFrom(g[n - 1], w[n])
Lefts(g, w, p) == g = [n \in 0 .. Len(w) |-> LeftStep(w, p, n, g)]

LEMMA LeftIsChosen ==
    ASSUME NEW w, NEW p
    PROVE  nameMatches(w, p) <=>
                w # <<>> /\ p # <<>> /\ (CHOOSE g : Lefts(g, w, p))[Len(w)].ok
BY DEF nameMatches, Lefts, LeftStep

LEMMA LeftExists ==
    ASSUME NEW w, NEW p, Len(w) \in Nat
    PROVE  \E g : Lefts(g, w, p)
<1> DEFINE Upto(n, g) == \A k \in 0 .. n : g[k] = LeftStep(w, p, k, g)
           T == {n \in Nat : ~\E g : Upto(n, g)}
<1>1. ASSUME T # {} PROVE FALSE
  <2>1. PICK n \in T : \A m \in T : n <= m
    <3>1. T \subseteq Nat
      OBVIOUS
    <3> HIDE DEF T
    <3> QED BY <1>1, <3>1, LeastNatural
  <2>2. n \in Nat
    OBVIOUS
  <2>3. n # 0
    <3> DEFINE g == [k \in 0 .. 0 |-> [ok |-> TRUE, tokens |-> p]]
    <3>1. Upto(0, g)
      BY DEF LeftStep
    <3> QED BY <3>1
  <2>4. n - 1 \in Nat /\ ~(n <= n - 1)
    BY <2>2, <2>3
  <2>5. n - 1 \notin T
    BY <2>1, <2>4
  <2>6. PICK g : Upto(n - 1, g)
    BY <2>4, <2>5
  <2> DEFINE h == [k \in 0 .. n |-> LeftStep(w, p, k, g)]
  <2>7. ASSUME NEW k \in 0 .. n PROVE h[k] = LeftStep(w, p, k, h)
    <3>1. CASE k = 0
      BY <3>1 DEF LeftStep
    <3>2. CASE k # 0
      <4>1. k - 1 \in 0 .. n - 1 /\ k - 1 \in 0 .. n
        BY <2>2, <3>2
      <4>2. h[k - 1] = g[k - 1]
        BY <2>6, <4>1
      <4>3. h[k] = LeftStep(w, p, k, g)
        OBVIOUS
      <4> HIDE DEF h
      <4> QED BY <3>2, <4>2, <4>3 DEF LeftStep
    <3> QED BY <3>1, <3>2
  <2>8. Upto(n, h)
    BY <2>7
  <2> QED BY <2>8
<1>2. PICK g : Upto(Len(w), g)
  BY <1>1
<1> DEFINE h == [n \in 0 .. Len(w) |-> g[n]]
<1>3. ASSUME NEW n \in 0 .. Len(w) PROVE h[n] = LeftStep(w, p, n, h)
  <2>1. g[n] = LeftStep(w, p, n, g)
    BY <1>2
  <2>2. n # 0 => n - 1 \in 0 .. Len(w)
    OBVIOUS
  <2>3. n # 0 => h[n - 1] = g[n - 1]
    BY <2>2
  <2>4. h[n] = g[n]
    OBVIOUS
  <2> HIDE DEF h
  <2> QED BY <2>1, <2>3, <2>4 DEF LeftStep
<1>4. h = [n \in 0 .. Len(w) |-> LeftStep(w, p, n, h)]
  <2> DEFINE e == [n \in 0 .. Len(w) |-> LeftStep(w, p, n, h)]
  <2>1. \A n \in 0 .. Len(w) : h[n] = e[n]
    BY <1>3
  <2> QED BY <1>3
<1> QED BY <1>4 DEF Lefts

(* The first n tokens of w have each a place on p of their own (at), and   *)
(* what is left of p is the rest of its places (pos).                      *)
Placing(w, p, n, ts, at, pos) ==
    /\ at \in [1 .. n -> DOMAIN p] /\ pos \in [DOMAIN ts -> DOMAIN p]
    /\ \A i, j \in 1 .. n : at[i] = at[j] => i = j
    /\ \A i \in 1 .. n : tokensMatch(w[i], p[at[i]])
    /\ \A k, l \in DOMAIN ts : pos[k] = pos[l] => k = l
    /\ \A k \in DOMAIN ts : ts[k] = p[pos[k]] /\ \A i \in 1 .. n : at[i] # pos[k]
Placed(w, p, n, ts) ==
    /\ ts \in Seq({p[i] : i \in DOMAIN p})
    /\ \E at, pos : Placing(w, p, n, ts, at, pos)

(* One more token takes its place.                                         *)
LEMMA TakesPlace ==
    ASSUME NEW w, NEW p, NEW n \in Nat, NEW before, Placed(w, p, n, before.tokens),
           TakenFrom(before, w[n + 1]).ok
    PROVE  Placed(w, p, n + 1, TakenFrom(before, w[n + 1]).tokens)
<1> DEFINE ts == before.tokens
           t == w[n + 1]
           T == {p[i] : i \in DOMAIN p}
           found == {i \in DOMAIN ts : tokensMatch(t, ts[i])}
           i == CHOOSE x \in found : \A j \in found : x <= j
           rest == Without(ts, i)
<1>1. PICK at, pos : Placing(w, p, n, ts, at, pos)
  BY DEF Placed
<1>2. ts \in Seq(T) /\ Len(ts) \in Nat /\ DOMAIN ts = 1 .. Len(ts)
  BY LenProperties DEF Placed
<1>3. found # {} /\ TakenFrom(before, t).tokens = Taking(ts, t)
  BY DEF TakenFrom
<1>4. i \in found
  <2>1. found \subseteq Nat
    BY <1>2
  <2> HIDE DEF found
  <2>2. \E x \in found : \A j \in found : x <= j
    BY <1>3, <2>1, LeastNatural
  <2> QED BY <2>2
<1>5. Taking(ts, t) = rest
  BY DEF Taking, LeftAfter
<1>6. i \in DOMAIN ts /\ tokensMatch(t, ts[i])
  <2> HIDE DEF i
  <2> QED BY <1>4
<1> HIDE DEF i, found, ts, T
<1>7. /\ rest \in Seq(T) /\ Len(rest) = Len(ts) - 1
      /\ \A k \in 1 .. Len(ts) - 1 : rest[k] = IF k < i THEN ts[k] ELSE ts[k + 1]
  BY <1>2, <1>6, WithoutOne
<1>8. DOMAIN rest = 1 .. Len(ts) - 1 /\ i \in 1 .. Len(ts)
  BY <1>2, <1>6, <1>7, LenProperties
<1> HIDE DEF rest
<1> DEFINE old(k) == IF k < i THEN k ELSE k + 1
           at2 == [j \in 1 .. n + 1 |-> IF j = n + 1 THEN pos[i] ELSE at[j]]
           pos2 == [k \in DOMAIN rest |-> pos[old(k)]]
<1>9. \A k \in DOMAIN rest : old(k) \in DOMAIN ts /\ old(k) # i /\ rest[k] = ts[old(k)]
  BY <1>2, <1>7, <1>8
<1>10. \A k, l \in DOMAIN rest : old(k) = old(l) => k = l
  BY <1>2, <1>8
<1> HIDE DEF old
<1>11. /\ \A j \in 1 .. n : at[j] \in DOMAIN p /\ tokensMatch(w[j], p[at[j]])
       /\ \A j, k \in 1 .. n : at[j] = at[k] => j = k
       /\ \A k \in DOMAIN ts : pos[k] \in DOMAIN p /\ ts[k] = p[pos[k]]
       /\ \A k, l \in DOMAIN ts : pos[k] = pos[l] => k = l
       /\ \A k \in DOMAIN ts, j \in 1 .. n : at[j] # pos[k]
  BY <1>1 DEF Placing
<1>12. /\ at2 \in [1 .. n + 1 -> DOMAIN p] /\ at2[n + 1] = pos[i]
       /\ \A j \in 1 .. n + 1 : j # n + 1 => j \in 1 .. n /\ at2[j] = at[j]
  BY <1>6, <1>11
<1>13. pos2 \in [DOMAIN rest -> DOMAIN p] /\ \A k \in DOMAIN rest : pos2[k] = pos[old(k)]
  BY <1>9, <1>11
<1> HIDE DEF at2, pos2
<1>14. \A j, k \in 1 .. n + 1 : at2[j] = at2[k] => j = k
  BY <1>6, <1>11, <1>12
<1>15. \A j \in 1 .. n + 1 : tokensMatch(w[j], p[at2[j]])
  <2> TAKE j \in 1 .. n + 1
  <2>1. CASE j = n + 1
    <3>1. p[at2[j]] = ts[i]
      BY <1>6, <1>11, <1>12, <2>1
    <3> QED BY <1>6, <2>1, <3>1
  <2>2. CASE j # n + 1
    BY <1>11, <1>12, <2>2
  <2> QED BY <2>1, <2>2
<1>16. \A k, l \in DOMAIN rest : pos2[k] = pos2[l] => k = l
  BY <1>9, <1>10, <1>11, <1>13
<1>17. ASSUME NEW k \in DOMAIN rest
       PROVE  rest[k] = p[pos2[k]] /\ \A j \in 1 .. n + 1 : at2[j] # pos2[k]
  <2>1. old(k) \in DOMAIN ts /\ old(k) # i /\ rest[k] = ts[old(k)] /\ pos2[k] = pos[old(k)]
    BY <1>9, <1>13
  <2>2. ASSUME NEW j \in 1 .. n + 1 PROVE at2[j] # pos2[k]
    BY <1>6, <1>11, <1>12, <2>1
  <2> QED BY <1>11, <2>1, <2>2
<1>18. Placing(w, p, n + 1, rest, at2, pos2)
  BY <1>12, <1>13, <1>14, <1>15, <1>16, <1>17 DEF Placing
<1>19. Placed(w, p, n + 1, rest)
  BY <1>7, <1>18 DEF Placed, T
<1>20. TakenFrom(before, t).tokens = rest
  BY <1>3, <1>5
<1> QED BY <1>19, <1>20

(* Whatever name passes the check has a place for each of its parts.       *)
LEMMA MatchesAreNamed ==
    ASSUME NEW w, NEW p, Len(w) \in Nat, DOMAIN w = 1 .. Len(w),
           p \in Seq({p[i] : i \in DOMAIN p}), nameMatches(w, p)
    PROVE  NamedOn(w, p)
<1> DEFINE g == CHOOSE g : Lefts(g, w, p)
<1>1. Lefts(g, w, p) /\ g[Len(w)].ok
  BY LeftExists, LeftIsChosen
<1> HIDE DEF g
<1>2. \A n \in 0 .. Len(w) : g[n] = LeftStep(w, p, n, g)
  BY <1>1 DEF Lefts
<1> DEFINE OK(n) == g[n].ok => Placed(w, p, n, g[n].tokens)
           T == {n \in Nat : n <= Len(w) /\ ~OK(n)}
<1>3. ASSUME T # {} PROVE FALSE
  <2>1. PICK n \in T : \A m \in T : n <= m
    <3>1. T \subseteq Nat
      OBVIOUS
    <3> HIDE DEF T
    <3> QED BY <1>3, <3>1, LeastNatural
  <2>2. n \in Nat /\ n <= Len(w) /\ ~OK(n) /\ n \in 0 .. Len(w)
    OBVIOUS
  <2>3. CASE n = 0
    <3>1. g[n] = [ok |-> TRUE, tokens |-> p]
      BY <1>2, <2>2, <2>3 DEF LeftStep
    <3>2. Placing(w, p, 0, p, [i \in 1 .. 0 |-> i], [k \in DOMAIN p |-> k])
      BY DEF Placing
    <3>3. Placed(w, p, 0, p)
      BY <3>2 DEF Placed
    <3> QED BY <2>2, <2>3, <3>1, <3>3
  <2>4. CASE n # 0
    <3>1. n - 1 \in Nat /\ n - 1 <= Len(w) /\ ~(n <= n - 1) /\ (n - 1) + 1 = n
      BY <2>2, <2>4
    <3>2. OK(n - 1)
      BY <2>1, <3>1
    <3>3. g[n] = TakenFrom(g[n - 1], w[n])
      BY <1>2, <2>2, <2>4 DEF LeftStep
    <3>4. g[n].ok
      BY <2>2
    <3>5. g[n - 1].ok
      BY <3>3, <3>4 DEF TakenFrom
    <3>6. Placed(w, p, n - 1, g[n - 1].tokens)
      BY <3>2, <3>5
    <3>7. Placed(w, p, (n - 1) + 1, TakenFrom(g[n - 1], w[(n - 1) + 1]).tokens)
      BY <3>1, <3>3, <3>4, <3>6, TakesPlace
    <3> QED BY <2>2, <3>1, <3>3, <3>7
  <2> QED BY <2>3, <2>4
<1>4. Placed(w, p, Len(w), g[Len(w)].tokens)
  BY <1>1, <1>3
<1>5. PICK at, pos : Placing(w, p, Len(w), g[Len(w)].tokens, at, pos)
  BY <1>4 DEF Placed
<1> QED BY <1>5 DEF Placing, NamedOn

(* An adult of about an age on one day is so on every later day.           *)
LEMMA AgesGrow ==
    ASSUME NEW birth \in Int, NEW d \in Int, NEW e \in Int, d <= e
    PROVE  ageOnDate(birth, d) \in Int /\ ageOnDate(birth, e) \in Int
           /\ ageOnDate(birth, d) <= ageOnDate(birth, e)
<1> DEFINE q == (d - birth) \div YearDays
           r == (e - birth) \div YearDays
<1>1. YearDays \in Nat /\ YearDays > 0
  BY VerifyIdAssumption
<1>2. q \in Int /\ r \in Int
  BY <1>1
<1>3. q <= r
  BY <1>1
<1> QED BY <1>2, <1>3 DEF ageOnDate

(* What was compared with the profile p on some day up to day d.           *)
ComparedBy(f, p, d) ==
    /\ nameMatches(p.name, f.name)
    /\ \E day \in 0 .. d :
        /\ dobMatchesAge(f.birth, p.age, day) /\ dobIsAdult(f.birth, day)

Profile == [name : ProfileName, age : TypedAge]

(* The badge stands on an ID compared with the profile of the row.         *)
BadgeOK ==
    proven # NoProof =>
        /\ proven.form \in Form /\ proven.day \in 0 .. checkDay
        /\ holder[proven.form.paper] = "me"
        /\ dobIsAdult(proven.form.birth, proven.day) /\ proven.form.expiry > proven.day
        /\ ~proven.stale => ComparedBy(proven.form, row, proven.day)

(* What is under review was compared with the profile the app holds, which *)
(* is the row unless the app missed a change; the document is claimed when *)
(* the server said so.                                                     *)
ReviewOK ==
    /\ screen = "review" => form \in Form /\ ComparedBy(form, appProfile, checkDay)
    /\ step # "idle" => screen = "review"
    /\ (step = "attest" \/ (step = "check" /\ reply = "ok")) => holder[form.paper] = "me"
    /\ ~unheard => appProfile = row

(* No photo is left behind but those of which it is known.                 *)
PhotosOK ==
    /\ onDevice \ leftOver \subseteq {photo} \ {NoPhoto}
    /\ screen = "closed" => photo = NoPhoto
    /\ leftOver \subseteq 1 .. MaxPhotos

VerifyIInv == VerifyTypeOK /\ BadgeOK /\ ReviewOK /\ PhotosOK

LEMMA ComparedLater ==
    ASSUME NEW f \in Form, NEW p \in Profile, NEW d \in Nat, ComparedBy(f, p, d)
    PROVE  /\ \A e \in Nat : d <= e => ComparedBy(f, p, e)
           /\ dobIsAdult(f.birth, d) /\ ageOnDate(f.birth, d) >= p.age - 1
<1>1. \A e \in Nat : d <= e => ComparedBy(f, p, e)
  BY DEF ComparedBy
<1>2. PICK day \in 0 .. d : dobMatchesAge(f.birth, p.age, day) /\ dobIsAdult(f.birth, day)
  BY DEF ComparedBy
<1>3. f.birth \in Int /\ p.age \in Int /\ day \in Int /\ d \in Int /\ day <= d /\ MIN_ADULT_AGE \in Nat
  BY VerifyIdAssumption DEF Form, Profile
<1>4. /\ ageOnDate(f.birth, day) \in Int /\ ageOnDate(f.birth, d) \in Int
      /\ ageOnDate(f.birth, day) <= ageOnDate(f.birth, d)
  BY <1>3, AgesGrow
<1>5. /\ f.birth <= day /\ ageOnDate(f.birth, day) - p.age \in -1 .. 1
      /\ ageOnDate(f.birth, day) >= MIN_ADULT_AGE
  BY <1>2 DEF dobMatchesAge, dobIsAdult
<1>6. f.birth <= d /\ ageOnDate(f.birth, d) >= MIN_ADULT_AGE /\ ageOnDate(f.birth, d) >= p.age - 1
  BY <1>3, <1>4, <1>5
<1> QED BY <1>1, <1>6 DEF dobIsAdult

(* The names of profiles and documents are sequences of tokens.            *)
LEMMA NamesAreTokens ==
    ASSUME NEW f \in Form, NEW p \in Profile, nameMatches(p.name, f.name)
    PROVE  NamedOn(p.name, f.name)
<1>1. p.name \in ProfileName /\ f.name \in IdName
  BY DEF Form, Profile
<1>2. /\ p.name \in Seq({p.name[i] : i \in DOMAIN p.name})
      /\ f.name \in Seq({f.name[i] : i \in DOMAIN f.name})
  BY <1>1, VerifyIdAssumption
<1>3. Len(p.name) \in Nat /\ DOMAIN p.name = 1 .. Len(p.name)
  BY <1>2, LenProperties
<1> QED BY <1>2, <1>3, MatchesAreNamed

LEMMA VerifyInvGives == VerifyIInv => VerifiedAsChecked /\ VerifyTypeOK
<1> SUFFICES ASSUME VerifyIInv PROVE VerifiedAsChecked
  BY DEF VerifyIInv
<1>1. ASSUME proven # NoProof, ~proven.stale
      PROVE  /\ NamedOn(row.name, proven.form.name)
             /\ ageOnDate(proven.form.birth, proven.day) >= row.age - 1
  <2>1. /\ proven.form \in Form /\ proven.day \in Nat /\ row \in Profile
        /\ ComparedBy(proven.form, row, proven.day)
    BY <1>1, VerifyIdAssumption DEF VerifyIInv, BadgeOK, VerifyTypeOK, Profile
  <2>2. ageOnDate(proven.form.birth, proven.day) >= row.age - 1
    BY <2>1, ComparedLater
  <2>3. NamedOn(row.name, proven.form.name)
    BY <2>1, NamesAreTokens DEF ComparedBy
  <2> QED BY <2>2, <2>3
<1> QED BY <1>1 DEF VerifyIInv, BadgeOK, PhotosOK, VerifiedAsChecked

LEMMA InitVerify == VerifyInit => VerifyIInv
<1> SUFFICES ASSUME VerifyInit PROVE VerifyIInv
  OBVIOUS
<1>1. VerifyTypeOK
  BY VerifyIdAssumption DEF VerifyInit, VerifyTypeOK, NoPhoto
<1>2. BadgeOK /\ ReviewOK /\ PhotosOK
  BY DEF VerifyInit, BadgeOK, ReviewOK, PhotosOK
<1> QED BY <1>1, <1>2 DEF VerifyIInv

(* A step that leaves alone what a part speaks of.                         *)
LEMMA BadgeStays ==
    ASSUME BadgeOK, UNCHANGED <<proven, row>>, checkDay \in Nat, checkDay' \in Nat, checkDay <= checkDay',
           \A d \in Paper : holder[d] = "me" => holder'[d] = "me"
    PROVE  BadgeOK'
BY DEF BadgeOK, Form

LEMMA ReviewStays ==
    ASSUME ReviewOK, VerifyTypeOK, UNCHANGED <<screen, form, appProfile, row>>,
           step' = step \/ step' = "idle", step' = step => reply' = reply, unheard' = unheard,
           checkDay' \in Nat, checkDay <= checkDay',
           \A d \in Paper : holder[d] = "me" => holder'[d] = "me"
    PROVE  ReviewOK'
<1>1. checkDay \in Nat /\ appProfile \in Profile
  BY VerifyIdAssumption DEF VerifyTypeOK, Profile
<1>2. screen = "review" => ComparedBy(form, appProfile, checkDay')
  BY <1>1, ComparedLater DEF ReviewOK
<1>3. (screen = "review" => form' \in Form /\ ComparedBy(form, appProfile, checkDay)')
  BY <1>2 DEF ReviewOK, ComparedBy
<1> QED BY <1>3 DEF ReviewOK, Form

(* The phone alone: the screen is opened and left, photos are taken.       *)
LEMMA CaptureVerify == VerifyIInv /\ capturePhoto => VerifyIInv'
<1> SUFFICES ASSUME VerifyIInv, capturePhoto PROVE VerifyIInv'
  OBVIOUS
<1> DEFINE taken == Cardinality(onDevice \cup leftOver) + 1
<1>1. taken \in Nat /\ taken > 0
  <2>1. IsFiniteSet(1 .. MaxPhotos)
    <3>1. 1 \in Int /\ MaxPhotos \in Int
      BY VerifyIdAssumption
    <3> QED BY <3>1, FS_Interval
  <2>2. onDevice \cup leftOver \in SUBSET (1 .. MaxPhotos)
    BY DEF VerifyIInv, VerifyTypeOK, PhotosOK
  <2>3. Cardinality(onDevice \cup leftOver) \in Nat
    BY <2>1, <2>2, FS_Subset, FS_CardinalityType
  <2> QED BY <2>3
<1>2. /\ screen = "form" /\ taken <= MaxPhotos /\ photo' = taken
      /\ onDevice' = onDevice \cup {taken} /\ leftOver' = leftOver \cup ({photo} \ {NoPhoto})
      /\ UNCHANGED <<checkDay, appProfile, screen, form, step, reply, server, proven, unheard>>
  BY DEF capturePhoto
<1> HIDE DEF taken
<1>3. UNCHANGED <<row, holder, pending, looks>>
  BY <1>2 DEF server
<1>4. MaxPhotos \in Nat /\ checkDay \in Nat
  BY VerifyIdAssumption DEF VerifyIInv, VerifyTypeOK
<1>5. VerifyTypeOK'
  BY <1>1, <1>2, <1>3, <1>4 DEF VerifyIInv, VerifyTypeOK
<1>6. PhotosOK'
  BY <1>1, <1>2, <1>4 DEF VerifyIInv, VerifyTypeOK, PhotosOK, NoPhoto
<1>7. BadgeOK'
  BY <1>2, <1>3, <1>4, BadgeStays DEF VerifyIInv
<1>8. ReviewOK'
  BY <1>2, <1>3, <1>4, ReviewStays DEF VerifyIInv
<1> QED BY <1>5, <1>6, <1>7, <1>8 DEF VerifyIInv

LEMMA ScreenVerify ==
    VerifyIInv /\ (OpenVerify \/ cancel \/ handleSubmit \/ StopApp) => VerifyIInv'
<1> SUFFICES ASSUME VerifyIInv, OpenVerify \/ cancel \/ handleSubmit \/ StopApp PROVE VerifyIInv'
  OBVIOUS
<1>1. UNCHANGED <<checkDay, row, holder, pending, looks, proven>>
  BY DEF OpenVerify, cancel, handleSubmit, StopApp, server
<1>2. MaxPhotos \in Nat /\ checkDay \in Nat
  BY VerifyIdAssumption DEF VerifyIInv, VerifyTypeOK
<1>7. /\ onDevice \subseteq 1 .. MaxPhotos /\ leftOver \subseteq 1 .. MaxPhotos /\ photo \in 0 .. MaxPhotos
      /\ onDevice \ leftOver \subseteq {photo} \ {NoPhoto} /\ (screen = "closed" => photo = NoPhoto)
  BY DEF VerifyIInv, VerifyTypeOK, PhotosOK
<1>8. /\ photo' \in {photo, NoPhoto} /\ onDevice' \subseteq onDevice
      /\ leftOver' \in {leftOver, leftOver \cup ({photo} \ {NoPhoto})}
      /\ onDevice' \ leftOver' \subseteq {photo'} \ {NoPhoto}
      /\ screen' = "closed" => photo' = NoPhoto
  <2>1. CASE OpenVerify \/ handleSubmit
    <3>1. UNCHANGED <<photo, onDevice, leftOver>> /\ screen' # "closed"
      BY <2>1, <1>1 DEF OpenVerify, handleSubmit
    <3> QED BY <1>7, <3>1
  <2>2. CASE cancel
    <3>1. photo' = NoPhoto /\ onDevice' = onDevice \ {photo} /\ leftOver' = leftOver
      BY <2>2 DEF cancel, discardPhoto
    <3> QED BY <1>7, <3>1
  <2>3. CASE StopApp
    <3>1. photo' = NoPhoto /\ onDevice' = onDevice /\ leftOver' = leftOver \cup ({photo} \ {NoPhoto})
      BY <2>3 DEF StopApp
    <3> QED BY <1>7, <3>1
  <2> QED BY <2>1, <2>2, <2>3
<1>3. VerifyTypeOK'
  <2>1. photo' \in 0 .. MaxPhotos /\ onDevice' \subseteq 1 .. MaxPhotos
    BY <1>2, <1>7, <1>8 DEF NoPhoto
  <2>2. /\ screen' \in {"closed", "form", "review"} /\ appProfile' \in {appProfile, row}
        /\ form' \in {form, NoForm} /\ step' \in {step, "idle", "check"} /\ reply' \in {reply, "none"}
    BY DEF OpenVerify, cancel, handleSubmit, StopApp, VerifyIInv, VerifyTypeOK
  <2> QED BY <1>1, <2>1, <2>2 DEF VerifyIInv, VerifyTypeOK
<1>4. BadgeOK'
  BY <1>1, <1>2, BadgeStays DEF VerifyIInv
<1>5. ReviewOK'
  BY <1>1 DEF VerifyIInv, ReviewOK, OpenVerify, cancel, handleSubmit, StopApp, ComparedBy
<1>6. PhotosOK'
  <2>1. leftOver' \subseteq 1 .. MaxPhotos
    BY <1>2, <1>7, <1>8 DEF NoPhoto
  <2> QED BY <1>8, <2>1 DEF PhotosOK
<1> QED BY <1>3, <1>4, <1>5, <1>6 DEF VerifyIInv

(* The checks on the device: what comes under review was compared.         *)
LEMMA LocalChecksVerify ==
    ASSUME VerifyIInv, NEW f \in Form, runLocalChecks(f) PROVE VerifyIInv'
<1>1. /\ screen = "form" /\ ChecksPass(f) /\ form' = f /\ screen' = "review"
      /\ UNCHANGED <<checkDay, appProfile, photo, onDevice, leftOver, step, reply, proven, unheard>>
      /\ UNCHANGED <<row, holder, pending, looks>>
  BY DEF runLocalChecks, server
<1>2. checkDay \in Nat
  BY VerifyIdAssumption DEF VerifyIInv, VerifyTypeOK
<1>3. ComparedBy(f, appProfile, checkDay)
  BY <1>1, <1>2 DEF ChecksPass, ComparedBy
<1>4. VerifyTypeOK'
  BY <1>1 DEF VerifyIInv, VerifyTypeOK
<1>5. BadgeOK'
  BY <1>1, <1>2, BadgeStays DEF VerifyIInv
<1>6. ReviewOK'
  BY <1>1, <1>3 DEF VerifyIInv, ReviewOK, ComparedBy
<1>7. PhotosOK'
  BY <1>1 DEF VerifyIInv, PhotosOK
<1> QED BY <1>4, <1>5, <1>6, <1>7 DEF VerifyIInv

(* The two routes.                                                         *)
LEMMA DocumentVerify == VerifyIInv /\ DocumentChecked => VerifyIInv'
<1> SUFFICES ASSUME VerifyIInv, DocumentChecked PROVE VerifyIInv'
  OBVIOUS
<1>1. /\ step = "check" /\ reply = "none" /\ reply' \in {"ok", "refused"}
      /\ looks' = IF looks > DOC_CHECK_LIMIT THEN looks ELSE looks + 1
      /\ UNCHANGED <<checkDay, row, appProfile, screen, photo, onDevice, leftOver, form, step, proven, unheard>>
      /\ \/ /\ holder[form.paper] # "other" /\ holder' = [holder EXCEPT ![form.paper] = "me"]
            /\ pending' = form.paper
         \/ reply' = "refused" /\ UNCHANGED <<holder, pending>>
  BY DEF DocumentChecked
<1>2. form \in Form /\ checkDay \in Nat /\ DOC_CHECK_LIMIT \in Nat
  BY <1>1, VerifyIdAssumption DEF VerifyIInv, VerifyTypeOK, ReviewOK
<1>3. form.paper \in Paper /\ holder \in [Paper -> {"nobody", "me", "other"}]
  BY <1>2 DEF Form, VerifyIInv, VerifyTypeOK
<1>4. \A d \in Paper : holder[d] = "me" => holder'[d] = "me"
  BY <1>1, <1>3
<1>5. VerifyTypeOK'
  <2>1. holder' \in [Paper -> {"nobody", "me", "other"}] /\ pending' \in Paper \cup {NoPaper}
    BY <1>1, <1>3 DEF VerifyIInv, VerifyTypeOK
  <2>2. looks' \in 0 .. DOC_CHECK_LIMIT + 1
    BY <1>1, <1>2 DEF VerifyIInv, VerifyTypeOK
  <2> QED BY <1>1, <2>1, <2>2 DEF VerifyIInv, VerifyTypeOK
<1>6. BadgeOK'
  BY <1>1, <1>2, <1>4, BadgeStays DEF VerifyIInv
<1>7. ReviewOK'
  <2>1. reply' = "ok" => holder'[form.paper] = "me"
    BY <1>1, <1>3
  <2> QED BY <1>1, <2>1 DEF VerifyIInv, ReviewOK, ComparedBy
<1>8. PhotosOK'
  BY <1>1 DEF VerifyIInv, PhotosOK
<1> QED BY <1>5, <1>6, <1>7, <1>8 DEF VerifyIInv

LEMMA AttestationVerify == VerifyIInv /\ Attestation => VerifyIInv'
<1> SUFFICES ASSUME VerifyIInv, Attestation PROVE VerifyIInv'
  OBVIOUS
<1>1. /\ step = "attest" /\ reply = "none" /\ reply' \in {"ok", "refused"}
      /\ UNCHANGED <<checkDay, row, appProfile, screen, photo, onDevice, leftOver, form, step, holder, looks, unheard>>
      /\ \/ /\ NotExpired(form) /\ proven' = [form |-> form, day |-> checkDay, stale |-> unheard]
            /\ pending' = NoPaper
         \/ UNCHANGED <<proven, pending>>
  BY DEF Attestation
<1>2. /\ form \in Form /\ checkDay \in Nat /\ appProfile \in Profile
      /\ ComparedBy(form, appProfile, checkDay) /\ holder[form.paper] = "me"
      /\ ~unheard => appProfile = row
  BY <1>1, VerifyIdAssumption DEF VerifyIInv, VerifyTypeOK, ReviewOK, Profile
<1>3. VerifyTypeOK'
  BY <1>1 DEF VerifyIInv, VerifyTypeOK
<1>4. BadgeOK'
  <2>1. CASE UNCHANGED proven
    BY <1>1, <1>2, <2>1, BadgeStays DEF VerifyIInv
  <2>2. CASE NotExpired(form) /\ proven' = [form |-> form, day |-> checkDay, stale |-> unheard]
    <3>1. proven'.form = form /\ proven'.day = checkDay /\ proven'.stale = unheard
      BY <2>2
    <3>2. dobIsAdult(form.birth, checkDay) /\ form.expiry > checkDay
      BY <1>2, <2>2, ComparedLater DEF NotExpired
    <3> QED BY <1>1, <1>2, <3>1, <3>2 DEF BadgeOK, ComparedBy
  <2> QED BY <1>1, <2>1, <2>2
<1>5. ReviewOK'
  BY <1>1 DEF VerifyIInv, ReviewOK, ComparedBy
<1>6. PhotosOK'
  BY <1>1 DEF VerifyIInv, PhotosOK
<1> QED BY <1>3, <1>4, <1>5, <1>6 DEF VerifyIInv

(* The replies reach the phone, or do not.                                 *)
LEMMA RepliesVerify ==
    VerifyIInv /\ (CheckHeard \/ VerifiedHeard \/ SubmitFails \/ refreshProfile) => VerifyIInv'
<1> SUFFICES ASSUME VerifyIInv, CheckHeard \/ VerifiedHeard \/ SubmitFails \/ refreshProfile
             PROVE VerifyIInv'
  OBVIOUS
<1>1. UNCHANGED <<checkDay, row, holder, pending, looks, proven>>
  BY DEF CheckHeard, VerifiedHeard, SubmitFails, refreshProfile, server
<1>2. MaxPhotos \in Nat /\ checkDay \in Nat
  BY VerifyIdAssumption DEF VerifyIInv, VerifyTypeOK
<1>3. VerifyTypeOK'
  <2>1. photo' \in {photo, NoPhoto} /\ onDevice' \subseteq onDevice
    BY DEF CheckHeard, VerifiedHeard, SubmitFails, refreshProfile, discardPhoto
  <2>2. photo' \in 0 .. MaxPhotos /\ onDevice' \subseteq 1 .. MaxPhotos
    BY <1>2, <2>1 DEF VerifyIInv, VerifyTypeOK, NoPhoto
  <2>3. /\ screen' \in {screen, "closed"} /\ appProfile' \in {appProfile, row}
        /\ form' \in {form, NoForm} /\ step' \in {step, "idle", "attest"} /\ reply' \in {reply, "none"}
    BY DEF CheckHeard, VerifiedHeard, SubmitFails, refreshProfile
  <2> QED BY <1>1, <2>2, <2>3 DEF VerifyIInv, VerifyTypeOK
<1>4. BadgeOK'
  BY <1>1, <1>2, BadgeStays DEF VerifyIInv
<1>5. ReviewOK'
  BY <1>1 DEF VerifyIInv, ReviewOK, CheckHeard, VerifiedHeard, SubmitFails, refreshProfile, ComparedBy
<1>6. PhotosOK'
  BY <1>1, <1>2 DEF VerifyIInv, VerifyTypeOK, PhotosOK, CheckHeard, VerifiedHeard, SubmitFails,
                    refreshProfile, discardPhoto, NoPhoto
<1> QED BY <1>3, <1>4, <1>5, <1>6 DEF VerifyIInv

(* The profile changes, and the world.                                     *)
LEMMA EditVerify ==
    ASSUME VerifyIInv, NEW r \in Profile, NEW heard \in BOOLEAN, EditProfileRow(r, heard)
    PROVE  VerifyIInv'
<1>1. /\ screen = "closed" /\ row' = r /\ proven' = NoProof
      /\ appProfile' = IF heard THEN r ELSE appProfile
      /\ unheard' = ~heard
      /\ UNCHANGED <<checkDay, screen, photo, onDevice, leftOver, form, step, reply, holder, pending, looks>>
  BY DEF EditProfileRow
<1>2. VerifyTypeOK'
  BY <1>1 DEF VerifyIInv, VerifyTypeOK, Profile
<1>3. BadgeOK'
  BY <1>1 DEF BadgeOK, NoProof
<1>4. ReviewOK'
  BY <1>1 DEF VerifyIInv, ReviewOK
<1>5. PhotosOK'
  BY <1>1 DEF VerifyIInv, PhotosOK
<1> QED BY <1>2, <1>3, <1>4, <1>5 DEF VerifyIInv

LEMMA WorldVerify ==
    ASSUME VerifyIInv, PendingExpires \/ DayPasses \/ \E d \in Paper : OtherTakes(d)
    PROVE  VerifyIInv'
<1>1. /\ UNCHANGED <<row, appProfile, screen, photo, onDevice, leftOver, form, step, reply, proven, unheard>>
      /\ pending' \in {pending, NoPaper} /\ looks' \in {looks, 0}
      /\ checkDay' = checkDay \/ (checkDay < LastCheckDay /\ checkDay' = checkDay + 1)
      /\ holder' = holder \/ \E d \in Paper : holder[d] = "nobody" /\ holder' = [holder EXCEPT ![d] = "other"]
  BY DEF PendingExpires, DayPasses, OtherTakes, phone
<1>2. /\ holder \in [Paper -> {"nobody", "me", "other"}] /\ checkDay \in 0 .. LastCheckDay
      /\ LastCheckDay \in Nat /\ DOC_CHECK_LIMIT \in Nat
  BY VerifyIdAssumption DEF VerifyIInv, VerifyTypeOK
<1>3. /\ checkDay \in Nat /\ checkDay' \in 0 .. LastCheckDay /\ checkDay' \in Nat /\ checkDay <= checkDay'
  BY <1>1, <1>2
<1>4. \A d \in Paper : holder[d] = "me" => holder'[d] = "me"
  BY <1>1, <1>2
<1>5. VerifyTypeOK'
  <2>1. holder' \in [Paper -> {"nobody", "me", "other"}]
    BY <1>1, <1>2
  <2>2. looks' \in 0 .. DOC_CHECK_LIMIT + 1 /\ pending' \in Paper \cup {NoPaper}
    BY <1>1, <1>2 DEF VerifyIInv, VerifyTypeOK
  <2> QED BY <1>1, <1>3, <2>1, <2>2 DEF VerifyIInv, VerifyTypeOK
<1>6. BadgeOK'
  BY <1>1, <1>3, <1>4, BadgeStays DEF VerifyIInv
<1>7. ReviewOK'
  BY <1>1, <1>3, <1>4, ReviewStays DEF VerifyIInv
<1>8. PhotosOK'
  BY <1>1 DEF VerifyIInv, PhotosOK
<1> QED BY <1>5, <1>6, <1>7, <1>8 DEF VerifyIInv

LEMMA StepVerify == VerifyIInv /\ [VerifyNext]_verifyVars => VerifyIInv'
<1> SUFFICES ASSUME VerifyIInv, [VerifyNext]_verifyVars PROVE VerifyIInv'
  OBVIOUS
<1>1. CASE UNCHANGED verifyVars
  <2>1. /\ UNCHANGED <<checkDay, row, appProfile, screen, photo, onDevice, leftOver, form, step, reply>>
        /\ UNCHANGED <<holder, pending, looks, proven, unheard>>
    BY <1>1 DEF verifyVars, phone, server
  <2> QED BY <2>1 DEF VerifyIInv, VerifyTypeOK, BadgeOK, ReviewOK, PhotosOK, ComparedBy
<1>2. CASE OpenVerify \/ cancel \/ handleSubmit \/ StopApp
  BY <1>2, ScreenVerify
<1>3. CASE capturePhoto
  BY <1>3, CaptureVerify
<1>4. CASE DocumentChecked
  BY <1>4, DocumentVerify
<1>5. CASE Attestation
  BY <1>5, AttestationVerify
<1>6. CASE CheckHeard \/ VerifiedHeard \/ SubmitFails \/ refreshProfile
  BY <1>6, RepliesVerify
<1>7. CASE PendingExpires \/ DayPasses \/ \E d \in Paper : OtherTakes(d)
  BY <1>7, WorldVerify
<1>8. CASE \E f \in Form : runLocalChecks(f)
  BY <1>8, LocalChecksVerify
<1>9. CASE \E r \in Profile, heard \in BOOLEAN : EditProfileRow(r, heard)
  BY <1>9, EditVerify
<1> QED BY <1>1, <1>2, <1>3, <1>4, <1>5, <1>6, <1>7, <1>8, <1>9 DEF VerifyNext, Profile

(* A badge stands on an ID that names every part of the profile's name, of *)
(* an adult of about its age, not expired and claimed by nobody else,      *)
(* unless the app had missed a change of the profile; no photo outlives    *)
(* the screen (VerifyIdScreen, localChecks.js, index.js).                  *)
THEOREM VerifiedWasChecked == VerifySpec => [](VerifiedAsChecked /\ VerifyTypeOK)
<1> QED BY InitVerify, StepVerify, VerifyInvGives, PTL DEF VerifySpec

=============================================================================
