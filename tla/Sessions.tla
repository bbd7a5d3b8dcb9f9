------------------------------ MODULE Sessions ------------------------------
(***************************************************************************)
(* Signing in (index.js, lib/auth.js, EmailCaptureScreen, client.js and    *)
(* App.js): an account has one session, which a sign-in on another phone   *)
(* replaces and a logout ends; a phone learns of the end of its session by *)
(* the 401 of any later call, which may come when it has signed in anew.   *)
(*                                                                         *)
(* Abstractions: passwords are right, a refused or limited sign-in is one  *)
(* that fails.  Tokens are numbers in the order they are given out.  The   *)
(* phone's secure store is written and cleared at once, and a phone has    *)
(* one call in flight at a time.                                           *)
(***************************************************************************)
EXTENDS Integers

CONSTANTS
    Phone, Email,
    MaxTokens       \* bound: sign-ins

NoAccount == -1
NoToken == 0
NoEmail == "none"
Token == 1 .. MaxTokens

ASSUME SessionsAssumption == NoEmail \notin Email /\ MaxTokens \in Nat

VARIABLES
    token,      \* accounts.session_token, NoAccount for an address without a row
    owner,      \* history: whose session a token was
    ended,      \* history: tokens whose phone logged out
    session,    \* App.js: sessionToken, per phone
    stored,     \* the token in the secure store
    asked,      \* EmailCaptureScreen: newAccountEmail
    attempt,    \* handleContinue: where it is, for which address, with which answer
    polls,      \* calls of the app in flight: token and answer
    logouts     \* POST /auth/logout on their way

sessionVars == <<token, owner, ended, session, stored, asked, attempt, polls, logouts>>

NoAttempt == [at |-> "idle", email |-> NoEmail, token |-> NoToken]
IssuedTokens == {t \in Token : owner[t] # NoEmail}
NextToken == CHOOSE t \in 1 .. MaxTokens + 1 : t \notin IssuedTokens /\ \A u \in 1 .. t - 1 : u \in IssuedTokens

(* requireAuth: the token is that of some account.                         *)
ValidToken(t) == \E e \in Email : token[e] = t

-----------------------------------------------------------------------------
SessionsInit ==
    /\ token = [e \in Email |-> NoAccount] /\ owner = [t \in Token |-> NoEmail] /\ ended = {}
    /\ session = [p \in Phone |-> NoToken] /\ stored = session
    /\ asked = [p \in Phone |-> NoEmail] /\ attempt = [p \in Phone |-> NoAttempt]
    /\ polls = [p \in Phone |-> {}] /\ logouts = {}

(* handleContinue signs in first; the form is off while it submits.        *)
handleContinue(p, e) ==
    /\ session[p] = NoToken /\ attempt[p] = NoAttempt
    /\ attempt' = [attempt EXCEPT ![p] = [NoAttempt EXCEPT !.at = "login", !.email = e]]
    /\ UNCHANGED <<token, owner, ended, session, stored, asked, polls, logouts>>

(* A session is given out, and replaces the one the account had.           *)
GiveSession(p, e) ==
    LET t == NextToken
    IN  /\ t \in Token
        /\ token' = [token EXCEPT ![e] = t] /\ owner' = [owner EXCEPT ![t] = e]
        /\ attempt' = [attempt EXCEPT ![p].at = "signed", ![p].token = t]

(* POST /auth/login                                                        *)
Login(p) ==
    LET e == attempt[p].email
    IN  /\ attempt[p].at = "login"
        /\ IF token[e] = NoAccount
           THEN attempt' = [attempt EXCEPT ![p].at = "unknown"] /\ UNCHANGED <<token, owner>>
           ELSE GiveSession(p, e)
        /\ UNCHANGED <<ended, session, stored, asked, polls, logouts>>

(* No account: the first time the user is asked, the second one is made.   *)
NoSuchAccount(p) ==
    LET e == attempt[p].email
    IN  /\ attempt[p].at = "unknown"
        /\ IF asked[p] = e
           THEN attempt' = [attempt EXCEPT ![p].at = "signup"] /\ UNCHANGED asked
           ELSE attempt' = [attempt EXCEPT ![p] = NoAttempt] /\ asked' = [asked EXCEPT ![p] = e]
        /\ UNCHANGED <<token, owner, ended, session, stored, polls, logouts>>

(* POST /auth/signup looks for the account, hashes the password and then   *)
(* inserts; the address is unique, so that the second insert fails.        *)
SignupFree(p) ==
    /\ attempt[p].at = "signup"
    /\ attempt' = [attempt EXCEPT ![p] = IF token[attempt[p].email] = NoAccount
                                         THEN [@ EXCEPT !.at = "hashing"] ELSE NoAttempt]
    /\ UNCHANGED <<token, owner, ended, session, stored, asked, polls, logouts>>
(* Mutant: the second insert takes the account over. *)
AddressFreeAnyway(e) == TRUE
AddressFree(e) == token[e] = NoAccount
SignupInsert(p) ==
    LET e == attempt[p].email
    IN  /\ attempt[p].at = "hashing"
        /\ IF AddressFree(e) THEN GiveSession(p, e)
           ELSE attempt' = [attempt EXCEPT ![p] = NoAttempt] /\ UNCHANGED <<token, owner>>
        /\ UNCHANGED <<ended, session, stored, asked, polls, logouts>>

(* saveSessionToken, onSignedUp.                                           *)
SignedIn(p) ==
    /\ attempt[p].at = "signed"
    /\ session' = [session EXCEPT ![p] = attempt[p].token] /\ stored' = session'
    /\ attempt' = [attempt EXCEPT ![p] = NoAttempt] /\ asked' = [asked EXCEPT ![p] = NoEmail]
    /\ UNCHANGED <<token, owner, ended, polls, logouts>>
SignInFails(p) ==
    /\ attempt[p] # NoAttempt /\ attempt' = [attempt EXCEPT ![p] = NoAttempt]
    /\ UNCHANGED <<token, owner, ended, session, stored, asked, polls, logouts>>

-----------------------------------------------------------------------------
(* Any call of a screen, its answer and the interceptor of client.js,      *)
(* which hears the 401s of every earlier session as well.                  *)
CallApi(p) ==
    /\ session[p] # NoToken /\ polls[p] = {}
    /\ polls' = [polls EXCEPT ![p] = {[token |-> session[p], answer |-> "none"]}]
    /\ UNCHANGED <<token, owner, ended, session, stored, asked, attempt, logouts>>
AnswerApi(p, c) ==
    /\ c \in polls[p] /\ c.answer = "none"
    /\ polls' = [polls EXCEPT ![p] = {[c EXCEPT !.answer = IF ValidToken(c.token) THEN "ok" ELSE "401"]}]
    /\ UNCHANGED <<token, owner, ended, session, stored, asked, attempt, logouts>>
HearAnswer(p, c) ==
    /\ c \in polls[p] /\ c.answer # "none" /\ polls' = [polls EXCEPT ![p] = {}]
    /\ IF c.answer = "401" /\ session[p] # NoToken
       THEN /\ session' = [session EXCEPT ![p] = NoToken] /\ stored' = [stored EXCEPT ![p] = NoToken]
       ELSE UNCHANGED <<session, stored>>
    /\ UNCHANGED <<token, owner, ended, asked, attempt, logouts>>

(* handleLogOut asks the server to end the session and forgets it.         *)
handleLogOut(p) ==
    /\ session[p] # NoToken
    /\ logouts' = logouts \cup {session[p]} /\ ended' = ended \cup {session[p]}
    /\ session' = [session EXCEPT ![p] = NoToken] /\ stored' = [stored EXCEPT ![p] = NoToken]
    /\ UNCHANGED <<token, owner, asked, attempt, polls>>

(* POST /auth/logout, which may come late or never.                        *)
(* Mutant: the account's session ends, whichever it is. *)
EndsOfOwner(t, e) == owner[t] = e
Ends(t, e) == token[e] = t
Logout(t) ==
    /\ t \in logouts /\ logouts' = logouts \ {t}
    /\ token' = [e \in Email |-> IF token[e] # NoAccount /\ Ends(t, e) THEN NoToken ELSE token[e]]
    /\ UNCHANGED <<owner, ended, session, stored, asked, attempt, polls>>
LogoutLost(t) ==
    /\ t \in logouts /\ logouts' = logouts \ {t}
    /\ UNCHANGED <<token, owner, ended, session, stored, asked, attempt, polls>>

(* The app is started again: only the stored token outlives it.            *)
RestartApp(p) ==
    /\ session' = [session EXCEPT ![p] = stored[p]]
    /\ asked' = [asked EXCEPT ![p] = NoEmail] /\ attempt' = [attempt EXCEPT ![p] = NoAttempt]
    /\ polls' = [polls EXCEPT ![p] = {}]
    /\ UNCHANGED <<token, owner, ended, stored, logouts>>

SessionsNext ==
    \/ \E p \in Phone :
        \/ \E e \in Email : handleContinue(p, e)
        \/ Login(p) \/ NoSuchAccount(p) \/ SignupFree(p) \/ SignupInsert(p) \/ SignedIn(p)
        \/ SignInFails(p) \/ CallApi(p) \/ handleLogOut(p) \/ RestartApp(p)
        \/ \E c \in polls[p] : AnswerApi(p, c) \/ HearAnswer(p, c)
    \/ \E t \in logouts : Logout(t) \/ LogoutLost(t)

SessionsSpec == SessionsInit /\ [][SessionsNext]_sessionVars

SessionsTypeOK ==
    /\ token \in [Email -> Token \cup {NoAccount, NoToken}] /\ owner \in [Token -> Email \cup {NoEmail}]
    /\ session \in [Phone -> Token \cup {NoToken}] /\ stored \in [Phone -> Token \cup {NoToken}]
    /\ asked \in [Phone -> Email \cup {NoEmail}] /\ ended \subseteq Token /\ logouts \subseteq Token

(* A phone that believes itself signed in, or has been told so, holds the  *)
(* session of an account that is still its session, or one that a later    *)
(* sign-in replaced, or one that a phone logged out.                       *)
Replaced(t) == \E u \in IssuedTokens : u > t /\ owner[u] = owner[t]
SessionsTraced ==
    \A t \in IssuedTokens : token[owner[t]] = t \/ Replaced(t) \/ t \in ended

EndsForCause(e) ==
    token[e] \in Token /\ token'[e] # token[e] =>
        token'[e] > token[e] \/ (token'[e] = NoToken /\ token[e] \in ended)
MadeOnFreeAddress(p) ==
    attempt[p].at = "hashing" /\ attempt'[p].at = "signed" => token[attempt[p].email] = NoAccount
LeavesForCause(p) ==
    session[p] # NoToken /\ session'[p] = NoToken =>
        session[p] \in ended' \/ \E c \in polls[p] : c.answer = "401" /\ ~ValidToken(c.token)

(* A session ends only when its own phone logs out or its account signs in *)
(* again: a logout that comes late never ends the session that followed    *)
(* it.  An account is made once, by a sign-up that found the address free  *)
(* when it was stored.  A phone loses its session only by its user or      *)
(* after the server refused a session it had.                              *)
SessionsEndForCause ==
    /\ SessionsTraced
    /\ [][ /\ SessionsTraced'
           /\ \A e \in Email : EndsForCause(e)
           /\ \A p \in Phone : MadeOnFreeAddress(p) /\ LeavesForCause(p) ]_sessionVars
=============================================================================
