----------------------------- MODULE Navigation -----------------------------
(***************************************************************************)
(* The screens behind the onboarding (mobile/App.js): a stack of entries,  *)
(* flags that put verification, Deeds or the settings over it, and calls   *)
(* whose reply moves the stack whatever is on it by then: the polls of the *)
(* waiting and booking screens, which go to a pairing once there is one,   *)
(* and the buttons that leave a screen when the server has answered.  The  *)
(* interval of a poll ends with its screen, a call on its way does not.    *)
(*                                                                         *)
(* Abstractions: one device, accounts that are past the onboarding; an     *)
(* entry without its parameters; "premium" stands for every screen that    *)
(* has a back arrow and nothing else that moves the stack, and             *)
(* editAvailability for the two that come back when they have saved.       *)
(***************************************************************************)
EXTENDS Integers, SequencesExt

CONSTANTS
    InFlight,       \* bound: calls on their way, as a set of slots
    MaxStack        \* bound: entries of the stack

ASSUME NavigationAssumption == MaxStack \in Nat \ {0, 1}

VARIABLES
    signedIn,       \* sessionToken
    sessionAlive,   \* the server knows the token still
    stack,          \* entries: their name, and whether they are of this session
    overlays,       \* showSettings, showVerify, showDeeds
    inFlight,       \* by slot: a call that moves the stack when it is answered
    strayed         \* history: a reply of a screen that was left replaced Home, or came to
                    \* another session

navVars == <<signedIn, sessionAlive, stack, overlays, inFlight, strayed>>

Overlay == {"settings", "verify", "deeds"}
Opens ==
    [home |-> {"pairing", "booking", "waiting", "startMatching", "bail", "rating",
               "notifications", "premium"},
     notifications |-> {"pairing", "booking", "startMatching", "bail", "rating"},
     startMatching |-> {"premium", "editAvailability"}, waiting |-> {"premium"},
     pairing |-> {"chat", "rating", "cancel", "bail", "premium"}, chat |-> {"pairing"},
     booking |-> {"rating", "cancel"}, rating |-> {}, cancel |-> {}, bail |-> {}, premium |-> {},
     editAvailability |-> {}]
OpensOver ==
    [s \in DOMAIN Opens |->
        CASE s = "home" -> Overlay
          [] s \in {"startMatching", "pairing"} -> {"verify", "deeds"}
          [] s = "waiting" -> {"verify"}
          [] OTHER -> {}]
(* Buttons that replace their screen, or reset the stack to Home.          *)
ReplacedBy == [s \in DOMAIN Opens |-> IF s \in {"waiting", "rating"} THEN {"startMatching"} ELSE {}]
GoesHome == {"pairing", "booking", "cancel", "bail", "rating"}
(* Buttons that call the server first: what they do then; "back" is        *)
(* onBack(), a name the screen that replaces theirs.                       *)
AfterAnswer ==
    [s \in DOMAIN Opens |->
        CASE s = "waiting" -> {"back", "startMatching", "booking"}
          [] s \in {"startMatching", "pairing"} -> {"waiting"}
          [] s = "editAvailability" -> {"back"}
          [] OTHER -> {}]
Polls == {"waiting", "booking"}

Home == [name |-> "home", mine |-> TRUE]
NothingSent == [from |-> "none", then |-> "none", shown |-> FALSE, mine |-> FALSE]

(* renderApp, renderOnboardingStep and renderAppView.                      *)
OnScreen ==
    CASE ~signedIn -> "signIn"
      [] signedIn /\ "settings" \in overlays -> "settings"
      [] signedIn /\ "settings" \notin overlays /\ "verify" \in overlays -> "verify"
      [] signedIn /\ overlays = {"deeds"} -> "deeds"
      [] OTHER -> Last(stack).name

(* navigate and goBack, as what becomes of the stack.                      *)
Pushed(name) == Append(stack, [name |-> name, mine |-> TRUE])
ReplacedTop(name, mine) == Append(Front(stack), [name |-> name, mine |-> mine])
(* Mutant: the last entry goes as well. *)
PoppedBare == Front(stack)
Popped == IF Len(stack) > 1 THEN Front(stack) ELSE stack
AfterNavigate == overlays \ {"verify", "deeds"}

(* A screen that is no longer shown is unmounted; its calls go on.         *)
Unmounted == [c \in InFlight |-> [inFlight[c] EXCEPT !.shown = FALSE]]

(* ... also those of a session that has ended.                             *)
Orphaned == [c \in InFlight |-> [Unmounted[c] EXCEPT !.mine = FALSE]]

Stays == UNCHANGED <<signedIn, sessionAlive, strayed>>
-----------------------------------------------------------------------------
NavInit ==
    /\ signedIn = FALSE /\ sessionAlive = FALSE /\ stack = <<Home>> /\ overlays = {}
    /\ inFlight = [c \in InFlight |-> NothingSent] /\ strayed = FALSE

SignInHere ==
    /\ ~signedIn /\ signedIn' = TRUE /\ sessionAlive' = TRUE
    /\ UNCHANGED <<stack, overlays, inFlight, strayed>>

(* The account signs in on another device.                                 *)
SignInElsewhere ==
    /\ signedIn /\ sessionAlive' = FALSE
    /\ UNCHANGED <<signedIn, stack, overlays, inFlight, strayed>>

(* resetToSignedOut.                                                       *)
(* Mutant: the screens of the account stay on the stack. *)
StackKept == [i \in DOMAIN stack |-> [stack[i] EXCEPT !.mine = FALSE]]
StackAfterSignOut == <<Home>>
SignOut ==
    /\ signedIn' = FALSE /\ sessionAlive' = FALSE
    /\ stack' = StackAfterSignOut /\ overlays' = {}

LogOutTap ==
    /\ OnScreen = "settings" /\ SignOut
    /\ inFlight' = Orphaned
    /\ UNCHANGED strayed
(* A poll of the session that is shown comes back with 401.                *)
SessionLost ==
    /\ signedIn /\ ~sessionAlive /\ SignOut
    /\ inFlight' = Orphaned
    /\ UNCHANGED strayed

OpenScreen(name) ==
    /\ OnScreen \in DOMAIN Opens /\ name \in Opens[OnScreen] /\ Len(stack) < MaxStack
    /\ stack' = Pushed(name) /\ overlays' = AfterNavigate /\ inFlight' = Unmounted /\ Stays
OpenOver(flag) ==
    /\ OnScreen \in DOMAIN Opens /\ flag \in OpensOver[OnScreen]
    /\ overlays' = overlays \cup {flag} /\ inFlight' = Unmounted
    /\ UNCHANGED stack /\ Stays
ReplaceScreen(name) ==
    /\ OnScreen \in DOMAIN Opens /\ name \in ReplacedBy[OnScreen]
    /\ stack' = ReplacedTop(name, TRUE) /\ overlays' = AfterNavigate /\ inFlight' = Unmounted /\ Stays
HomeTap ==
    /\ OnScreen \in GoesHome
    /\ stack' = <<Home>> /\ overlays' = AfterNavigate /\ inFlight' = Unmounted /\ Stays
BackTap ==
    /\ OnScreen \in DOMAIN Opens \ {"home"}
    /\ stack' = Popped /\ inFlight' = IF Len(stack) > 1 THEN Unmounted ELSE inFlight
    /\ UNCHANGED overlays /\ Stays
(* Settings open verification as they close; Deeds push the premium screen. *)
CloseOver ==
    /\ OnScreen \in Overlay /\ overlays' = overlays \ {OnScreen} /\ UNCHANGED <<stack, inFlight>> /\ Stays
VerifyFromSettings ==
    /\ OnScreen = "settings" /\ overlays' = (overlays \ {"settings"}) \cup {"verify"}
    /\ UNCHANGED <<stack, inFlight>> /\ Stays
PremiumFromDeeds ==
    /\ OnScreen = "deeds" /\ Len(stack) < MaxStack
    /\ stack' = Pushed("premium") /\ overlays' = AfterNavigate /\ UNCHANGED inFlight /\ Stays

SendCall(c, then) ==
    /\ inFlight[c] = NothingSent
    /\ inFlight' = [inFlight EXCEPT ![c] = [from |-> OnScreen, then |-> then, shown |-> TRUE, mine |-> TRUE]]
    /\ UNCHANGED <<stack, overlays>> /\ Stays
PollScreen(c) == OnScreen \in Polls /\ SendCall(c, "pairing")
Press(c) == OnScreen \in DOMAIN Opens /\ \E then \in AfterAnswer[OnScreen] : SendCall(c, then)

(* The buttons of the waiting screen load once more when they are done.    *)
Follows(c) ==
    LET call == inFlight[c] IN
    IF call.from = "waiting" /\ call.then # "pairing"
    THEN [call EXCEPT !.then = "pairing", !.shown = call.shown /\ stack' = stack]
    ELSE NothingSent

(* A reply: a pairing is there, or the button's call is done.              *)
AnswerMoves(c) ==
    LET call == inFlight[c] IN
    /\ call # NothingSent
    /\ stack' = IF call.then = "back" THEN Popped ELSE ReplacedTop(call.then, call.mine)
    /\ overlays' = IF call.then = "back" THEN overlays ELSE AfterNavigate
    /\ inFlight' = [IF stack' = stack THEN inFlight ELSE Unmounted EXCEPT ![c] = Follows(c)]
    /\ strayed' = (strayed \/ (~call.shown /\ call.then # "back" /\ (Len(stack) = 1 \/ ~call.mine)))
    /\ UNCHANGED <<signedIn, sessionAlive>>
(* A reply with nothing in it, or an error for its own screen.             *)
AnswerIdle(c) ==
    /\ inFlight[c] # NothingSent /\ inFlight' = [inFlight EXCEPT ![c] = NothingSent]
    /\ UNCHANGED <<stack, overlays>> /\ Stays
(* A 401 signs out whoever is signed in when it arrives.                   *)
AnswerRefused(c) ==
    /\ inFlight[c] # NothingSent /\ signedIn /\ (inFlight[c].mine => ~sessionAlive) /\ SignOut
    /\ inFlight' = [Orphaned EXCEPT ![c] = NothingSent]
    /\ UNCHANGED strayed

NavNext ==
    \/ SignInHere \/ SignInElsewhere \/ LogOutTap \/ SessionLost
    \/ \E name \in DOMAIN Opens : OpenScreen(name) \/ ReplaceScreen(name)
    \/ \E flag \in Overlay : OpenOver(flag)
    \/ HomeTap \/ BackTap \/ CloseOver \/ VerifyFromSettings \/ PremiumFromDeeds
    \/ \E c \in InFlight : PollScreen(c) \/ Press(c) \/ AnswerMoves(c) \/ AnswerIdle(c) \/ AnswerRefused(c)
NavSpec == NavInit /\ [][NavNext]_navVars
-----------------------------------------------------------------------------
NavTypeOK ==
    /\ signedIn \in BOOLEAN /\ sessionAlive \in BOOLEAN /\ strayed \in BOOLEAN
    /\ \A i \in DOMAIN stack : stack[i].name \in DOMAIN Opens /\ stack[i].mine \in BOOLEAN
    /\ overlays \subseteq Overlay
    /\ \A c \in InFlight :
            /\ inFlight[c].from \in DOMAIN Opens \cup {"none"} /\ inFlight[c].mine \in BOOLEAN
            /\ inFlight[c].then \in {"pairing", "waiting", "booking", "startMatching", "back", "none"}

(* Back always leads home: Home is at the bottom of the stack and nowhere  *)
(* else, and every entry above it is one of the session that is signed in, *)
(* across taps, polls, sessions that end and others that follow.  The one  *)
(* exception is a reply that comes after its screen was left, which the    *)
(* app does not look at, while only Home is there or another session: it   *)
(* replaces Home itself, or opens its pairing for the next account.        *)
BackLeadsHome ==
    /\ stack # <<>>
    /\ \A i \in 2 .. Len(stack) : stack[i].name # "home"
    /\ ~strayed => stack[1].name = "home" /\ \A i \in DOMAIN stack : stack[i].mine
=============================================================================
