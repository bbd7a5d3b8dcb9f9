---------------------------- MODULE Onboarding -----------------------------
(***************************************************************************)
(* The onboarding of one account in the app (mobile/App.js, resume.js and  *)
(* the six screens): each screen saves its answers and then asks the app   *)
(* to go one step on, whatever the app shows by then, for a screen that    *)
(* has been left still runs the end of its save.  The server keeps what    *)
(* was saved; a fresh start resumes at the first step without an answer.   *)
(*                                                                         *)
(* Abstractions: what the server keeps is the set of steps whose answers   *)
(* it has, and the number of causes.  A save that fails leaves the screen  *)
(* as it was.  The reply of the load at sign-in dies with its session, and *)
(* a load that fails is one that is tried again.  Of the app behind the    *)
(* onboarding only the settings are modelled, which reopen its screens.    *)
(***************************************************************************)
EXTENDS Integers

CONSTANTS
    Slot,           \* bound: saves in flight
    EditSection     \* bound: the settings that are edited

Flow == <<"quickProfile", "location", "orgOrCause", "causes", "partnerPrefs",
          "availability", "done">>
Section == {Flow[i] : i \in 1 .. 6}
NoSection == "none"
Done == 6
MIN_CAUSES == 2

MayPick(n) == n >= MIN_CAUSES

NoSave == [screen |-> NoSection, edit |-> FALSE, tags |-> 0, at |-> "idle", owner |-> "gone"]
ASSUME OnboardingAssumption == EditSection \subseteq Section

VARIABLES
    saved,      \* users: the screens whose answers are stored
    causes,     \* users.cause_tags, counted
    phase,      \* sessionToken and resumeState: "signedOut", "loading" or "app"
    resume,     \* the answer of GET /users/me on its way, as the step it gives
    stepIndex,
    settings,   \* showSettings
    editing,    \* editingSection
    saves,      \* calls in flight: where they are and whether their screen is mounted
    hasty       \* history: the user left a step while a save was in flight

appVars == <<saved, causes, phase, resume, stepIndex, settings, editing, saves, hasty>>
NoStep == -1

-----------------------------------------------------------------------------
(* determineResumeStep: the first step with nothing saved.                 *)
HasCauses(n) == n >= 2
(* Mutant: the name of an organization counts as causes. *)
CausesDoneByLead(facts, n) == HasCauses(n) \/ "orgOrCause" \in facts
CausesDone(facts, n) == HasCauses(n)
StepDone(facts, n, i) ==
    CASE i = 2 -> "orgOrCause" \in facts \/ HasCauses(n)
      [] i = 3 -> CausesDone(facts, n)
      [] OTHER -> Flow[i + 1] \in facts
ResumeStep(facts, n) ==
    CHOOSE i \in 0 .. Done : /\ \A j \in 0 .. i - 1 : StepDone(facts, n, j)
                             /\ i = Done \/ ~StepDone(facts, n, i)

(* What the app shows.                                                     *)
InApp == phase = "app" /\ stepIndex >= Done
Shown ==
    CASE phase # "app" -> NoSection
      [] phase = "app" /\ settings -> editing
      [] phase = "app" /\ ~settings /\ stepIndex < Done -> Flow[stepIndex + 1]
      [] OTHER -> NoSection
LeaveScreen(ss) == [s \in Slot |-> IF ss[s].owner = "mounted" THEN [ss[s] EXCEPT !.owner = "left"] ELSE ss[s]]
Submitting == \E s \in Slot : saves[s].owner = "mounted"
SaveInFlight == \E s \in Slot : saves[s].owner # "gone" /\ ~saves[s].edit

-----------------------------------------------------------------------------
OnboardingInit ==
    /\ saved = {} /\ causes = 0 /\ phase = "signedOut" /\ resume = NoStep
    /\ stepIndex = 0 /\ settings = FALSE /\ editing = NoSection
    /\ saves = [s \in Slot |-> NoSave] /\ hasty = FALSE

SignIn ==
    /\ phase = "signedOut" /\ phase' = "loading"
    /\ UNCHANGED <<saved, causes, resume, stepIndex, settings, editing, saves, hasty>>

(* GET /users/me, and its reply at loadVolunteerProfile.                   *)
LoadServed ==
    /\ phase = "loading" /\ resume = NoStep /\ resume' = ResumeStep(saved, causes)
    /\ UNCHANGED <<saved, causes, phase, stepIndex, settings, editing, saves, hasty>>
Loaded ==
    /\ resume # NoStep /\ phase' = "app" /\ stepIndex' = resume /\ resume' = NoStep
    /\ UNCHANGED <<saved, causes, settings, editing, saves, hasty>>

(* handleContinue of the screen that is shown; the button is off while     *)
(* this screen is submitting.                                              *)
Continue(s) ==
    /\ Shown \in Section /\ ~Submitting /\ saves[s] = NoSave
    /\ \E n \in IF Shown = "causes" THEN {k \in 0 .. 2 : MayPick(k)} ELSE {0} :
        saves' = [saves EXCEPT ![s] = [screen |-> Shown, edit |-> settings, tags |-> n,
                                       at |-> "sent", owner |-> "mounted"]]
    /\ UNCHANGED <<saved, causes, phase, resume, stepIndex, settings, editing, hasty>>

(* choseCausePath saves nothing; its link works during a save, too.        *)
BrowseByCause ==
    /\ Shown = "orgOrCause" /\ saves' = LeaveScreen(saves)
    /\ IF settings THEN editing' = "causes" /\ stepIndex' = stepIndex
       ELSE stepIndex' = stepIndex + 1 /\ editing' = editing
    /\ hasty' = (hasty \/ SaveInFlight)
    /\ UNCHANGED <<saved, causes, phase, resume, settings>>

(* POST or PATCH /users/me stores the answers; PATCH needs a profile.      *)
Serve(s) ==
    LET c == saves[s]
    IN  /\ c.at = "sent" /\ (c.screen = "quickProfile" \/ "quickProfile" \in saved)
        /\ saved' = saved \cup {c.screen}
        /\ causes' = IF c.screen = "causes" THEN c.tags ELSE causes
        /\ saves' = [saves EXCEPT ![s] = IF c.owner = "gone" THEN NoSave ELSE [c EXCEPT !.at = "saved"]]
        /\ UNCHANGED <<phase, resume, stepIndex, settings, editing, hasty>>

(* The rest of handleContinue: goNext, choseOrgPath or finishEditing, or   *)
(* an error when the call or its answer failed, which shows on the screen  *)
(* if it is still there.                                                   *)
Reply(s, ok) ==
    LET c == saves[s]
        done == [saves EXCEPT ![s] = NoSave]
    IN  /\ c # NoSave /\ (ok => c.at = "saved")
        /\ IF ~ok THEN UNCHANGED <<stepIndex, editing>>
           ELSE IF c.edit
           THEN /\ editing' = IF c.screen = "orgOrCause" THEN "causes" ELSE NoSection
                /\ stepIndex' = stepIndex
           ELSE stepIndex' = stepIndex + 1 /\ editing' = editing
        /\ UNCHANGED <<saved, causes, phase, resume, settings, hasty>>
        /\ saves' = IF Shown' = Shown THEN done ELSE LeaveScreen(done)

-----------------------------------------------------------------------------
(* resetToSignedOut.                                                       *)
SignedOut ==
    /\ phase' = "signedOut" /\ stepIndex' = 0 /\ settings' = FALSE /\ editing' = NoSection
    /\ resume' = NoStep /\ UNCHANGED <<saved, causes>>

(* leaveOnboardingStep; from the first step it signs out.                  *)
(* Mutant: it does not. *)
SignsOutNever == FALSE
SignsOut == stepIndex = 0
StepBack ==
    /\ phase = "app" /\ ~settings /\ stepIndex < Done
    /\ saves' = LeaveScreen(saves) /\ hasty' = (hasty \/ SaveInFlight)
    /\ IF SignsOut THEN SignedOut
       ELSE stepIndex' = stepIndex - 1 /\ UNCHANGED <<saved, causes, phase, resume, settings, editing>>

(* A call is answered 401 (the account signed in elsewhere, or this call   *)
(* was late and its session is gone): the app signs out of whatever        *)
(* session it has.                                                         *)
Unauthorized(s) ==
    /\ saves[s].at = "sent" /\ saves[s].owner # "gone"
    /\ saves' = LeaveScreen([saves EXCEPT ![s] = NoSave]) /\ hasty' = hasty
    /\ IF phase = "signedOut"
       THEN UNCHANGED <<saved, causes, phase, resume, stepIndex, settings, editing>>
       ELSE SignedOut

(* The app is killed and started again with the stored token: a call it    *)
(* has sent still arrives, its answer does not.                            *)
Relaunch ==
    /\ phase # "signedOut" /\ phase' = "loading" /\ resume' = NoStep
    /\ stepIndex' = 0 /\ settings' = FALSE /\ editing' = NoSection /\ hasty' = FALSE
    /\ saves' = [s \in Slot |-> IF saves[s].at = "sent" THEN [saves[s] EXCEPT !.owner = "gone"]
                               ELSE NoSave]
    /\ UNCHANGED <<saved, causes>>

(* The settings: open, pick a section, go back, log out.                   *)
OpenSettings ==
    /\ InApp /\ ~settings /\ settings' = TRUE /\ saves' = LeaveScreen(saves)
    /\ UNCHANGED <<saved, causes, phase, resume, stepIndex, editing, hasty>>
EditSettings(section) ==
    /\ InApp /\ settings /\ editing = NoSection /\ editing' = section
    /\ UNCHANGED <<saved, causes, phase, resume, stepIndex, settings, saves, hasty>>
SettingsBack ==
    /\ InApp /\ settings /\ saves' = LeaveScreen(saves) /\ editing' = NoSection
    /\ settings' = (editing # NoSection)
    /\ UNCHANGED <<saved, causes, phase, resume, stepIndex, hasty>>
LogOut ==
    /\ InApp /\ settings /\ editing = NoSection
    /\ saves' = LeaveScreen(saves) /\ hasty' = hasty /\ SignedOut

OnboardingNext ==
    \/ SignIn \/ LoadServed \/ Loaded \/ BrowseByCause \/ StepBack \/ Relaunch
    \/ OpenSettings \/ SettingsBack \/ LogOut
    \/ \E section \in EditSection : EditSettings(section)
    \/ \E s \in Slot : Continue(s) \/ Serve(s) \/ Unauthorized(s) \/ \E ok \in BOOLEAN : Reply(s, ok)
OnboardingSpec == OnboardingInit /\ [][OnboardingNext]_appVars

-----------------------------------------------------------------------------
OnboardingTypeOK ==
    /\ saved \subseteq Section /\ causes \in 0 .. 12
    /\ phase \in {"signedOut", "loading", "app"} /\ resume \in 0 .. Done \cup {NoStep}
    /\ stepIndex \in Nat /\ settings \in BOOLEAN /\ editing \in Section \cup {NoSection}
    /\ hasty \in BOOLEAN
    /\ saves \in [Slot -> [screen : Section \cup {NoSection}, edit : BOOLEAN, tags : 0 .. 12,
                           at : {"idle", "sent", "saved"},
                           owner : {"mounted", "left", "gone"}]]

(* Unless the user left a step during its save, a step is behind them only *)
(* when the server has its answers, even when replies are lost and the app *)
(* is killed; only the choice between organization and causes saves        *)
(* nothing on one of its two paths.                                        *)
AnswersSaved ==
    phase = "app" /\ ~hasty =>
        \A i \in 0 .. stepIndex - 1 : i < Done /\ i # 2 =>
            Flow[i + 1] \in saved /\ (i = 3 => causes >= MIN_CAUSES)

(* And nothing that is saved later, by a setting or by a late call of an   *)
(* earlier step, sends the user back: the step that a fresh start resumes  *)
(* at only grows.                                                          *)
StepsSaved ==
    /\ AnswersSaved
    /\ [][AnswersSaved' /\ ResumeStep(saved, causes) <= ResumeStep(saved, causes)']_appVars
=============================================================================
