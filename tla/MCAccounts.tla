----------------------------- MODULE MCAccounts -----------------------------
(***************************************************************************)
(* The records of accounts and what the app shows of them, for TLC: the    *)
(* components below share no state, so a behaviour moves one of them,      *)
(* chosen at the start, while the others keep one initial state.           *)
(***************************************************************************)
EXTENDS Review, Buddies, Premium, Referrals, SearchBar, Identity, Onboarding, Chat, Orgs,
        Sessions, RateLimit, VerifyId, Fit, Resurface, Navigation

CONSTANTS ann, bob, cal

MCPeople == {ann, bob, cal}
MCMet == {<<ann, bob>>, <<cal, bob>>, <<bob, ann>>}

(* One person who has been to two pairings, or two people who have been    *)
(* to one and are in another.                                              *)
MCMeetings == {[members |-> <<{ann, bob}, {bob, cal}>>, completed |-> {1, 2}],
               [members |-> <<{ann, bob}, {ann, bob}>>, completed |-> {2}]}

(* "Jon" is short for two other names.                                     *)
MCVariant == {<<"JON", "JONAS">>, <<"JON", "JONATHAN">>}
MCProfileName == {<<"JON", "JONAS">>, <<"KIM">>}
MCIdName == {<<"JONATHAN", "JONAS">>, <<"JONAS", "KIM">>}
MCBirth == {-4, -3}

(* Two pairs of causes are adjacent.  Bob is a newcomer of another age and *)
(* gender, or has a record of attendance, ratings and late cancellations.  *)
MCAdjacent ==
    {<<"food", "community">>, <<"community", "food">>, <<"animals", "cleanups">>, <<"cleanups", "animals">>}
MCFresh ==
    [interests |-> {}, age |-> 30, gender |-> "f", genderPref |-> "any", verified |-> TRUE,
     flagged |-> {}, causes |-> {"community"}, miles |-> 10,
     standing |-> [sum |-> 0, n |-> 0], latest |-> 0, likes |-> [sum |-> 0, n |-> 0],
     attended |-> 0, inCause |-> 0, late |-> 0, recentLate |-> 0, noShow |-> 0, habitualLate |-> FALSE]
MCBobs ==
    {[MCFresh EXCEPT !.causes = {"food"}, !.age = 39, !.gender = "m", !.interests = {"music"}],
     [MCFresh EXCEPT !.causes = {"food"}, !.attended = 4, !.inCause = 3, !.late = 2,
                     !.habitualLate = TRUE, !.standing = [sum |-> 2000, n |-> 2]]}
MCAnn == [MCFresh EXCEPT !.attended = 2, !.inCause = 1]
MCFirstRows == {[u \in {ann, bob} |-> IF u = ann THEN MCAnn ELSE r] : r \in MCBobs}

(* A shift the volunteer may go to, one to be told about, and one too far. *)
MCCadence == [Weekly |-> 2, Monthly |-> 3]
MCCalendar ==
    <<[starts |-> 1, ends |-> 2, causeGate |-> TRUE, miles |-> 5, room |-> 1],
      [starts |-> 7, ends |-> 9, causeGate |-> TRUE, miles |-> 5, room |-> 1],
      [starts |-> 7, ends |-> 9, causeGate |-> TRUE, miles |-> 15, room |-> 1]>>

VARIABLE part

Parts == {"review", "buddies", "premium", "referrals", "search", "identity",
          "onboarding", "chat", "orgs", "sessions", "limits", "verify", "fit", "nudges", "screens"}

AccountsInit ==
    /\ part \in Parts
    /\ ReviewInit /\ PremiumInit /\ OnboardingInit /\ ChatInit /\ SessionsInit /\ LimitInit
    /\ NudgeInit /\ NavInit
    /\ VerifyInit /\ (part # "verify" => row.name = <<"KIM">>)
    /\ IF part = "buddies" THEN BuddiesInit
       ELSE BuddiesInit /\ members[2] = {ann, bob}
    /\ ReferralsInit /\ (part # "referrals" => codeUsed = [u \in Member |-> Nobody])
    /\ SearchInit /\ (part # "search" => searchDeadline = WaitCap /\ preference = "best")
    /\ FitInit /\ (part # "fit" => user[bob].attended = 0)
    /\ OrgsInit /\ (part # "orgs" => ~org.exists)
    /\ IdentityInit /\ (part # "identity" => \A s \in Subject : claims[s] = 1)

accountsVars ==
    <<reviewVars, buddyVars, premiumVars, referralVars, searchVars, identityVars,
      appVars, chatVars, orgVars, sessionVars, limitVars, verifyVars,
      fitVars, nudgeVars, navVars, part>>

AccountsNext ==
    /\ UNCHANGED part
    /\ IF part = "review" THEN ReviewNext ELSE UNCHANGED reviewVars
    /\ IF part = "buddies" THEN BuddiesNext ELSE UNCHANGED buddyVars
    /\ IF part = "premium" THEN PremiumNext ELSE UNCHANGED premiumVars
    /\ IF part = "referrals" THEN ReferralsNext ELSE UNCHANGED referralVars
    /\ IF part = "search" THEN SearchNext ELSE UNCHANGED searchVars
    /\ IF part = "identity" THEN IdentityNext ELSE UNCHANGED identityVars
    /\ IF part = "onboarding" THEN OnboardingNext ELSE UNCHANGED appVars
    /\ IF part = "chat" THEN ChatNext ELSE UNCHANGED chatVars
    /\ IF part = "orgs" THEN OrgsNext ELSE UNCHANGED orgVars
    /\ IF part = "sessions" THEN SessionsNext ELSE UNCHANGED sessionVars
    /\ IF part = "limits" THEN LimitNext ELSE UNCHANGED limitVars
    /\ IF part = "verify" THEN VerifyNext ELSE UNCHANGED verifyVars
    /\ IF part = "fit" THEN FitNext ELSE UNCHANGED fitVars
    /\ IF part = "nudges" THEN NudgeNext ELSE UNCHANGED nudgeVars
    /\ IF part = "screens" THEN NavNext ELSE UNCHANGED navVars

AccountsSpec == AccountsInit /\ [][AccountsNext]_accountsVars

(* The variables of the component that moves keep their types.             *)
RecordsTypeOK ==
    /\ part = "review" => ReviewTypeOK
    /\ part = "buddies" => BuddiesTypeOK
    /\ part = "premium" => PremiumTypeOK
    /\ part = "referrals" => ReferralsTypeOK
    /\ part = "search" => SearchTypeOK
    /\ part = "identity" => IdentityTypeOK
    /\ part = "onboarding" => OnboardingTypeOK
    /\ part = "chat" => ChatTypeOK
    /\ part = "orgs" => OrgsTypeOK
    /\ part = "sessions" => SessionsTypeOK
    /\ part = "limits" => LimitTypeOK
    /\ part = "verify" => VerifyTypeOK
    /\ part = "fit" => FitTypeOK
    /\ part = "nudges" => NudgeTypeOK
    /\ part = "screens" => NavTypeOK
=============================================================================
