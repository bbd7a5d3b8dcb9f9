------------------------------ MODULE VerifyId ------------------------------
(***************************************************************************)
(* Verifying an ID from the phone: VerifyIdScreen with its photo, the      *)
(* checks made on the device (verification/localChecks.js), and the two    *)
(* routes of index.js it calls, of which only booleans and the expiry date *)
(* tell what was checked.  Claims, badges and crashes of the server are    *)
(* the module Identity; an attestation is one step here.                   *)
(*                                                                         *)
(* Abstractions: a name is its sequence of normalised tokens, and of two   *)
(* tokens it matters only which is a prefix of three letters or more of    *)
(* the other (Variant).  A year has YearDays days.  The type, country and  *)
(* number of a document are one value.  A call that has not reached the    *)
(* server when the app gives up on it never does.                          *)
(***************************************************************************)
EXTENDS Integers, Sequences, FiniteSets

CONSTANTS
    Variant,                    \* <<short, long>>: a token and what it is a prefix of
    ProfileName, IdName,        \* sequences of tokens
    TypedAge,                   \* users.age
    Birth, Expiry,              \* days
    Paper,                      \* documents
    YearDays, MIN_ADULT_AGE,
    DOC_CHECK_LIMIT,
    LastCheckDay,               \* bound
    MaxPhotos                   \* bound

NoPaper == "no paper"
NoPhoto == 0
NoForm == [name |-> <<>>, birth |-> 0, expiry |-> 0, paper |-> NoPaper]
Form == [name : IdName, birth : Birth, expiry : Expiry, paper : Paper]

ASSUME VerifyIdAssumption ==
    /\ \A v, w \in Variant :   \* prefixes of one token are prefixes of each other
        /\ v[2] = w[2] => v[1] = w[1] \/ <<v[1], w[1]>> \in Variant \/ <<w[1], v[1]>> \in Variant
        /\ v[2] = w[1] => <<v[1], w[2]>> \in Variant
    /\ \A name \in ProfileName \cup IdName : name \in Seq({name[i] : i \in DOMAIN name})
    /\ TypedAge \cup Birth \cup Expiry \subseteq Int /\ YearDays \in Nat \ {0}
    /\ {MIN_ADULT_AGE, DOC_CHECK_LIMIT, LastCheckDay, MaxPhotos} \subseteq Nat
    /\ NoPaper \notin Paper

VARIABLES
    checkDay,
    row,            \* users.full_name and age
    appProfile,        \* what the app holds of it
    screen,          \* "closed", "form", "review"
    photo,          \* photoUri
    onDevice,       \* photo files in the app's cache
    leftOver,       \* history: photos taken again, or left by an app that was stopped
    form,           \* what was typed, in review
    step,           \* handleSubmit: "idle", or the call it waits for
    reply,          \* of that call: "none", "ok", "refused"
    holder,         \* document_hashes: who a document belongs to
    pending,        \* pendingDocChecks of this account
    looks,          \* docCheckHistory of this account
    proven,         \* history: what the valid badge was issued on
    unheard         \* history: a save of the profile whose reply was lost

phone == <<appProfile, screen, photo, onDevice, leftOver, form, step, reply>>
server == <<row, holder, pending, looks>>
verifyVars == <<checkDay, phone, server, proven, unheard>>

-----------------------------------------------------------------------------
tokensMatch(s, t) == s = t \/ <<s, t>> \in Variant \/ <<t, s>> \in Variant

Without(ts, i) == SubSeq(ts, 1, i - 1) \o SubSeq(ts, i + 1, Len(ts))

(* A token of the profile takes the first of those left that matches it.   *)
(* Mutant: a token of the ID may be taken twice. *)
LeftAll(ts, i) == ts
LeftAfter(ts, i) == Without(ts, i)
Taking(left, t) ==
    LET found == {i \in DOMAIN left : tokensMatch(t, left[i])}
    IN  LeftAfter(left, CHOOSE i \in found : \A j \in found : i <= j)
TakenFrom(before, t) ==
    IF before.ok /\ \E i \in DOMAIN before.tokens : tokensMatch(t, before.tokens[i])
    THEN [ok |-> TRUE, tokens |-> Taking(before.tokens, t)]
    ELSE [ok |-> FALSE, tokens |-> <<>>]

(* The tokens of the ID that are left when the first n of the profile have *)
(* taken theirs.  A token that takes another's only match is not put back. *)
nameMatches(wanted, printed) ==
    LET left[n \in 0 .. Len(wanted)] ==
            IF n = 0 THEN [ok |-> TRUE, tokens |-> printed] ELSE TakenFrom(left[n - 1], wanted[n])
    IN  wanted # <<>> /\ printed # <<>> /\ left[Len(wanted)].ok

ageOnDate(birth, day) == (day - birth) \div YearDays
dobMatchesAge(birth, age, day) ==
    birth <= day /\ ageOnDate(birth, day) - age \in -1 .. 1
dobIsAdult(birth, day) == birth <= day /\ ageOnDate(birth, day) >= MIN_ADULT_AGE
expiryIsValid(expiry, day) == expiry > day

-----------------------------------------------------------------------------
NoProof == [form |-> NoForm, day |-> 0, stale |-> FALSE]

VerifyInit ==
    /\ checkDay = 0 /\ row \in [name : ProfileName, age : TypedAge] /\ appProfile = row
    /\ screen = "closed" /\ photo = NoPhoto /\ onDevice = {} /\ leftOver = {}
    /\ form = NoForm /\ step = "idle" /\ reply = "none"
    /\ holder = [d \in Paper |-> "nobody"] /\ pending = NoPaper /\ looks = 0
    /\ proven = NoProof /\ unheard = FALSE

OpenVerify ==
    /\ screen = "closed" /\ screen' = "form"
    /\ UNCHANGED <<checkDay, appProfile, photo, onDevice, leftOver, form, step, reply, server, proven, unheard>>

(* A photo replaces the one before it on the screen, not on the device.    *)
capturePhoto ==
    LET taken == Cardinality(onDevice \cup leftOver) + 1
    IN  /\ screen = "form" /\ taken <= MaxPhotos
        /\ photo' = taken /\ onDevice' = onDevice \cup {taken}
        /\ leftOver' = leftOver \cup ({photo} \ {NoPhoto})
        /\ UNCHANGED <<checkDay, appProfile, screen, form, step, reply, server, proven, unheard>>

discardPhoto == photo' = NoPhoto /\ onDevice' = onDevice \ {photo}

cancel ==
    /\ screen = "form" /\ screen' = "closed" /\ discardPhoto
    /\ UNCHANGED <<checkDay, appProfile, leftOver, form, step, reply, server, proven, unheard>>

(* "Review & submit", with everything filled in.                           *)
ChecksPass(f) ==
    /\ nameMatches(appProfile.name, f.name)
    /\ dobMatchesAge(f.birth, appProfile.age, checkDay)
    /\ dobIsAdult(f.birth, checkDay)
    /\ expiryIsValid(f.expiry, checkDay)
runLocalChecks(f) ==
    /\ screen = "form" /\ photo # NoPhoto /\ ChecksPass(f)
    /\ form' = f /\ screen' = "review"
    /\ UNCHANGED <<checkDay, appProfile, photo, onDevice, leftOver, step, reply, server, proven, unheard>>

handleSubmit ==
    /\ screen = "review" /\ step = "idle"
    /\ step' = "check" /\ reply' = "none"
    /\ UNCHANGED <<checkDay, appProfile, screen, photo, onDevice, leftOver, form, server, proven, unheard>>

(* POST /verification/document-check                                       *)
DocumentChecked ==
    /\ step = "check" /\ reply = "none"
    /\ looks' = IF looks > DOC_CHECK_LIMIT THEN looks ELSE looks + 1
    /\ IF looks' <= DOC_CHECK_LIMIT /\ holder[form.paper] # "other"
       THEN /\ holder' = [holder EXCEPT ![form.paper] = "me"]
            /\ pending' = form.paper /\ reply' = "ok"
       ELSE reply' = "refused" /\ UNCHANGED <<holder, pending>>
    /\ UNCHANGED <<checkDay, row, appProfile, screen, photo, onDevice, leftOver, form, step, proven, unheard>>

(* POST /verification/attest: the device says true to everything, the      *)
(* server looks at the expiry date and at the document that waits.         *)
(* Mutant: the expiry date is left to the device. *)
NotExpiredByDevice(f) == TRUE
NotExpired(f) == f.expiry > checkDay
Attestation ==
    /\ step = "attest" /\ reply = "none"
    /\ IF NotExpired(form) /\ pending # NoPaper
       THEN /\ proven' = [form |-> form, day |-> checkDay, stale |-> unheard]
            /\ pending' = NoPaper /\ reply' = "ok"
       ELSE reply' = "refused" /\ UNCHANGED <<proven, pending>>
    /\ UNCHANGED <<checkDay, row, appProfile, screen, photo, onDevice, leftOver, form, step, holder, looks, unheard>>

CheckHeard ==
    /\ step = "check" /\ reply = "ok"
    /\ step' = "attest" /\ reply' = "none"
    /\ UNCHANGED <<checkDay, appProfile, screen, photo, onDevice, leftOver, form, server, proven, unheard>>
VerifiedHeard ==
    /\ step = "attest" /\ reply = "ok"
    /\ discardPhoto /\ appProfile' = row /\ unheard' = FALSE
    /\ screen' = "closed" /\ form' = NoForm /\ step' = "idle" /\ reply' = "none"
    /\ UNCHANGED <<checkDay, leftOver, server, proven>>
(* Refused, or the call or its answer is lost: the review stays.           *)
SubmitFails ==
    /\ step # "idle" /\ step' = "idle" /\ reply' = "none"
    /\ UNCHANGED <<checkDay, appProfile, screen, photo, onDevice, leftOver, form, server, proven, unheard>>

-----------------------------------------------------------------------------
(* QuickProfile from the settings: name and age change, a badge for others *)
(* is revoked; the reply that tells the app may be lost.                   *)
EditProfileRow(r, heard) ==
    /\ screen = "closed" /\ r # row
    /\ row' = r /\ proven' = NoProof
    /\ appProfile' = IF heard THEN r ELSE appProfile
    /\ unheard' = ~heard
    /\ UNCHANGED <<checkDay, screen, photo, onDevice, leftOver, form, step, reply, holder, pending, looks>>
refreshProfile ==
    /\ screen = "closed" /\ appProfile' = row /\ unheard' = FALSE
    /\ UNCHANGED <<checkDay, screen, photo, onDevice, leftOver, form, step, reply, server, proven>>

OtherTakes(d) ==
    /\ holder[d] = "nobody" /\ holder' = [holder EXCEPT ![d] = "other"]
    /\ UNCHANGED <<checkDay, row, pending, looks, phone, proven, unheard>>
PendingExpires ==
    /\ pending # NoPaper /\ pending' = NoPaper
    /\ UNCHANGED <<checkDay, row, holder, looks, phone, proven, unheard>>
DayPasses ==
    /\ checkDay < LastCheckDay /\ checkDay' = checkDay + 1
    /\ pending' = NoPaper /\ looks' = 0
    /\ UNCHANGED <<row, holder, phone, proven, unheard>>

(* The app is stopped, whatever it was at; the profile is read anew.       *)
StopApp ==
    /\ screen # "closed"
    /\ screen' = "closed" /\ photo' = NoPhoto /\ leftOver' = leftOver \cup ({photo} \ {NoPhoto})
    /\ form' = NoForm /\ step' = "idle" /\ reply' = "none" /\ appProfile' = row /\ unheard' = FALSE
    /\ UNCHANGED <<checkDay, onDevice, server, proven>>

VerifyNext ==
    \/ OpenVerify \/ capturePhoto \/ cancel \/ handleSubmit \/ DocumentChecked \/ Attestation
    \/ CheckHeard \/ VerifiedHeard \/ SubmitFails \/ refreshProfile \/ PendingExpires \/ DayPasses \/ StopApp
    \/ \E f \in Form : runLocalChecks(f)
    \/ \E d \in Paper : OtherTakes(d)
    \/ \E r \in [name : ProfileName, age : TypedAge], heard \in BOOLEAN : EditProfileRow(r, heard)

VerifySpec == VerifyInit /\ [][VerifyNext]_verifyVars

VerifyTypeOK ==
    /\ checkDay \in 0 .. LastCheckDay /\ looks \in 0 .. DOC_CHECK_LIMIT + 1
    /\ row \in [name : ProfileName, age : TypedAge] /\ appProfile \in [name : ProfileName, age : TypedAge]
    /\ screen \in {"closed", "form", "review"} /\ photo \in 0 .. MaxPhotos /\ onDevice \subseteq 1 .. MaxPhotos
    /\ form \in Form \cup {NoForm} /\ step \in {"idle", "check", "attest"}
    /\ reply \in {"none", "ok", "refused"} /\ pending \in Paper \cup {NoPaper}
    /\ holder \in [Paper -> {"nobody", "me", "other"}]

(* Each token of the profile's name is found on the ID, no two at the same *)
(* place.                                                                  *)
NamedOn(wanted, printed) ==
    \E at \in [DOMAIN wanted -> DOMAIN printed] :
        /\ \A i, j \in DOMAIN wanted : at[i] = at[j] => i = j
        /\ \A i \in DOMAIN wanted : tokensMatch(wanted[i], printed[at[i]])

(* A badge stands on an ID that names every part of the profile's name as  *)
(* it is now, each in a place of its own, of an adult of about the age the *)
(* profile gives, that had not expired on the day it was issued, and that  *)
(* nobody else claims: unless the app had missed that the profile was      *)
(* changed, and compared the ID with the old one.  No photo outlives the   *)
(* screen, but those taken again and those of an app that was stopped.     *)
VerifiedAsChecked ==
    /\ proven # NoProof =>
        /\ holder[proven.form.paper] = "me"
        /\ dobIsAdult(proven.form.birth, proven.day) /\ proven.form.expiry > proven.day
        /\ ~proven.stale => /\ NamedOn(row.name, proven.form.name)
                            /\ ageOnDate(proven.form.birth, proven.day) >= row.age - 1
    /\ onDevice \ leftOver \subseteq {photo} \ {NoPhoto}
    /\ screen = "closed" => photo = NoPhoto
=============================================================================
