------------------------------ MODULE Identity ------------------------------
(***************************************************************************)
(* Verified identities: the check of a document against those of other     *)
(* users, the attestation that issues a badge for the profile's claims,    *)
(* and the edits of the profile that take the badge away again             *)
(* (backend/index.js, recryption/badgeStore.js, lib/services.js).  A       *)
(* handler writes several tables without a transaction around them, so it  *)
(* is a sequence of steps; the server may die between any two, and what it *)
(* does at its next start is part of the protocol.  The library behind     *)
(* BadgeService and DuplicateDetector is known only from how it is used.   *)
(*                                                                         *)
(* The awaits of a handler resume before the next request is read (SQLite  *)
(* and the signer are synchronous), so one request is under way at a time. *)
(*                                                                         *)
(* Abstractions: the claims (name and age) are one value, which is its own *)
(* digest; a badge of the format before BadgeService is not modelled.      *)
(***************************************************************************)
EXTENDS Integers, Sequences, FiniteSets

CONSTANTS
    Subject, Document, Claims,
    NoDocument,
    MaxBadges                   \* bound: badges ever issued to one subject

ASSUME IdentityAssumption ==
    /\ NoDocument \notin Document /\ MaxBadges \in Nat
    /\ IsFiniteSet(Subject) /\ IsFiniteSet(Document) /\ IsFiniteSet(Claims)

VARIABLES
    claims,     \* full_name and age of the profile
    claimant,   \* document_hashes: which subjects hold which document (at most one)
    staged,     \* pendingDocChecks, in memory
    badges,     \* per subject, in the order issued
    verified,   \* users.verified
    job,        \* the request under way
    proof,      \* history: the document of the last completed attestation
    attested,   \* history: claims a badge was issued for on an attestation
    crashed     \* history: a request about the subject was cut off since then

identityVars == <<claims, claimant, staged, badges, verified, job, proof, attested, crashed>>
histories == <<proof, attested, crashed>>

Badge == [claims : Claims, valid : BOOLEAN]
Idle == [at |-> "idle"]
Valid(s) == {i \in DOMAIN badges[s] : badges[s][i].valid}
Stale(s) == {i \in Valid(s) : badges[s][i].claims # claims[s]}
Revoke(s, ids) ==
    [badges EXCEPT ![s] = [i \in DOMAIN @ |->
        IF i \in ids THEN [@[i] EXCEPT !.valid = FALSE] ELSE @[i]]]
Issued(bs, s) == Append(bs[s], [claims |-> claims[s], valid |-> TRUE])

-----------------------------------------------------------------------------
IdentityInit ==
    /\ claims \in [Subject -> Claims] /\ claimant = [d \in Document |-> {}]
    /\ staged = [s \in Subject |-> NoDocument] /\ badges = [s \in Subject |-> <<>>]
    /\ verified = [s \in Subject |-> FALSE] /\ job = Idle
    /\ proof = [s \in Subject |-> NoDocument] /\ attested = [s \in Subject |-> {}]
    /\ crashed = [s \in Subject |-> FALSE]

(* POST /verification/document-check: the first to check a document claims *)
(* it for good, and what was checked waits in memory for the attestation.  *)
TakenByOther(d, s) == claimant[d] \ {s} # {}
DocumentCheck(s, d) ==
    /\ job = Idle
    /\ IF TakenByOther(d, s) THEN UNCHANGED <<claimant, staged>>
       ELSE /\ claimant' = [claimant EXCEPT ![d] = {s}]
            /\ staged' = [staged EXCEPT ![s] = d]
    /\ UNCHANGED <<claims, badges, verified, job, histories>>

StagedExpires(s) ==
    /\ job = Idle /\ staged[s] # NoDocument
    /\ staged' = [staged EXCEPT ![s] = NoDocument]
    /\ UNCHANGED <<claims, claimant, badges, verified, job, histories>>

(* POST /users on an existing profile: the row first, then the badges that *)
(* no longer match it, then the flag.                                      *)
EditProfile(s, c) ==
    /\ job = Idle
    /\ claims' = [claims EXCEPT ![s] = c]
    /\ job' = [at |-> "edited", of |-> s]
    /\ UNCHANGED <<claimant, staged, badges, verified, histories>>
ClaimsChanged(s) ==
    /\ job = [at |-> "edited", of |-> s]
    /\ badges' = Revoke(s, Stale(s))
    /\ job' = IF Stale(s) # {} THEN [at |-> "revoked", of |-> s] ELSE Idle
    /\ UNCHANGED <<claims, claimant, staged, verified, histories>>
(* Mutant: the flag stays. *)
FlagKept(s) == verified
FlagCleared(s) == [verified EXCEPT ![s] = FALSE]
Unverify(s) ==
    /\ job = [at |-> "revoked", of |-> s]
    /\ verified' = FlagCleared(s)
    /\ job' = Idle
    /\ UNCHANGED <<claims, claimant, staged, badges, histories>>

(* POST /verification/attest: the staged document must still be the        *)
(* subject's; the new badge is issued, then the ones valid before it are   *)
(* revoked one by one (issueSuperseding), then the profile is marked.      *)
Attest(s) ==
    /\ job = Idle /\ staged[s] # NoDocument
    /\ IF claimant[staged[s]] = {s}
       THEN job' = [at |-> "issue", of |-> s, old |-> Valid(s)] /\ UNCHANGED staged
       ELSE staged' = [staged EXCEPT ![s] = NoDocument] /\ UNCHANGED job
    /\ UNCHANGED <<claims, claimant, badges, verified, histories>>
Superseded(s, old) == [at |-> "supersede", of |-> s, old |-> old]
Issue(s) ==
    /\ job.at = "issue" /\ job.of = s /\ Len(badges[s]) < MaxBadges
    /\ badges' = [badges EXCEPT ![s] = Issued(badges, s)]
    /\ job' = Superseded(s, job.old)
    /\ attested' = [attested EXCEPT ![s] = @ \cup {claims[s]}]
    /\ UNCHANGED <<claims, claimant, staged, verified, proof, crashed>>
IssueFails(s) ==
    /\ job.at = "issue" /\ job.of = s
    /\ job' = Idle
    /\ UNCHANGED <<claims, claimant, staged, badges, verified, histories>>
Supersede(s) ==
    /\ job.at = "supersede" /\ job.of = s
    /\ \E i \in job.old :
        /\ badges' = Revoke(s, {i})
        /\ job' = Superseded(s, job.old \ {i})
    /\ UNCHANGED <<claims, claimant, staged, verified, histories>>
Attested(s) ==
    /\ job = Superseded(s, {})
    /\ verified' = [verified EXCEPT ![s] = TRUE]
    /\ staged' = [staged EXCEPT ![s] = NoDocument]
    /\ job' = Idle
    /\ proof' = [proof EXCEPT ![s] = staged[s]]
    /\ crashed' = [crashed EXCEPT ![s] = FALSE]
    /\ UNCHANGED <<claims, claimant, badges, attested>>

(* verifiedBadgeFor: a partner looks at a valid badge; verify() revokes it *)
(* when its claims are not those of the profile any more.                  *)
PartnerLooks(s, i) ==
    /\ job = Idle /\ i \in Valid(s)
    /\ badges' = Revoke(s, {i} \cap Stale(s))
    /\ UNCHANGED <<claims, claimant, staged, verified, job, histories>>

(* The server dies, and starts again: upgradeLegacyBadges issues a badge   *)
(* to whoever is marked verified without a valid one.                      *)
Legacy == {s \in Subject : verified[s] /\ Valid(s) = {}}
Restart ==
    /\ \A s \in Legacy : Len(badges[s]) < MaxBadges
    /\ badges' = [s \in Subject |-> IF s \in Legacy THEN Issued(badges, s) ELSE badges[s]]
    /\ staged' = [s \in Subject |-> NoDocument] /\ job' = Idle
    /\ crashed' = [s \in Subject |-> crashed[s] \/ (job # Idle /\ job.of = s)]
    /\ UNCHANGED <<claims, claimant, verified, proof, attested>>

IdentityNext ==
    \/ Restart
    \/ \E s \in Subject :
        \/ \E d \in Document : DocumentCheck(s, d)
        \/ \E c \in Claims : EditProfile(s, c)
        \/ \E i \in DOMAIN badges[s] : PartnerLooks(s, i)
        \/ StagedExpires(s) \/ ClaimsChanged(s) \/ Unverify(s)
        \/ Attest(s) \/ Issue(s) \/ IssueFails(s) \/ Supersede(s) \/ Attested(s)

IdentitySpec == IdentityInit /\ [][IdentityNext]_identityVars
-----------------------------------------------------------------------------
Job ==
    {Idle} \cup [at : {"edited", "revoked"}, of : Subject]
    \cup [at : {"issue", "supersede"}, of : Subject, old : SUBSET (1 .. MaxBadges)]

IdentityTypeOK ==
    /\ claims \in [Subject -> Claims]
    /\ claimant \in [Document -> SUBSET Subject]
    /\ staged \in [Subject -> Document \cup {NoDocument}]
    /\ badges \in [Subject -> Seq(Badge)] /\ verified \in [Subject -> BOOLEAN]
    /\ job \in Job
    /\ proof \in [Subject -> Document \cup {NoDocument}]
    /\ attested \in [Subject -> SUBSET Claims] /\ crashed \in [Subject -> BOOLEAN]

(* Verified means what it says.  Between requests, unless one was cut off, *)
(* who is marked verified has exactly one valid badge, for the claims the  *)
(* profile makes now and an attestation was about, and who is not has      *)
(* none; and no document has verified two people, whatever was cut off.    *)
Settled(s) == ~crashed[s] /\ (job = Idle \/ job.of # s)
VerifiedIsBacked ==
    /\ \A s \in Subject : Settled(s) =>
        /\ verified[s] => Cardinality(Valid(s)) = 1 /\ claims[s] \in attested[s]
        /\ ~verified[s] => Valid(s) = {}
        /\ Stale(s) = {}
    /\ \A s, t \in Subject : proof[s] = proof[t] => s = t \/ proof[s] = NoDocument
=============================================================================
