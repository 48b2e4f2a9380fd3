------------------------------ MODULE Identity ------------------------------
(***************************************************************************)
(* One account: its identity and business checks, and the private files    *)
(* it uploads, attaches, replaces, loses to retention and to erasure.      *)
(*                                                                         *)
(* Whatever changes the account holds the lock of its user row, so a step  *)
(* is a transaction.  What a request reads before it takes the lock is in  *)
(* its task: the verdict of the provider, the evidence on the reviewer's   *)
(* screen, the answer of the registry.  Every file has an advisory lock    *)
(* of its own, which cleanup takes; what cleanup lists it reads again      *)
(* under that lock, so a step of it is one file.                           *)
(*                                                                         *)
(* The identity card and the selfie of a submission are consumed, purged   *)
(* and erased together: one file stands for both.  Files of conversations  *)
(* are left out.                                                           *)
(***************************************************************************)
EXTENDS Integers, Sequences, FiniteSets

CONSTANTS
    Keys,          \* upload keys, each drawn once
    Jobs,          \* captures at the identity provider
    Procs,         \* requests and callbacks in flight
    None,
    MaxPhotos,     \* MAX_PORTFOLIO_PHOTOS
    Scopes         \* bound: the role of the account and what happens to it, see Init

Purposes == [USHER |-> {"document", "avatar", "portfolio"}, CLIENT |-> {"avatar", "authority"}]

ASSUME IdentityAssumption ==
    /\ IsFiniteSet(Keys) /\ None \notin Keys \cup Jobs
    /\ MaxPhotos \in Nat
    /\ \A s \in Scopes :
        /\ s.role \in {"USHER", "CLIENT"} /\ s.uses \subseteq Purposes[s.role]
        /\ s.keys \subseteq Keys /\ s.jobs \subseteq Jobs
        /\ s.submissions \in Nat

VARIABLES
    scope,      \* the role, and bounds: the uses of files, the files, the captures, and
                \* how many submissions there may be
    owner,      \* user.status
    accountType,  \* client.accountType
    erased,     \* history: the account was erased once,
    owed,       \* history: when it had these files
    status,     \* verificationStatus of the usher or client
    attempts,   \* usherVerification rows of the account, in the order of createdAt
    standing,   \* client.businessVerificationStatus
    business,   \* businessVerification rows, in the order of createdAt
    jobs,       \* the provider: the session of a capture, its verdict, the typed names
    cached,     \* captures whose photos are in Redis
    upload,     \* uploadIntent, by key
    staged,     \* objects at stagingKey
    stored,     \* objects at the key itself
    deletion,   \* storageDeletion of the key
    avatar, portfolio,
    task        \* what a process read, until its transaction

account == <<scope, owner, accountType, erased, owed>>
checks == <<status, attempts, standing, business>>
provider == <<jobs, cached>>
files == <<upload, staged, stored, deletion>>
pictures == <<avatar, portfolio>>
vars == <<account, checks, provider, files, pictures, task>>

Decisions == {"APPROVED", "REJECTED"}
Idle == [kind |-> "idle", n |-> 0, job |-> None, says |-> "none"]
NoUpload == [purpose |-> "none", age |-> "fresh", finalized |-> FALSE, consumed |-> FALSE]
NoJob == [attempt |-> 0, verdict |-> "none", names |-> "none"]

Biometric == [method |-> "BIOMETRIC", status |-> "PENDING", manual |-> FALSE,
              job |-> None, file |-> None, linked |-> TRUE]
Document(k) == [method |-> "DOCUMENT", status |-> "PENDING", manual |-> FALSE,
                job |-> None, file |-> k, linked |-> FALSE]

Init ==
    /\ scope \in Scopes
    /\ owner = "ACTIVE" /\ accountType = "NONE" /\ erased = FALSE /\ owed = {}
    /\ status = "PENDING" /\ attempts = <<>>
    /\ standing = "NOT_STARTED" /\ business = <<>>
    /\ jobs = [j \in Jobs |-> NoJob] /\ cached = {}
    /\ upload = [k \in Keys |-> NoUpload]
    /\ staged = {} /\ stored = {}
    /\ deletion = [k \in Keys |-> "none"]
    /\ avatar = None /\ portfolio = {}
    /\ task = [p \in Procs |-> Idle]

-----------------------------------------------------------------------------
(* Files.                                                                  *)

Latest == Len(attempts)
Issued == {k \in Keys : upload[k].purpose # "none"}

Referenced(k) ==
    \/ avatar = k \/ k \in portfolio
    \/ \E n \in DOMAIN attempts : attempts[n].file = k
    \/ \E n \in DOMAIN business : business[n].file = k

Queued(d, S) == [k \in Keys |-> IF k \in S /\ d[k] = "none" THEN "queued" ELSE d[k]]
scheduleDeletion(S) == deletion' = Queued(deletion, S)

issueUpload(k, purpose) ==
    /\ owner = "ACTIVE" /\ purpose \in scope.uses
    /\ purpose = "authority" => accountType = "BUSINESS" /\ status = "VERIFIED"
    /\ upload[k].purpose = "none"
    /\ upload' = [upload EXCEPT ![k].purpose = purpose]
    /\ UNCHANGED <<account, checks, provider, staged, stored, deletion, pictures, task>>

\* The signed URL needs no account, only its five minutes.
Put(k) ==
    /\ k \in Issued /\ upload[k].age = "fresh"
    /\ staged' = staged \cup {k}
    /\ UNCHANGED <<account, checks, provider, upload, stored, deletion, pictures, task>>

\* The copy reaches the store while the row is locked; the transaction that marks it
\* may still fail.  A copy the store makes after the API gave it up is left out.
finalizeUpload(k) ==
    /\ owner = "ACTIVE" /\ k \in Issued
    /\ deletion[k] = "none" /\ ~ upload[k].finalized
    /\ upload[k].age = "fresh" /\ k \in staged
    /\ stored' = stored \cup {k}
    /\ \/ upload' = [upload EXCEPT ![k].finalized = TRUE]
       \/ UNCHANGED upload
    /\ UNCHANGED <<account, checks, provider, staged, deletion, pictures, task>>

\* Five minutes to upload, a day to attach.
Age(k) ==
    /\ k \in Issued /\ upload[k].age # "stale"
    /\ upload' = [upload EXCEPT ![k].age = IF @ = "fresh" THEN "late" ELSE "stale"]
    /\ UNCHANGED <<account, checks, provider, staged, stored, deletion, pictures, task>>

\* Mutant: a file that is queued for deletion can still be attached.
ConsumableQueued(k, purpose, again) ==
    /\ owner = "ACTIVE" /\ upload[k].purpose = purpose /\ upload[k].finalized
    /\ IF upload[k].consumed THEN again ELSE upload[k].age # "stale"

\* consumeUpload: a file is consumed once; "again" is the retry of the same reference.
Consumable(k, purpose, again) ==
    /\ owner = "ACTIVE" /\ upload[k].purpose = purpose /\ upload[k].finalized
    /\ deletion[k] = "none"
    /\ IF upload[k].consumed THEN again ELSE upload[k].age # "stale"

Consume(k, purpose, again) ==
    /\ Consumable(k, purpose, again)
    /\ upload' = [upload EXCEPT ![k].consumed = TRUE]

Replacing(k) == {avatar} \ {k, None}

setAvatar(k) ==
    /\ Consume(k, "avatar", TRUE)
    /\ scheduleDeletion(Replacing(k))
    /\ avatar' = k
    /\ UNCHANGED <<account, checks, provider, staged, stored, portfolio, task>>

addPhoto(k) ==
    /\ Consume(k, "portfolio", k \in portfolio)
    /\ k \in portfolio \/ Cardinality(portfolio) < MaxPhotos
    /\ portfolio' = portfolio \cup {k}
    /\ UNCHANGED <<account, checks, provider, staged, stored, deletion, avatar, task>>

removePhoto(k) ==
    /\ owner = "ACTIVE" /\ k \in portfolio
    /\ scheduleDeletion({k})
    /\ portfolio' = portfolio \ {k}
    /\ UNCHANGED <<account, checks, provider, upload, staged, stored, avatar, task>>

\* A copy whose commit failed, or a file nobody attached.
Abandon(k) ==
    /\ k \in Issued /\ upload[k].age = "stale" /\ ~ upload[k].consumed
    /\ deletion[k] = "none"
    /\ scheduleDeletion({k})
    /\ UNCHANGED <<account, checks, provider, upload, staged, stored, pictures, task>>

\* The staging key is queued from the start, for when the file can no longer be attached.
CleanStaging(k) ==
    /\ upload[k].age = "stale" /\ k \in staged
    /\ staged' = staged \ {k}
    /\ UNCHANGED <<account, checks, provider, upload, stored, deletion, pictures, task>>

\* cleanupStorage defers a file that is still referenced, and repeats a deletion whose
\* commit failed.
Clean(k) ==
    /\ deletion[k] = "queued" /\ ~ Referenced(k)
    /\ stored' = stored \ {k}
    /\ \/ deletion' = [deletion EXCEPT ![k] = "done"]
       \/ k \in stored /\ UNCHANGED deletion
    /\ UNCHANGED <<account, checks, provider, upload, staged, pictures, task>>

-----------------------------------------------------------------------------
(* The identity check.                                                     *)

Begin(p, t) == task[p] = Idle /\ task' = [task EXCEPT ![p] = t]
End(p) == task' = [task EXCEPT ![p] = Idle]

\* A new submission is the latest, and is open whatever came of the one before.  There
\* is no lifetime limit in the code, only a rate of captures (assertCanStart), which is
\* left out: scope.submissions is a bound of the model.
Submit(a) ==
    /\ owner = "ACTIVE" /\ status # "VERIFIED" /\ Latest < scope.submissions
    /\ attempts' = Append(attempts, a)
    /\ status' = "PENDING"

startBiometricVerification ==
    /\ Submit(Biometric)
    /\ UNCHANGED <<account, standing, business, provider, files, pictures, task>>

submitDocumentVerification(k) ==
    /\ Submit(Document(k))
    /\ Consume(k, "document", FALSE)
    /\ UNCHANGED <<account, standing, business, provider, staged, stored, deletion,
                   pictures, task>>

\* The session token outlives its attempt: the SDK may capture late, and twice.
Capture(j, n, names) ==
    /\ jobs[j] = NoJob /\ n \in DOMAIN attempts /\ attempts[n].method = "BIOMETRIC"
    /\ jobs' = [jobs EXCEPT ![j] = [attempt |-> n, verdict |-> "pending", names |-> names]]
    /\ UNCHANGED <<account, checks, cached, files, pictures, task>>

Judge(j, verdict) ==
    /\ jobs[j].verdict = "pending"
    /\ jobs' = [jobs EXCEPT ![j].verdict = verdict]
    /\ UNCHANGED <<account, checks, cached, files, pictures, task>>

\* Mutant: names the callback does not bring are taken for the right ones.
checkLenient(j, evident) ==
    IF jobs[j].verdict # "verified" \/ ~ evident THEN jobs[j].verdict
    ELSE CASE jobs[j].names = "matched" -> "verified"
           [] jobs[j].names = "mismatch" -> "rejected"
           [] OTHER -> "pending"

\* The provider's verdict does not look at the typed names: only a full match keeps it.
checkSubmittedNames(j, evident) ==
    IF jobs[j].verdict # "verified" THEN jobs[j].verdict
    ELSE CASE evident /\ jobs[j].names = "matched" -> "verified"
           [] evident /\ jobs[j].names = "mismatch" -> "rejected"
           [] OTHER -> "pending"

\* A callback: the verdict is fetched, its photos kept for ten minutes.
Fetch(p, j, evident) ==
    /\ jobs[j] # NoJob
    /\ Begin(p, [kind |-> "callback", n |-> jobs[j].attempt, job |-> j,
                 says |-> checkSubmittedNames(j, evident)])
    /\ cached' = IF evident
                 THEN {i \in cached : jobs[i].attempt # jobs[j].attempt} \cup {j}
                 ELSE cached
    /\ UNCHANGED <<account, checks, jobs, files, pictures>>

Forget(j) ==
    /\ j \in cached
    /\ cached' = cached \ {j}
    /\ UNCHANGED <<account, checks, jobs, files, pictures, task>>

Verified(approved) == IF approved THEN "VERIFIED" ELSE "REJECTED"
Decided(approved) == IF approved THEN "APPROVED" ELSE "REJECTED"

\* Mutant: a session that was superseded can still be settled.
SettlesAny(n) ==
    /\ owner = "ACTIVE" /\ attempts[n].linked
    /\ attempts[n].status = "PENDING" /\ ~ attempts[n].manual

Settles(n) ==
    /\ owner = "ACTIVE" /\ n = Latest /\ attempts[n].linked
    /\ attempts[n].status = "PENDING" /\ ~ attempts[n].manual

applyKycResult(p) ==
    LET t == task[p] approved == t.says = "verified" IN
    /\ t.kind = "callback" /\ Settles(t.n)
    /\ IF t.says = "pending"
       THEN /\ attempts' = [attempts EXCEPT ![t.n].job = t.job]
            /\ UNCHANGED status
       ELSE /\ attempts' = [attempts EXCEPT ![t.n].job = t.job, ![t.n].status = Decided(approved)]
            /\ status' = Verified(approved)
    /\ End(p)
    /\ UNCHANGED <<account, standing, business, provider, files, pictures>>

\* An administrator decides on a submission and, for an approval, on the photos that
\* the cache holds of its capture.
OpenReview(p, n, decision) ==
    /\ n \in DOMAIN attempts
    /\ Begin(p, [kind |-> "review", n |-> n, says |-> decision,
                 job |-> IF attempts[n].job \in cached THEN attempts[n].job ELSE None])
    /\ UNCHANGED <<account, checks, provider, files, pictures>>

Evident(a, job) ==
    IF a.method = "BIOMETRIC" THEN a.job # None /\ job = a.job ELSE a.file # None

\* Mutant: the second reviewer overrules the first.
ReviewableAgain(t) ==
    /\ owner = "ACTIVE" /\ t.n = Latest
    /\ t.says = "APPROVED" => Evident(attempts[t.n], t.job)

Reviewable(t) ==
    /\ owner = "ACTIVE" /\ t.n = Latest /\ ~ attempts[t.n].manual
    /\ t.says = "APPROVED" => Evident(attempts[t.n], t.job)

reviewVerification(p) ==
    LET t == task[p] IN
    /\ t.kind = "review" /\ Reviewable(t)
    /\ attempts' = [attempts EXCEPT ![t.n].status = t.says, ![t.n].manual = TRUE]
    /\ status' = Verified(t.says = "APPROVED")
    /\ End(p)
    /\ UNCHANGED <<account, standing, business, provider, files, pictures>>

\* A request or callback that is refused, fails or dies.
Drop(p) ==
    /\ task[p] # Idle
    /\ End(p)
    /\ UNCHANGED <<account, checks, provider, files, pictures>>

-----------------------------------------------------------------------------
(* The business check.                                                     *)

\* Mutant: a business sheds its check by switching its label.
chooseClientAccountTypeFreely(type) ==
    /\ owner = "ACTIVE" /\ scope.role = "CLIENT"
    /\ accountType' = type
    /\ UNCHANGED <<scope, owner, erased, owed, checks, provider, files, pictures, task>>

\* Choosing the same again changes nothing; a business stays one.
chooseClientAccountType(type) ==
    /\ owner = "ACTIVE" /\ scope.role = "CLIENT" /\ accountType # "BUSINESS"
    /\ accountType' = type
    /\ UNCHANGED <<scope, owner, erased, owed, checks, provider, files, pictures, task>>

submitBusinessVerification(p, k) ==
    LET n == Len(business) IN
    /\ owner = "ACTIVE" /\ accountType = "BUSINESS" /\ status = "VERIFIED"
    /\ n < scope.submissions
    /\ n > 0 => business[n].status = "REJECTED"
    /\ Consume(k, "authority", FALSE)
    /\ business' = Append(business, [status |-> "PENDING", registry |-> "PROCESSING", file |-> k])
    /\ standing' = "PENDING"
    /\ Begin(p, [kind |-> "lookup", n |-> n + 1, job |-> None, says |-> "none"])
    /\ UNCHANGED <<account, status, attempts, provider, staged, stored, deletion, pictures>>

refreshBusinessVerification(p, n) ==
    /\ n \in DOMAIN business /\ business[n].status = "PENDING"
    /\ Begin(p, [kind |-> "lookup", n |-> n, job |-> None, says |-> "none"])
    /\ UNCHANGED <<account, checks, provider, files, pictures>>

\* The registry's answer; a failed call is recorded as UNAVAILABLE.
Lookup(p, answer) ==
    /\ task[p].kind = "lookup" /\ task[p].says = "none"
    /\ task' = [task EXCEPT ![p].says = answer]
    /\ UNCHANGED <<account, checks, provider, files, pictures>>

Savable(n) == owner = "ACTIVE" /\ business[n].status = "PENDING"

saveRegistryResult(p) ==
    LET t == task[p] IN
    /\ t.kind = "lookup" /\ t.says # "none" /\ Savable(t.n)
    /\ business' = [business EXCEPT ![t.n].registry = t.says]
    /\ End(p)
    /\ UNCHANGED <<account, status, attempts, standing, provider, files, pictures>>

reviewBusinessVerification(n, decision) ==
    /\ owner = "ACTIVE" /\ n = Len(business) /\ n > 0 /\ business[n].status = "PENDING"
    /\ decision = "APPROVED" =>
        status = "VERIFIED" /\ business[n].registry = "VERIFIED" /\ business[n].file # None
    /\ business' = [business EXCEPT ![n].status = decision]
    /\ standing' = Verified(decision = "APPROVED")
    /\ UNCHANGED <<account, status, attempts, provider, files, pictures, task>>

-----------------------------------------------------------------------------
(* Retention, suspension and erasure.                                      *)

\* Ninety days after an approval, thirty after a rejection.  The job takes no lock of
\* the account.
purgeDocument(n) ==
    /\ n \in DOMAIN attempts /\ attempts[n].file # None /\ attempts[n].status # "PENDING"
    /\ scheduleDeletion({attempts[n].file})
    /\ attempts' = [attempts EXCEPT ![n].file = None]
    /\ UNCHANGED <<account, status, standing, business, provider, upload, staged, stored,
                   pictures, task>>

purgeAuthority(n) ==
    /\ n \in DOMAIN business /\ business[n].file # None /\ business[n].status # "PENDING"
    /\ scheduleDeletion({business[n].file})
    /\ business' = [business EXCEPT ![n].file = None]
    /\ UNCHANGED <<account, status, attempts, standing, provider, upload, staged, stored,
                   pictures, task>>

\* The administrator's actions look at nothing.
Suspend ==
    /\ owner' = "SUSPENDED"
    /\ UNCHANGED <<scope, accountType, erased, owed, checks, provider, files, pictures, task>>

Reinstate ==
    /\ owner' = "ACTIVE"
    /\ UNCHANGED <<scope, accountType, erased, owed, checks, provider, files, pictures, task>>

\* Mutant: only what is attached is queued.
OwedAttached == {k \in Issued : Referenced(k)}

Owed == Issued

\* The account was active when the request came in, not necessarily now.  A client's
\* sessions lose their reference, an usher's do not.
eraseUser ==
    /\ owner # "ANONYMIZED"
    /\ owner' = "ANONYMIZED" /\ erased' = TRUE /\ owed' = Issued
    /\ scheduleDeletion(Owed)
    /\ avatar' = None /\ portfolio' = {}
    /\ attempts' = [n \in DOMAIN attempts |->
                      [attempts[n] EXCEPT !.file = None, !.job = None,
                                          !.linked = @ /\ scope.role = "USHER"]]
    /\ business' = [n \in DOMAIN business |-> [business[n] EXCEPT !.file = None]]
    /\ IF scope.role = "CLIENT" THEN status' = "PENDING" /\ standing' = "NOT_STARTED"
       ELSE UNCHANGED <<status, standing>>
    /\ UNCHANGED <<scope, accountType, provider, upload, staged, stored, task>>

-----------------------------------------------------------------------------

Verdicts == {"verified", "rejected"}
Names == {"matched", "partial", "mismatch"}

Next ==
    \/ \E k \in scope.keys :
        \/ \E purpose \in scope.uses : issueUpload(k, purpose)
        \/ Put(k) \/ finalizeUpload(k) \/ Age(k)
        \/ setAvatar(k) \/ addPhoto(k) \/ removePhoto(k) \/ submitDocumentVerification(k)
        \/ Abandon(k) \/ CleanStaging(k) \/ Clean(k)
    \/ startBiometricVerification
    \/ \E j \in scope.jobs :
        \/ \E n \in DOMAIN attempts, names \in Names : Capture(j, n, names)
        \/ \E verdict \in Verdicts : Judge(j, verdict)
        \/ Forget(j)
    \/ \E p \in Procs :
        \/ \E j \in scope.jobs, evident \in BOOLEAN : Fetch(p, j, evident)
        \/ \E n \in DOMAIN attempts, decision \in Decisions : OpenReview(p, n, decision)
        \/ \E k \in scope.keys : submitBusinessVerification(p, k)
        \/ \E n \in DOMAIN business : refreshBusinessVerification(p, n)
        \/ \E answer \in {"VERIFIED", "OTHER"} : Lookup(p, answer)
        \/ applyKycResult(p) \/ reviewVerification(p) \/ saveRegistryResult(p) \/ Drop(p)
    \/ \E n \in DOMAIN business, decision \in Decisions : reviewBusinessVerification(n, decision)
    \/ \E n \in DOMAIN attempts : purgeDocument(n)
    \/ \E n \in DOMAIN business : purgeAuthority(n)
    \/ \E type \in {"INDIVIDUAL", "BUSINESS"} : chooseClientAccountType(type)
    \/ Suspend \/ Reinstate \/ eraseUser

Spec == Init /\ [][Next]_vars

-----------------------------------------------------------------------------

AttemptType ==
    [method : {"BIOMETRIC", "DOCUMENT"}, status : Decisions \cup {"PENDING"}, manual : BOOLEAN,
     job : Jobs \cup {None}, file : Keys \cup {None}, linked : BOOLEAN]
BusinessType ==
    [status : Decisions \cup {"PENDING"}, registry : {"PROCESSING", "VERIFIED", "OTHER"},
     file : Keys \cup {None}]
JobType == [attempt : Nat, verdict : Verdicts \cup {"pending"}, names : Names] \cup {NoJob}
UploadType ==
    [purpose : scope.uses \cup {"none"}, age : {"fresh", "late", "stale"},
     finalized : BOOLEAN, consumed : BOOLEAN]
TaskType ==
    [kind : {"idle", "callback", "review", "lookup"}, n : Nat, job : Jobs \cup {None},
     says : {"none", "pending", "VERIFIED", "OTHER"} \cup Verdicts \cup Decisions]

AccountType ==
    /\ scope \in Scopes
    /\ owner \in {"ACTIVE", "SUSPENDED", "ANONYMIZED"}
    /\ accountType \in {"NONE", "INDIVIDUAL", "BUSINESS"}
    /\ erased \in BOOLEAN /\ owed \subseteq Keys
ChecksType ==
    /\ status \in {"PENDING", "VERIFIED", "REJECTED"}
    /\ attempts \in Seq(AttemptType) /\ Latest <= scope.submissions
    /\ standing \in {"NOT_STARTED", "PENDING", "VERIFIED", "REJECTED"}
    /\ business \in Seq(BusinessType) /\ Len(business) <= scope.submissions
ProviderType == jobs \in [Jobs -> JobType] /\ cached \subseteq Jobs
FilesType ==
    /\ upload \in [Keys -> UploadType]
    /\ staged \subseteq Keys /\ stored \subseteq Keys
    /\ deletion \in [Keys -> {"none", "queued", "done"}]
PicturesType ==
    /\ avatar \in Keys \cup {None}
    /\ portfolio \subseteq Keys /\ Cardinality(portfolio) <= MaxPhotos

\* Types of the rows and of what is in flight.
TypeOK ==
    /\ AccountType /\ ChecksType /\ ProviderType /\ FilesType /\ PicturesType
    /\ task \in [Procs -> TaskType]

Outcome(s) == CASE s = "PENDING" -> "PENDING" [] s = "APPROVED" -> "VERIFIED"
                [] OTHER -> "REJECTED"

\* The account is what its latest submissions were decided to be: no late callback,
\* second reviewer or resubmission leaves a profile verified on an older submission.
\* (A client's erasure clears the profile and keeps the rows.)
StatusAgrees ==
    scope.role = "USHER" \/ ~ erased =>
        /\ status = IF Latest = 0 THEN "PENDING" ELSE Outcome(attempts[Latest].status)
        /\ standing = IF business = <<>> THEN "NOT_STARTED"
                      ELSE Outcome(business[Len(business)].status)

\* Rows of the right types whose profile agrees with them.
Consistent == TypeOK /\ StatusAgrees

\* Nobody is verified but by an administrator, or by a capture made in the latest
\* session that the provider cleared and whose names match the record.
VerifiedIsEarned ==
    status = "VERIFIED" =>
        \/ attempts[Latest].manual
        \/ \E j \in Jobs : jobs[j] = [attempt |-> Latest, verdict |-> "verified",
                                      names |-> "matched"]

\* "An explicit first admin review supersedes provider evidence" and is final; what
\* has been superseded is never decided.
DecisionStands ==
    [][\A n \in DOMAIN attempts :
         attempts'[n].status # attempts[n].status =>
            /\ n = Latest /\ ~ attempts[n].manual
            /\ attempts[n].status = "PENDING" \/ attempts'[n].manual]_vars

clientCanHire ==
    /\ status = "VERIFIED"
    /\ \/ accountType = "INDIVIDUAL"
       \/ accountType = "BUSINESS" /\ standing = "VERIFIED"

\* An approved business has registry evidence, whatever an earlier question to the
\* registry is answered later; and who ever asked for the check hires only once it is
\* passed, "cannot shed a pending/rejected check by switching its label".
BusinessEarned ==
    /\ \A n \in DOMAIN business :
        business[n].status = "APPROVED" => business[n].registry = "VERIFIED"
    /\ clientCanHire /\ business # <<>> => business[Len(business)].status = "APPROVED"

Distinct(rows) ==
    \A m, n \in DOMAIN rows : rows[m].file # None /\ rows[m].file = rows[n].file => m = n

\* What a profile or a submission shows exists, in one place, and is not due for
\* deletion: attaching, cleanup, retention and erasure never cross.
AttachedKept ==
    /\ \A k \in Keys : Referenced(k) => k \in stored /\ deletion[k] = "none"
    /\ avatar \notin portfolio
    /\ Distinct(attempts) /\ Distinct(business)

\* No object is left behind: what is stored is attached, may still be, will be found
\* abandoned, or is queued; and all that an erased account had is queued.
NothingOrphaned ==
    \A k \in stored :
        /\ Referenced(k) \/ deletion[k] = "queued" \/ ~ upload[k].consumed
        /\ k \in owed => deletion[k] = "queued"

-----------------------------------------------------------------------------
(* The inductive invariant behind the safety properties.                   *)

\* What a file is attached to is what it was issued for.
Purposed ==
    /\ avatar # None => upload[avatar].purpose = "avatar"
    /\ \A k \in portfolio : upload[k].purpose = "portfolio"
    /\ \A n \in DOMAIN attempts :
         attempts[n].file # None => upload[attempts[n].file].purpose = "document"
    /\ \A n \in DOMAIN business :
         business[n].file # None => upload[business[n].file].purpose = "authority"

\* A file is finalized, then consumed by what refers to it, then queued, then gone.
FileOK(k) ==
    /\ Referenced(k) => upload[k].consumed /\ deletion[k] = "none"
    /\ upload[k].consumed => upload[k].finalized /\ (Referenced(k) \/ deletion[k] # "none")
    /\ upload[k].finalized => k \in Issued /\ (k \in stored \/ deletion[k] # "none")
    /\ k \in stored => deletion[k] # "done"
    /\ k \in owed => deletion[k] # "none"

FilesOK ==
    /\ Purposed
    /\ \A k \in Keys : FileOK(k)
    /\ Distinct(attempts) /\ Distinct(business)

\* The profile is what the latest submissions earned it.
ProfileOK ==
    /\ StatusAgrees /\ VerifiedIsEarned
    /\ status # "PENDING" => attempts # <<>>
StandingOK ==
    /\ business # <<>> => accountType = "BUSINESS"
    /\ standing = "VERIFIED" => business # <<>> /\ business[Len(business)].status = "APPROVED"
    /\ \A n \in DOMAIN business :
         business[n].status = "APPROVED" => business[n].registry = "VERIFIED"

\* What is in flight is about a submission that was made; a callback that clears it
\* carries the verdict of its own capture.
TaskOK(t) ==
    /\ t.kind \in {"callback", "review"} => t.n \in DOMAIN attempts
    /\ t.kind = "callback" =>
        /\ t.job \in Jobs /\ t.says \in {"pending", "verified", "rejected"}
        /\ t.says = "verified" =>
             jobs[t.job] = [attempt |-> t.n, verdict |-> "verified", names |-> "matched"]
    /\ t.kind = "review" => t.says \in Decisions
    /\ t.kind = "lookup" => t.n \in DOMAIN business /\ t.says \in {"none", "VERIFIED", "OTHER"}
FlightOK ==
    /\ \A j \in Jobs : jobs[j] # NoJob => jobs[j].attempt \in DOMAIN attempts
    /\ \A p \in Procs : TaskOK(task[p])

Inductive == TypeOK /\ FilesOK /\ ProfileOK /\ StandingOK /\ FlightOK
=============================================================================
