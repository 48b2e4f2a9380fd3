--------------------------- MODULE IdentityProofs ---------------------------
(***************************************************************************)
(* Proofs about Identity, for any number of files, captures, submissions   *)
(* and requests in flight: a file that is shown exists, nothing is left    *)
(* behind, and nobody is verified who did not earn it.                     *)
(*                                                                         *)
(* The account is in two halves that meet only in the rows of its          *)
(* submissions: which file each carries, and how each was decided.  A step *)
(* disturbs one half or the other; each half has a lemma for the steps     *)
(* that leave it alone.                                                    *)
(***************************************************************************)
EXTENDS Identity, FiniteSetTheorems, TLAPS

USE IdentityAssumption

-----------------------------------------------------------------------------
(* Lemmas about sequences and records.                                     *)

\* A row of a sequence is replaced by another.
LEMMA RowWritten ==
  ASSUME NEW S, NEW rows \in Seq(S), NEW n \in DOMAIN rows, NEW row \in S
  PROVE  /\ [rows EXCEPT ![n] = row] \in Seq(S)
         /\ Len([rows EXCEPT ![n] = row]) = Len(rows)
         /\ DOMAIN [rows EXCEPT ![n] = row] = DOMAIN rows
         /\ [rows EXCEPT ![n] = row][n] = row
         /\ \A m \in DOMAIN rows \ {n} : [rows EXCEPT ![n] = row][m] = rows[m]
  OBVIOUS

\* A row is added at the end.
LEMMA RowAdded ==
  ASSUME NEW S, NEW rows \in Seq(S), NEW row \in S
  PROVE  /\ Append(rows, row) \in Seq(S)
         /\ Len(Append(rows, row)) = Len(rows) + 1
         /\ DOMAIN Append(rows, row) = DOMAIN rows \cup {Len(rows) + 1}
         /\ Len(rows) + 1 \notin DOMAIN rows
         /\ Append(rows, row)[Len(rows) + 1] = row
         /\ \A m \in DOMAIN rows : Append(rows, row)[m] = rows[m]
         /\ Append(rows, row) # <<>>
  OBVIOUS

\* The last row, if there is one.
LEMMA LastRow ==
  ASSUME NEW S, NEW rows \in Seq(S)
  PROVE  /\ Len(rows) \in Nat
         /\ rows # <<>> => Len(rows) \in DOMAIN rows
         /\ rows = <<>> <=> Len(rows) = 0
         /\ DOMAIN rows = 1..Len(rows)
  OBVIOUS

\* The rows of the account.
LEMMA Rows ==
  ASSUME TypeOK
  PROVE  /\ \A n \in DOMAIN attempts : attempts[n] \in AttemptType /\ attempts[n].file \in Keys \cup {None}
         /\ \A n \in DOMAIN business : business[n] \in BusinessType /\ business[n].file \in Keys \cup {None}
<1>1. /\ \A n \in DOMAIN attempts : attempts[n] \in AttemptType
      /\ \A n \in DOMAIN business : business[n] \in BusinessType
  BY DEF TypeOK, ChecksType
<1>2. /\ \A a \in AttemptType : a.file \in Keys \cup {None}
      /\ \A a \in BusinessType : a.file \in Keys \cup {None}
  BY DEF AttemptType, BusinessType
<1> QED BY <1>1, <1>2

-----------------------------------------------------------------------------
(* Steps that leave the files alone.                                       *)

\* Rows that keep their files, but for rows that never had one.
SameFiles(old, new) ==
    /\ \A n \in DOMAIN new : new[n].file # None => n \in DOMAIN old /\ new[n].file = old[n].file
    /\ \A n \in DOMAIN old : old[n].file # None => n \in DOMAIN new /\ new[n].file = old[n].file

LEMMA FilesRest ==
  ASSUME TypeOK, FilesOK,
         UNCHANGED <<upload, stored, deletion, avatar, portfolio, owed>>,
         SameFiles(attempts, attempts'), SameFiles(business, business')
  PROVE  FilesOK'
<1>1. ASSUME NEW k \in Keys
      PROVE  Referenced(k)' <=> Referenced(k)
  <2>1. k # None
    OBVIOUS
  <2>2. (\E n \in DOMAIN attempts' : attempts'[n].file = k)
        <=> (\E n \in DOMAIN attempts : attempts[n].file = k)
    BY <2>1 DEF SameFiles
  <2>3. (\E n \in DOMAIN business' : business'[n].file = k)
        <=> (\E n \in DOMAIN business : business[n].file = k)
    BY <2>1 DEF SameFiles
  <2> QED BY <2>2, <2>3 DEF Referenced
<1>2. \A k \in Keys : FileOK(k)'
  BY <1>1 DEF FilesOK, FileOK, Issued
<1>3. Purposed'
  BY DEF FilesOK, Purposed, SameFiles
<1>4. Distinct(attempts)' /\ Distinct(business)'
  BY DEF FilesOK, Distinct, SameFiles
<1> QED BY <1>2, <1>3, <1>4 DEF FilesOK

-----------------------------------------------------------------------------
(* Steps that leave the checks alone.                                      *)

\* Rows that keep how they were decided.
SameDecisions(old, new) ==
    /\ Len(new) = Len(old) /\ DOMAIN new = DOMAIN old
    /\ \A n \in DOMAIN old : new[n].status = old[n].status

LEMMA ProfileRest ==
  ASSUME TypeOK, TypeOK', ProfileOK, UNCHANGED <<scope, erased, status, standing, jobs>>,
         SameDecisions(attempts, attempts'), SameDecisions(business, business'),
         \A n \in DOMAIN attempts : attempts[n].manual => attempts'[n].manual
  PROVE  ProfileOK'
<1>1. /\ Latest' = Latest /\ Latest \in Nat /\ (attempts # <<>> <=> Latest # 0)
      /\ (attempts' # <<>> <=> Latest' # 0) /\ (attempts # <<>> => Latest \in DOMAIN attempts)
  BY LastRow DEF TypeOK, ChecksType, Latest, SameDecisions
<1>2. /\ Len(business)' = Len(business) /\ (business # <<>> <=> Len(business) # 0)
      /\ (business' # <<>> <=> Len(business') # 0)
      /\ (business # <<>> => Len(business) \in DOMAIN business)
  BY LastRow DEF TypeOK, ChecksType, SameDecisions
<1>3. status # "PENDING" => Latest \in DOMAIN attempts
  BY <1>1 DEF ProfileOK
<1>4. VerifiedIsEarned'
  BY <1>1, <1>3 DEF ProfileOK, VerifiedIsEarned
<1>5. Latest # 0 => Outcome(attempts[Latest].status)' = Outcome(attempts[Latest].status)
  BY <1>1 DEF SameDecisions
<1>6. business # <<>> => Outcome(business[Len(business)].status)' = Outcome(business[Len(business)].status)
  BY <1>2 DEF SameDecisions
<1>7. StatusAgrees'
  BY <1>1, <1>2, <1>5, <1>6 DEF ProfileOK, StatusAgrees
<1> QED BY <1>1, <1>4, <1>7 DEF ProfileOK

LEMMA StandingRest ==
  ASSUME TypeOK, TypeOK', StandingOK, UNCHANGED <<accountType, standing>>,
         SameDecisions(business, business'),
         \A n \in DOMAIN business : business[n].status = "APPROVED" =>
             business'[n].registry = business[n].registry
  PROVE  StandingOK'
<1>1. /\ Len(business)' = Len(business) /\ (business # <<>> <=> business' # <<>>)
      /\ (business # <<>> => Len(business) \in DOMAIN business)
  BY LastRow DEF TypeOK, ChecksType, SameDecisions
<1> QED BY <1>1 DEF StandingOK, SameDecisions

LEMMA FlightRest ==
  ASSUME FlightOK, UNCHANGED jobs,
         DOMAIN attempts \subseteq DOMAIN attempts', DOMAIN business \subseteq DOMAIN business',
         \A p \in Procs : task'[p] = task[p] \/ TaskOK(task[p])'
  PROVE  FlightOK'
<1>1. \A p \in Procs : TaskOK(task[p])'
  BY DEF FlightOK, TaskOK
<1> QED BY <1>1 DEF FlightOK

\* A step on files and pictures only.
LEMMA FilesStep ==
  ASSUME Inductive, UNCHANGED <<account, checks, provider, task>>, FilesType', PicturesType', FilesOK'
  PROVE  Inductive'
<1>1. TypeOK'
  BY DEF Inductive, TypeOK, AccountType, ChecksType, ProviderType, account, checks, provider, Latest
<1>2. SameDecisions(attempts, attempts') /\ SameDecisions(business, business')
  BY DEF SameDecisions, checks
<1>3. ProfileOK' /\ StandingOK'
  BY <1>1, <1>2, ProfileRest, StandingRest DEF Inductive, account, checks, provider
<1>4. FlightOK'
  BY FlightRest DEF Inductive, checks, provider
<1> QED BY <1>1, <1>3, <1>4 DEF Inductive

-----------------------------------------------------------------------------
(* The steps on files.                                                     *)

\* What a file may be for does not change.
LEMMA UploadsKept == UNCHANGED scope => UploadType' = UploadType
  BY DEF UploadType

\* A file is put off to its deletion, once.
LEMMA QueuedOnce ==
  ASSUME FilesType, NEW S
  PROVE  /\ Queued(deletion, S) \in [Keys -> {"none", "queued", "done"}]
         /\ \A k \in Keys : Queued(deletion, S)[k] =
                IF k \in S /\ deletion[k] = "none" THEN "queued" ELSE deletion[k]
  BY DEF FilesType, Queued

\* Consuming a file changes nothing else of it.
LEMMA Consumed ==
  ASSUME FilesType, NEW k \in Keys, upload' = [upload EXCEPT ![k].consumed = TRUE]
  PROVE  /\ upload' \in [Keys -> UploadType]
         /\ \A x \in Keys : /\ upload'[x].purpose = upload[x].purpose
                            /\ upload'[x].finalized <=> upload[x].finalized
                            /\ upload'[x].consumed <=> upload[x].consumed \/ x = k
<1>1. PICK f : f = [upload[k] EXCEPT !.consumed = TRUE]
  OBVIOUS
<1>2. upload \in [Keys -> UploadType] /\ upload[k] \in UploadType
  BY DEF FilesType
<1>3. /\ f \in UploadType /\ f.purpose = upload[k].purpose /\ f.finalized = upload[k].finalized
      /\ f.consumed
  BY <1>1, <1>2 DEF UploadType
<1>4. upload' = [upload EXCEPT ![k] = f]
  BY <1>1
<1>5. upload' \in [Keys -> UploadType] /\ upload'[k] = f /\ \A x \in Keys \ {k} : upload'[x] = upload[x]
  BY <1>2, <1>3, <1>4
<1> QED BY <1>3, <1>5

LEMMA IssueStep ==
  ASSUME Inductive, NEW k \in Keys, NEW purpose \in scope.uses, issueUpload(k, purpose)
  PROVE  Inductive'
<1> USE DEF Inductive, TypeOK, FilesType
<1>1. /\ upload' \in [Keys -> UploadType]
      /\ \A x \in Keys : /\ upload[x].purpose # "none" => upload'[x].purpose = upload[x].purpose
                         /\ upload'[x].finalized <=> upload[x].finalized
                         /\ upload'[x].consumed <=> upload[x].consumed
  BY DEF issueUpload, UploadType, account
<1>2. \A x \in Keys : x \in Issued => x \in Issued'
  BY <1>1 DEF Issued
<1>3. \A x \in Keys : FileOK(x)'
  BY <1>1, <1>2 DEF issueUpload, FilesOK, FileOK, Referenced, account, checks, pictures
<1>4. Purposed'
  BY <1>1, Rows DEF issueUpload, FilesOK, Purposed, checks, pictures, PicturesType
<1>5. FilesOK'
  BY <1>3, <1>4 DEF issueUpload, FilesOK, checks
<1>6. FilesType' /\ PicturesType'
  BY <1>1, UploadsKept DEF issueUpload, PicturesType, pictures, account
<1> QED BY <1>5, <1>6, FilesStep DEF issueUpload

\* What else an upload goes through, until it is consumed.
LEMMA UploadStep ==
  ASSUME Inductive, NEW k \in Keys, Put(k) \/ finalizeUpload(k) \/ Age(k) \/ CleanStaging(k)
  PROVE  Inductive'
<1> USE DEF Inductive, TypeOK, FilesType
<1>1. /\ UNCHANGED <<account, checks, provider, deletion, pictures, task>>
      /\ staged' \subseteq Keys /\ stored' \subseteq Keys
      /\ stored \subseteq stored'
      /\ \A x \in Keys : x \in stored' => x \in stored \/ deletion[x] = "none"
  BY DEF Put, finalizeUpload, Age, CleanStaging
<1>2. /\ upload' \in [Keys -> UploadType]
      /\ \A x \in Keys : /\ upload'[x].purpose = upload[x].purpose
                         /\ upload'[x].consumed <=> upload[x].consumed
                         /\ upload[x].finalized => upload'[x].finalized
                         /\ upload'[x].finalized => upload[x].finalized \/ (x \in Issued /\ x \in stored')
  <2>1. CASE UNCHANGED upload
    BY <2>1
  <2>2. CASE Age(k)
    BY <2>2 DEF Age, UploadType
  <2>3. CASE finalizeUpload(k) /\ upload' = [upload EXCEPT ![k].finalized = TRUE]
    <3>1. PICK f : f = [upload[k] EXCEPT !.finalized = TRUE]
      OBVIOUS
    <3>2. upload[k] \in UploadType
      OBVIOUS
    <3>3. /\ f \in UploadType /\ f.purpose = upload[k].purpose /\ f.consumed = upload[k].consumed
          /\ f.finalized
      BY ONLY <3>1, <3>2 DEF UploadType
    <3>4. upload' = [upload EXCEPT ![k] = f]
      BY <2>3, <3>1
    <3>5. upload' \in [Keys -> UploadType] /\ upload'[k] = f
          /\ \A x \in Keys \ {k} : upload'[x] = upload[x]
      BY <3>3, <3>4
    <3>6. k \in Issued /\ k \in stored'
      BY <2>3 DEF finalizeUpload
    <3> QED BY <3>3, <3>5, <3>6
  <2> QED BY <2>1, <2>2, <2>3 DEF Put, finalizeUpload, CleanStaging
<1>3. \A x \in Keys : FileOK(x)'
  BY <1>1, <1>2 DEF FilesOK, FileOK, Referenced, Issued, account, checks, pictures
<1>4. Purposed'
  BY <1>1, <1>2, Rows DEF FilesOK, Purposed, checks, pictures, PicturesType
<1>5. FilesOK'
  BY <1>1, <1>3, <1>4 DEF FilesOK, checks
<1>6. FilesType' /\ PicturesType'
  BY <1>1, <1>2, UploadsKept DEF PicturesType, pictures, account
<1> QED BY <1>1, <1>5, <1>6, FilesStep

\* The picture of a profile is replaced, and the old one queued.
LEMMA AvatarStep ==
  ASSUME Inductive, NEW k \in Keys, setAvatar(k)
  PROVE  Inductive'
<1> USE DEF Inductive, TypeOK
<1>1. /\ upload' \in [Keys -> UploadType]
      /\ \A x \in Keys : /\ upload'[x].purpose = upload[x].purpose
                         /\ upload'[x].finalized <=> upload[x].finalized
                         /\ upload'[x].consumed <=> upload[x].consumed \/ x = k
  BY Consumed DEF setAvatar, Consume
<1>2. /\ deletion' \in [Keys -> {"none", "queued", "done"}]
      /\ \A x \in Keys : deletion'[x] =
             IF x \in Replacing(k) /\ deletion[x] = "none" THEN "queued" ELSE deletion[x]
  BY QueuedOnce DEF setAvatar, scheduleDeletion
<1>3. /\ upload[k].purpose = "avatar" /\ upload[k].finalized /\ deletion[k] = "none"
      /\ avatar' = k /\ UNCHANGED <<account, checks, provider, staged, stored, portfolio, task>>
      /\ k # None
  BY DEF setAvatar, Consume, Consumable
<1>4. \A x \in Keys : Referenced(x)' <=> x = k \/ (x # avatar /\ Referenced(x))
  BY <1>3 DEF Referenced, checks, FilesOK, Purposed, PicturesType
<1>5. \A x \in Keys : FileOK(x)'
  BY <1>1, <1>2, <1>3, <1>4 DEF FilesOK, FileOK, Issued, account, Replacing
<1>6. Purposed'
  BY <1>1, <1>3, Rows DEF FilesOK, Purposed, checks, PicturesType
<1>7. FilesOK'
  BY <1>3, <1>5, <1>6 DEF FilesOK, checks
<1>8. FilesType' /\ PicturesType'
  BY <1>1, <1>2, <1>3, UploadsKept DEF PicturesType, FilesType, account
<1> QED BY <1>3, <1>7, <1>8, FilesStep

\* A photo is added, or sent again.
LEMMA AddStep ==
  ASSUME Inductive, NEW k \in Keys, addPhoto(k)
  PROVE  Inductive'
<1> USE DEF Inductive, TypeOK
<1>1. /\ upload' \in [Keys -> UploadType]
      /\ \A x \in Keys : /\ upload'[x].purpose = upload[x].purpose
                         /\ upload'[x].finalized <=> upload[x].finalized
                         /\ upload'[x].consumed <=> upload[x].consumed \/ x = k
  BY Consumed DEF addPhoto, Consume
<1>2. /\ upload[k].purpose = "portfolio" /\ upload[k].finalized /\ deletion[k] = "none"
      /\ portfolio' = portfolio \cup {k}
      /\ UNCHANGED <<account, checks, provider, staged, stored, deletion, avatar, task>>
  BY DEF addPhoto, Consume, Consumable
<1>3. \A x \in Keys : Referenced(x)' <=> x = k \/ Referenced(x)
  BY <1>2 DEF Referenced, checks
<1>4. \A x \in Keys : FileOK(x)'
  BY <1>1, <1>2, <1>3 DEF FilesOK, FileOK, Issued, account
<1>5. Purposed'
  BY <1>1, <1>2, Rows DEF FilesOK, Purposed, checks, PicturesType
<1>6. FilesOK'
  BY <1>2, <1>4, <1>5 DEF FilesOK, checks
<1>7. Cardinality(portfolio') <= MaxPhotos
  <2>1. IsFiniteSet(portfolio) /\ Cardinality(portfolio) \in Nat
    BY FS_Subset, FS_CardinalityType DEF PicturesType
  <2>2. CASE k \in portfolio
    <3>1. portfolio' = portfolio
      BY <1>2, <2>2
    <3> QED BY <3>1 DEF PicturesType
  <2>3. CASE k \notin portfolio
    <3>1. Cardinality(portfolio \cup {k}) = Cardinality(portfolio) + 1
      BY <2>1, <2>3, FS_AddElement
    <3> QED BY <1>2, <2>1, <2>3, <3>1 DEF addPhoto
  <2> QED BY <2>2, <2>3
<1>8. FilesType' /\ PicturesType'
  BY <1>1, <1>2, <1>7, UploadsKept DEF PicturesType, FilesType, account
<1> QED BY <1>2, <1>6, <1>8, FilesStep

\* A photo is removed and queued.
LEMMA RemoveStep ==
  ASSUME Inductive, NEW k \in Keys, removePhoto(k)
  PROVE  Inductive'
<1> USE DEF Inductive, TypeOK
<1>1. /\ deletion' \in [Keys -> {"none", "queued", "done"}]
      /\ \A x \in Keys : deletion'[x] =
             IF x = k /\ deletion[x] = "none" THEN "queued" ELSE deletion[x]
  BY QueuedOnce DEF removePhoto, scheduleDeletion
<1>2. /\ k \in portfolio /\ portfolio' = portfolio \ {k}
      /\ UNCHANGED <<account, checks, provider, upload, staged, stored, avatar, task>>
  BY DEF removePhoto
<1>3. \A x \in Keys : Referenced(x)' <=> x # k /\ Referenced(x)
  BY <1>2 DEF Referenced, checks, FilesOK, Purposed
<1>4. \A x \in Keys : FileOK(x)'
  BY <1>1, <1>2, <1>3 DEF FilesOK, FileOK, Issued, account
<1>5. Purposed'
  BY <1>2 DEF FilesOK, Purposed, checks
<1>6. FilesOK'
  BY <1>2, <1>4, <1>5 DEF FilesOK, checks
<1>7. Cardinality(portfolio') <= MaxPhotos
  <2>1. IsFiniteSet(portfolio) /\ Cardinality(portfolio) \in Nat
    BY FS_Subset, FS_CardinalityType DEF PicturesType
  <2>2. Cardinality(portfolio \ {k}) = Cardinality(portfolio) - 1
    BY <1>2, <2>1, FS_RemoveElement
  <2> QED BY <1>2, <2>1, <2>2 DEF PicturesType
<1>8. FilesType' /\ PicturesType'
  BY <1>1, <1>2, <1>7, UploadsKept DEF PicturesType, FilesType, account
<1> QED BY <1>2, <1>6, <1>8, FilesStep

\* What nobody attached is queued; what is queued and not shown is deleted.
LEMMA CleanupStep ==
  ASSUME Inductive, NEW k \in Keys, Abandon(k) \/ Clean(k)
  PROVE  Inductive'
<1> USE DEF Inductive, TypeOK
<1>1. /\ ~ Referenced(k)
      /\ UNCHANGED <<account, checks, provider, upload, staged, pictures, task>>
      /\ stored' \in {stored, stored \ {k}}
  BY DEF Abandon, Clean, FilesOK, FileOK
<1>2. /\ deletion' \in [Keys -> {"none", "queued", "done"}]
      /\ deletion'[k] # "none" /\ (k \in stored' => deletion'[k] # "done")
      /\ \A x \in Keys \ {k} : deletion'[x] = deletion[x]
  <2>1. CASE Abandon(k)
    BY <2>1, QueuedOnce DEF Abandon, scheduleDeletion
  <2>2. CASE Clean(k)
    BY <2>2 DEF Clean, FilesType
  <2> QED BY <2>1, <2>2
<1>3. \A x \in Keys : Referenced(x)' <=> Referenced(x)
  BY <1>1 DEF Referenced, checks, pictures
<1>4. \A x \in Keys : FileOK(x)'
  BY <1>1, <1>2, <1>3 DEF FilesOK, FileOK, Issued, account
<1>5. Purposed'
  BY <1>1 DEF FilesOK, Purposed, checks, pictures
<1>6. FilesOK'
  BY <1>1, <1>4, <1>5 DEF FilesOK, checks
<1>7. FilesType' /\ PicturesType'
  BY <1>1, <1>2, UploadsKept DEF PicturesType, FilesType, pictures, account
<1> QED BY <1>1, <1>6, <1>7, FilesStep

-----------------------------------------------------------------------------
(* The steps on the checks.                                                *)

\* A step on the checks that keeps every file where it is.
LEMMA ChecksStep ==
  ASSUME Inductive, TypeOK', ProfileOK', StandingOK', FlightOK',
         UNCHANGED <<upload, stored, deletion, avatar, portfolio, owed>>,
         SameFiles(attempts, attempts'), SameFiles(business, business')
  PROVE  Inductive'
  BY FilesRest DEF Inductive

\* Nothing happens to the rows.
LEMMA RowsKept ==
  ASSUME UNCHANGED checks
  PROVE  /\ SameFiles(attempts, attempts') /\ SameFiles(business, business')
         /\ SameDecisions(attempts, attempts') /\ SameDecisions(business, business')
  BY DEF checks, SameFiles, SameDecisions

\* A request or a callback begins, learns something or ends.
LEMMA TaskStep ==
  ASSUME Inductive, NEW p \in Procs, NEW t \in TaskType, TaskOK(t),
         UNCHANGED <<account, checks, jobs, files, pictures>>, cached' \subseteq Jobs,
         task' = [task EXCEPT ![p] = t]
  PROVE  Inductive'
<1> USE DEF Inductive
<1>1. TypeOK'
  BY UploadsKept DEF TypeOK, AccountType, ChecksType, ProviderType, FilesType, PicturesType, account,
     checks, files, pictures, Latest
<1>2. ProfileOK' /\ StandingOK'
  BY <1>1, RowsKept, ProfileRest, StandingRest DEF account, checks
<1>3. TaskOK(t)'
  BY DEF TaskOK, checks
<1>4. \A q \in Procs : task'[q] = task[q] \/ TaskOK(task[q])'
  <2>1. task'[p] = t /\ \A q \in Procs \ {p} : task'[q] = task[q]
    BY DEF TypeOK
  <2>2. TaskOK(task[p])'
    BY <1>3, <2>1
  <2> QED BY <2>1, <2>2
<1>5. FlightOK'
  BY <1>4, FlightRest DEF checks
<1> QED BY <1>1, <1>2, <1>5, RowsKept, ChecksStep DEF account, files, pictures

\* A process with nothing to do.
LEMMA IdleTask == Idle \in TaskType /\ TaskOK(Idle)
  BY DEF Idle, TaskType, TaskOK

LEMMA DropStep ==
  ASSUME Inductive, NEW p \in Procs, Drop(p)
  PROVE  Inductive'
<1>1. /\ UNCHANGED <<account, checks, jobs, files, pictures>> /\ cached' = cached
      /\ task' = [task EXCEPT ![p] = Idle]
  BY DEF Drop, End, provider
<1> QED BY <1>1, IdleTask, TaskStep DEF Inductive, TypeOK, ProviderType

\* A capture, and what the provider makes of it.
LEMMA JobTypes ==
  ASSUME ProviderType, NEW j \in Jobs, jobs[j] # NoJob
  PROVE  /\ jobs[j] \in [attempt : Nat, verdict : Verdicts \cup {"pending"}, names : Names]
  BY DEF ProviderType, JobType

LEMMA FetchStep ==
  ASSUME Inductive, NEW p \in Procs, NEW j \in Jobs, NEW evident \in BOOLEAN, Fetch(p, j, evident)
  PROVE  Inductive'
<1>1. PICK says : says = checkSubmittedNames(j, evident)
  OBVIOUS
<1>2. PICK job : job = jobs[j]
  OBVIOUS
<1>3. /\ job \in [attempt : Nat, verdict : Verdicts \cup {"pending"}, names : Names]
      /\ job.attempt \in Nat /\ job.verdict \in Verdicts \cup {"pending"} /\ job.names \in Names
      /\ job.attempt \in DOMAIN attempts
  BY <1>2, JobTypes DEF Fetch, Inductive, TypeOK, FlightOK
<1>4. /\ says \in {"pending", "verified", "rejected"}
      /\ says = "verified" => job.verdict = "verified" /\ job.names = "matched"
  <2>1. CASE job.verdict # "verified"
    BY <1>1, <1>2, <1>3, <2>1 DEF checkSubmittedNames, Verdicts
  <2>2. CASE job.verdict = "verified"
    <3>1. says = CASE evident /\ job.names = "matched" -> "verified"
                   [] evident /\ job.names = "mismatch" -> "rejected"
                   [] OTHER -> "pending"
      BY <1>1, <1>2, <2>2 DEF checkSubmittedNames
    <3>2. CASE evident /\ job.names = "matched"
      BY <2>2, <3>1, <3>2
    <3>3. CASE evident /\ job.names = "mismatch"
      BY <3>1, <3>3
    <3>4. CASE ~ evident \/ job.names \notin {"matched", "mismatch"}
      BY <3>1, <3>4
    <3> QED BY <3>2, <3>3, <3>4
  <2> QED BY <2>1, <2>2
<1>5. PICK t : t = [kind |-> "callback", n |-> job.attempt, job |-> j, says |-> says]
  OBVIOUS
<1>6. t \in TaskType
  BY <1>3, <1>4, <1>5 DEF TaskType, Verdicts
<1>7. says = "verified" => job = [attempt |-> job.attempt, verdict |-> "verified", names |-> "matched"]
  BY <1>3, <1>4
<1>8. TaskOK(t)
  BY <1>2, <1>3, <1>4, <1>5, <1>7 DEF TaskOK
<1>9. /\ UNCHANGED <<account, checks, jobs, files, pictures>>
      /\ task' = [task EXCEPT ![p] = t]
  BY <1>1, <1>2, <1>5 DEF Fetch, Begin
<1>10. cached' \subseteq Jobs
  BY DEF Fetch, Inductive, TypeOK, ProviderType
<1> QED BY <1>6, <1>8, <1>9, <1>10, TaskStep

LEMMA OpenStep ==
  ASSUME Inductive, NEW p \in Procs, NEW n \in DOMAIN attempts, NEW decision \in Decisions,
         OpenReview(p, n, decision)
  PROVE  Inductive'
<1>1. PICK job : job = IF attempts[n].job \in cached THEN attempts[n].job ELSE None
  OBVIOUS
<1>2. job \in Jobs \cup {None} /\ n \in Nat
  BY <1>1 DEF Inductive, TypeOK, ProviderType, ChecksType
<1>3. PICK t : t = [kind |-> "review", n |-> n, says |-> decision, job |-> job]
  OBVIOUS
<1>4. t \in TaskType
  BY <1>2, <1>3 DEF TaskType
<1>5. TaskOK(t)
  BY <1>3 DEF TaskOK
<1>6. /\ UNCHANGED <<account, checks, jobs, files, pictures>> /\ cached' = cached
      /\ task' = [task EXCEPT ![p] = t]
  BY <1>1, <1>3 DEF OpenReview, Begin, provider
<1> QED BY <1>4, <1>5, <1>6, TaskStep DEF Inductive, TypeOK, ProviderType

LEMMA RefreshStep ==
  ASSUME Inductive, NEW p \in Procs, NEW n \in DOMAIN business, refreshBusinessVerification(p, n)
  PROVE  Inductive'
<1>1. PICK t : t = [kind |-> "lookup", n |-> n, job |-> None, says |-> "none"]
  OBVIOUS
<1>2. t \in TaskType /\ TaskOK(t)
  <2>1. n \in Nat
    BY DEF Inductive, TypeOK, ChecksType
  <2> QED BY <1>1, <2>1 DEF TaskType, TaskOK
<1>3. /\ UNCHANGED <<account, checks, jobs, files, pictures>> /\ cached' = cached
      /\ task' = [task EXCEPT ![p] = t]
  BY <1>1 DEF refreshBusinessVerification, Begin, provider
<1> QED BY <1>2, <1>3, TaskStep DEF Inductive, TypeOK, ProviderType

LEMMA LookupStep ==
  ASSUME Inductive, NEW p \in Procs, NEW answer \in {"VERIFIED", "OTHER"}, Lookup(p, answer)
  PROVE  Inductive'
<1>1. PICK t : t = [task[p] EXCEPT !.says = answer]
  OBVIOUS
<1>2. task[p] \in TaskType /\ TaskOK(task[p]) /\ task[p].kind = "lookup"
  BY DEF Inductive, TypeOK, FlightOK, Lookup
<1>3. /\ t \in TaskType /\ t.kind = "lookup" /\ t.n = task[p].n /\ t.says = answer
  BY <1>1, <1>2 DEF TaskType
<1>4. TaskOK(t)
  BY <1>2, <1>3 DEF TaskOK
<1>5. /\ UNCHANGED <<account, checks, jobs, files, pictures>> /\ cached' = cached
      /\ task' = [task EXCEPT ![p] = t]
  BY <1>1 DEF Lookup, provider
<1> QED BY <1>3, <1>4, <1>5, TaskStep DEF Inductive, TypeOK, ProviderType

LEMMA ForgetStep ==
  ASSUME Inductive, NEW j \in Jobs, Forget(j)
  PROVE  Inductive'
<1> USE DEF Inductive
<1>1. TypeOK'
  BY UploadsKept DEF Forget, TypeOK, AccountType, ChecksType, ProviderType, FilesType, PicturesType,
     account, checks, files, pictures, Latest
<1>2. ProfileOK' /\ StandingOK'
  BY <1>1, RowsKept, ProfileRest, StandingRest DEF Forget, account, checks
<1>3. FlightOK'
  BY FlightRest DEF Forget, checks
<1> QED BY <1>1, <1>2, <1>3, RowsKept, ChecksStep DEF Forget, account, files, pictures

\* What the provider makes of a capture does not touch a verdict that was given.
LEMMA ProviderStep ==
  ASSUME Inductive, NEW j \in Jobs,
         \/ \E n \in DOMAIN attempts, names \in Names : Capture(j, n, names)
         \/ \E verdict \in Verdicts : Judge(j, verdict)
  PROVE  Inductive'
<1> USE DEF Inductive
<1>1. UNCHANGED <<account, checks, cached, files, pictures, task>>
  BY DEF Capture, Judge
<1>2. /\ jobs' \in [Jobs -> JobType]
      /\ \A i \in Jobs \ {j} : jobs'[i] = jobs[i]
      /\ jobs[j].verdict # "verified"
      /\ jobs'[j].attempt \in DOMAIN attempts
  <2>1. CASE \E n \in DOMAIN attempts, names \in Names : Capture(j, n, names)
    <3>1. PICK n \in DOMAIN attempts, names \in Names : Capture(j, n, names)
      BY <2>1
    <3>2. PICK job : job = [attempt |-> n, verdict |-> "pending", names |-> names]
      OBVIOUS
    <3>3. job \in JobType /\ job.attempt = n
      <4>1. n \in Nat
        BY DEF TypeOK, ChecksType
      <4> QED BY <3>2, <4>1 DEF JobType
    <3>4. jobs' = [jobs EXCEPT ![j] = job] /\ jobs[j] = NoJob
      BY <3>1, <3>2 DEF Capture
    <3>5. jobs[j].verdict # "verified"
      BY <3>4 DEF NoJob
    <3> QED BY <3>3, <3>4, <3>5 DEF TypeOK, ProviderType
  <2>2. CASE \E verdict \in Verdicts : Judge(j, verdict)
    <3>1. PICK verdict \in Verdicts : Judge(j, verdict)
      BY <2>2
    <3>2. jobs[j].verdict = "pending" /\ jobs[j] # NoJob
      BY <3>1 DEF Judge, NoJob
    <3>3. PICK job : job = [jobs[j] EXCEPT !.verdict = verdict]
      OBVIOUS
    <3>4. job \in JobType /\ job.attempt = jobs[j].attempt
      BY <3>2, <3>3, JobTypes DEF TypeOK, JobType
    <3>5. jobs' = [jobs EXCEPT ![j] = job]
      BY <3>1, <3>3 DEF Judge
    <3> QED BY <3>2, <3>4, <3>5 DEF TypeOK, ProviderType, FlightOK
  <2> QED BY <2>1, <2>2
<1>3. TypeOK'
  BY <1>1, <1>2, UploadsKept DEF TypeOK, AccountType, ChecksType, ProviderType, FilesType,
     PicturesType, account, checks, files, pictures, Latest
<1>4. \A i \in Jobs : jobs[i].verdict = "verified" => jobs'[i] = jobs[i]
  BY <1>2
<1>5. ProfileOK'
  <2>1. UNCHANGED StatusAgrees
    BY <1>1 DEF StatusAgrees, Latest, account, checks
  <2>2. VerifiedIsEarned'
    BY <1>1, <1>4 DEF ProfileOK, VerifiedIsEarned, Latest, checks
  <2> QED BY <1>1, <2>1, <2>2 DEF ProfileOK, checks
<1>6. StandingOK'
  BY <1>1, <1>3, RowsKept, StandingRest DEF account, checks
<1>7. FlightOK'
  <2>1. \A i \in Jobs : jobs'[i] # NoJob => jobs'[i].attempt \in DOMAIN attempts
    BY <1>2 DEF FlightOK
  <2>2. \A p \in Procs : TaskOK(task[p])'
    BY <1>1, <1>4 DEF FlightOK, TaskOK, checks
  <2> QED BY <1>1, <2>1, <2>2 DEF FlightOK, checks
<1> QED BY <1>1, <1>3, <1>5, <1>6, <1>7, RowsKept, ChecksStep DEF account, files, pictures

\* The account is suspended or reinstated, or says what it is.
LEMMA AccountStep ==
  ASSUME Inductive,
         \/ Suspend \/ Reinstate
         \/ \E type \in {"INDIVIDUAL", "BUSINESS"} : chooseClientAccountType(type)
  PROVE  Inductive'
<1> USE DEF Inductive
<1>1. /\ UNCHANGED <<scope, erased, owed, checks, provider, files, pictures, task>>
      /\ owner' \in {"ACTIVE", "SUSPENDED", "ANONYMIZED"}
      /\ accountType' \in {"NONE", "INDIVIDUAL", "BUSINESS"}
      /\ accountType = "BUSINESS" => accountType' = accountType
  BY DEF Suspend, Reinstate, chooseClientAccountType, TypeOK, AccountType
<1>2. TypeOK'
  BY <1>1, UploadsKept DEF TypeOK, AccountType, ChecksType, ProviderType, FilesType,
     PicturesType, provider, checks, files, pictures, Latest
<1>3. ProfileOK'
  BY <1>1, <1>2, RowsKept, ProfileRest DEF checks, provider
<1>4. StandingOK'
  BY <1>1 DEF StandingOK, checks
<1>5. FlightOK'
  BY <1>1, FlightRest DEF checks, provider
<1> QED BY <1>1, <1>2, <1>3, <1>4, <1>5, RowsKept, ChecksStep DEF files, pictures

\* A submission is the latest, and open.
LEMMA SubmitStep ==
  ASSUME Inductive, NEW a \in AttemptType, a.status = "PENDING", Submit(a),
         UNCHANGED <<account, standing, business, provider, task>>
  PROVE  /\ ProfileOK' /\ StandingOK' /\ FlightOK' /\ ChecksType'
<1> USE DEF Inductive
<1>1. /\ attempts \in Seq(AttemptType) /\ attempts' = Append(attempts, a) /\ status' = "PENDING"
      /\ Latest < scope.submissions /\ UNCHANGED scope /\ scope.submissions \in Int
  BY DEF Submit, TypeOK, ChecksType, AccountType, account
<1>2. /\ attempts' \in Seq(AttemptType) /\ Latest' = Latest + 1 /\ Latest \in Nat
      /\ attempts'[Latest'] = a /\ DOMAIN attempts \subseteq DOMAIN attempts' /\ attempts' # <<>>
  BY <1>1, RowAdded, LastRow DEF Latest
<1>3. ChecksType'
  BY <1>1, <1>2 DEF TypeOK, ChecksType
<1>4. ProfileOK'
  <2>1. Outcome("PENDING") = "PENDING"
    BY DEF Outcome
  <2>2. StatusAgrees'
    BY <1>1, <1>2, <2>1 DEF ProfileOK, StatusAgrees, account
  <2> QED BY <1>1, <1>2, <2>2 DEF ProfileOK, VerifiedIsEarned
<1>5. StandingOK'
  BY DEF StandingOK, account
<1>6. FlightOK'
  BY <1>2, FlightRest DEF provider
<1> QED BY <1>3, <1>4, <1>5, <1>6

LEMMA BiometricStep ==
  ASSUME Inductive, startBiometricVerification
  PROVE  Inductive'
<1> USE DEF Inductive
<1>1. Biometric \in AttemptType /\ Biometric.status = "PENDING" /\ Biometric.file = None
  BY DEF Biometric, AttemptType
<1>2. /\ ProfileOK' /\ StandingOK' /\ FlightOK' /\ ChecksType'
  BY <1>1, SubmitStep DEF startBiometricVerification
<1>3. TypeOK'
  BY <1>2, UploadsKept DEF startBiometricVerification, TypeOK, AccountType, ProviderType, FilesType,
     PicturesType, account, provider, files, pictures
<1>4. SameFiles(attempts, attempts') /\ SameFiles(business, business')
  <2>1. attempts \in Seq(AttemptType) /\ attempts' = Append(attempts, Biometric) /\ business' = business
    BY DEF startBiometricVerification, Submit, TypeOK, ChecksType
  <2>2. /\ \A n \in DOMAIN attempts : n \in DOMAIN attempts' /\ attempts'[n] = attempts[n]
        /\ \A n \in DOMAIN attempts' : n \in DOMAIN attempts \/ attempts'[n] = Biometric
    BY <1>1, <2>1, RowAdded
  <2> QED BY <1>1, <2>1, <2>2 DEF SameFiles
<1> QED BY <1>2, <1>3, <1>4, ChecksStep DEF startBiometricVerification, account, files, pictures

\* A process ends.
LEMMA EndTask ==
  ASSUME Inductive, NEW p \in Procs, task' = [task EXCEPT ![p] = Idle]
  PROVE  /\ task' \in [Procs -> TaskType]
         /\ \A q \in Procs : task'[q] = task[q] \/ TaskOK(task[q])'
<1>1. task' \in [Procs -> TaskType] /\ task'[p] = Idle /\ \A q \in Procs \ {p} : task'[q] = task[q]
  BY IdleTask DEF Inductive, TypeOK
<1>2. TaskOK(task[p])'
  BY <1>1 DEF TaskOK, Idle
<1> QED BY <1>1, <1>2

\* A row of the identity check is written, whose file stays.
LEMMA RowStep ==
  ASSUME Inductive, NEW p \in Procs, NEW n \in DOMAIN attempts, NEW row \in AttemptType,
         row.file = attempts[n].file, attempts' = [attempts EXCEPT ![n] = row],
         status' \in {"PENDING", "VERIFIED", "REJECTED"}, ProfileOK',
         task' = [task EXCEPT ![p] = Idle],
         UNCHANGED <<account, standing, business, provider, files, pictures>>
  PROVE  Inductive'
<1> USE DEF Inductive
<1>1. /\ attempts \in Seq(AttemptType) /\ attempts' \in Seq(AttemptType)
      /\ Latest' = Latest /\ DOMAIN attempts' = DOMAIN attempts
      /\ attempts'[n] = row /\ \A m \in DOMAIN attempts \ {n} : attempts'[m] = attempts[m]
  BY RowWritten DEF TypeOK, ChecksType, Latest
<1>2. TypeOK'
  BY <1>1, EndTask, UploadsKept DEF TypeOK, AccountType, ChecksType, ProviderType, FilesType, PicturesType,
     account, provider, files, pictures
<1>3. StandingOK'
  BY DEF StandingOK, account
<1>4. FlightOK'
  BY <1>1, EndTask, FlightRest DEF provider
<1>5. SameFiles(attempts, attempts') /\ SameFiles(business, business')
  BY <1>1 DEF SameFiles
<1> QED BY <1>2, <1>3, <1>4, <1>5, ChecksStep DEF account, files, pictures

\* The latest submission is decided.
LEMMA DecidedProfile ==
  ASSUME Inductive, Latest \in DOMAIN attempts, NEW row \in AttemptType,
         attempts' = [attempts EXCEPT ![Latest] = row],
         status' = Outcome(row.status), UNCHANGED <<account, standing, business, provider>>,
         status' = "VERIFIED" =>
            row.manual \/ \E j \in Jobs : jobs[j] = [attempt |-> Latest, verdict |-> "verified",
                                                     names |-> "matched"]
  PROVE  ProfileOK'
<1> USE DEF Inductive
<1>1. PICK n : n = Latest
  OBVIOUS
<1>2. /\ Latest' = n /\ n \in DOMAIN attempts' /\ attempts'[n] = row /\ n \in Nat \ {0}
      /\ attempts' # <<>>
  BY <1>1, RowWritten, LastRow DEF TypeOK, ChecksType, Latest
<1>3. StatusAgrees'
  BY <1>1, <1>2 DEF ProfileOK, StatusAgrees, account
<1>4. VerifiedIsEarned'
  BY <1>1, <1>2 DEF VerifiedIsEarned, provider
<1> QED BY <1>2, <1>3, <1>4 DEF ProfileOK

LEMMA ApplyStep ==
  ASSUME Inductive, NEW p \in Procs, applyKycResult(p)
  PROVE  Inductive'
<1>1. PICK t : t = task[p]
  OBVIOUS
<1>2. PICK n : n = Latest
  OBVIOUS
<1>3. /\ t.kind = "callback" /\ t.n = n /\ t \in TaskType /\ TaskOK(t) /\ t.job \in Jobs
      /\ n \in DOMAIN attempts /\ attempts[n] \in AttemptType /\ attempts[n].status = "PENDING"
      /\ task' = [task EXCEPT ![p] = Idle]
      /\ UNCHANGED <<account, standing, business, provider, files, pictures>>
  BY <1>1, <1>2, Rows DEF Inductive, TypeOK, FlightOK, TaskOK, applyKycResult, Settles, End
<1>4. CASE t.says = "pending"
  <2>1. PICK row : row = [attempts[n] EXCEPT !.job = t.job]
    OBVIOUS
  <2>2. /\ row \in AttemptType /\ row.file = attempts[n].file /\ row.status = attempts[n].status
        /\ row.manual <=> attempts[n].manual
    BY <1>3, <2>1 DEF AttemptType
  <2>3. attempts' = [attempts EXCEPT ![n] = row] /\ status' = status
    BY <1>1, <1>3, <1>4, <2>1 DEF applyKycResult
  <2>4. ProfileOK'
    <3>1. /\ Latest' = Latest /\ n \in Nat \ {0} /\ attempts'[n] = row /\ attempts' # <<>>
      BY <1>2, <1>3, <2>2, <2>3, RowWritten, LastRow DEF Inductive, TypeOK, ChecksType, Latest
    <3>2. StatusAgrees'
      BY <1>2, <1>3, <2>2, <2>3, <3>1 DEF Inductive, ProfileOK, StatusAgrees, account
    <3>3. VerifiedIsEarned'
      BY <1>2, <1>3, <2>2, <2>3, <3>1 DEF Inductive, ProfileOK, VerifiedIsEarned, provider
    <3> QED BY <2>3, <3>1, <3>2, <3>3 DEF ProfileOK
  <2>5. status' \in {"PENDING", "VERIFIED", "REJECTED"}
    BY <2>3 DEF Inductive, TypeOK, ChecksType
  <2> QED BY <1>3, <2>2, <2>3, <2>4, <2>5, RowStep
<1>5. CASE t.says # "pending"
  <2>1. PICK decision : decision = Decided(t.says = "verified")
    OBVIOUS
  <2>2. PICK row : row = [[attempts[n] EXCEPT !.job = t.job] EXCEPT !.status = decision]
    OBVIOUS
  <2>3. decision \in Decisions /\ (decision = "APPROVED" <=> t.says = "verified")
    BY <2>1 DEF Decided, Decisions
  <2>4. row \in AttemptType /\ row.file = attempts[n].file /\ row.status = decision
    BY <1>3, <2>2, <2>3 DEF AttemptType
  <2>5. attempts' = [attempts EXCEPT ![n] = row] /\ status' = Verified(t.says = "verified")
    BY <1>1, <1>3, <1>5, <2>1, <2>2 DEF applyKycResult
  <2>6. status' = Outcome(row.status) /\ status' \in {"VERIFIED", "REJECTED"}
    BY <2>3, <2>4, <2>5 DEF Verified, Outcome, Decisions
  <2>7. status' = "VERIFIED" =>
           \E j \in Jobs : jobs[j] = [attempt |-> n, verdict |-> "verified", names |-> "matched"]
    BY <1>3, <2>5 DEF TaskOK, Verified
  <2>8. ProfileOK'
    BY <1>2, <1>3, <2>4, <2>5, <2>6, <2>7, DecidedProfile
  <2> QED BY <1>3, <2>4, <2>5, <2>6, <2>8, RowStep
<1> QED BY <1>4, <1>5

LEMMA ReviewStep ==
  ASSUME Inductive, NEW p \in Procs, reviewVerification(p)
  PROVE  Inductive'
<1>1. PICK t : t = task[p]
  OBVIOUS
<1>2. PICK n : n = Latest
  OBVIOUS
<1>3. /\ t.kind = "review" /\ t.n = n /\ t.says \in Decisions
      /\ n \in DOMAIN attempts /\ attempts[n] \in AttemptType
      /\ task' = [task EXCEPT ![p] = Idle]
      /\ UNCHANGED <<account, standing, business, provider, files, pictures>>
  BY <1>1, <1>2, Rows DEF Inductive, TypeOK, FlightOK, TaskOK, reviewVerification, Reviewable, End
<1>4. PICK row : row = [[attempts[n] EXCEPT !.status = t.says] EXCEPT !.manual = TRUE]
  OBVIOUS
<1>5. row \in AttemptType /\ row.file = attempts[n].file /\ row.status = t.says /\ row.manual
  BY <1>3, <1>4 DEF AttemptType
<1>6. attempts' = [attempts EXCEPT ![n] = row] /\ status' = Verified(t.says = "APPROVED")
  BY <1>1, <1>3, <1>4 DEF reviewVerification
<1>7. status' = Outcome(row.status) /\ status' \in {"VERIFIED", "REJECTED"}
  BY <1>3, <1>5, <1>6 DEF Verified, Outcome, Decisions
<1>8. ProfileOK'
  BY <1>2, <1>3, <1>5, <1>6, <1>7, DecidedProfile
<1> QED BY <1>3, <1>5, <1>6, <1>7, <1>8, RowStep

-----------------------------------------------------------------------------
(* The business check.                                                     *)

\* A row of the business check is written, whose file and account stay.
LEMMA BusinessRowStep ==
  ASSUME Inductive, NEW n \in DOMAIN business, NEW row \in BusinessType,
         row.file = business[n].file, business' = [business EXCEPT ![n] = row],
         task' \in [Procs -> TaskType], \A p \in Procs : task'[p] = task[p] \/ TaskOK(task[p])',
         standing' \in {"NOT_STARTED", "PENDING", "VERIFIED", "REJECTED"}, StatusAgrees', StandingOK',
         UNCHANGED <<account, status, attempts, provider, files, pictures>>
  PROVE  Inductive'
<1> USE DEF Inductive
<1>1. /\ business' \in Seq(BusinessType) /\ Len(business') = Len(business)
      /\ DOMAIN business' = DOMAIN business
      /\ business'[n] = row /\ \A m \in DOMAIN business \ {n} : business'[m] = business[m]
  BY RowWritten DEF TypeOK, ChecksType
<1>2. TypeOK'
  BY <1>1, UploadsKept DEF TypeOK, AccountType, ChecksType, ProviderType, FilesType, PicturesType,
     account, provider, files, pictures, Latest
<1>3. ProfileOK'
  BY DEF ProfileOK, VerifiedIsEarned, provider, Latest
<1>4. FlightOK'
  BY <1>1, FlightRest DEF provider
<1>5. SameFiles(attempts, attempts') /\ SameFiles(business, business')
  BY <1>1 DEF SameFiles
<1> QED BY <1>2, <1>3, <1>4, <1>5, ChecksStep DEF account, files, pictures

LEMMA SaveStep ==
  ASSUME Inductive, NEW p \in Procs, saveRegistryResult(p)
  PROVE  Inductive'
<1>1. PICK t : t = task[p]
  OBVIOUS
<1>2. PICK n : n = t.n
  OBVIOUS
<1>3. /\ n \in DOMAIN business /\ business[n] \in BusinessType /\ business[n].status = "PENDING"
      /\ t.says \in {"VERIFIED", "OTHER"}
      /\ task' = [task EXCEPT ![p] = Idle] /\ UNCHANGED <<account, status, attempts, standing, provider, files, pictures>>
  BY <1>1, <1>2, Rows DEF Inductive, TypeOK, FlightOK, TaskOK, saveRegistryResult, Savable, End
<1>4. PICK row : row = [business[n] EXCEPT !.registry = t.says]
  OBVIOUS
<1>5. /\ row \in BusinessType /\ row.file = business[n].file /\ row.status = "PENDING"
  BY <1>3, <1>4 DEF BusinessType
<1>6. business' = [business EXCEPT ![n] = row]
  BY <1>1, <1>2, <1>3, <1>4 DEF saveRegistryResult
<1>7. /\ Len(business') = Len(business) /\ DOMAIN business' = DOMAIN business
      /\ business'[n] = row /\ \A m \in DOMAIN business \ {n} : business'[m] = business[m]
      /\ (business # <<>> => Len(business) \in DOMAIN business)
      /\ (business # <<>> <=> Len(business) # 0) /\ (business' # <<>> <=> Len(business') # 0)
  <2>1. business' \in Seq(BusinessType)
    BY <1>3, <1>5, <1>6, RowWritten DEF Inductive, TypeOK, ChecksType
  <2> QED BY <1>3, <1>5, <1>6, <2>1, RowWritten, LastRow DEF Inductive, TypeOK, ChecksType
<1>8. SameDecisions(business, business')
  BY <1>3, <1>5, <1>7 DEF SameDecisions
<1>9. business # <<>> => business'[Len(business')].status = business[Len(business)].status
  BY <1>7, <1>8 DEF SameDecisions
<1>10. StatusAgrees'
  BY <1>3, <1>7, <1>9 DEF Inductive, ProfileOK, StatusAgrees, account, Latest
<1>11. StandingOK'
  BY <1>3, <1>5, <1>7, <1>9 DEF Inductive, StandingOK, account
<1>12. task' \in [Procs -> TaskType] /\ \A q \in Procs : task'[q] = task[q] \/ TaskOK(task[q])'
  BY <1>3, EndTask
<1>13. standing' \in {"NOT_STARTED", "PENDING", "VERIFIED", "REJECTED"}
  BY <1>3 DEF Inductive, TypeOK, ChecksType
<1> QED BY <1>3, <1>5, <1>6, <1>10, <1>11, <1>12, <1>13, BusinessRowStep

LEMMA ReviewBusinessStep ==
  ASSUME Inductive, NEW n \in DOMAIN business, NEW decision \in Decisions,
         reviewBusinessVerification(n, decision)
  PROVE  Inductive'
<1>1. /\ n = Len(business) /\ business[n] \in BusinessType
      /\ decision = "APPROVED" => business[n].registry = "VERIFIED"
      /\ UNCHANGED <<account, status, attempts, provider, files, pictures, task>>
  BY Rows DEF Inductive, reviewBusinessVerification
<1>2. PICK row : row = [business[n] EXCEPT !.status = decision]
  OBVIOUS
<1>3. /\ row \in BusinessType /\ row.file = business[n].file /\ row.status = decision
      /\ row.registry = business[n].registry
  BY <1>1, <1>2 DEF BusinessType
<1>4. /\ business' = [business EXCEPT ![n] = row]
      /\ standing' = Outcome(row.status) /\ standing' \in {"VERIFIED", "REJECTED"}
      /\ standing' = "VERIFIED" => row.status = "APPROVED"
  BY <1>2, <1>3 DEF reviewBusinessVerification, Verified, Outcome, Decisions
<1>5. /\ Len(business') = n /\ DOMAIN business' = DOMAIN business /\ n # 0 /\ business' # <<>>
      /\ business # <<>>
      /\ business'[n] = row /\ \A m \in DOMAIN business \ {n} : business'[m] = business[m]
  <2>1. business \in Seq(BusinessType) /\ business' \in Seq(BusinessType)
    BY <1>3, <1>4, RowWritten DEF Inductive, TypeOK, ChecksType
  <2>2. n \in 1..Len(business)
    BY <2>1
  <2> QED BY <1>1, <1>3, <1>4, <2>1, <2>2, RowWritten, LastRow
<1>6. StatusAgrees'
  BY <1>1, <1>4, <1>5 DEF Inductive, ProfileOK, StatusAgrees, account, Latest
<1>7. StandingOK'
  BY <1>1, <1>3, <1>4, <1>5 DEF Inductive, StandingOK, account
<1>8. task' \in [Procs -> TaskType] /\ \A q \in Procs : task'[q] = task[q]
  BY <1>1 DEF Inductive, TypeOK
<1> QED BY <1>1, <1>3, <1>4, <1>6, <1>7, <1>8, BusinessRowStep

-----------------------------------------------------------------------------
(* Steps on a submission and its file.                                     *)

\* A file is attached to the row that is added for it.
LEMMA SubmitDocumentStep ==
  ASSUME Inductive, NEW k \in Keys, submitDocumentVerification(k)
  PROVE  Inductive'
<1> USE DEF Inductive
<1>1. PICK row : row = Document(k)
  OBVIOUS
<1>2. row \in AttemptType /\ row.status = "PENDING" /\ row.file = k /\ k # None
  BY <1>1 DEF Document, AttemptType
<1>3. /\ upload[k].purpose = "document" /\ upload[k].finalized /\ deletion[k] = "none"
      /\ ~ upload[k].consumed
      /\ UNCHANGED <<account, standing, business, provider, staged, stored, deletion, pictures, task>>
  BY DEF submitDocumentVerification, Consume, Consumable
<1>4. /\ upload' \in [Keys -> UploadType]
      /\ \A x \in Keys : /\ upload'[x].purpose = upload[x].purpose
                         /\ upload'[x].finalized <=> upload[x].finalized
                         /\ upload'[x].consumed <=> upload[x].consumed \/ x = k
  BY Consumed DEF submitDocumentVerification, Consume, TypeOK
<1>5. ProfileOK' /\ StandingOK' /\ FlightOK' /\ ChecksType'
  BY <1>1, <1>2, SubmitStep DEF submitDocumentVerification
<1>6. TypeOK'
  BY <1>3, <1>4, <1>5, UploadsKept DEF TypeOK, AccountType, ProviderType, FilesType, PicturesType,
     account, provider, pictures
<1>7. /\ \A n \in DOMAIN attempts : n \in DOMAIN attempts' /\ attempts'[n] = attempts[n]
      /\ Latest + 1 \in DOMAIN attempts' /\ attempts'[Latest + 1] = row
      /\ \A n \in DOMAIN attempts' : n \in DOMAIN attempts \/ n = Latest + 1
  <2>1. attempts \in Seq(AttemptType) /\ attempts' = Append(attempts, row)
    BY <1>1 DEF submitDocumentVerification, Submit, TypeOK, ChecksType
  <2> QED BY <1>2, <2>1, RowAdded DEF Latest
<1>8. \A x \in Keys : Referenced(x)' <=> x = k \/ Referenced(x)
  BY <1>2, <1>3, <1>7 DEF Referenced, pictures
<1>9. \A x \in Keys : FileOK(x)'
  BY <1>3, <1>4, <1>8 DEF FilesOK, FileOK, Issued, account
<1>10. Purposed'
  <2>1. /\ avatar' = avatar /\ portfolio' = portfolio /\ business' = business
        /\ portfolio \subseteq Keys /\ avatar \in Keys \cup {None}
    BY <1>3 DEF TypeOK, PicturesType, pictures
  <2>2. /\ avatar' # None => upload'[avatar'].purpose = "avatar"
        /\ \A x \in portfolio' : upload'[x].purpose = "portfolio"
    BY <1>4, <2>1 DEF FilesOK, Purposed
  <2>3. \A n \in DOMAIN attempts' :
          attempts'[n].file # None => upload'[attempts'[n].file].purpose = "document"
    BY <1>2, <1>3, <1>4, <1>7, Rows DEF FilesOK, Purposed
  <2>4. \A n \in DOMAIN business' :
          business'[n].file # None => upload'[business'[n].file].purpose = "authority"
    BY <1>4, <2>1, Rows DEF FilesOK, Purposed
  <2> QED BY <2>2, <2>3, <2>4 DEF Purposed
<1>11. ~ Referenced(k)
  BY <1>3 DEF FilesOK, FileOK
<1>12. Distinct(attempts)' /\ Distinct(business)'
  BY <1>2, <1>3, <1>7, <1>11 DEF FilesOK, Distinct, Referenced
<1> QED BY <1>5, <1>6, <1>9, <1>10, <1>12 DEF FilesOK

LEMMA SubmitBusinessStep ==
  ASSUME Inductive, NEW p \in Procs, NEW k \in Keys, submitBusinessVerification(p, k)
  PROVE  Inductive'
<1> USE DEF Inductive
<1>1. PICK row : row = [status |-> "PENDING", registry |-> "PROCESSING", file |-> k]
  OBVIOUS
<1>2. PICK n : n = Len(business)
  OBVIOUS
<1>3. row \in BusinessType /\ row.status = "PENDING" /\ row.file = k /\ k # None
  BY <1>1 DEF BusinessType
<1>4. /\ upload[k].purpose = "authority" /\ upload[k].finalized /\ deletion[k] = "none"
      /\ ~ upload[k].consumed /\ accountType = "BUSINESS" /\ n < scope.submissions
      /\ standing' = "PENDING" /\ business' = Append(business, row)
      /\ UNCHANGED <<account, status, attempts, provider, staged, stored, deletion, pictures>>
  BY <1>1, <1>2 DEF submitBusinessVerification, Consume, Consumable
<1>5. /\ upload' \in [Keys -> UploadType]
      /\ \A x \in Keys : /\ upload'[x].purpose = upload[x].purpose
                         /\ upload'[x].finalized <=> upload[x].finalized
                         /\ upload'[x].consumed <=> upload[x].consumed \/ x = k
  BY Consumed DEF submitBusinessVerification, Consume, TypeOK
<1>6. /\ business' \in Seq(BusinessType) /\ Len(business') = n + 1 /\ n \in Nat
      /\ n + 1 \in DOMAIN business' /\ business'[n + 1] = row /\ business' # <<>>
      /\ \A m \in DOMAIN business : m \in DOMAIN business' /\ business'[m] = business[m]
      /\ \A m \in DOMAIN business' : m \in DOMAIN business \/ m = n + 1
  BY <1>2, <1>3, <1>4, RowAdded, LastRow DEF TypeOK, ChecksType
<1>7. PICK t : t = [kind |-> "lookup", n |-> n + 1, job |-> None, says |-> "none"]
  OBVIOUS
<1>8. /\ task' \in [Procs -> TaskType] /\ task'[p] = t
      /\ \A q \in Procs \ {p} : task'[q] = task[q]
  <2>1. task' = [task EXCEPT ![p] = t]
    BY <1>2, <1>7 DEF submitBusinessVerification, Begin
  <2>2. t \in TaskType
    BY <1>6, <1>7 DEF TaskType
  <2> QED BY <2>1, <2>2 DEF TypeOK
<1>9. TypeOK'
  <2>1. Len(business') <= scope.submissions
    BY <1>4, <1>6 DEF TypeOK, AccountType
  <2> QED BY <1>4, <1>5, <1>6, <1>8, <2>1, UploadsKept DEF TypeOK, AccountType, ChecksType, ProviderType,
        FilesType, PicturesType, account, provider, pictures, Latest
<1>10. ProfileOK'
  <2>1. Outcome("PENDING") = "PENDING"
    BY DEF Outcome
  <2>2. StatusAgrees'
    BY <1>3, <1>4, <1>6, <2>1 DEF ProfileOK, StatusAgrees, account, Latest
  <2> QED BY <1>4, <2>2 DEF ProfileOK, VerifiedIsEarned, provider, Latest
<1>11. StandingOK'
  BY <1>3, <1>4, <1>6 DEF StandingOK, account
<1>12. FlightOK'
  <2>1. TaskOK(task[p])'
    BY <1>6, <1>7, <1>8 DEF TaskOK
  <2> QED BY <1>4, <1>6, <1>8, <2>1, FlightRest DEF provider
<1>13. \A x \in Keys : Referenced(x)' <=> x = k \/ Referenced(x)
  BY <1>3, <1>4, <1>6 DEF Referenced, pictures
<1>14. \A x \in Keys : FileOK(x)'
  BY <1>4, <1>5, <1>13 DEF FilesOK, FileOK, Issued, account
<1>15. Purposed'
  <2>1. /\ avatar' = avatar /\ portfolio' = portfolio /\ attempts' = attempts
        /\ portfolio \subseteq Keys /\ avatar \in Keys \cup {None}
    BY <1>4 DEF TypeOK, PicturesType, pictures
  <2>2. /\ avatar' # None => upload'[avatar'].purpose = "avatar"
        /\ \A x \in portfolio' : upload'[x].purpose = "portfolio"
    BY <1>5, <2>1 DEF FilesOK, Purposed
  <2>3. \A m \in DOMAIN attempts' :
          attempts'[m].file # None => upload'[attempts'[m].file].purpose = "document"
    BY <1>5, <2>1, Rows DEF FilesOK, Purposed
  <2>4. \A m \in DOMAIN business' :
          business'[m].file # None => upload'[business'[m].file].purpose = "authority"
    BY <1>3, <1>4, <1>5, <1>6, Rows DEF FilesOK, Purposed
  <2> QED BY <2>2, <2>3, <2>4 DEF Purposed
<1>16. ~ Referenced(k)
  BY <1>4 DEF FilesOK, FileOK
<1>17. Distinct(attempts)' /\ Distinct(business)'
  BY <1>3, <1>4, <1>6, <1>16 DEF FilesOK, Distinct, Referenced
<1> QED BY <1>9, <1>10, <1>11, <1>12, <1>14, <1>15, <1>17 DEF FilesOK

-----------------------------------------------------------------------------
(* Retention and erasure.                                                  *)

\* A submission lets go of its file, which is queued.
LEMMA PurgeDocumentStep ==
  ASSUME Inductive, NEW n \in DOMAIN attempts, purgeDocument(n)
  PROVE  Inductive'
<1> USE DEF Inductive
<1>1. PICK f : f = attempts[n].file
  OBVIOUS
<1>2. PICK row : row = [attempts[n] EXCEPT !.file = None]
  OBVIOUS
<1>3. /\ f \in Keys /\ f # None /\ attempts[n] \in AttemptType
      /\ attempts' = [attempts EXCEPT ![n] = row]
      /\ UNCHANGED <<account, status, standing, business, provider, upload, staged, stored, pictures, task>>
  BY <1>1, <1>2, Rows DEF purgeDocument
<1>4. /\ row \in AttemptType /\ row.file = None /\ row.status = attempts[n].status
      /\ row.manual <=> attempts[n].manual
  BY <1>2, <1>3 DEF AttemptType
<1>5. /\ attempts' \in Seq(AttemptType) /\ Latest' = Latest /\ DOMAIN attempts' = DOMAIN attempts
      /\ attempts'[n] = row /\ \A m \in DOMAIN attempts \ {n} : attempts'[m] = attempts[m]
  BY <1>3, <1>4, RowWritten DEF TypeOK, ChecksType, Latest
<1>6. /\ deletion' \in [Keys -> {"none", "queued", "done"}]
      /\ \A x \in Keys : deletion'[x] =
             IF x = f /\ deletion[x] = "none" THEN "queued" ELSE deletion[x]
  BY <1>1, QueuedOnce DEF purgeDocument, scheduleDeletion, TypeOK
<1>7. TypeOK'
  BY <1>3, <1>5, <1>6, UploadsKept DEF TypeOK, AccountType, ChecksType, ProviderType, FilesType,
     PicturesType, account, provider, pictures
<1>8. SameDecisions(attempts, attempts') /\ SameDecisions(business, business')
  BY <1>3, <1>4, <1>5 DEF SameDecisions, Latest
<1>9. ProfileOK' /\ StandingOK'
  BY <1>3, <1>4, <1>5, <1>7, <1>8, ProfileRest, StandingRest DEF account, provider
<1>10. FlightOK'
  BY <1>3, <1>5, FlightRest DEF provider
<1>11. \A x \in Keys : Referenced(x)' <=> x # f /\ Referenced(x)
  <2>1. upload[f].purpose = "document"
    BY <1>1, <1>3 DEF FilesOK, Purposed
  <2>2. f # avatar /\ f \notin portfolio /\ \A m \in DOMAIN business : business[m].file # f
    BY <1>3, <2>1 DEF FilesOK, Purposed
  <2>3. \A m \in DOMAIN attempts : attempts[m].file = f => m = n
    BY <1>1, <1>3 DEF FilesOK, Distinct
  <2>4. \A x \in Keys : x # None
    OBVIOUS
  <2> QED BY <1>1, <1>3, <1>4, <1>5, <2>2, <2>3, <2>4 DEF Referenced, pictures
<1>12. \A x \in Keys : FileOK(x)'
  BY <1>3, <1>6, <1>11 DEF FilesOK, FileOK, Issued, account
<1>13. Purposed'
  BY <1>3, <1>4, <1>5 DEF FilesOK, Purposed, pictures
<1>14. Distinct(attempts)' /\ Distinct(business)'
  BY <1>3, <1>4, <1>5 DEF FilesOK, Distinct
<1> QED BY <1>7, <1>9, <1>10, <1>12, <1>13, <1>14 DEF FilesOK

LEMMA PurgeAuthorityStep ==
  ASSUME Inductive, NEW n \in DOMAIN business, purgeAuthority(n)
  PROVE  Inductive'
<1> USE DEF Inductive
<1>1. PICK f : f = business[n].file
  OBVIOUS
<1>2. PICK row : row = [business[n] EXCEPT !.file = None]
  OBVIOUS
<1>3. /\ f \in Keys /\ f # None /\ business[n] \in BusinessType
      /\ business' = [business EXCEPT ![n] = row]
      /\ UNCHANGED <<account, status, attempts, standing, provider, upload, staged, stored, pictures, task>>
  BY <1>1, <1>2, Rows DEF purgeAuthority
<1>4. /\ row \in BusinessType /\ row.file = None /\ row.status = business[n].status
      /\ row.registry = business[n].registry
  BY <1>2, <1>3 DEF BusinessType
<1>5. /\ business' \in Seq(BusinessType) /\ Len(business') = Len(business)
      /\ DOMAIN business' = DOMAIN business
      /\ business'[n] = row /\ \A m \in DOMAIN business \ {n} : business'[m] = business[m]
  BY <1>3, <1>4, RowWritten DEF TypeOK, ChecksType
<1>6. /\ deletion' \in [Keys -> {"none", "queued", "done"}]
      /\ \A x \in Keys : deletion'[x] =
             IF x = f /\ deletion[x] = "none" THEN "queued" ELSE deletion[x]
  BY <1>1, QueuedOnce DEF purgeAuthority, scheduleDeletion, TypeOK
<1>7. TypeOK'
  BY <1>3, <1>5, <1>6, UploadsKept DEF TypeOK, AccountType, ChecksType, ProviderType, FilesType,
     PicturesType, account, provider, pictures, Latest
<1>8. SameDecisions(attempts, attempts') /\ SameDecisions(business, business')
  BY <1>3, <1>4, <1>5 DEF SameDecisions
<1>9. ProfileOK' /\ StandingOK'
  BY <1>3, <1>4, <1>5, <1>7, <1>8, ProfileRest, StandingRest DEF account, provider
<1>10. FlightOK'
  BY <1>3, <1>5, FlightRest DEF provider
<1>11. \A x \in Keys : Referenced(x)' <=> x # f /\ Referenced(x)
  <2>1. upload[f].purpose = "authority"
    BY <1>1, <1>3 DEF FilesOK, Purposed
  <2>2. f # avatar /\ f \notin portfolio /\ \A m \in DOMAIN attempts : attempts[m].file # f
    BY <1>3, <2>1 DEF FilesOK, Purposed
  <2>3. \A m \in DOMAIN business : business[m].file = f => m = n
    BY <1>1, <1>3 DEF FilesOK, Distinct
  <2>4. \A x \in Keys : x # None
    OBVIOUS
  <2> QED BY <1>1, <1>3, <1>4, <1>5, <2>2, <2>3, <2>4 DEF Referenced, pictures
<1>12. \A x \in Keys : FileOK(x)'
  BY <1>3, <1>6, <1>11 DEF FilesOK, FileOK, Issued, account
<1>13. Purposed'
  BY <1>3, <1>4, <1>5 DEF FilesOK, Purposed, pictures
<1>14. Distinct(attempts)' /\ Distinct(business)'
  BY <1>3, <1>4, <1>5 DEF FilesOK, Distinct
<1> QED BY <1>7, <1>9, <1>10, <1>12, <1>13, <1>14 DEF FilesOK

\* Everything that was issued is queued, and nothing refers to it any more.
LEMMA EraseStep ==
  ASSUME Inductive, eraseUser
  PROVE  Inductive'
<1> USE DEF Inductive
<1>1. /\ UNCHANGED <<scope, accountType, provider, upload, staged, stored, task>>
      /\ owner' = "ANONYMIZED" /\ erased' = TRUE /\ owed' = Issued
      /\ avatar' = None /\ portfolio' = {}
  BY DEF eraseUser
<1>2. /\ deletion' \in [Keys -> {"none", "queued", "done"}]
      /\ \A x \in Keys : deletion'[x] =
             IF x \in Issued /\ deletion[x] = "none" THEN "queued" ELSE deletion[x]
  BY QueuedOnce DEF eraseUser, scheduleDeletion, Owed, TypeOK
<1>3. /\ attempts' \in Seq(AttemptType) /\ Latest' = Latest /\ DOMAIN attempts' = DOMAIN attempts
      /\ \A n \in DOMAIN attempts :
           /\ attempts'[n].file = None /\ attempts'[n].status = attempts[n].status
           /\ attempts'[n].manual <=> attempts[n].manual
  <2>1. ASSUME NEW n \in DOMAIN attempts
        PROVE  LET row == [attempts[n] EXCEPT !.file = None, !.job = None,
                                              !.linked = @ /\ scope.role = "USHER"]
               IN  /\ row \in AttemptType /\ row.file = None /\ row.status = attempts[n].status
                   /\ row.manual <=> attempts[n].manual
    <3>1. attempts[n] \in AttemptType
      BY Rows
    <3> QED BY <3>1 DEF AttemptType
  <2>2. attempts' = [n \in DOMAIN attempts |->
                      [attempts[n] EXCEPT !.file = None, !.job = None,
                                          !.linked = @ /\ scope.role = "USHER"]]
    BY DEF eraseUser
  <2>3. Latest \in Nat /\ DOMAIN attempts = 1..Latest
    BY LastRow DEF TypeOK, ChecksType, Latest
  <2>4. /\ DOMAIN attempts' = 1..Latest /\ \A n \in 1..Latest : attempts'[n] \in AttemptType
    BY <2>1, <2>2, <2>3
  <2>5. attempts' \in [1..Latest -> AttemptType]
    BY <2>2, <2>3, <2>4
  <2>6. attempts' \in Seq(AttemptType) /\ Latest' = Latest
    BY <2>3, <2>5 DEF Latest
  <2> QED BY <2>1, <2>2, <2>3, <2>4, <2>6
<1>4. /\ business' \in Seq(BusinessType) /\ Len(business') = Len(business)
      /\ DOMAIN business' = DOMAIN business
      /\ \A n \in DOMAIN business :
           /\ business'[n].file = None /\ business'[n].status = business[n].status
           /\ business'[n].registry = business[n].registry
  <2>1. ASSUME NEW n \in DOMAIN business
        PROVE  LET row == [business[n] EXCEPT !.file = None]
               IN  /\ row \in BusinessType /\ row.file = None /\ row.status = business[n].status
                   /\ row.registry = business[n].registry
    <3>1. business[n] \in BusinessType
      BY Rows
    <3> QED BY <3>1 DEF BusinessType
  <2>2. business' = [n \in DOMAIN business |-> [business[n] EXCEPT !.file = None]]
    BY DEF eraseUser
  <2>3. Len(business) \in Nat /\ DOMAIN business = 1..Len(business)
    BY LastRow DEF TypeOK, ChecksType
  <2>4. /\ DOMAIN business' = 1..Len(business) /\ \A n \in 1..Len(business) : business'[n] \in BusinessType
    BY <2>1, <2>2, <2>3
  <2>5. business' \in [1..Len(business) -> BusinessType]
    BY <2>2, <2>3, <2>4
  <2>6. business' \in Seq(BusinessType) /\ Len(business') = Len(business)
    BY <2>3, <2>5
  <2> QED BY <2>1, <2>2, <2>3, <2>4, <2>6
<1>5. \/ scope.role = "CLIENT" /\ status' = "PENDING" /\ standing' = "NOT_STARTED"
      \/ scope.role # "CLIENT" /\ UNCHANGED <<status, standing>>
  BY DEF eraseUser
<1>6. Cardinality({}) <= MaxPhotos
  BY FS_EmptySet
<1>7. TypeOK'
  BY <1>1, <1>2, <1>3, <1>4, <1>5, <1>6, UploadsKept DEF TypeOK, AccountType, ChecksType, ProviderType,
     FilesType, PicturesType, provider, Issued
<1>8. /\ Latest \in Nat /\ (attempts # <<>> <=> Latest # 0) /\ (attempts' # <<>> <=> Latest # 0)
      /\ (Latest # 0 => Latest \in DOMAIN attempts)
      /\ (business # <<>> <=> Len(business) # 0) /\ (business' # <<>> <=> Len(business) # 0)
      /\ (Len(business) # 0 => Len(business) \in DOMAIN business)
  <2>1. attempts \in Seq(AttemptType) /\ business \in Seq(BusinessType)
    BY DEF TypeOK, ChecksType
  <2>2. (attempts' # <<>> <=> Latest # 0) /\ (business' # <<>> <=> Len(business) # 0)
    BY <1>3, <1>4, LastRow DEF Latest
  <2> QED BY <2>1, <2>2, LastRow DEF Latest
<1>9. ProfileOK'
  <2>1. StatusAgrees'
    <3>1. CASE scope.role = "CLIENT"
      BY <1>1, <3>1 DEF StatusAgrees
    <3>2. CASE scope.role # "CLIENT"
      <4>1. scope.role = "USHER"
        BY <3>2 DEF TypeOK, AccountType
      <4>2. StatusAgrees
        BY DEF ProfileOK
      <4>3. business' = <<>> <=> business = <<>>
        BY <1>8
      <4>4. Latest # 0 => attempts'[Latest].status = attempts[Latest].status
        BY <1>3, <1>8
      <4>5. business # <<>> => business'[Len(business')].status = business[Len(business)].status
        BY <1>4, <1>8
      <4> QED BY <1>3, <1>5, <3>2, <4>1, <4>2, <4>3, <4>4, <4>5 DEF StatusAgrees
    <3> QED BY <3>1, <3>2
  <2>2. VerifiedIsEarned'
    BY <1>1, <1>3, <1>5, <1>8 DEF ProfileOK, VerifiedIsEarned, provider
  <2> QED BY <1>5, <1>8, <2>1, <2>2 DEF ProfileOK
<1>10. StandingOK'
  BY <1>1, <1>4, <1>5, <1>8 DEF StandingOK
<1>11. FlightOK'
  BY <1>1, <1>3, <1>4, FlightRest DEF provider
<1>12. \A x \in Keys : ~ Referenced(x)'
  BY <1>1, <1>3, <1>4 DEF Referenced
<1>13. \A x \in Keys : FileOK(x)'
  BY <1>1, <1>2, <1>12 DEF FilesOK, FileOK, Issued
<1>14. Purposed'
  BY <1>1, <1>3, <1>4 DEF Purposed
<1>15. Distinct(attempts)' /\ Distinct(business)'
  BY <1>3, <1>4 DEF Distinct
<1> QED BY <1>7, <1>9, <1>10, <1>11, <1>13, <1>14, <1>15 DEF FilesOK

-----------------------------------------------------------------------------
(* The inductive invariant.                                                *)

LEMMA InitInductive == Init => Inductive
<1> SUFFICES ASSUME Init PROVE Inductive
  OBVIOUS
<1> USE DEF Init
<1>1. attempts \in Seq(AttemptType) /\ business \in Seq(BusinessType)
      /\ Latest = 0 /\ Len(business) = 0 /\ DOMAIN attempts = {} /\ DOMAIN business = {}
  BY DEF Latest
<1>2. TypeOK
  <2>1. ChecksType
    <3>1. scope.submissions \in Nat
      OBVIOUS
    <3> QED BY <1>1, <3>1 DEF ChecksType
  <2>2. FilesType
    <3>1. NoUpload \in UploadType
      BY DEF NoUpload, UploadType
    <3> QED BY <3>1 DEF FilesType
  <2>3. Cardinality({}) <= MaxPhotos
    BY FS_EmptySet
  <2>4. ProviderType
    BY DEF ProviderType, JobType
  <2> QED BY <2>1, <2>2, <2>3, <2>4, IdleTask DEF TypeOK, AccountType, PicturesType
<1>3. FilesOK
  <2>1. \A k \in Keys : ~ Referenced(k)
    BY <1>1 DEF Referenced
  <2>2. \A k \in Keys : FileOK(k)
    BY <2>1 DEF FileOK, NoUpload
  <2> QED BY <1>1, <2>2 DEF FilesOK, Purposed, Distinct
<1>4. ProfileOK /\ StandingOK
  BY <1>1 DEF ProfileOK, StandingOK, StatusAgrees, VerifiedIsEarned
<1>5. FlightOK
  BY <1>1, IdleTask DEF FlightOK
<1> QED BY <1>2, <1>3, <1>4, <1>5 DEF Inductive

LEMMA StutterStep ==
  ASSUME Inductive, UNCHANGED vars
  PROVE  Inductive'
<1>1. FilesType' /\ PicturesType'
  BY UploadsKept DEF Inductive, TypeOK, FilesType, PicturesType, vars, files, pictures, account
<1>2. FilesOK'
  BY RowsKept, FilesRest DEF Inductive, vars, files, pictures, account, checks
<1> QED BY <1>1, <1>2, FilesStep DEF vars

\* The steps on one file, those of one process, and the others.
FileAction(k) ==
    \/ \E purpose \in scope.uses : issueUpload(k, purpose)
    \/ Put(k) \/ finalizeUpload(k) \/ Age(k)
    \/ setAvatar(k) \/ addPhoto(k) \/ removePhoto(k) \/ submitDocumentVerification(k)
    \/ Abandon(k) \/ CleanStaging(k) \/ Clean(k)
ProcAction(p) ==
    \/ \E j \in scope.jobs, evident \in BOOLEAN : Fetch(p, j, evident)
    \/ \E n \in DOMAIN attempts, decision \in Decisions : OpenReview(p, n, decision)
    \/ \E k \in scope.keys : submitBusinessVerification(p, k)
    \/ \E n \in DOMAIN business : refreshBusinessVerification(p, n)
    \/ \E answer \in {"VERIFIED", "OTHER"} : Lookup(p, answer)
    \/ applyKycResult(p) \/ reviewVerification(p) \/ saveRegistryResult(p) \/ Drop(p)

LEMMA NextInductive == Inductive /\ [Next]_vars => Inductive'
<1> SUFFICES ASSUME Inductive, [Next]_vars PROVE Inductive'
  OBVIOUS
<1>1. scope.keys \subseteq Keys /\ scope.jobs \subseteq Jobs
  BY DEF Inductive, TypeOK, AccountType
<1>2. CASE \E k \in scope.keys : FileAction(k)
  BY <1>1, <1>2, IssueStep, UploadStep, AvatarStep, AddStep, RemoveStep, SubmitDocumentStep, CleanupStep
     DEF FileAction
<1>3. CASE \E j \in scope.jobs :
            \/ \E n \in DOMAIN attempts, names \in Names : Capture(j, n, names)
            \/ \E verdict \in Verdicts : Judge(j, verdict)
            \/ Forget(j)
  BY <1>1, <1>3, ProviderStep, ForgetStep
<1>4. CASE \E p \in Procs : ProcAction(p)
  BY <1>1, <1>4, FetchStep, OpenStep, SubmitBusinessStep, RefreshStep, LookupStep, ApplyStep, ReviewStep,
     SaveStep, DropStep DEF ProcAction
<1>5. CASE \/ startBiometricVerification
           \/ \E n \in DOMAIN business, decision \in Decisions : reviewBusinessVerification(n, decision)
           \/ \E n \in DOMAIN attempts : purgeDocument(n)
           \/ \E n \in DOMAIN business : purgeAuthority(n)
           \/ eraseUser
  BY <1>5, BiometricStep, ReviewBusinessStep, PurgeDocumentStep, PurgeAuthorityStep, EraseStep
<1>6. CASE \/ Suspend \/ Reinstate
           \/ \E type \in {"INDIVIDUAL", "BUSINESS"} : chooseClientAccountType(type)
  BY <1>6, AccountStep
<1>7. CASE UNCHANGED vars
  BY <1>7, StutterStep
<1> QED BY <1>2, <1>3, <1>4, <1>5, <1>6, <1>7 DEF Next, FileAction, ProcAction

\* Files, profile, standing and what is in flight stay in order in every behaviour.
THEOREM InductiveInvariant == Spec => []Inductive
  BY InitInductive, NextInductive, PTL DEF Spec

-----------------------------------------------------------------------------
(* The safety properties.                                                  *)

\* verification/service.ts:137-188, :239-379.  No late callback, second reviewer or
\* resubmission leaves a profile decided by anything but its latest submission.
THEOREM ProfileFollows == Spec => []Consistent
<1>1. Inductive => Consistent
  BY DEF Inductive, ProfileOK, Consistent
<1> QED BY <1>1, InductiveInvariant, PTL

\* verification/service.ts:239-379, name-match.ts:32-52.  Whoever is verified was cleared by
\* an administrator, or by a capture of the latest session whose names match.
THEOREM VerifiedByEvidence == Spec => []VerifiedIsEarned
<1>1. Inductive => VerifiedIsEarned
  BY DEF Inductive, ProfileOK
<1> QED BY <1>1, InductiveInvariant, PTL

\* verification/business.ts:121-225.  An approved business has registry evidence, and a business
\* that asked for the check hires only when it passed.
THEOREM BusinessByEvidence == Spec => []BusinessEarned
<1>1. Inductive => BusinessEarned
  BY DEF Inductive, StandingOK, BusinessEarned, clientCanHire
<1> QED BY <1>1, InductiveInvariant, PTL

\* storage/uploads.ts:150-276, profile/routes.ts:380-483, jobs/jobs.ts:241-289.  What
\* is shown exists, in one place, and is not due for deletion.
THEOREM ShownIsKept == Spec => []AttachedKept
<1>1. Inductive => AttachedKept
  <2> SUFFICES ASSUME Inductive PROVE AttachedKept
    OBVIOUS
  <2>1. \A k \in Keys : Referenced(k) => k \in stored /\ deletion[k] = "none"
    BY DEF Inductive, FilesOK, FileOK
  <2>2. avatar \notin portfolio
    BY DEF Inductive, TypeOK, PicturesType, FilesOK, Purposed
  <2> QED BY <2>1, <2>2 DEF Inductive, FilesOK, AttachedKept
<1> QED BY <1>1, InductiveInvariant, PTL

\* storage/uploads.ts:184-276, privacy/service.ts:152-330.  No object is left behind, and all
\* that an erased account had is queued.
THEOREM NothingLeftBehind == Spec => []NothingOrphaned
<1>1. Inductive => NothingOrphaned
  <2> SUFFICES ASSUME Inductive, NEW k \in stored
               PROVE  /\ Referenced(k) \/ deletion[k] = "queued" \/ ~ upload[k].consumed
                      /\ k \in owed => deletion[k] = "queued"
    BY DEF NothingOrphaned
  <2>1. k \in Keys /\ deletion[k] \in {"none", "queued", "done"}
    BY DEF Inductive, TypeOK, FilesType
  <2> QED BY <2>1 DEF Inductive, FilesOK, FileOK
<1> QED BY <1>1, InductiveInvariant, PTL

\* verification/service.ts:248-262, :334-379.  A decision is the first of an administrator, or
\* that of the provider on an open submission, and never on a submission that was superseded.
THEOREM FirstDecisionStands == Spec => DecisionStands
<1> DEFINE Stands == \A n \in DOMAIN attempts :
         attempts'[n].status # attempts[n].status =>
            /\ n = Latest /\ ~ attempts[n].manual
            /\ attempts[n].status = "PENDING" \/ attempts'[n].manual
<1>1. ASSUME Inductive, Next PROVE Stands
  <2> USE DEF Inductive
  <2>1. scope.keys \subseteq Keys
    BY <1>1 DEF TypeOK, AccountType
  <2>2. CASE UNCHANGED attempts
    BY <2>2
  <2>3. CASE \E a \in {Biometric} \cup {Document(k) : k \in Keys} : Submit(a)
    <3>1. PICK a : a \in AttemptType /\ Submit(a)
      BY <2>3 DEF Biometric, Document, AttemptType
    <3>2. attempts \in Seq(AttemptType) /\ attempts' = Append(attempts, a)
      BY <1>1, <3>1 DEF Submit, TypeOK, ChecksType
    <3>3. \A n \in DOMAIN attempts : attempts'[n] = attempts[n]
      BY <3>1, <3>2, RowAdded
    <3> QED BY <3>3
  <2>4. CASE \E p \in Procs : applyKycResult(p) \/ reviewVerification(p)
    <3>1. PICK p \in Procs : applyKycResult(p) \/ reviewVerification(p)
      BY <2>4
    <3>2. /\ Latest \in DOMAIN attempts /\ ~ attempts[Latest].manual
          /\ attempts[Latest] \in AttemptType
      BY <1>1, <3>1, Rows DEF FlightOK, TaskOK, applyKycResult, reviewVerification, Settles, Reviewable
    <3>3. PICK row : /\ attempts' = [attempts EXCEPT ![Latest] = row]
                     /\ attempts[Latest].status = "PENDING" \/ row.manual
      <4>1. CASE applyKycResult(p)
        BY <4>1 DEF applyKycResult, Settles
      <4>2. CASE reviewVerification(p)
        <5>1. PICK row : row = [[attempts[Latest] EXCEPT !.status = task[p].says] EXCEPT !.manual = TRUE]
          OBVIOUS
        <5>2. row.manual
          BY <3>2, <5>1 DEF AttemptType
        <5> QED BY <4>2, <5>1, <5>2 DEF reviewVerification, Reviewable
      <4> QED BY <3>1, <4>1, <4>2
    <3>4. /\ attempts'[Latest] = row
          /\ \A n \in DOMAIN attempts : n # Latest => attempts'[n] = attempts[n]
      BY <1>1, <3>2, <3>3 DEF TypeOK, ChecksType
    <3> QED BY <3>2, <3>3, <3>4
  <2>5. CASE (\E n \in DOMAIN attempts : purgeDocument(n)) \/ eraseUser
    <3>1. ASSUME NEW n \in DOMAIN attempts, purgeDocument(n), NEW m \in DOMAIN attempts
          PROVE  attempts'[m].status = attempts[m].status
      BY <1>1, <3>1, Rows DEF purgeDocument, AttemptType, TypeOK, ChecksType
    <3>2. ASSUME eraseUser, NEW m \in DOMAIN attempts
          PROVE  attempts'[m].status = attempts[m].status
      BY <1>1, <3>2, Rows DEF eraseUser, AttemptType
    <3> QED BY <2>5, <3>1, <3>2
  <2>6. CASE \E k \in scope.keys : FileAction(k)
    <3>1. PICK k \in scope.keys : FileAction(k)
      BY <2>6
    <3>2. CASE submitDocumentVerification(k)
      BY <2>1, <2>3, <3>2 DEF submitDocumentVerification
    <3>3. UNCHANGED attempts \/ submitDocumentVerification(k)
      BY <3>1 DEF FileAction, issueUpload, Put, finalizeUpload, Age, setAvatar, addPhoto, removePhoto,
         Abandon, CleanStaging, Clean, checks
    <3> QED BY <2>2, <3>2, <3>3
  <2>7. CASE \E p \in Procs : ProcAction(p)
    <3>1. PICK p \in Procs : ProcAction(p)
      BY <2>7
    <3>2. UNCHANGED attempts \/ applyKycResult(p) \/ reviewVerification(p)
      BY <3>1 DEF ProcAction, Fetch, OpenReview, submitBusinessVerification, refreshBusinessVerification,
         Lookup, saveRegistryResult, Drop, checks
    <3> QED BY <2>2, <2>4, <3>2
  <2>8. CASE startBiometricVerification
    BY <2>3, <2>8 DEF startBiometricVerification
  <2>9. CASE \/ \E j \in scope.jobs :
                  \/ \E n \in DOMAIN attempts, names \in Names : Capture(j, n, names)
                  \/ \E verdict \in Verdicts : Judge(j, verdict)
                  \/ Forget(j)
             \/ \E n \in DOMAIN business, decision \in Decisions : reviewBusinessVerification(n, decision)
             \/ \E n \in DOMAIN business : purgeAuthority(n)
             \/ \E type \in {"INDIVIDUAL", "BUSINESS"} : chooseClientAccountType(type)
             \/ Suspend \/ Reinstate
    <3>1. UNCHANGED attempts
      BY <2>9 DEF Capture, Judge, Forget, reviewBusinessVerification, purgeAuthority,
         chooseClientAccountType, Suspend, Reinstate, checks
    <3> QED BY <2>2, <3>1
  <2> QED BY <1>1, <2>5, <2>6, <2>7, <2>8, <2>9 DEF Next, FileAction, ProcAction
<1>2. Inductive /\ [Next]_vars => [Stands]_vars
  BY <1>1
<1> QED BY <1>2, InductiveInvariant, PTL DEF Spec, DecisionStands
=============================================================================
