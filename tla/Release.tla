------------------------------ MODULE Release -------------------------------
(***************************************************************************)
(* .github/workflows/release.yml: one workflow run and its attempts.  The  *)
(* jobs build, sign and release run one after the other; any step can fail *)
(* and then the later jobs are skipped.  A concluded attempt can be run    *)
(* again, as a whole, from its failed jobs or from one job on.  The        *)
(* attempts share the run number, so the tag of the release, and the       *)
(* artifacts, of which a download takes the latest.  sign.yml, the artifact*)
(* actions and the release action are modelled as the workflow uses them.  *)
(***************************************************************************)
EXTENDS SignLists

CONSTANTS
  Builds,       \* what a build can make: sequences of paths
  BaseName,     \* the base name of each path
  Keys,         \* the keys that the sign job may have
  Trusted,      \* vars.BFLAT_SIGNING_PUBLIC_KEY, {} when it is not set
  GhCanFail,    \* whether gh release view can fail although GitHub is up
  MaxAttempts   \* bound on the attempts

ASSUME ReleaseAssumption ==
  /\ Trusted \subseteq Keys
  /\ GhCanFail \in BOOLEAN
  /\ MaxAttempts \in Nat
ASSUME BuildsAssumption ==
  \* no file of a build is named like the list or its signature
  /\ Builds \subseteq Seq(DOMAIN BaseName)
  /\ \A paths \in Builds : \A i \in 1 .. Len(paths) :
       BaseName[paths[i]] \notin {"list", "sig"}

Jobs == {"build", "sign", "release"}
Needs == [build |-> {}, sign |-> {"build"}, release |-> {"build", "sign"}]

VARIABLES
  attempt,     \* the attempt of the run
  job,         \* the state of each job
  step,        \* the next step of the job that runs
  disk,        \* the workspace of that job: files, a list and a signature
  artifacts,   \* release-assets, bflat-signature-lists, bflat-signatures
  exists,      \* there is a release with the tag
  published,   \* its files, as pairs of a name and a content
  sent         \* the names that the release job has uploaded

releaseVars ==
  <<attempt, job, step, disk, artifacts, exists, published, sent>>

Nothing == [files |-> {}, list |-> Missing, sig |-> Missing]

ReleaseInit ==
  /\ attempt = 1
  /\ job = [j \in Jobs |-> "waiting"]
  /\ step = "none"
  /\ disk = Nothing
  /\ artifacts = Nothing
  /\ exists = FALSE
  /\ published = {}
  /\ sent = {}

Running(j) == job[j] = "running"
At(j, s) == Running(j) /\ step = s
Concluded == \A j \in Jobs : job[j] \in {"success", "failure", "skipped"}

-----------------------------------------------------------------------------
(* The scheduling of the jobs. *)

FirstStep ==
  [build |-> "check absent", sign |-> "sign", release |-> "download"]

(* A job begins on a clean machine. *)
Begin(j) ==
  /\ job[j] = "waiting"
  /\ \A n \in Needs[j] : job[n] = "success"
  /\ job' = [job EXCEPT ![j] = "running"]
  /\ step' = FirstStep[j]
  /\ disk' = Nothing
  /\ sent' = {}
  /\ UNCHANGED <<attempt, artifacts, exists, published>>

Skip(j) ==
  /\ job[j] = "waiting"
  /\ \E n \in Needs[j] : job[n] \in {"failure", "skipped"}
  /\ job' = [job EXCEPT ![j] = "skipped"]
  /\ UNCHANGED <<attempt, step, disk, artifacts, exists, published, sent>>

Ends(j, result) == job' = [job EXCEPT ![j] = result] /\ step' = "none"

(* A step fails, or the run is cancelled. *)
Fail(j) ==
  /\ Running(j)
  /\ Ends(j, "failure")
  /\ UNCHANGED <<attempt, disk, artifacts, exists, published, sent>>

-----------------------------------------------------------------------------
(* The job build. *)

\* Mutant: the workflow without the step.
CheckAbsent_Dropped ==
  /\ At("build", "check absent")
  /\ step' = "build"
  /\ UNCHANGED <<attempt, job, disk, artifacts, exists, published, sent>>

(* gh release view succeeds when there is a release; every failure of gh   *)
(* is taken for its absence.                                               *)
CheckAbsent ==
  /\ At("build", "check absent")
  /\ \E found \in (IF GhCanFail THEN {exists, FALSE} ELSE {exists}) :
       \/ found /\ Ends("build", "failure")
       \/ ~found /\ step' = "build" /\ UNCHANGED job
  /\ UNCHANGED <<attempt, disk, artifacts, exists, published, sent>>

(* The compilers give every attempt files of their own. *)
Content(path) == <<path, attempt>>
Contents(paths) == [p \in {paths[i] : i \in 1 .. Len(paths)} |-> Content(p)]

(* cp into one directory: of two files of the same name the last stays. *)
Copied(paths) ==
  {Pair(BaseName[paths[i]], Content(paths[i])) :
   i \in {j \in 1 .. Len(paths) :
            ~\E k \in j + 1 .. Len(paths) :
                BaseName[paths[j]] = BaseName[paths[k]]}}

(* Build, then list the assets and collect them in release/. *)
Build ==
  /\ At("build", "build")
  /\ \E paths \in Builds :
       LET text == FileList(paths, BaseName, Contents(paths))
       IN  \/ text = Refused /\ Ends("build", "failure") /\ UNCHANGED disk
           \/ /\ text # Refused
              /\ disk' = [disk EXCEPT !.files = Copied(paths), !.list = text]
              /\ step' = "upload assets"
              /\ UNCHANGED job
  /\ UNCHANGED <<attempt, artifacts, exists, published, sent>>

UploadAssets ==
  /\ At("build", "upload assets")
  /\ artifacts' = [artifacts EXCEPT !.files = disk.files]
  /\ step' = "upload list"
  /\ UNCHANGED <<attempt, job, disk, exists, published, sent>>

UploadList ==
  /\ At("build", "upload list")
  /\ artifacts' = [artifacts EXCEPT !.list = disk.list]
  /\ Ends("build", "success")
  /\ UNCHANGED <<attempt, disk, exists, published, sent>>

-----------------------------------------------------------------------------
(* The job sign: sign.yml signs the list artifact with its key. *)

Sign ==
  /\ At("sign", "sign")
  /\ \E key \in Keys :
       artifacts' = [artifacts EXCEPT !.sig =
         [list |-> artifacts.list, sig |-> Signature(key, artifacts.list)]]
  /\ Ends("sign", "success")
  /\ UNCHANGED <<attempt, disk, exists, published, sent>>

-----------------------------------------------------------------------------
(* The job release. *)

Download ==
  /\ At("release", "download")
  /\ disk' = [files |-> artifacts.files, list |-> artifacts.sig.list,
              sig |-> artifacts.sig.sig]
  /\ step' = "check files"
  /\ UNCHANGED <<attempt, job, artifacts, exists, published, sent>>

\* Mutant: only the files are compared with the list.
CheckSignature_FilesOnly ==
  /\ At("release", "check files")
  /\ LET ok == list_text(disk.files) = disk.list
     IN  \/ ok /\ step' = "create release" /\ UNCHANGED job
         \/ ~ok /\ Ends("release", "failure")
  /\ UNCHANGED <<attempt, disk, artifacts, exists, published, sent>>

(* check-files on release/ and signature/. *)
CheckSignature ==
  /\ At("release", "check files")
  /\ LET ok == /\ list_text(disk.files) = disk.list
               /\ check_signature(disk.list, disk.sig, Trusted)
     IN  \/ ok /\ step' = "create release" /\ UNCHANGED job
         \/ ~ok /\ Ends("release", "failure")
  /\ UNCHANGED <<attempt, disk, artifacts, exists, published, sent>>

CreateRelease ==
  /\ At("release", "create release")
  /\ exists' = TRUE
  /\ step' = "upload files"
  /\ UNCHANGED <<attempt, job, disk, artifacts, published, sent>>

\* Mutant: the signature is not among the files of the release.
ToSend_NoSignature == disk.files \union {Pair("list", disk.list)}

ToSend ==
  disk.files \union {Pair("list", disk.list), Pair("sig", disk.sig)}

\* Mutant: a file that was uploaded is taken for an old one.
DeleteFile_SentToo ==
  /\ At("release", "upload files")
  /\ \E f \in ToSend, old \in published :
       old[1] = f[1] /\ published' = published \ {old}
  /\ UNCHANGED <<attempt, job, step, disk, artifacts, exists, sent>>

(* The files go up in any order; a file that the release has is deleted    *)
(* before its replacement is uploaded.                                     *)
DeleteFile ==
  /\ At("release", "upload files")
  /\ \E f \in ToSend, old \in published :
       /\ old[1] = f[1] /\ f[1] \notin sent
       /\ published' = published \ {old}
  /\ UNCHANGED <<attempt, job, step, disk, artifacts, exists, sent>>

UploadFile ==
  /\ At("release", "upload files")
  /\ \E f \in ToSend :
       /\ f[1] \notin {old[1] : old \in published}
       /\ published' = published \union {f}
       /\ sent' = sent \union {f[1]}
  /\ UNCHANGED <<attempt, job, step, disk, artifacts, exists>>

Finish ==
  /\ At("release", "upload files")
  /\ {f[1] : f \in ToSend} \subseteq sent
  /\ Ends("release", "success")
  /\ UNCHANGED <<attempt, disk, artifacts, exists, published, sent>>

-----------------------------------------------------------------------------
(* Running the run again. *)

(* j and the jobs that depend on it. *)
From(j) == {j} \union {k \in Jobs : j \in Needs[k]}
Failed == {j \in Jobs : job[j] = "failure"}

Rerun(again) ==
  /\ Concluded
  /\ attempt < MaxAttempts
  /\ attempt' = attempt + 1
  /\ job' = [j \in Jobs |-> IF j \in again THEN "waiting" ELSE job[j]]
  /\ UNCHANGED <<step, disk, artifacts, exists, published, sent>>

RerunAll == Rerun(Jobs)
RerunFailed == Failed # {} /\ Rerun(UNION {From(j) : j \in Failed})
RerunJob == \E j \in Jobs : Rerun(From(j))

JobStep ==
  \/ \E j \in Jobs : Begin(j) \/ Skip(j)
  \/ CheckAbsent \/ Build \/ UploadAssets \/ UploadList \/ Sign
  \/ Download \/ CheckSignature \/ CreateRelease
  \/ DeleteFile \/ UploadFile \/ Finish

ReleaseNext ==
  \/ JobStep \/ \E j \in Jobs : Fail(j)
  \/ RerunAll \/ RerunFailed \/ RerunJob

(* GitHub goes on with a job until it ends. *)
ReleaseSpec ==
  ReleaseInit /\ [][ReleaseNext]_releaseVars /\ WF_releaseVars(JobStep)

-----------------------------------------------------------------------------
(* Properties. *)

Assets == {f \in published : f[1] \notin {"list", "sig"}}
Lists == {f[2] : f \in {g \in published : g[1] = "list"}}
Signatures == {f[2] : f \in {g \in published : g[1] = "sig"}}

(* Whatever is run again after whatever failed, and in the middle of an    *)
(* upload too, the files of the release are of one build, and the list and *)
(* the signature there are the ones of these files: no attempt replaces    *)
(* files of a release that an earlier attempt built and published.         *)
OneBuild ==
  /\ \A f, g \in Assets : f[2][2] = g[2][2]
  /\ \A l \in Lists : Assets \subseteq l
  /\ \A s \in Signatures : Assets \subseteq s.list /\ Lists \subseteq {s.list}

(* When the public key is set, no attempt ever adds a file to the release  *)
(* that is not in the list its job holds a trusted signature of, or that   *)
(* list or signature itself: not when only the sign job was run again,     *)
(* with another key, and not from artifacts of different attempts.         *)
PublishedVerifies ==
  [][Trusted # {} => \A f \in published' \ published :
       /\ disk.sig.key \in Trusted /\ disk.sig.list = disk.list
       /\ f \in disk.list \union {Pair("list", disk.list),
                                   Pair("sig", disk.sig)}]_releaseVars

(* A release job that ends with success, after however many attempts, has  *)
(* left the listed files, all of them and no other, with list and          *)
(* signature.                                                              *)
SuccessIsWhole ==
  job["release"] = "success" =>
    \E l \in Lists, s \in Signatures :
      published = l \union {Pair("list", l), Pair("sig", s)}

(* An attempt comes to an end: every job runs to its end or is skipped.    *)
AttemptsEnd == ~Concluded ~> Concluded

=============================================================================
