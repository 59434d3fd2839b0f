--------------------------- MODULE ReleaseProofs ----------------------------
(***************************************************************************)
(* Proofs about the release workflow, for every build, every set of keys   *)
(* and any number of attempts, run again from whichever job.               *)
(*                                                                         *)
(* The argument: jobs run one after the other, so that a release job sees  *)
(* the artifacts of a build and a sign job that succeeded; it uploads only *)
(* what it checked; and once there is a release no build gets past its     *)
(* first step, so that the artifact with the files stays what it is and    *)
(* later attempts can only upload the same files again.                    *)
(***************************************************************************)
EXTENDS Release, TLAPS

JobStates == {"waiting", "running", "success", "failure", "skipped"}
Pending == {"waiting", "running"}

(* The jobs run one after the other. *)
JobOrder ==
  /\ job \in [Jobs -> JobStates]
  /\ job["build"] \in Pending => job["sign"] = "waiting"
  /\ job["sign"] \in Pending => job["release"] \in {"waiting", "skipped"}
  /\ Running("sign") => job["build"] = "success"
  /\ Running("release") => job["build"] = "success" /\ job["sign"] = "success"

(* Files of one build, of distinct names that are not reserved. *)
OfOneBuild(F) == \A f, g \in F : f[2][2] = g[2][2]
UniqueNames(F) == \A f, g \in F : f[1] = g[1] => f = g
NotReserved(F) == \A f \in F : f[1] \notin {"list", "sig"}
FilesOK(F) == OfOneBuild(F) /\ UniqueNames(F) /\ NotReserved(F)

IsDir(d) == d = [files |-> d.files, list |-> d.list, sig |-> d.sig]

(* What the jobs have made when they have ended with success. *)
ArtifactsOK ==
  /\ IsDir(disk) /\ IsDir(artifacts)
  /\ FilesOK(artifacts.files)
  /\ Running("build") /\ step \in {"upload assets", "upload list"} =>
       FilesOK(disk.files) /\ disk.list # Refused
  /\ job["build"] = "success" => artifacts.list # Refused
  /\ job["sign"] = "success" => artifacts.sig.list # Refused

Verified(s, F) == s.list = F /\ (Trusted # {} => s.key \in Trusted)

(* The signature of check-files was made for the list it checks. *)
SignaturesOK ==
  job["sign"] = "success" =>
    \E k \in Keys : artifacts.sig.sig = Signature(k, artifacts.sig.list)

(* The workspace of the release job, and what it has checked of it. *)
DownloadOK ==
  /\ Running("release") /\ step # "download" =>
       /\ disk.files = artifacts.files
       /\ disk.list = artifacts.sig.list
       /\ disk.sig = artifacts.sig.sig
  /\ Running("release") /\ step \in {"create release", "upload files"} =>
       disk.list = disk.files /\ Verified(disk.sig, disk.files)

ReleaseInv == JobOrder /\ ArtifactsOK /\ SignaturesOK /\ DownloadOK

(* Once there is a release its files are those of the artifact, which no   *)
(* build changes any more.                                                 *)
PublishedOK ==
  /\ exists \in BOOLEAN
  /\ ~exists => published = {}
  /\ exists /\ Running("build") => step = "check absent"
  /\ Running("release") /\ step = "upload files" => exists
  /\ UniqueNames(published)
  /\ \A f \in published :
       \/ f \in artifacts.files
       \/ f = Pair("list", artifacts.files)
       \/ f = Pair("sig", f[2]) /\ f[2].list = artifacts.files

(* What the release job has sent is there, and at the end there is nothing *)
(* else.                                                                   *)
SentOK ==
  /\ Running("release")
       /\ step \in {"download", "check files", "create release"} => sent = {}
  /\ Running("release") /\ step = "upload files" =>
       \A f \in ToSend : f[1] \in sent => f \in published
  /\ job["release"] = "success" =>
       /\ published = artifacts.files \union
            {Pair("list", artifacts.files), Pair("sig", artifacts.sig.sig)}

-----------------------------------------------------------------------------
(* The order of the jobs. *)

(* What is run again includes the release job, and the sign job when it    *)
(* includes the build.                                                     *)
LEMMA RerunClosed ==
  ASSUME RerunAll \/ RerunFailed \/ RerunJob
  PROVE  \E again : /\ Rerun(again)
                    /\ "release" \in again
                    /\ "build" \in again => "sign" \in again
<1>1. \A j \in Jobs : /\ "release" \in From(j)
                      /\ "build" \in From(j) => "sign" \in From(j)
  BY DEF Jobs, From, Needs
<1>2. CASE RerunAll
  BY <1>2 DEF RerunAll, Jobs
<1>3. CASE RerunFailed
  <2> DEFINE again == UNION {From(j) : j \in Failed}
  <2>1. Failed # {} /\ Failed \subseteq Jobs /\ Rerun(again)
    BY <1>3 DEF RerunFailed, Failed
  <2>2. "release" \in again /\ ("build" \in again => "sign" \in again)
    BY <1>1, <2>1
  <2> QED  BY <2>1, <2>2
<1>4. CASE RerunJob
  BY <1>1, <1>4 DEF RerunJob
<1> QED  BY <1>2, <1>3, <1>4

(* The ways a step changes the states of the jobs. *)
Ended(j) ==
  /\ j \in Jobs /\ Running(j)
  /\ \E v \in {"success", "failure"} : job' = [job EXCEPT ![j] = v]

Restarted ==
  /\ Concluded
  /\ \E again : /\ "release" \in again
                /\ "build" \in again => "sign" \in again
                /\ job' = [j \in Jobs |-> IF j \in again THEN "waiting"
                                                         ELSE job[j]]

(* There are no others. *)
LEMMA JobChanges ==
  ASSUME [ReleaseNext]_releaseVars
  PROVE  \/ UNCHANGED job
         \/ \E j \in Jobs : Begin(j) \/ Skip(j) \/ Ended(j)
         \/ Restarted
<1>1. CASE RerunAll \/ RerunFailed \/ RerunJob
  BY <1>1, RerunClosed DEF Rerun, Restarted
<1>2. CASE \E j \in Jobs : Fail(j)
  BY <1>2 DEF Fail, Ends, Ended
<1>3. CASE JobStep
  BY <1>3
     DEF JobStep, CheckAbsent, Build, UploadAssets, UploadList, Sign,
         Download, CheckSignature, CreateRelease, DeleteFile, UploadFile,
         Finish, Ends, Ended, At, Jobs
<1> QED  BY <1>1, <1>2, <1>3 DEF ReleaseNext, releaseVars

(* Every step keeps the jobs in order. *)
LEMMA OrderStep ==
  ASSUME JobOrder, [ReleaseNext]_releaseVars
  PROVE  JobOrder'
<1> USE DEF JobOrder, Jobs, JobStates, Pending, Running
<1>1. CASE UNCHANGED job
  BY <1>1
<1>2. ASSUME NEW j \in Jobs, Begin(j) PROVE JobOrder'
  <2>1. /\ job[j] = "waiting" /\ \A n \in Needs[j] : job[n] = "success"
        /\ job' = [job EXCEPT ![j] = "running"]
    BY <1>2 DEF Begin
  <2> QED  BY <2>1 DEF Needs
<1>3. ASSUME NEW j \in Jobs, Skip(j) PROVE JobOrder'
  <2>1. /\ job[j] = "waiting"
        /\ \E n \in Needs[j] : job[n] \in {"failure", "skipped"}
        /\ job' = [job EXCEPT ![j] = "skipped"]
    BY <1>3 DEF Skip
  <2> QED  BY <2>1 DEF Needs
<1>4. ASSUME NEW j \in Jobs, Ended(j) PROVE JobOrder'
  BY <1>4 DEF Ended
<1>5. CASE Restarted
  BY <1>5 DEF Restarted, Concluded
<1> QED  BY <1>1, <1>2, <1>3, <1>4, <1>5, JobChanges

-----------------------------------------------------------------------------
(* The artifacts. *)

(* Of two files of a name cp leaves one, and all are of this attempt. *)
LEMMA CopiedOK ==
  ASSUME NEW paths \in Builds
  PROVE  FilesOK(Copied(paths))
<1>0. Len(paths) \in Nat
  BY BuildsAssumption
<1> DEFINE last == {j \in 1 .. Len(paths) :
                      ~\E k \in j + 1 .. Len(paths) :
                          BaseName[paths[j]] = BaseName[paths[k]]}
           file(i) == Pair(BaseName[paths[i]], Content(paths[i]))
<1>1. Copied(paths) = {file(i) : i \in last}
  BY DEF Copied
<1>2. \A i \in last : /\ file(i)[1] = BaseName[paths[i]]
                      /\ file(i)[2][2] = attempt
  BY DEF Pair, Content
<1>3. \A i, j \in last : BaseName[paths[i]] = BaseName[paths[j]] => i = j
  <2> SUFFICES ASSUME NEW i \in last, NEW j \in last,
                      BaseName[paths[i]] = BaseName[paths[j]], i # j
               PROVE  FALSE
    OBVIOUS
  <2>1. i \in 1 .. Len(paths) /\ j \in 1 .. Len(paths)
    OBVIOUS
  <2>2. CASE i < j
    <3>1. j \in i + 1 .. Len(paths)
      BY <1>0, <2>1, <2>2
    <3> QED  BY <3>1
  <2>3. CASE j < i
    <3>1. i \in j + 1 .. Len(paths)
      BY <1>0, <2>1, <2>3
    <3> QED  BY <3>1
  <2> QED  BY <1>0, <2>1, <2>2, <2>3
<1>4. \A i \in last : BaseName[paths[i]] \notin {"list", "sig"}
  BY BuildsAssumption
<1> HIDE DEF file, last
<1>5. OfOneBuild(Copied(paths))
  BY <1>1, <1>2 DEF OfOneBuild
<1>6. UniqueNames(Copied(paths))
  BY <1>1, <1>2, <1>3 DEF UniqueNames
<1>7. NotReserved(Copied(paths))
  BY <1>1, <1>2, <1>4 DEF NotReserved
<1> QED  BY <1>5, <1>6, <1>7 DEF FilesOK

(* The steps that change a directory or begin a job.  *)
Works == (\E j \in Jobs : Begin(j)) \/ Build \/ UploadAssets \/ UploadList
           \/ Sign \/ Download

(* The others leave both directories alone; a job that goes on or has      *)
(* succeeded after such a step did so before, but for the release job.     *)
LEMMA QuietSteps ==
  ASSUME JobOrder, [ReleaseNext]_releaseVars, ~Works
  PROVE  /\ UNCHANGED <<disk, artifacts>>
         /\ job'["build"] = "success" => job["build"] = "success"
         /\ job'["sign"] = "success" => job["sign"] = "success"
         /\ Running("build")' => /\ Running("build")
                                 /\ step' = step \/ CheckAbsent
         /\ Running("release")' =>
              /\ Running("release")
              /\ step' = step \/ CheckSignature \/ CreateRelease
         /\ job'["release"] = "success" =>
              job["release"] = "success" \/ Finish
<1> USE DEF JobOrder, Jobs, JobStates, Pending, Running, Ends
<1>1. CASE RerunAll \/ RerunFailed \/ RerunJob
  BY <1>1 DEF RerunAll, RerunFailed, RerunJob, Rerun, Concluded
<1>2. CASE \E j \in Jobs : Fail(j) \/ Skip(j)
  BY <1>2 DEF Fail, Skip
<1>3. CASE CheckAbsent \/ Finish
  BY <1>3 DEF CheckAbsent, Finish, At
<1>4. CASE CheckSignature
  BY <1>4 DEF CheckSignature, At
<1>5. CASE CreateRelease \/ DeleteFile \/ UploadFile
  BY <1>5 DEF CreateRelease, DeleteFile, UploadFile, At
<1>6. CASE UNCHANGED releaseVars
  BY <1>6 DEF releaseVars
<1> QED
  BY <1>1, <1>2, <1>3, <1>4, <1>5, <1>6 DEF ReleaseNext, JobStep, Works

(* A build fails, or makes files and a list of them. *)
Makes(paths) ==
  /\ \E text : /\ text # Refused
               /\ disk' = [disk EXCEPT !.files = Copied(paths), !.list = text]
  /\ step' = "upload assets"
  /\ UNCHANGED job

BuildFails == Ends("build", "failure") /\ UNCHANGED disk

LEMMA BuildResult ==
  ASSUME Build
  PROVE  \E paths \in Builds : BuildFails \/ Makes(paths)
BY DEF Build, Makes, BuildFails

(* How a job begins. *)
LEMMA FirstSteps ==
  /\ FirstStep["build"] = "check absent"
  /\ FirstStep["sign"] = "sign"
  /\ FirstStep["release"] = "download"
BY DEF FirstStep

(* Every step keeps the artifacts in order. *)
LEMMA ArtifactsStep ==
  ASSUME JobOrder, ArtifactsOK, [ReleaseNext]_releaseVars
  PROVE  ArtifactsOK'
<1> USE DEF JobOrder, Jobs, JobStates, Pending, Running
<1>1. CASE ~Works
  <2>1. Running("build")' /\ step' \in {"upload assets", "upload list"}
          => Running("build") /\ step' = step
    BY <1>1, QuietSteps DEF CheckAbsent, Ends, At
  <2> QED  BY <1>1, <2>1, QuietSteps DEF ArtifactsOK
<1>2. ASSUME NEW j \in Jobs, Begin(j) PROVE ArtifactsOK'
  <2>1. /\ job' = [job EXCEPT ![j] = "running"] /\ step' = FirstStep[j]
        /\ disk' = Nothing /\ UNCHANGED artifacts /\ job[j] = "waiting"
    BY <1>2 DEF Begin
  <2>2. IsDir(disk')
    BY <2>1 DEF IsDir, Nothing
  <2>3. step' \notin {"upload assets", "upload list"}
    BY <2>1, FirstSteps
  <2> QED  BY <2>1, <2>2, <2>3 DEF ArtifactsOK
<1>3. CASE Build
  <2>0. At("build", "build") /\ UNCHANGED artifacts
    BY <1>3 DEF Build
  <2>1. PICK paths \in Builds : BuildFails \/ Makes(paths)
    BY <1>3, BuildResult
  <2>2. CASE BuildFails
    BY <2>0, <2>2 DEF ArtifactsOK, BuildFails, Ends, At
  <2>3. CASE Makes(paths)
    <3>0. PICK text : /\ text # Refused
                      /\ disk' = [disk EXCEPT !.files = Copied(paths),
                                              !.list = text]
                      /\ UNCHANGED job
      BY <2>3 DEF Makes
    <3>1. /\ IsDir(disk')
          /\ disk'.files = Copied(paths) /\ disk'.list = text
      BY <3>0 DEF ArtifactsOK, IsDir
    <3>2. FilesOK(disk'.files) /\ disk'.list # Refused
      BY <3>0, <3>1, CopiedOK
    <3> QED
      BY <2>0, <3>0, <3>1, <3>2
         DEF ArtifactsOK, At, FilesOK, OfOneBuild, UniqueNames, NotReserved
  <2> QED  BY <2>1, <2>2, <2>3
<1>4. CASE UploadAssets
  <2>1. /\ At("build", "upload assets")
        /\ artifacts' = [artifacts EXCEPT !.files = disk.files]
        /\ step' = "upload list" /\ UNCHANGED <<job, disk>>
    BY <1>4 DEF UploadAssets
  <2>2. /\ IsDir(artifacts') /\ artifacts'.files = disk.files
    BY <2>1 DEF ArtifactsOK, IsDir
  <2> QED
    BY <2>1, <2>2
       DEF ArtifactsOK, At, FilesOK, OfOneBuild, UniqueNames, NotReserved
<1>5. CASE UploadList
  <2>1. /\ At("build", "upload list")
        /\ artifacts' = [artifacts EXCEPT !.list = disk.list]
        /\ job' = [job EXCEPT !["build"] = "success"] /\ UNCHANGED disk
    BY <1>5 DEF UploadList, Ends
  <2>2. /\ IsDir(artifacts') /\ artifacts'.files = artifacts.files
        /\ artifacts'.list = disk.list
    BY <2>1 DEF ArtifactsOK, IsDir
  <2> QED
    BY <2>1, <2>2
       DEF ArtifactsOK, At, FilesOK, OfOneBuild, UniqueNames, NotReserved
<1>6. CASE Sign
  <2>1. PICK key \in Keys :
          artifacts' = [artifacts EXCEPT !.sig =
            [list |-> artifacts.list, sig |-> Signature(key, artifacts.list)]]
    BY <1>6 DEF Sign
  <2>2. /\ At("sign", "sign") /\ step' = "none"
        /\ job' = [job EXCEPT !["sign"] = "success"] /\ UNCHANGED disk
    BY <1>6 DEF Sign, Ends
  <2>3. /\ IsDir(artifacts') /\ artifacts'.files = artifacts.files
        /\ artifacts'.list = artifacts.list
        /\ artifacts'.sig.list = artifacts.list
    BY <2>1 DEF ArtifactsOK, IsDir
  <2> QED
    BY <2>2, <2>3
       DEF ArtifactsOK, At, FilesOK, OfOneBuild, UniqueNames, NotReserved
<1>7. CASE Download
  <2>1. /\ At("release", "download") /\ UNCHANGED <<job, artifacts>>
        /\ disk' = [files |-> artifacts.files, list |-> artifacts.sig.list,
                    sig |-> artifacts.sig.sig]
    BY <1>7 DEF Download
  <2>2. IsDir(disk')
    BY <2>1 DEF IsDir
  <2> QED  BY <2>1, <2>2 DEF ArtifactsOK, At
<1> QED  BY <1>1, <1>2, <1>3, <1>4, <1>5, <1>6, <1>7 DEF Works

(* Every step keeps the signature in order: only sign.yml makes one. *)
LEMMA SignaturesStep ==
  ASSUME JobOrder, ArtifactsOK, SignaturesOK, [ReleaseNext]_releaseVars
  PROVE  SignaturesOK'
<1> USE DEF JobOrder, Jobs, JobStates, Pending, Running
<1>1. CASE ~Works
  BY <1>1, QuietSteps DEF SignaturesOK
<1>2. ASSUME NEW j \in Jobs, Begin(j) PROVE SignaturesOK'
  <2>1. job' = [job EXCEPT ![j] = "running"] /\ UNCHANGED artifacts
    BY <1>2 DEF Begin
  <2> QED  BY <2>1 DEF SignaturesOK
<1>3. CASE Build \/ UploadAssets \/ UploadList
  <2>1. Running("build") /\ (job' = job \/ \E v : job' = [job EXCEPT !["build"] = v])
    BY <1>3 DEF Build, UploadAssets, UploadList, At, Ends
  <2> QED  BY <2>1 DEF SignaturesOK
<1>4. CASE Sign
  <2>1. PICK key \in Keys :
          artifacts' = [artifacts EXCEPT !.sig =
            [list |-> artifacts.list, sig |-> Signature(key, artifacts.list)]]
    BY <1>4 DEF Sign
  <2>2. artifacts'.sig.sig = Signature(key, artifacts'.sig.list)
    BY <2>1 DEF ArtifactsOK, IsDir
  <2> QED  BY <2>2 DEF SignaturesOK
<1>5. CASE Download
  BY <1>5 DEF Download, SignaturesOK
<1> QED  BY <1>1, <1>2, <1>3, <1>4, <1>5 DEF Works

(* The fields of a signature. *)
LEMMA SignatureFields ==
  \A s, k, l : s = Signature(k, l) => s.key = k /\ s.list = l
BY DEF Signature

(* check-files, when it passes, has compared the files with the list, and  *)
(* the signature was made for that list with a trusted key.                *)
LEMMA CheckPasses ==
  ASSUME JobOrder, ArtifactsOK, SignaturesOK, DownloadOK, CheckSignature,
         step' = "create release"
  PROVE  disk.list = disk.files /\ Verified(disk.sig, disk.files)
<1>1. /\ At("release", "check files")
      /\ list_text(disk.files) = disk.list
      /\ check_signature(disk.list, disk.sig, Trusted)
  BY DEF CheckSignature, Ends
<1>2. disk.list # Refused
  BY <1>1 DEF At, JobOrder, ArtifactsOK, DownloadOK
<1>3. disk.list = disk.files
  BY <1>1, <1>2 DEF list_text
<1>4. PICK k \in Keys : disk.sig = Signature(k, disk.list)
  BY <1>1 DEF At, JobOrder, SignaturesOK, DownloadOK
<1>5. disk.sig.list = disk.list
  BY <1>4, SignatureFields
<1>6. Trusted # {} => disk.sig.key \in Trusted
  BY <1>1, SignatureFields DEF check_signature, SignedBy
<1> QED  BY <1>3, <1>5, <1>6 DEF Verified

(* Every step keeps the workspace of the release job what it was when it   *)
(* was checked.                                                            *)
LEMMA DownloadStep ==
  ASSUME JobOrder, ArtifactsOK, SignaturesOK, DownloadOK,
         [ReleaseNext]_releaseVars
  PROVE  DownloadOK'
<1>0. JobOrder'
  BY OrderStep
<1> USE DEF JobOrder, Jobs, JobStates, Pending, Running
<1>1. CASE ~Works
  <2> SUFFICES ASSUME Running("release")' PROVE DownloadOK'
    BY DEF DownloadOK
  <2>0. /\ UNCHANGED <<disk, artifacts>> /\ Running("release")
        /\ step' = step \/ CheckSignature \/ CreateRelease
    BY <1>1, QuietSteps
  <2>1. CASE step' = step
    BY <2>0, <2>1 DEF DownloadOK, Verified
  <2>2. CASE CheckSignature
    <3>1. step = "check files" /\ step' \in {"create release", "none"}
      BY <2>2 DEF CheckSignature, Ends, At
    <3>2. step' = "create release" =>
            disk.list = disk.files /\ Verified(disk.sig, disk.files)
      BY <2>2, CheckPasses
    <3> QED  BY <2>0, <3>1, <3>2 DEF DownloadOK, Verified
  <2>3. CASE CreateRelease
    <3>1. step = "create release" /\ step' = "upload files"
      BY <2>3 DEF CreateRelease, At
    <3> QED  BY <2>0, <3>1 DEF DownloadOK, Verified
  <2> QED  BY <2>0, <2>1, <2>2, <2>3
<1>2. ASSUME NEW j \in Jobs, Begin(j) PROVE DownloadOK'
  <2>1. job' = [job EXCEPT ![j] = "running"] /\ step' = FirstStep[j]
    BY <1>2 DEF Begin
  <2>2. Running("release")' => j = "release"
    BY <1>0, <2>1
  <2> QED  BY <2>1, <2>2, FirstSteps DEF DownloadOK
<1>3. CASE Build \/ UploadAssets \/ UploadList
  <2>1. Running("build") /\ (job' = job \/ \E v : job' = [job EXCEPT !["build"] = v])
    BY <1>3 DEF Build, UploadAssets, UploadList, At, Ends
  <2> QED  BY <2>1 DEF DownloadOK
<1>4. CASE Sign
  <2>1. Running("sign") /\ job' = [job EXCEPT !["sign"] = "success"]
    BY <1>4 DEF Sign, Ends, At
  <2> QED  BY <2>1 DEF DownloadOK
<1>5. CASE Download
  <2>1. /\ step' = "check files" /\ UNCHANGED artifacts
        /\ disk' = [files |-> artifacts.files, list |-> artifacts.sig.list,
                    sig |-> artifacts.sig.sig]
    BY <1>5 DEF Download
  <2> QED  BY <2>1 DEF DownloadOK
<1> QED  BY <1>1, <1>2, <1>3, <1>4, <1>5 DEF Works

-----------------------------------------------------------------------------
(* What is published. *)

(* Only the uploads touch what the release has, and only CreateRelease     *)
(* makes it.                                                               *)
LEMMA ReleaseChanges ==
  ASSUME [ReleaseNext]_releaseVars
  PROVE  /\ UNCHANGED published \/ DeleteFile \/ UploadFile
         /\ UNCHANGED exists \/ CreateRelease
         /\ UNCHANGED sent \/ UploadFile \/ \E j \in Jobs : Begin(j)
BY DEF ReleaseNext, releaseVars, JobStep, Begin, Skip, Fail, CheckAbsent, Build,
       UploadAssets, UploadList, Sign, Download, CheckSignature, CreateRelease,
       DeleteFile, UploadFile, Finish, RerunAll, RerunFailed, RerunJob, Rerun

(* What the release job uploads: the files, the list and the signature     *)
(* that it has checked, under distinct names.                              *)
LEMMA UploadsChecked ==
  ASSUME JobOrder, ArtifactsOK, DownloadOK, At("release", "upload files")
  PROVE  /\ disk.files = artifacts.files /\ disk.list = artifacts.files
         /\ disk.sig = artifacts.sig.sig
         /\ Verified(disk.sig, artifacts.files)
         /\ \A f \in ToSend :
              /\ f \in artifacts.files \/ f = Pair("list", artifacts.files)
                   \/ f = Pair("sig", disk.sig)
              /\ f[1] = "sig" => f = Pair("sig", disk.sig)
         /\ UniqueNames(ToSend)
<1>1. /\ disk.files = artifacts.files /\ disk.list = artifacts.files
      /\ disk.sig = artifacts.sig.sig
      /\ Verified(disk.sig, artifacts.files)
  BY DEF At, DownloadOK
<1>2. ToSend = artifacts.files \union
                 {Pair("list", artifacts.files), Pair("sig", disk.sig)}
  BY <1>1 DEF ToSend
<1>3. NotReserved(artifacts.files) /\ UniqueNames(artifacts.files)
  BY DEF ArtifactsOK, FilesOK
<1>4. /\ Pair("list", artifacts.files)[1] = "list"
      /\ Pair("sig", disk.sig)[1] = "sig" /\ "list" # "sig"
  BY DEF Pair
<1>5. \A f \in ToSend :
        /\ f \in artifacts.files \/ f = Pair("list", artifacts.files)
             \/ f = Pair("sig", disk.sig)
        /\ f[1] = "sig" => f = Pair("sig", disk.sig)
        /\ f[1] = "list" => f = Pair("list", artifacts.files)
        /\ f[1] \notin {"list", "sig"} => f \in artifacts.files
  BY <1>2, <1>3, <1>4 DEF NotReserved
<1>6. UniqueNames(ToSend)
  BY <1>3, <1>4, <1>5 DEF UniqueNames, NotReserved
<1> QED  BY <1>1, <1>5, <1>6

(* The artifact with the files changes only where a build uploads it, which *)
(* no build does once there is a release.                                   *)
LEMMA FilesStay ==
  ASSUME JobOrder, ArtifactsOK, PublishedOK, [ReleaseNext]_releaseVars
  PROVE  exists => artifacts'.files = artifacts.files
<1>1. CASE ~Works
  BY <1>1, QuietSteps
<1>2. CASE Build \/ Download \/ \E j \in Jobs : Begin(j)
  BY <1>2 DEF Build, Download, Begin
<1>3. CASE UploadAssets
  BY <1>3 DEF UploadAssets, At, PublishedOK
<1>4. CASE UploadList
  BY <1>4 DEF UploadList, ArtifactsOK, IsDir
<1>5. CASE Sign
  BY <1>5 DEF Sign, ArtifactsOK, IsDir
<1> QED  BY <1>1, <1>2, <1>3, <1>4, <1>5 DEF Works

(* Once there is a release, no build gets past its first step. *)
LEMMA BuildStops ==
  ASSUME ~GhCanFail, JobOrder, PublishedOK, [ReleaseNext]_releaseVars
  PROVE  exists' /\ Running("build")' => step' = "check absent"
<1> USE DEF JobOrder, Jobs, JobStates, Pending, Running
<1>1. CASE ~Works
  <2> SUFFICES ASSUME exists', Running("build")' PROVE step' = "check absent"
    OBVIOUS
  <2>1. Running("build") /\ (step' = step \/ CheckAbsent)
    BY <1>1, QuietSteps
  <2>2. exists
    BY <2>1, ReleaseChanges DEF CreateRelease, At
  <2>3. step = "check absent"
    BY <2>1, <2>2 DEF PublishedOK
  <2>4. CASE CheckAbsent
    <3>1. job' = [job EXCEPT !["build"] = "failure"]
      BY <2>2, <2>4 DEF CheckAbsent, Ends
    <3> QED  BY <3>1
  <2> QED  BY <2>1, <2>3, <2>4
<1>2. ASSUME NEW j \in Jobs, Begin(j)
      PROVE  exists' /\ Running("build")' => step' = "check absent"
  <2>1. job' = [job EXCEPT ![j] = "running"] /\ step' = FirstStep[j]
    BY <1>2 DEF Begin
  <2>2. JobOrder'
    BY OrderStep
  <2>3. Running("build")' => j = "build"
    BY <2>1, <2>2
  <2> QED  BY <2>1, <2>3, FirstSteps
<1>3. CASE Build \/ UploadAssets \/ UploadList
  <2>1. Running("build") /\ step # "check absent" /\ UNCHANGED exists
    BY <1>3 DEF Build, UploadAssets, UploadList, At
  <2> QED  BY <2>1 DEF PublishedOK
<1>4. CASE Sign
  <2>1. Running("sign") /\ job' = [job EXCEPT !["sign"] = "success"]
    BY <1>4 DEF Sign, At, Ends
  <2> QED  BY <2>1
<1>5. CASE Download
  <2>1. Running("release") /\ UNCHANGED job
    BY <1>5 DEF Download, At
  <2> QED  BY <2>1
<1> QED  BY <1>1, <1>2, <1>3, <1>4, <1>5 DEF Works

(* A job is at its uploads only when there is a release. *)
LEMMA UploadsAfterRelease ==
  ASSUME JobOrder, PublishedOK, [ReleaseNext]_releaseVars
  PROVE  Running("release")' /\ step' = "upload files" => exists'
<1> USE DEF JobOrder, Jobs, JobStates, Pending, Running
<1>1. CASE ~Works
  <2> SUFFICES ASSUME Running("release")', step' = "upload files"
               PROVE  exists'
    OBVIOUS
  <2>1. /\ Running("release")
        /\ step' = step \/ CheckSignature \/ CreateRelease
    BY <1>1, QuietSteps
  <2>2. ~CheckSignature
    BY DEF CheckSignature, Ends
  <2>3. CASE CreateRelease
    BY <2>3 DEF CreateRelease
  <2>4. CASE step' = step
    BY <2>1, <2>4, ReleaseChanges DEF PublishedOK, CreateRelease
  <2> QED  BY <2>1, <2>2, <2>3, <2>4
<1>2. ASSUME NEW j \in Jobs, Begin(j)
      PROVE  Running("release")' /\ step' = "upload files" => exists'
  <2>1. step' = FirstStep[j]
    BY <1>2 DEF Begin
  <2> QED  BY <2>1, FirstSteps
<1>3. CASE UploadAssets \/ Download
  BY <1>3 DEF UploadAssets, Download
<1>4. CASE Build \/ UploadList \/ Sign
  <2>1. step' \in {"upload assets", "none"}
    BY <1>4 DEF Build, UploadList, Sign, Ends
  <2> QED  BY <2>1
<1> QED  BY <1>1, <1>2, <1>3, <1>4 DEF Works

(* Every step keeps the release what the artifact with the files is. *)
LEMMA PublishedStep ==
  ASSUME ~GhCanFail, ReleaseInv, PublishedOK, [ReleaseNext]_releaseVars
  PROVE  PublishedOK'
<1> USE DEF ReleaseInv
<1> DEFINE Kept(f) == \/ f \in artifacts.files
                      \/ f = Pair("list", artifacts.files)
                      \/ f = Pair("sig", f[2]) /\ f[2].list = artifacts.files
<1>0. exists \in BOOLEAN /\ (~exists => published = {})
      /\ UniqueNames(published) /\ \A f \in published : Kept(f)
  BY DEF PublishedOK
<1>1. exists' \in BOOLEAN /\ (exists => exists')
  BY <1>0, ReleaseChanges DEF CreateRelease
<1>2. At("release", "upload files") => exists
  BY DEF PublishedOK, At
<1>3. published' = published \/ exists
  BY <1>2, ReleaseChanges DEF DeleteFile, UploadFile
<1>4. ~exists' => published' = {}
  BY <1>0, <1>1, <1>3
<1>5. UniqueNames(published') /\ \A f \in published' : Kept(f)
  <2>1. CASE UNCHANGED published
    BY <1>0, <2>1
  <2>2. CASE DeleteFile
    <3>1. published' \subseteq published
      BY <2>2 DEF DeleteFile
    <3> QED  BY <1>0, <3>1 DEF UniqueNames
  <2>3. CASE UploadFile
    <3>1. PICK f \in ToSend : /\ f[1] \notin {old[1] : old \in published}
                              /\ published' = published \union {f}
      BY <2>3 DEF UploadFile
    <3>2. UniqueNames(published')
      BY <1>0, <3>1 DEF UniqueNames
    <3>3. At("release", "upload files")
      BY <2>3 DEF UploadFile
    <3>4. \/ f \in artifacts.files \/ f = Pair("list", artifacts.files)
          \/ f = Pair("sig", disk.sig)
      BY <3>3, UploadsChecked
    <3>5. disk.sig.list = artifacts.files
      BY <3>3, UploadsChecked DEF Verified
    <3>6. Pair("sig", disk.sig)[2] = disk.sig
      BY DEF Pair
    <3>7. Kept(f)
      BY <3>4, <3>5, <3>6
    <3> QED  BY <1>0, <3>1, <3>2, <3>7
  <2> QED  BY <2>1, <2>2, <2>3, ReleaseChanges
<1>6. published' # {} => artifacts'.files = artifacts.files
  BY <1>0, <1>3, FilesStay
<1>7. \A f \in published' : Kept(f)'
  BY <1>5, <1>6
<1>8. UniqueNames(published)'
  BY <1>5 DEF UniqueNames
<1> QED
  BY <1>1, <1>4, <1>7, <1>8, BuildStops, UploadsAfterRelease DEF PublishedOK

(* Before its uploads the release job has sent nothing. *)
LEMMA NothingSentBefore ==
  ASSUME JobOrder, SentOK, [ReleaseNext]_releaseVars, Running("release")',
         step' \in {"download", "check files", "create release"}
  PROVE  sent' = {}
<1> USE DEF JobOrder, Jobs, JobStates, Pending, Running
<1>1. CASE ~Works
  <2>1. /\ Running("release")
        /\ step' = step \/ CheckSignature \/ CreateRelease
    BY <1>1, QuietSteps
  <2>2. step \in {"download", "check files", "create release"}
    BY <2>1 DEF CheckSignature, CreateRelease, At
  <2>3. UNCHANGED sent
    BY <1>1, <2>2, ReleaseChanges DEF UploadFile, At, Works
  <2> QED  BY <2>1, <2>2, <2>3 DEF SentOK
<1>2. CASE \E j \in Jobs : Begin(j)
  BY <1>2 DEF Begin
<1>3. CASE Build \/ UploadAssets \/ UploadList
  <2>1. Running("build") /\ (job' = job \/ \E v : job' = [job EXCEPT !["build"] = v])
    BY <1>3 DEF Build, UploadAssets, UploadList, At, Ends
  <2> QED  BY <2>1
<1>4. CASE Sign
  <2>1. Running("sign") /\ job' = [job EXCEPT !["sign"] = "success"]
    BY <1>4 DEF Sign, At, Ends
  <2> QED  BY <2>1
<1>5. CASE Download
  <2>1. Running("release") /\ step = "download" /\ UNCHANGED sent
    BY <1>5 DEF Download, At
  <2> QED  BY <2>1 DEF SentOK
<1> QED  BY <1>1, <1>2, <1>3, <1>4, <1>5 DEF Works

(* What the release job has sent stays in the release while it uploads. *)
LEMMA SentStays ==
  ASSUME ReleaseInv, SentOK, [ReleaseNext]_releaseVars,
         Running("release")', step' = "upload files"
  PROVE  (\A f \in ToSend : f[1] \in sent => f \in published)'
<1> USE DEF ReleaseInv
<1>1. ~Works
  <2>1. ASSUME NEW j \in Jobs, Begin(j) PROVE FALSE
    BY <2>1, FirstSteps DEF Begin, Jobs
  <2>2. ~Build /\ ~UploadAssets /\ ~UploadList /\ ~Sign /\ ~Download
    BY DEF Build, UploadAssets, UploadList, Sign, Download, Ends
  <2> QED  BY <2>1, <2>2 DEF Works
<1>2. /\ UNCHANGED disk /\ Running("release")
      /\ step' = step \/ CheckSignature \/ CreateRelease
  BY <1>1, QuietSteps
<1>3. ~CheckSignature
  BY DEF CheckSignature, Ends
<1>4. ToSend' = ToSend
  BY <1>2 DEF ToSend
<1>5. CASE CreateRelease
  <2>1. sent' = {}
    BY <1>2, <1>5 DEF SentOK, CreateRelease, At
  <2> QED  BY <2>1
<1>6. CASE step' = step
  <2>0. /\ At("release", "upload files")
        /\ \A f \in ToSend : f[1] \in sent => f \in published
    BY <1>2, <1>6 DEF SentOK, At
  <2>1. CASE UploadFile
    <3>1. PICK f \in ToSend : /\ published' = published \union {f}
                              /\ sent' = sent \union {f[1]}
      BY <2>1 DEF UploadFile
    <3>2. \A g \in ToSend : g[1] = f[1] => g = f
      BY <2>0, UploadsChecked DEF UniqueNames
    <3> QED  BY <1>4, <2>0, <3>1, <3>2
  <2>2. CASE DeleteFile
    <3>1. PICK f \in ToSend, old \in published :
            /\ old[1] = f[1] /\ f[1] \notin sent
            /\ published' = published \ {old}
      BY <2>2 DEF DeleteFile
    <3>2. UNCHANGED sent
      BY <2>2 DEF DeleteFile
    <3> QED  BY <1>4, <2>0, <3>1, <3>2
  <2>3. CASE UNCHANGED <<published, sent>>
    BY <1>4, <2>0, <2>3
  <2> QED  BY <1>1, <2>1, <2>2, <2>3, ReleaseChanges DEF Works, DeleteFile
<1> QED  BY <1>2, <1>3, <1>5, <1>6

(* A release job that ends with success has left what it sent, and nothing *)
(* else.                                                                   *)
LEMMA FinishIsWhole ==
  ASSUME ReleaseInv, PublishedOK, SentOK, Finish
  PROVE  published = artifacts.files \union
           {Pair("list", artifacts.files), Pair("sig", artifacts.sig.sig)}
<1> USE DEF ReleaseInv
<1>1. At("release", "upload files") /\ {f[1] : f \in ToSend} \subseteq sent
  BY DEF Finish
<1>2. ToSend \subseteq published
  BY <1>1 DEF SentOK, At
<1>3. /\ disk.files = artifacts.files /\ disk.list = artifacts.files
      /\ disk.sig = artifacts.sig.sig
  BY <1>1, UploadsChecked
<1>4. ToSend = artifacts.files \union
        {Pair("list", artifacts.files), Pair("sig", artifacts.sig.sig)}
  BY <1>3 DEF ToSend
<1>5. published \subseteq ToSend
  <2> SUFFICES ASSUME NEW f \in published PROVE f \in ToSend
    OBVIOUS
  <2>1. CASE f \in artifacts.files \/ f = Pair("list", artifacts.files)
    BY <1>4, <2>1
  <2>2. CASE f = Pair("sig", f[2])
    <3>1. Pair("sig", artifacts.sig.sig) \in published
      BY <1>2, <1>4
    <3>2. f[1] = Pair("sig", artifacts.sig.sig)[1]
      BY <2>2 DEF Pair
    <3>3. f = Pair("sig", artifacts.sig.sig)
      BY <3>1, <3>2 DEF PublishedOK, UniqueNames
    <3> QED  BY <1>4, <3>3
  <2> QED  BY <2>1, <2>2 DEF PublishedOK
<1> QED  BY <1>2, <1>4, <1>5

(* Every step keeps what was sent, and a whole release whole. *)
LEMMA SentStep ==
  ASSUME ReleaseInv, PublishedOK, SentOK, [ReleaseNext]_releaseVars
  PROVE  SentOK'
<1> USE DEF ReleaseInv
<1> DEFINE Whole == published = artifacts.files \union
              {Pair("list", artifacts.files), Pair("sig", artifacts.sig.sig)}
<1>1. ASSUME job'["release"] = "success" PROVE Whole'
  <2>1. CASE Finish
    <3>1. UNCHANGED <<artifacts, published>>
      BY <2>1 DEF Finish
    <3> QED  BY <2>1, <3>1, FinishIsWhole
  <2>2. CASE job["release"] = "success"
    <3>1. Whole
      BY <2>2 DEF SentOK
    <3>2. UNCHANGED published
      BY <2>2, ReleaseChanges DEF DeleteFile, UploadFile, At, Running
    <3>3. UNCHANGED artifacts
      <4>1. CASE ~Works
        BY <4>1, QuietSteps
      <4>2. CASE Build \/ Download \/ \E j \in Jobs : Begin(j)
        BY <4>2 DEF Build, Download, Begin
      <4>3. ~UploadAssets /\ ~UploadList /\ ~Sign
        BY <2>2
           DEF UploadAssets, UploadList, Sign, At, Running, JobOrder, Pending
      <4> QED  BY <4>1, <4>2, <4>3 DEF Works
    <3> QED  BY <3>1, <3>2, <3>3
  <2>3. CASE Works
    <3>1. job["release"] = "success"
      <4> USE DEF JobOrder, Jobs, JobStates, Running
      <4>1. ASSUME NEW j \in Jobs, Begin(j) PROVE job["release"] = "success"
        <5>1. job' = [job EXCEPT ![j] = "running"]
          BY <4>1 DEF Begin
        <5> QED  BY <1>1, <5>1
      <4>2. CASE Build \/ UploadAssets \/ UploadList
        <5>1. job' = job \/ \E v : job' = [job EXCEPT !["build"] = v]
          BY <4>2 DEF Build, UploadAssets, UploadList, Ends
        <5> QED  BY <1>1, <5>1
      <4>3. CASE Sign
        <5>1. job' = [job EXCEPT !["sign"] = "success"]
          BY <4>3 DEF Sign, Ends
        <5> QED  BY <1>1, <5>1
      <4>4. CASE Download
        BY <1>1, <4>4 DEF Download
      <4> QED  BY <2>3, <4>1, <4>2, <4>3, <4>4 DEF Works
    <3> QED  BY <2>2, <3>1
  <2> QED  BY <1>1, <2>1, <2>2, <2>3, QuietSteps
<1> QED  BY <1>1, NothingSentBefore, SentStays DEF SentOK

-----------------------------------------------------------------------------
(* The theorems. *)

(* The initial state has made, checked and published nothing. *)
LEMMA ReleaseInitially ==
  ASSUME ReleaseInit
  PROVE  ReleaseInv /\ PublishedOK /\ SentOK
<1>1. /\ job = [j \in Jobs |-> "waiting"] /\ disk = Nothing
      /\ artifacts = Nothing /\ exists = FALSE /\ published = {}
  BY DEF ReleaseInit
<1>2. \A j \in Jobs : job[j] = "waiting"
  BY <1>1
<1>3. IsDir(disk) /\ IsDir(artifacts) /\ artifacts.files = {}
  BY <1>1 DEF IsDir, Nothing
<1>4. JobOrder
  BY <1>1, <1>2 DEF JobOrder, Jobs, JobStates, Running, Pending
<1>5. ArtifactsOK /\ SignaturesOK /\ DownloadOK
  BY <1>1, <1>2, <1>3
     DEF ArtifactsOK, SignaturesOK, DownloadOK, Jobs, Running, FilesOK,
         OfOneBuild, UniqueNames, NotReserved
<1>6. PublishedOK /\ SentOK
  BY <1>1, <1>2 DEF PublishedOK, SentOK, Jobs, Running, UniqueNames
<1> QED  BY <1>4, <1>5, <1>6 DEF ReleaseInv

(* Every step keeps what the jobs have made and checked in order. *)
LEMMA ReleaseInvStep ==
  ASSUME ReleaseInv, [ReleaseNext]_releaseVars
  PROVE  ReleaseInv'
BY OrderStep, ArtifactsStep, SignaturesStep, DownloadStep
   DEF ReleaseInv

(* When the public key is set, every file that any attempt adds to the     *)
(* release is in a list its job holds a trusted signature of, or is that   *)
(* list or signature: when the sign job was run again with another key,    *)
(* and when gh release view fails too.  That the files which then stand    *)
(* beside each other are of one list is what ReleaseOneBuild says.         *)
THEOREM ReleasePublishedVerifies == ReleaseSpec => PublishedVerifies
<1> DEFINE Checked ==
      Trusted # {} => \A f \in published' \ published :
        /\ disk.sig.key \in Trusted /\ disk.sig.list = disk.list
        /\ f \in disk.list \union {Pair("list", disk.list),
                                    Pair("sig", disk.sig)}
<1>1. ReleaseInit => ReleaseInv
  BY ReleaseInitially
<1>2. ReleaseInv /\ [ReleaseNext]_releaseVars => ReleaseInv'
  BY ReleaseInvStep
<1>3. ReleaseInv /\ [ReleaseNext]_releaseVars => [Checked]_releaseVars
  <2> SUFFICES ASSUME ReleaseInv, ReleaseNext, Trusted # {},
                      NEW f \in published' \ published
               PROVE  /\ disk.sig.key \in Trusted /\ disk.sig.list = disk.list
                      /\ f \in disk.list \union {Pair("list", disk.list),
                                                  Pair("sig", disk.sig)}
    OBVIOUS
  <2>1. UploadFile
    BY ReleaseChanges DEF DeleteFile
  <2>2. f \in ToSend /\ At("release", "upload files")
    <3>1. PICK g \in ToSend : published' = published \union {g}
      BY <2>1 DEF UploadFile
    <3>2. At("release", "upload files")
      BY <2>1 DEF UploadFile
    <3> QED  BY <3>1, <3>2
  <2>3. disk.list = disk.files /\ Verified(disk.sig, disk.files)
    BY <2>2 DEF ReleaseInv, DownloadOK, At
  <2>4. disk.sig.key \in Trusted /\ disk.sig.list = disk.list
    BY <2>3 DEF Verified
  <2> QED  BY <2>2, <2>3, <2>4 DEF ToSend
<1> QED  BY <1>1, <1>2, <1>3, PTL DEF ReleaseSpec, PublishedVerifies

(* Where gh release view tells whether there is a release, the files, the  *)
(* list and the signature there are of one build, whatever failed and was  *)
(* run again.                                                              *)
THEOREM ReleaseOneBuild ==
  ~GhCanFail /\ ReleaseSpec => []OneBuild
<1> DEFINE Inv == ReleaseInv /\ PublishedOK
<1> SUFFICES ASSUME ~GhCanFail PROVE ReleaseSpec => []OneBuild
  OBVIOUS
<1>1. ReleaseInit => Inv
  BY ReleaseInitially
<1>2. Inv /\ [ReleaseNext]_releaseVars => Inv'
  BY ReleaseInvStep, PublishedStep
<1>3. Inv => OneBuild
  <2> SUFFICES ASSUME Inv PROVE OneBuild
    OBVIOUS
  <2>1. \A f \in published :
          /\ f[1] \notin {"list", "sig"} => f \in artifacts.files
          /\ f[1] = "list" => f[2] = artifacts.files
          /\ f[1] = "sig" => f[2].list = artifacts.files
    <3> TAKE f \in published
    <3>1. CASE f \in artifacts.files
      BY <3>1 DEF ReleaseInv, ArtifactsOK, FilesOK, NotReserved
    <3>2. CASE f = Pair("list", artifacts.files)
      BY <3>2 DEF Pair
    <3>3. CASE f = Pair("sig", f[2]) /\ f[2].list = artifacts.files
      BY <3>3 DEF Pair
    <3> QED  BY <3>1, <3>2, <3>3 DEF PublishedOK
  <2>2. Assets \subseteq artifacts.files
    BY <2>1 DEF Assets
  <2>3. \A l \in Lists : l = artifacts.files
    BY <2>1 DEF Lists
  <2>4. \A s \in Signatures : s.list = artifacts.files
    BY <2>1 DEF Signatures
  <2>5. OfOneBuild(artifacts.files)
    BY DEF ReleaseInv, ArtifactsOK, FilesOK
  <2> QED  BY <2>2, <2>3, <2>4, <2>5 DEF OneBuild, OfOneBuild
<1> QED  BY <1>1, <1>2, <1>3, PTL DEF ReleaseSpec

(* And a release job that ends with success, after whatever was uploaded,  *)
(* deleted and uploaded again by earlier attempts, has left the files of   *)
(* the list, all and no other, with the list and its signature.            *)
THEOREM ReleaseSuccessIsWhole ==
  ~GhCanFail /\ ReleaseSpec => []SuccessIsWhole
<1> DEFINE Inv == ReleaseInv /\ PublishedOK /\ SentOK
<1> SUFFICES ASSUME ~GhCanFail PROVE ReleaseSpec => []SuccessIsWhole
  OBVIOUS
<1>1. ReleaseInit => Inv
  BY ReleaseInitially
<1>2. Inv /\ [ReleaseNext]_releaseVars => Inv'
  BY ReleaseInvStep, PublishedStep, SentStep
<1>3. Inv => SuccessIsWhole
  <2> SUFFICES ASSUME Inv, job["release"] = "success"
               PROVE  \E l \in Lists, s \in Signatures :
                        published = l \union {Pair("list", l), Pair("sig", s)}
    BY DEF SuccessIsWhole
  <2> DEFINE l == artifacts.files
             s == artifacts.sig.sig
  <2>1. published = l \union {Pair("list", l), Pair("sig", s)}
    BY DEF SentOK
  <2>2. Pair("list", l) \in published /\ Pair("sig", s) \in published
    BY <2>1
  <2>3. l \in Lists
    BY <2>2 DEF Lists, Pair
  <2>4. s \in Signatures
    BY <2>2 DEF Signatures, Pair
  <2> QED  BY <2>1, <2>3, <2>4
<1> QED  BY <1>1, <1>2, <1>3, PTL DEF ReleaseSpec

=============================================================================
