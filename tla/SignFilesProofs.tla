-------------------------- MODULE SignFilesProofs ---------------------------
(***************************************************************************)
(* Proofs about the commands for release files, for every set of files,    *)
(* keys and argument lists, and any number of commands, stopped anywhere.  *)
(*                                                                         *)
(* The argument: a command computes all that it writes before it opens a   *)
(* file, and the files it was given do not change while it runs; so, when  *)
(* it comes to an end with success, each file of the directory is what it  *)
(* computed, whatever an earlier command had left there.                   *)
(***************************************************************************)
EXTENDS SignFiles, TLAPS

(* The record of a command has its fields. *)
IsProc ==
  proc = [cmd |-> proc.cmd, pc |-> proc.pc, args |-> proc.args,
          data |-> proc.data, signature |-> proc.signature,
          keys |-> proc.keys, exit |-> proc.exit]

Writing == {"open list", "write list", "open sig", "write sig"}
Computed == {"sign"} \union Writing

(* Where each command can be. *)
ControlOK ==
  /\ IsProc
  /\ proc.cmd \in {"none", "list-files", "merge", "files", "check-files"}
  /\ proc.pc \in {"exit", "compute"} \union Computed
  /\ proc.pc \in {"sign", "open sig", "write sig"} => proc.cmd = "files"
  /\ proc.pc \in Writing => proc.cmd # "check-files"
  /\ proc.cmd = "none" => proc.pc = "exit" /\ proc.exit = "none"
  /\ proc.cmd \in {"list-files", "files", "check-files"} =>
       proc.args \in ArgLists

Succeeded == proc.pc = "exit" /\ proc.exit = "ok"
Lists == proc.cmd \in {"list-files", "files"}
Text == FileList(proc.args, BaseName, content)

(* The list that was computed holds the built files, and is theirs when    *)
(* there are no others.                                                    *)
OfFiles ==
  /\ proc.data # Refused
  /\ Plain(proc.args) => proc.data = Text
  /\ \A i \in 1 .. Len(proc.args) :
       proc.args[i] \in Paths =>
         Pair(BaseName[proc.args[i]], content[proc.args[i]]) \in proc.data

OfParts == proc.data = part[proc.args[1]] \union part[proc.args[2]]

(* What a command has computed is still true of the files it read. *)
DataOK ==
  /\ content \in [Paths -> Contents]
  /\ Lists /\ (proc.pc \in Computed \/ Succeeded) => OfFiles
  /\ proc.cmd = "merge" /\ (proc.pc \in Computed \/ Succeeded) => OfParts
  /\ proc.cmd = "files" /\ (proc.pc \in Writing \/ Succeeded) =>
       \E key \in Keys : proc.signature = Signature(key, proc.data)

(* What a command has written is what is there. *)
WrittenOK ==
  /\ /\ Lists \/ proc.cmd = "merge"
     /\ proc.pc \in {"open sig", "write sig"} \/ Succeeded
     => list = proc.data
  /\ Done("files") => sig = proc.signature

FilesInv == ControlOK /\ DataOK /\ WrittenOK

-----------------------------------------------------------------------------
(* Lists. *)

(* The list of files, when there is one, holds each of them. *)
LEMMA FileListPairs ==
  ASSUME NEW paths, NEW base, NEW c, FileList(paths, base, c) # Refused
  PROVE  FileList(paths, base, c) =
           {Pair(base[paths[i]], c[paths[i]]) : i \in 1 .. Len(paths)}
BY DEF FileList, list_text

(* A command reads the built files as they are. *)
LEMMA FileOfPath ==
  ASSUME NEW p \in Paths
  PROVE  File[p] = content[p]
BY OwnAssumption DEF File, OwnFiles

(* So a list of built files does not depend on the directory. *)
LEMMA PlainText ==
  ASSUME NEW args, Plain(args)
  PROVE  FileList(args, BaseName, File) = FileList(args, BaseName, content)
<1>1. \A i \in 1 .. Len(args) : File[args[i]] = content[args[i]]
  BY FileOfPath DEF Plain
<1>2. {Pair(BaseName[args[i]], File[args[i]]) : i \in 1 .. Len(args)}
        = {Pair(BaseName[args[i]], content[args[i]]) : i \in 1 .. Len(args)}
  BY <1>1
<1>3. (\E i \in 1 .. Len(args) : File[args[i]] = Missing)
        <=> (\E i \in 1 .. Len(args) : content[args[i]] = Missing)
  BY <1>1
<1> QED  BY <1>2, <1>3 DEF FileList

(* What list-files and files compute is of their files. *)
LEMMA ListOfFiles ==
  ASSUME NEW args, NEW text, text = FileList(args, BaseName, File),
         text # Refused
  PROVE  /\ Plain(args) => text = FileList(args, BaseName, content)
         /\ \A i \in 1 .. Len(args) :
              args[i] \in Paths =>
                Pair(BaseName[args[i]], content[args[i]]) \in text
<1>1. text = {Pair(BaseName[args[i]], File[args[i]]) : i \in 1 .. Len(args)}
  BY FileListPairs
<1>2. ASSUME NEW i \in 1 .. Len(args), args[i] \in Paths
      PROVE  Pair(BaseName[args[i]], content[args[i]]) \in text
  <2>1. File[args[i]] = content[args[i]]
    BY <1>2, FileOfPath
  <2> QED  BY <1>1, <2>1
<1> QED  BY <1>2, PlainText

(* Two lists that can be merged are merged whole: the dictionary replaces  *)
(* no line, since no name is in both.                                      *)
LEMMA MergedBoth ==
  ASSUME NEW a, NEW b, MergedList(<<a, b>>) # Refused
  PROVE  MergedList(<<a, b>>) = a \union b
<1> DEFINE both == <<a, b>>
           kept(i) == {p \in both[i] : \A j \in i + 1 .. Len(both) :
                                         \A q \in both[j] : q[1] # p[1]}
<1>1. Len(both) = 2 /\ both[1] = a /\ both[2] = b
  OBVIOUS
<1>2. /\ 1 \in 1 .. 2 /\ 2 \in 1 .. 2 /\ 1 < 2
      /\ \A i \in 1 .. 2 : i = 1 \/ i = 2
      /\ \A i \in 1 + 1 .. 2 : i = 2
      /\ 2 + 1 .. 2 = {}
  OBVIOUS
<1>3. \A p \in a, q \in b : p[1] # q[1]
  BY <1>1, <1>2 DEF MergedList
<1>4. MergedList(<<a, b>>) = Collected(both)
  BY DEF MergedList, list_text
<1>5. kept(1) = a
  BY <1>1, <1>2, <1>3
<1>6. kept(2) = b
  BY <1>1, <1>2
<1>7. Collected(both) = UNION {kept(i) : i \in 1 .. Len(both)}
  BY DEF Collected
<1> HIDE DEF kept, both
<1>8. UNION {kept(i) : i \in 1 .. Len(both)} = kept(1) \union kept(2)
  BY <1>1, <1>2
<1> QED  BY <1>4, <1>5, <1>6, <1>7, <1>8 DEF both

-----------------------------------------------------------------------------
(* How a step changes the record of the command. *)

SameTask ==
  /\ proc'.cmd = proc.cmd /\ proc'.args = proc.args
  /\ proc'.keys = proc.keys

(* A command that goes on keeps what it has computed. *)
LEMMA GoFields ==
  ASSUME IsProc, NEW pc, Go(pc)
  PROVE  /\ IsProc' /\ SameTask /\ proc'.pc = pc /\ proc'.exit = proc.exit
         /\ proc'.data = proc.data /\ proc'.signature = proc.signature
BY DEF IsProc, Go, SameTask

(* So does one that ends. *)
LEMMA ExitFields ==
  ASSUME IsProc, NEW status, Exit(status)
  PROVE  /\ IsProc' /\ SameTask /\ proc'.pc = "exit" /\ proc'.exit = status
         /\ proc'.data = proc.data /\ proc'.signature = proc.signature
BY DEF IsProc, Exit, SameTask

(* A computation ends the command or gives it a list. *)
LEMMA ComputeFields ==
  ASSUME IsProc, NEW text, NEW next, Compute(text, next)
  PROVE  /\ IsProc' /\ SameTask
         /\ \/ proc'.pc = "exit" /\ proc'.exit = "fail"
            \/ proc'.pc = next /\ proc'.data = text /\ text # Refused
<1>1. CASE text = Refused /\ Exit("fail")
  BY <1>1, ExitFields
<1>2. CASE text # Refused /\ proc' = [proc EXCEPT !.data = text, !.pc = next]
  BY <1>2 DEF IsProc, SameTask
<1> QED  BY <1>1, <1>2 DEF Compute

(* What was computed stays true while the files that were read do. *)
LEMMA SameData ==
  ASSUME SameTask, proc'.data = proc.data, UNCHANGED <<content, part>>
  PROVE  Lists' = Lists /\ (OfFiles => OfFiles') /\ (OfParts => OfParts')
BY DEF SameTask, Lists, OfFiles, OfParts, Text, Plain

(* A command that fails or is stopped promises nothing. *)
LEMMA FailStep ==
  ASSUME FilesInv, UNCHANGED content, Exit("fail") \/ Exit("stopped"),
         proc.cmd # "none"
  PROVE  FilesInv'
<1>1. /\ IsProc' /\ SameTask /\ proc'.pc = "exit"
      /\ proc'.exit \in {"fail", "stopped"}
  BY ExitFields DEF FilesInv, ControlOK
<1>2. ControlOK'
  BY <1>1 DEF FilesInv, ControlOK, SameTask, Computed, Writing
<1>3. DataOK' /\ WrittenOK'
  BY <1>1 DEF FilesInv, DataOK, WrittenOK, Succeeded, Done, Computed, Writing
<1> QED  BY <1>2, <1>3 DEF FilesInv

(* Between commands, when nothing is computed or promised any more. *)
LEMMA IdleStep ==
  ASSUME proc' = Idle, content' \in [Paths -> Contents]
  PROVE  FilesInv'
<1>1. /\ IsProc' /\ proc'.cmd = "none" /\ proc'.pc = "exit"
      /\ proc'.exit = "none"
  BY DEF IsProc, Idle
<1>2. ControlOK'
  BY <1>1 DEF ControlOK, Computed, Writing
<1>3. DataOK' /\ WrittenOK'
  BY <1>1 DEF DataOK, WrittenOK, Lists, Succeeded, Done
<1> QED  BY <1>2, <1>3 DEF FilesInv

-----------------------------------------------------------------------------
(* The steps of a command. *)

(* A command begins with nothing computed. *)
LEMMA StartStep ==
  ASSUME FilesInv, Start
  PROVE  FilesInv'
<1>1. UNCHANGED content
  BY DEF Start
<1>2. ASSUME NEW args \in ArgLists, NEW cmd \in {"list-files", "files"},
             proc' = [Idle EXCEPT !.cmd = cmd, !.pc = "compute", !.args = args]
      PROVE  /\ IsProc' /\ proc'.pc = "compute" /\ proc'.args \in ArgLists
             /\ proc'.cmd = cmd
  BY <1>2 DEF Idle, IsProc
<1>3. ASSUME NEW k \in Parts, NEW j \in Parts,
             proc' = [Idle EXCEPT !.cmd = "merge", !.pc = "compute",
                                  !.args = <<k, j>>]
      PROVE  IsProc' /\ proc'.pc = "compute" /\ proc'.cmd = "merge"
  BY <1>3 DEF Idle, IsProc
<1>4. ASSUME NEW args \in ArgLists, NEW keys \in Settings,
             proc' = [Idle EXCEPT !.cmd = "check-files", !.pc = "compute",
                                  !.args = args, !.keys = keys]
      PROVE  /\ IsProc' /\ proc'.pc = "compute" /\ proc'.args \in ArgLists
             /\ proc'.cmd = "check-files"
  BY <1>4 DEF Idle, IsProc
<1>5. /\ IsProc' /\ proc'.pc = "compute"
      /\ proc'.cmd \in {"list-files", "files", "merge", "check-files"}
      /\ proc'.cmd # "merge" => proc'.args \in ArgLists
  BY <1>2, <1>3, <1>4 DEF Start
<1>6. ControlOK'
  BY <1>5 DEF ControlOK, Computed, Writing
<1>7. DataOK' /\ WrittenOK'
  BY <1>1, <1>5
     DEF FilesInv, DataOK, WrittenOK, Succeeded, Done, Computed, Writing
<1> QED  BY <1>6, <1>7 DEF FilesInv

(* What a command computes is of the files, or of the lists, it was given. *)
LEMMA ComputeStep ==
  ASSUME FilesInv, ComputeList
  PROVE  FilesInv'
<1>0. UNCHANGED <<content, part>>
  BY DEF ComputeList
<1>1. ASSUME NEW text, NEW next, Compute(text, next), proc.pc = "compute",
             proc.cmd \in {"list-files", "files", "merge"},
             next = IF proc.cmd = "files" THEN "sign" ELSE "open list",
             /\ IsProc' /\ SameTask /\ proc'.pc = next /\ proc'.data = text
                => (Lists => OfFiles') /\ (proc.cmd = "merge" => OfParts')
      PROVE  FilesInv'
  <2>1. /\ IsProc' /\ SameTask
        /\ \/ proc'.pc = "exit" /\ proc'.exit = "fail"
           \/ proc'.pc = next /\ proc'.data = text /\ text # Refused
    BY <1>1, ComputeFields DEF FilesInv, ControlOK
  <2>2. ControlOK'
    BY <1>1, <2>1 DEF FilesInv, ControlOK, SameTask, Computed, Writing
  <2>3. Lists' = Lists
    BY <2>1 DEF Lists, SameTask
  <2>4. DataOK'
    BY <1>0, <1>1, <2>1, <2>3
       DEF FilesInv, DataOK, SameTask, Succeeded, Computed, Writing, Lists
  <2>5. WrittenOK'
    BY <1>1, <2>1 DEF WrittenOK, Succeeded, Done
  <2> QED  BY <2>2, <2>4, <2>5 DEF FilesInv
<1>2. ASSUME NEW next, Compute(FileList(proc.args, BaseName, File), next),
             Lists, proc.pc = "compute",
             next = IF proc.cmd = "files" THEN "sign" ELSE "open list"
      PROVE  FilesInv'
  <2> DEFINE text == FileList(proc.args, BaseName, File)
  <2>1. IsProc /\ Compute(text, next)
    BY <1>2 DEF FilesInv, ControlOK
  <2>2. ASSUME SameTask, proc'.data = text, text # Refused
        PROVE  OfFiles'
    BY <1>0, <2>2, ListOfFiles DEF OfFiles, Text, SameTask, Plain
  <2>3. proc.cmd \in {"list-files", "files"}
    BY <1>2 DEF Lists
  <2>4. next # "exit"
    BY <1>2
  <2> HIDE DEF text
  <2>5. SameTask /\ proc'.pc = next /\ proc'.data = text => text # Refused
    BY <2>1, <2>4, ComputeFields
  <2> QED  BY <1>1, <1>2, <2>1, <2>2, <2>3, <2>5
<1>3. CASE /\ At("merge", "compute")
           /\ Compute(MergedList(<<part[proc.args[1]], part[proc.args[2]]>>),
                      "open list")
  <2> DEFINE a == part[proc.args[1]]
             b == part[proc.args[2]]
             text == MergedList(<<a, b>>)
  <2>1. IsProc /\ Compute(text, "open list")
    BY <1>3 DEF FilesInv, ControlOK
  <2>2. text # Refused => text = a \union b
    BY MergedBoth
  <2>3. SameTask /\ proc'.data = a \union b => OfParts'
    BY <1>0 DEF OfParts, SameTask
  <2>4. proc.pc = "compute" /\ proc.cmd = "merge" /\ ~Lists
    BY <1>3 DEF At, Lists
  <2> HIDE DEF text
  <2>5. SameTask /\ proc'.pc = "open list" /\ proc'.data = text
          => text # Refused
    BY <2>1, ComputeFields
  <2> QED  BY <1>1, <2>1, <2>2, <2>3, <2>4, <2>5
<1> QED  BY <1>2, <1>3 DEF ComputeList, At, Lists

(* A list is signed as it was computed. *)
LEMMA SignStep ==
  ASSUME FilesInv, Sign
  PROVE  FilesInv'
<1>0. UNCHANGED <<content, part>> /\ At("files", "sign")
  BY DEF Sign
<1>1. PICK key \in Keys \union {NoKey} :
        \/ key = NoKey /\ Exit("fail")
        \/ /\ key # NoKey
           /\ proc' = [proc EXCEPT !.signature = Signature(key, proc.data),
                                   !.pc = "open list"]
  BY DEF Sign
<1>2. CASE Exit("fail")
  BY <1>0, <1>2, FailStep DEF At
<1>3. CASE /\ key # NoKey
           /\ proc' = [proc EXCEPT !.signature = Signature(key, proc.data),
                                   !.pc = "open list"]
  <2>1. /\ IsProc' /\ SameTask /\ proc'.pc = "open list"
        /\ proc'.data = proc.data
        /\ proc'.signature = Signature(key, proc.data) /\ key \in Keys
    BY <1>3 DEF FilesInv, ControlOK, IsProc, SameTask
  <2>2. ControlOK'
    BY <1>0, <2>1 DEF FilesInv, ControlOK, SameTask, Computed, Writing, At
  <2>3. Lists' = Lists /\ (OfFiles => OfFiles')
    BY <1>0, <2>1, SameData
  <2>4. DataOK'
    BY <1>0, <2>1, <2>3
       DEF FilesInv, DataOK, SameTask, Succeeded, Computed, Writing, At
  <2>5. WrittenOK'
    BY <2>1 DEF WrittenOK, Succeeded, Done
  <2> QED  BY <2>2, <2>4, <2>5 DEF FilesInv
<1> QED  BY <1>1, <1>2, <1>3

(* Opening a file and writing it. *)
LEMMA WriteStep ==
  ASSUME FilesInv, OpenList \/ WriteList \/ OpenSig \/ WriteSig
  PROVE  FilesInv'
<1>0. /\ UNCHANGED <<content, part>> /\ proc.pc \in Writing
      /\ (\E pc \in Writing : Go(pc)) \/ Exit("ok")
  BY DEF OpenList, WriteList, OpenSig, WriteSig, Writing
<1>1. /\ IsProc' /\ SameTask /\ proc'.data = proc.data
      /\ proc'.signature = proc.signature
      /\ proc'.pc \in Writing \/ (proc'.pc = "exit" /\ proc'.exit = "ok")
  BY <1>0, GoFields, ExitFields DEF FilesInv, ControlOK
<1>2. Lists' = Lists /\ (OfFiles => OfFiles') /\ (OfParts => OfParts')
  BY <1>0, <1>1, SameData
<1>3. DataOK'
  BY <1>0, <1>1, <1>2 DEF FilesInv, DataOK, SameTask, Computed
<1>4. proc.cmd \in {"list-files", "merge", "files"}
  BY <1>0 DEF FilesInv, ControlOK, Computed, Writing
<1>5. CASE OpenList
  <2>1. proc'.pc = "write list"
    BY <1>5, GoFields DEF OpenList, FilesInv, ControlOK
  <2>2. ControlOK' /\ WrittenOK'
    BY <1>1, <1>4, <2>1
       DEF FilesInv, ControlOK, WrittenOK, SameTask, Succeeded, Done, Computed,
           Writing
  <2> QED  BY <1>3, <2>2 DEF FilesInv
<1>6. CASE WriteList
  <2>1. /\ list' = proc.data
        /\ IF proc.cmd = "files" THEN proc'.pc = "open sig"
                                 ELSE proc'.pc = "exit" /\ proc'.exit = "ok"
    BY <1>6, GoFields, ExitFields DEF WriteList, FilesInv, ControlOK
  <2>2. ControlOK' /\ WrittenOK'
    BY <1>1, <1>4, <2>1
       DEF FilesInv, ControlOK, WrittenOK, SameTask, Succeeded, Done, Computed,
           Writing
  <2> QED  BY <1>3, <2>2 DEF FilesInv
<1>7. CASE OpenSig
  <2>1. proc.pc = "open sig" /\ proc'.pc = "write sig" /\ UNCHANGED list
    BY <1>7, GoFields DEF OpenSig, FilesInv, ControlOK
  <2>2. ControlOK' /\ WrittenOK'
    BY <1>1, <1>2, <1>4, <2>1
       DEF FilesInv, ControlOK, WrittenOK, SameTask, Succeeded, Done, Computed,
           Writing
  <2> QED  BY <1>3, <2>2 DEF FilesInv
<1>8. CASE WriteSig
  <2>1. /\ proc.pc = "write sig" /\ sig' = proc.signature
        /\ proc'.pc = "exit" /\ proc'.exit = "ok" /\ UNCHANGED list
    BY <1>8, ExitFields DEF WriteSig, FilesInv, ControlOK
  <2>2. proc.cmd = "files"
    BY <2>1 DEF FilesInv, ControlOK
  <2>3. ControlOK'
    BY <1>1, <2>1, <2>2 DEF FilesInv, ControlOK, SameTask, Computed, Writing
  <2>4. WrittenOK'
    BY <1>1, <1>2, <2>1, <2>2 DEF FilesInv, WrittenOK, SameTask, Done, Lists
  <2> QED  BY <1>3, <2>3, <2>4 DEF FilesInv
<1> QED  BY <1>5, <1>6, <1>7, <1>8

(* check-files writes nothing. *)
LEMMA CheckStep ==
  ASSUME FilesInv, CheckFiles
  PROVE  FilesInv'
<1>1. /\ UNCHANGED content /\ At("check-files", "compute")
      /\ Exit("ok") \/ Exit("fail")
  BY DEF CheckFiles
<1>2. IsProc' /\ SameTask /\ proc'.pc = "exit"
  BY <1>1, ExitFields DEF FilesInv, ControlOK
<1>3. proc'.cmd = "check-files"
  BY <1>1, <1>2 DEF SameTask, At
<1>4. ControlOK'
  BY <1>1, <1>2, <1>3 DEF FilesInv, ControlOK, SameTask, Computed, Writing, At
<1>5. DataOK' /\ WrittenOK'
  BY <1>1, <1>3 DEF FilesInv, DataOK, WrittenOK, Lists, Done
<1> QED  BY <1>4, <1>5 DEF FilesInv

(* Every step keeps the invariant. *)
LEMMA FilesInvStep ==
  ASSUME FilesInv, [FilesNext]_fileVars
  PROVE  FilesInv'
<1>1. CASE Stop
  BY <1>1, FailStep DEF Stop, Running, FilesInv, ControlOK
<1>2. CASE Rebuild
  BY <1>2, IdleStep DEF Rebuild, FilesInv, DataOK
<1>3. CASE SignYml \/ OtherJob
  BY <1>3, IdleStep DEF SignYml, OtherJob, FilesInv, DataOK
<1>4. CASE UNCHANGED fileVars
  BY <1>4
     DEF fileVars, FilesInv, ControlOK, IsProc, DataOK, WrittenOK, OfFiles,
         OfParts, Plain, Lists, Text, Succeeded, Done
<1> QED
  BY <1>1, <1>2, <1>3, <1>4, StartStep, ComputeStep, SignStep, WriteStep,
     CheckStep
     DEF FilesNext, ToolStep

(* It holds where no command has run. *)
LEMMA FilesInitially ==
  ASSUME FilesInit
  PROVE  FilesInv
<1>1. /\ IsProc /\ proc.cmd = "none" /\ proc.pc = "exit"
      /\ proc.exit = "none"
  BY DEF FilesInit, IsProc, Idle
<1>2. (CHOOSE c \in Contents : TRUE) \in Contents
  BY ContentsAssumption
<1>3. content \in [Paths -> Contents]
  BY <1>2 DEF FilesInit
<1>4. ControlOK
  BY <1>1 DEF ControlOK, Computed, Writing
<1>5. DataOK /\ WrittenOK
  BY <1>1, <1>3 DEF DataOK, WrittenOK, Lists, Succeeded, Done
<1> QED  BY <1>4, <1>5 DEF FilesInv

(* FilesInv is an invariant of the commands. *)
LEMMA FilesInvHolds == FilesSpec => []FilesInv
<1>1. FilesInit => FilesInv
  BY FilesInitially
<1>2. FilesInv /\ [FilesNext]_fileVars => FilesInv'
  BY FilesInvStep
<1> QED  BY <1>1, <1>2, PTL DEF FilesSpec

-----------------------------------------------------------------------------
(* The theorems. *)

(* Whatever the commands before it left half written, once files ends with *)
(* success on built files, check-files accepts them for the key it signed  *)
(* with.                                                                   *)
THEOREM FilesSignedFilesPass == FilesSpec => []SignedFilesPass
<1>1. FilesInv => SignedFilesPass
  <2> SUFFICES ASSUME FilesInv, Done("files"), Plain(proc.args)
               PROVE  Accepts(proc.args, {proc.signature.key})
    BY DEF SignedFilesPass
  <2>1. /\ list = Text /\ sig = proc.signature /\ proc.data = Text
        /\ \E key \in Keys : proc.signature = Signature(key, proc.data)
    BY DEF FilesInv, DataOK, WrittenOK, OfFiles, Lists, Done, Succeeded
  <2>2. PICK key \in Keys : proc.signature = Signature(key, Text)
    BY <2>1
  <2>3. proc.signature.key = key
    BY <2>2 DEF Signature
  <2>4. proc.args \in ArgLists /\ content \in [Paths -> Contents]
    BY DEF FilesInv, ControlOK, DataOK, Done
  <2>5. Text # Missing /\ Signature(key, Text) # Missing /\ {key} # Refused
    BY <2>4, WrittenAssumption DEF Text
  <2>6. check_signature(list, sig, {key})
    BY <2>1, <2>2, <2>5 DEF check_signature, SignedBy
  <2>7. FileList(proc.args, BaseName, File) = Text
    BY PlainText DEF Text
  <2> QED  BY <2>1, <2>2, <2>3, <2>5, <2>6, <2>7 DEF Accepts
<1> QED  BY <1>1, FilesInvHolds, PTL

(* A successful merge has written every line of the lists it was given and *)
(* no other: no job's hash was replaced by another's.                      *)
THEOREM FilesMergedWhole == FilesSpec => []MergedWhole
<1>1. FilesInv => MergedWhole
  BY DEF FilesInv, DataOK, WrittenOK, OfParts, Done, Succeeded, MergedWhole
<1> QED  BY <1>1, FilesInvHolds, PTL

(* Every built file that a successful list-files or files was given is in  *)
(* the list with its content.                                              *)
THEOREM FilesAllListed == FilesSpec => []AllListed
<1>1. FilesInv => AllListed
  BY DEF FilesInv, DataOK, WrittenOK, OfFiles, Lists, Done, Succeeded, AllListed
<1> QED  BY <1>1, FilesInvHolds, PTL

=============================================================================
