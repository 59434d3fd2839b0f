----------------------------- MODULE SignFiles ------------------------------
(***************************************************************************)
(* The commands of tools/sign_package.py for release files: list-files,    *)
(* merge, files and check-files, on one output directory, with sign.yml as *)
(* the signer that works on the lists.  Every write opens the file, which  *)
(* empties it, and then writes: the process may be stopped anywhere in     *)
(* between, and the next command finds what that left.  Files are rebuilt  *)
(* between commands.  The list and the signature of the directory may be   *)
(* among the files a command is given, as with files out out/*: they are   *)
(* hashed as they are when the command starts, and written after that.     *)
(***************************************************************************)
EXTENDS SignLists

CONSTANTS
  Paths,        \* the built files that can be named on the command line
  ListPath,     \* the list of the output directory, named as a file
  SigPath,      \* its signature, named as a file
  BaseName,     \* the base name of each
  Rebuilt,      \* the ones that are built again between commands
  Contents,     \* what a file can contain
  Keys,         \* the keys a signer may use
  NoKey,        \* BFLAT_SIGNING_KEY is not set
  Settings,     \* what BFLAT_SIGNING_PUBLIC_KEY can hold: sets of keys, {}
                \* when it is not set, Refused when it cannot be read
  ArgLists,     \* argument lists of the commands
  Parts,        \* the other jobs, whose lists merge can be given
  JobFiles,     \* the files of each
  MaxRuns       \* bound on the number of commands

ASSUME SettingsAssumption ==
  Settings \subseteq (SUBSET Keys) \union {Refused} /\ NoKey \notin Keys
ASSUME RunsAssumption == MaxRuns \in Nat
ASSUME ContentsAssumption == Contents # {} /\ Missing \notin Contents
ASSUME OwnAssumption ==
  ListPath # SigPath /\ {ListPath, SigPath} \cap Paths = {}

OwnFiles == {ListPath, SigPath}

(* The arguments name built files only. *)
Plain(args) == \A i \in 1 .. Len(args) : args[i] \in Paths

ASSUME ArgumentsAssumption ==
  \A args \in ArgLists :
    \A i \in 1 .. Len(args) : args[i] \in Paths \union OwnFiles
ASSUME WrittenAssumption ==
  \* what is written to a file is not the absence of the file, and a key
  \* that is set is not a setting that cannot be read
  /\ \A args \in ArgLists, c \in [Paths -> Contents] :
       Plain(args) =>
         LET text == FileList(args, BaseName, c)
         IN  text # Missing /\ \A k \in Keys : Signature(k, text) # Missing
  /\ \A k \in Keys : {k} # Refused

VARIABLES
  content,   \* of each built file
  part,      \* lists of the other jobs, which merge reads
  list,      \* <out-dir>/bflat-signature.sha256
  sig,       \* <out-dir>/bflat-signature.sha256.sig
  proc,      \* the running command, or the last one
  runs       \* commands so far

fileVars == <<content, part, list, sig, proc, runs>>

(* What a command reads when it opens a file. *)
File ==
  [p \in Paths \union OwnFiles |->
     IF p = ListPath THEN list ELSE IF p = SigPath THEN sig ELSE content[p]]

(* An emptied signature file: no key made it. *)
EmptySignature == Signature(NoKey, {})

Idle == [cmd |-> "none", pc |-> "exit", args |-> <<>>, data |-> Missing,
         signature |-> Missing, keys |-> {}, exit |-> "none"]

FilesInit ==
  /\ content = [p \in Paths |-> CHOOSE c \in Contents : TRUE]
  /\ part = [k \in Parts |-> Missing]
  /\ list = Missing /\ sig = Missing
  /\ proc = Idle
  /\ runs = 0

Running == proc.pc # "exit"
At(cmd, pc) == proc.cmd = cmd /\ proc.pc = pc
Go(pc) == proc' = [proc EXCEPT !.pc = pc]
Exit(status) == proc' = [proc EXCEPT !.pc = "exit", !.exit = status]

Start ==
  /\ ~Running
  /\ runs < MaxRuns
  /\ \/ \E args \in ArgLists, cmd \in {"list-files", "files"} :
          proc' = [Idle EXCEPT !.cmd = cmd, !.pc = "compute", !.args = args]
     \/ \E k, j \in Parts :
          proc' = [Idle EXCEPT !.cmd = "merge", !.pc = "compute",
                               !.args = <<k, j>>]
     \/ \E args \in ArgLists, keys \in Settings :
          proc' = [Idle EXCEPT !.cmd = "check-files", !.pc = "compute",
                               !.args = args, !.keys = keys]
  /\ runs' = runs + 1
  /\ UNCHANGED <<content, part, list, sig>>

-----------------------------------------------------------------------------
(* Computing what is written, before anything is.  Without a list the      *)
(* script fails: with a message, or because a file cannot be opened.       *)

Compute(text, next) ==
  \/ text = Refused /\ Exit("fail")
  \/ text # Refused /\ proc' = [proc EXCEPT !.data = text, !.pc = next]

ComputeList ==
  /\ \/ At("list-files", "compute")
          /\ Compute(FileList(proc.args, BaseName, File), "open list")
     \/ At("merge", "compute")
          /\ Compute(MergedList(<<part[proc.args[1]], part[proc.args[2]]>>),
                     "open list")
     \/ At("files", "compute")
          /\ Compute(FileList(proc.args, BaseName, File), "sign")
  /\ UNCHANGED <<content, part, list, sig, runs>>

\* Mutant: the list that is in the directory is signed, not the new one.
Sign_OldList ==
  /\ At("files", "sign")
  /\ \E key \in Keys \union {NoKey} :
       \/ key = NoKey /\ Exit("fail")
       \/ /\ key # NoKey
          /\ proc' = [proc EXCEPT !.signature = Signature(key, list),
                                  !.pc = "open list"]
  /\ UNCHANGED <<content, part, list, sig, runs>>

(* openssl, with the key of the environment; the script fails without one. *)
Sign ==
  /\ At("files", "sign")
  /\ \E key \in Keys \union {NoKey} :
       \/ key = NoKey /\ Exit("fail")
       \/ /\ key # NoKey
          /\ proc' = [proc EXCEPT !.signature = Signature(key, proc.data),
                                  !.pc = "open list"]
  /\ UNCHANGED <<content, part, list, sig, runs>>

-----------------------------------------------------------------------------
(* Writing the list, and for files the signature after it. *)

OpenList ==
  /\ proc.pc = "open list"
  /\ list' = {}
  /\ Go("write list")
  /\ UNCHANGED <<content, part, sig, runs>>

WriteList ==
  /\ proc.pc = "write list"
  /\ list' = proc.data
  /\ IF proc.cmd = "files" THEN Go("open sig") ELSE Exit("ok")
  /\ UNCHANGED <<content, part, sig, runs>>

OpenSig ==
  /\ proc.pc = "open sig"
  /\ sig' = EmptySignature
  /\ Go("write sig")
  /\ UNCHANGED <<content, part, list, runs>>

WriteSig ==
  /\ proc.pc = "write sig"
  /\ sig' = proc.signature
  /\ Exit("ok")
  /\ UNCHANGED <<content, part, list, runs>>

-----------------------------------------------------------------------------
\* Mutant: any signature will do when the files agree with the list.
Accepts_AnySignature(files, keys) ==
  /\ list # Missing /\ sig # Missing
  /\ FileList(files, BaseName, File) = list

(* What check-files demands of the directory and the files. *)
Accepts(files, keys) ==
  /\ list # Missing /\ sig # Missing
  /\ FileList(files, BaseName, File) = list
  /\ check_signature(list, sig, keys)

CheckFiles ==
  /\ At("check-files", "compute")
  /\ \/ Accepts(proc.args, proc.keys) /\ Exit("ok")
     \/ ~Accepts(proc.args, proc.keys) /\ Exit("fail")
  /\ UNCHANGED <<content, part, list, sig, runs>>

ToolStep ==
  ComputeList \/ Sign \/ OpenList \/ WriteList \/ OpenSig \/ WriteSig
    \/ CheckFiles

-----------------------------------------------------------------------------
(* The surroundings. *)

(* The process is stopped: a cancelled job, a lost machine, a full disk.   *)
Stop ==
  /\ Running
  /\ Exit("stopped")
  /\ UNCHANGED <<content, part, list, sig, runs>>

Rebuild ==
  /\ ~Running
  /\ \E p \in Rebuilt, c \in Contents : content' = [content EXCEPT ![p] = c]
  /\ proc' = Idle
  /\ UNCHANGED <<part, list, sig, runs>>

(* sign.yml signs the list it is given and nothing else. *)
SignYml ==
  /\ ~Running /\ list # Missing
  /\ \E key \in Keys : sig' = Signature(key, list)
  /\ proc' = Idle
  /\ UNCHANGED <<content, part, list, runs>>

(* Another job of the release runs list-files on its own files. *)
OtherJob ==
  /\ ~Running
  /\ \E k \in Parts :
       LET text == FileList(JobFiles[k], BaseName, content)
       IN  text # Refused /\ part' = [part EXCEPT ![k] = text]
  /\ proc' = Idle
  /\ UNCHANGED <<content, list, sig, runs>>

FilesNext == ToolStep \/ Start \/ Stop \/ Rebuild \/ SignYml \/ OtherJob

FilesSpec == FilesInit /\ [][FilesNext]_fileVars

-----------------------------------------------------------------------------
(* Properties. *)

Done(cmd) == proc.cmd = cmd /\ proc.pc = "exit" /\ proc.exit = "ok"

(* Whatever earlier commands were stopped in the middle of a write, once   *)
(* files has ended with success check-files accepts the files for the key  *)
(* it signed with: the list and the signature in the directory belong to   *)
(* each other and to the files.  That is so for built files.  file_hashes  *)
(* does not refuse the directory's own list and signature; given these,    *)
(* files lists what they were before it wrote them.                        *)
SignedFilesPass ==
  Done("files") /\ Plain(proc.args) =>
    Accepts(proc.args, {proc.signature.key})

(* What a list says of the directory's own list or signature is stale as   *)
(* soon as there is a signature of that list: with a key set, check-files  *)
(* never succeeds on arguments with one of them, in whatever order files   *)
(* were listed, signed and left half written.  So the mistake of naming    *)
(* out/* in a retry cannot end in a release that looks verified.           *)
OwnFilesNeverPass ==
  Done("check-files") /\ proc.keys # {} => Plain(proc.args)

(* merge loses nothing: when it succeeds the list holds every line of the  *)
(* lists it was given, with its hash, and no other, although two jobs may  *)
(* have listed files of the same base name.                                *)
MergedWhole ==
  Done("merge") => list = part[proc.args[1]] \union part[proc.args[2]]

(* No file is left out: every built file a successful list-files or files  *)
(* was given is in the list with its content, although only base names are *)
(* listed and two files may share one.                                     *)
AllListed ==
  Done("list-files") \/ Done("files") =>
    \A i \in 1 .. Len(proc.args) :
      proc.args[i] \in Paths =>
        Pair(BaseName[proc.args[i]], content[proc.args[i]]) \in list

=============================================================================
