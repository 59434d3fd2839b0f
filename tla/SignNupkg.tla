----------------------------- MODULE SignNupkg ------------------------------
(***************************************************************************)
(* The commands of tools/sign_package.py for packages: list-nupkg, embed   *)
(* and nupkg.  Each treats its packages one after the other and stops at   *)
(* the first that fails.  A package is a zip archive; appending to it      *)
(* overwrites its directory, which is written again when the archive is    *)
(* closed.  A process that is killed in between leaves a torn archive.  An *)
(* exception still closes it, and the entry that was being written too,    *)
(* with no more in it than was written.                                    *)
(***************************************************************************)
EXTENDS SignLists

CONSTANTS
  Packages,     \* the packages that can be named on the command line
  BaseName,     \* the base name of each
  Builds,       \* what a build can put in a package: sequences of entries
  Keys,         \* the keys a signer may use
  NoKey,        \* BFLAT_SIGNING_KEY is not set
  Trusted,      \* BFLAT_SIGNING_PUBLIC_KEY, {} when it is not set
  ArgLists,     \* argument lists of the commands
  Commands,     \* the commands that are run
  MaxRuns       \* bound on the number of commands

ASSUME PackageKeysAssumption == Trusted \subseteq Keys /\ NoKey \notin Keys
ASSUME PackageRunsAssumption == MaxRuns \in Nat
ASSUME PackageArgsAssumption ==
  \* main demands a package at least
  /\ Commands \subseteq {"list-nupkg", "embed", "nupkg"}
  /\ \A args \in ArgLists : args \in Seq(Packages) /\ args # <<>>
ASSUME PackageEntriesAssumption ==
  \* an entry, an empty one too, is not the absence of an entry
  /\ {} # Missing /\ Signature(NoKey, {}) # Missing
  /\ \A e \in Builds :
       LET text == list_text({e[i] : i \in 1 .. Len(e)})
       IN  text # Missing /\ \A k \in Keys : Signature(k, text) # Missing

VARIABLES
  pkg,       \* the packages
  lists,     \* <dir>/<base>.bflat-signature.sha256 and its .sig, by base name
  proc,      \* the running command, or the last one
  before,    \* history: the packages when the command began
  runs       \* commands so far

pkgVars == <<pkg, lists, proc, before, runs>>

Names == {BaseName[p] : p \in Packages}

(* A package as it is built: neither signed nor pushed. *)
Fresh(entries) ==
  [entries |-> entries, list |-> Missing, sig |-> Missing,
   nuget |-> FALSE, torn |-> FALSE]

(* A signature that was not written, or not whole: no key made it. *)
EmptySignature == Signature(NoKey, {})

Idle == [cmd |-> "none", pc |-> "exit", args |-> <<>>, i |-> 0,
         data |-> Missing, signature |-> Missing, exit |-> "none"]

NupkgInit ==
  /\ pkg \in [Packages -> {Fresh(e) : e \in Builds}]
  /\ lists = [b \in Names |-> [text |-> Missing, sig |-> Missing]]
  /\ proc = Idle
  /\ before = pkg
  /\ runs = 0

Running == proc.pc # "exit"
This == proc.args[proc.i]
Go(pc) == proc' = [proc EXCEPT !.pc = pc]
Exit(status) == proc' = [proc EXCEPT !.pc = "exit", !.exit = status]

NextPackage ==
  IF proc.i = Len(proc.args)
  THEN Exit("ok")
  ELSE proc' = [proc EXCEPT !.pc = "examine", !.i = @ + 1]

Start ==
  /\ ~Running
  /\ runs < MaxRuns
  /\ \E cmd \in Commands, args \in ArgLists :
       proc' = [Idle EXCEPT !.cmd = cmd, !.pc = "examine",
                            !.args = args, !.i = 1]
  /\ before' = pkg
  /\ runs' = runs + 1
  /\ UNCHANGED <<pkg, lists>>

-----------------------------------------------------------------------------
(* The entries of a package, by name. *)

Entries(z) == {z.entries[i] : i \in 1 .. Len(z.entries)}

Repeats(z) ==
  \E i, j \in 1 .. Len(z.entries) :
    i # j /\ z.entries[i][1] = z.entries[j][1]

\* Mutant: a package that is signed can be signed again.
NupkgHashes_SignedToo(z) ==
  IF z.torn \/ z.nuget \/ Repeats(z) THEN Refused ELSE list_text(Entries(z))

(* nupkg_hashes, and list_text of what it returns. *)
nupkg_hashes(z) ==
  IF z.torn \/ z.list # Missing \/ z.sig # Missing \/ z.nuget \/ Repeats(z)
  THEN Refused
  ELSE list_text(Entries(z))

\* Mutant: the package is not compared with its list.
Agreed_ListAsIs(p) ==
  LET l == lists[BaseName[p]]
  IN  IF /\ l.text # Missing /\ l.sig # Missing
         /\ nupkg_hashes(pkg[p]) # Refused
         /\ check_signature(l.text, l.sig, Trusted)
      THEN l.text ELSE Refused

(* The list that embed adds to a package: it agrees with the package and   *)
(* its signature is checked.                                               *)
Agreed(p) ==
  LET l == lists[BaseName[p]]
  IN  IF /\ l.text # Missing /\ l.sig # Missing
         /\ nupkg_hashes(pkg[p]) = l.text
         /\ check_signature(l.text, l.sig, Trusted)
      THEN l.text ELSE Refused

-----------------------------------------------------------------------------
(* The steps for one package. *)

\* Mutant: a package that cannot be signed is passed over.
Examine_Continue ==
  /\ proc.pc = "examine"
  /\ LET text == IF proc.cmd = "embed" THEN Agreed(This)
                                       ELSE nupkg_hashes(pkg[This])
         next == CASE proc.cmd = "list-nupkg" -> "open list"
                   [] proc.cmd = "nupkg"      -> "sign"
                   [] proc.cmd = "embed"      -> "add list"
     IN  \/ text = Refused /\ NextPackage
         \/ /\ text # Refused
            /\ proc' = [proc EXCEPT !.data = text, !.pc = next,
                          !.signature = lists[BaseName[This]].sig]
  /\ UNCHANGED <<pkg, lists, before, runs>>

(* Everything is read and tested before the package is touched. *)
Examine ==
  /\ proc.pc = "examine"
  /\ LET text == IF proc.cmd = "embed" THEN Agreed(This)
                                       ELSE nupkg_hashes(pkg[This])
         next == CASE proc.cmd = "list-nupkg" -> "open list"
                   [] proc.cmd = "nupkg"      -> "sign"
                   [] proc.cmd = "embed"      -> "add list"
     IN  \/ text = Refused /\ Exit("fail")
         \/ /\ text # Refused
            /\ proc' = [proc EXCEPT !.data = text, !.pc = next,
                          !.signature = lists[BaseName[This]].sig]
  /\ UNCHANGED <<pkg, lists, before, runs>>

Sign ==
  /\ proc.pc = "sign"
  /\ \E key \in Keys \union {NoKey} :
       \/ key = NoKey /\ Exit("fail")
       \/ /\ key # NoKey
          /\ proc' = [proc EXCEPT !.signature = Signature(key, proc.data),
                                  !.pc = "add list"]
  /\ UNCHANGED <<pkg, lists, before, runs>>

OpenList ==
  /\ proc.pc = "open list"
  /\ lists' = [lists EXCEPT ![BaseName[This]].text = {}]
  /\ Go("write list")
  /\ UNCHANGED <<pkg, before, runs>>

WriteList ==
  /\ proc.pc = "write list"
  /\ lists' = [lists EXCEPT ![BaseName[This]].text = proc.data]
  /\ NextPackage
  /\ UNCHANGED <<pkg, before, runs>>

(* add_to_nupkg.  writestr begins an entry, over the directory of the      *)
(* archive, and fills it; the directory comes back when the archive is     *)
(* closed.                                                                 *)
BeginList ==
  /\ proc.pc = "add list"
  /\ pkg' = [pkg EXCEPT ![This].list = {}, ![This].torn = TRUE]
  /\ Go("fill list")
  /\ UNCHANGED <<lists, before, runs>>

FillList ==
  /\ proc.pc = "fill list"
  /\ pkg' = [pkg EXCEPT ![This].list = proc.data]
  /\ Go("add sig")
  /\ UNCHANGED <<lists, before, runs>>

BeginSig ==
  /\ proc.pc = "add sig"
  /\ pkg' = [pkg EXCEPT ![This].sig = EmptySignature]
  /\ Go("fill sig")
  /\ UNCHANGED <<lists, before, runs>>

FillSig ==
  /\ proc.pc = "fill sig"
  /\ pkg' = [pkg EXCEPT ![This].sig = proc.signature]
  /\ Go("close")
  /\ UNCHANGED <<lists, before, runs>>

Close ==
  /\ proc.pc = "close"
  /\ pkg' = [pkg EXCEPT ![This].torn = FALSE]
  /\ NextPackage
  /\ UNCHANGED <<lists, before, runs>>

ToolStep ==
  Examine \/ Sign \/ OpenList \/ WriteList \/ BeginList \/ FillList
    \/ BeginSig \/ FillSig \/ Close

-----------------------------------------------------------------------------
(* The surroundings. *)

Kill ==
  /\ Running
  /\ Exit("killed")
  /\ UNCHANGED <<pkg, lists, before, runs>>

(* An exception, as of an interrupt, between two calls or inside of one:   *)
(* the with statements close the entry that was begun and the archive on   *)
(* the way out.  Where they cannot, as on a full disk, it is as with Kill. *)
Interrupt ==
  /\ Running
  /\ Exit("killed")
  /\ pkg' = IF proc.pc \in {"fill list", "add sig", "fill sig", "close"}
            THEN [pkg EXCEPT ![This].torn = FALSE] ELSE pkg
  /\ UNCHANGED <<lists, before, runs>>

Rebuild ==
  /\ ~Running
  /\ \E p \in Packages, e \in Builds : pkg' = [pkg EXCEPT ![p] = Fresh(e)]
  /\ proc' = Idle /\ before' = pkg'
  /\ UNCHANGED <<lists, runs>>

(* NuGet.org adds its own signature to a package that is pushed. *)
Push ==
  /\ ~Running
  /\ \E p \in Packages :
       ~pkg[p].torn /\ pkg' = [pkg EXCEPT ![p].nuget = TRUE]
  /\ proc' = Idle /\ before' = pkg'
  /\ UNCHANGED <<lists, runs>>

(* sign.yml signs the lists it is given and nothing else. *)
SignYml ==
  /\ ~Running
  /\ \E b \in Names, key \in Keys :
       /\ lists[b].text # Missing
       /\ lists' = [lists EXCEPT ![b].sig = Signature(key, lists[b].text)]
  /\ proc' = Idle /\ before' = pkg
  /\ UNCHANGED <<pkg, runs>>

NupkgNext ==
  ToolStep \/ Start \/ Kill \/ Interrupt \/ Rebuild \/ Push \/ SignYml

NupkgSpec == NupkgInit /\ [][NupkgNext]_pkgVars

-----------------------------------------------------------------------------
(* Properties. *)

(* A readable package with both entries, the signature whole. *)
Signed(z) ==
  ~z.torn /\ z.list # Missing /\ z.sig \notin {Missing, EmptySignature}

(* A readable package that holds both entries holds the list of exactly    *)
(* its other entries and, when public keys are set, a signature of that    *)
(* list or one that an exception left empty or cut, which no key verifies: *)
(* no stale list of an earlier build, none of another package of the same  *)
(* base name, and no old signature beside a new list is ever added.        *)
SignedIsTrue ==
  \A p \in Packages :
    ~pkg[p].torn /\ pkg[p].list # Missing /\ pkg[p].sig # Missing =>
      /\ pkg[p].list = Entries(pkg[p])
      /\ Trusted # {} => \/ pkg[p].sig = EmptySignature
                         \/ SignedBy(pkg[p].sig, pkg[p].list, Keys)

(* No command changes a package that has one of the two entries already:   *)
(* a retry signs nothing twice, and a package that an exception left with  *)
(* a list and no signature, or with a cut one, stays so until it is built  *)
(* again.                                                                  *)
SignedStays ==
  [][Running => \A p \in Packages :
       ~pkg[p].torn /\ (pkg[p].list # Missing \/ pkg[p].sig # Missing)
         => pkg'[p] = pkg[p]]_pkgVars

(* embed and nupkg stop at one package: the ones before it are signed, the *)
(* ones after it are as they were when the command began, and so is the    *)
(* one itself when the script refused it.  With success, all are signed.   *)
StopsBetween ==
  ~Running /\ proc.cmd \in {"embed", "nupkg"} =>
    /\ \A k \in 1 .. proc.i - 1 : Signed(pkg[proc.args[k]])
    /\ \A p \in Packages \ {proc.args[k] : k \in 1 .. proc.i} :
         pkg[p] = before[p]
    /\ proc.exit = "ok" => proc.i = Len(proc.args) /\ Signed(pkg[This])
    /\ proc.exit = "fail" /\ This \notin {proc.args[k] : k \in 1 .. proc.i - 1}
         => pkg[This] = before[This]

=============================================================================
