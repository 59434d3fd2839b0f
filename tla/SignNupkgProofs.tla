-------------------------- MODULE SignNupkgProofs ---------------------------
(***************************************************************************)
(* Proofs about the commands for packages, for every set of packages, of   *)
(* builds and of keys, every argument list and any number of commands,     *)
(* killed or interrupted anywhere.                                         *)
(*                                                                         *)
(* The argument: a package is examined before anything is added, and the   *)
(* one at hand is whole and has neither entry until the list is begun;     *)
(* from then until it is closed it is torn, and its signature is begun     *)
(* when the list of its entries is there.  So only that package changes,   *)
(* and none that has an entry.                                             *)
(***************************************************************************)
EXTENDS SignNupkg, TLAPS

(* The record of a command has its fields. *)
IsProc ==
  proc = [cmd |-> proc.cmd, pc |-> proc.pc, args |-> proc.args, i |-> proc.i,
          data |-> proc.data, signature |-> proc.signature,
          exit |-> proc.exit]

IsPackage(z) ==
  /\ z = [entries |-> z.entries, list |-> z.list, sig |-> z.sig,
          nuget |-> z.nuget, torn |-> z.torn]
  /\ z.entries \in Builds

PackagesOK ==
  /\ pkg = [p \in Packages |-> pkg[p]]
  /\ \A p \in Packages : IsPackage(pkg[p])

(* The lists that list-nupkg writes, beside signatures of sign.yml. *)
ListsOK ==
  /\ lists = [b \in Names |-> lists[b]]
  /\ \A b \in Names :
       /\ lists[b] = [text |-> lists[b].text, sig |-> lists[b].sig]
       /\ lists[b].sig # EmptySignature

Torn == {"fill list", "add sig", "fill sig", "close"}
Adding == {"add list"} \union Torn
Signs == proc.cmd \in {"embed", "nupkg"}

(* Where each command can be. *)
ControlOK ==
  /\ IsProc
  /\ proc.cmd \in {"none", "list-nupkg", "embed", "nupkg"}
  /\ proc.pc \in {"exit", "examine", "sign", "open list", "write list"}
                   \union Adding
  /\ proc.pc \in {"open list", "write list"} => proc.cmd = "list-nupkg"
  /\ proc.pc \in {"sign"} \union Adding => Signs
  /\ proc.cmd = "none" => proc.pc = "exit" /\ proc.exit = "none"
  /\ proc.cmd # "none" =>
       proc.args \in ArgLists /\ proc.i \in 1 .. Len(proc.args)

(* A signature that can be added beside a list. *)
Fits(sig, l) ==
  /\ sig \notin {Missing, EmptySignature}
  /\ Trusted # {} => SignedBy(sig, l, Keys)

(* The package at hand and what is known of it. *)
StageOK ==
  /\ proc.pc \in {"sign"} \union Adding =>
       proc.data = Entries(pkg[This]) /\ proc.data # Missing
  /\ proc.pc = "sign" => \A k \in Keys : Signature(k, proc.data) # Missing
  /\ proc.pc \in Adding => Fits(proc.signature, proc.data)
  /\ proc.pc \in {"sign", "add list"} => pkg[This].list = Missing
  /\ proc.pc \in {"sign", "add list", "fill list"} => pkg[This].sig = Missing
  /\ proc.pc \in Torn => pkg[This].torn = TRUE
  /\ proc.pc \in {"add sig", "fill sig", "close"} =>
       pkg[This].list = proc.data
  /\ proc.pc = "close" => pkg[This].sig = proc.signature

(* Both entries are only ever there together when they are true, but for a *)
(* signature that is not written yet, also in a package that is torn.      *)
IsTrue(z) ==
  z.list # Missing /\ z.sig # Missing =>
    z.list = Entries(z) /\ (z.sig = EmptySignature \/ Fits(z.sig, z.list))

TrueOK == \A p \in Packages : IsTrue(pkg[p])

(* The packages before the one at hand, and it too. *)
Earlier == {proc.args[k] : k \in 1 .. proc.i - 1}
Reached == {proc.args[k] : k \in 1 .. proc.i}

Refusal == ~Running /\ proc.exit = "fail"

(* What embed and nupkg have done and what they have left alone. *)
EarlierSigned == \A p \in Earlier : Signed(pkg[p])
LaterSame == \A p \in Packages \ Reached : pkg[p] = before[p]

BatchOK ==
  Signs =>
    /\ EarlierSigned
    /\ LaterSame
    /\ proc.pc \in {"examine", "sign", "add list"} \/ Refusal =>
         This \in Earlier \/ pkg[This] = before[This]
    /\ ~Running /\ proc.exit = "ok" =>
         proc.i = Len(proc.args) /\ Signed(pkg[This])

NupkgInv ==
  PackagesOK /\ ListsOK /\ ControlOK /\ StageOK /\ TrueOK /\ BatchOK

-----------------------------------------------------------------------------
(* Packages and their lists. *)

(* The entries are all that Entries looks at. *)
LEMMA SameEntries ==
  \A y, z : y.entries = z.entries => Entries(y) = Entries(z)
BY DEF Entries

(* What nupkg_hashes makes of a package that it does not refuse. *)
LEMMA HashesAre ==
  ASSUME NEW z, IsPackage(z), nupkg_hashes(z) # Refused
  PROVE  /\ nupkg_hashes(z) = Entries(z)
         /\ z.list = Missing /\ z.sig = Missing /\ Entries(z) # Missing
         /\ \A k \in Keys : Signature(k, Entries(z)) # Missing
<1>1. /\ nupkg_hashes(z) = list_text(Entries(z))
      /\ z.list = Missing /\ z.sig = Missing
  BY DEF nupkg_hashes
<1>2. list_text(Entries(z)) = Entries(z)
  BY <1>1 DEF list_text
<1>3. z.entries \in Builds
  BY DEF IsPackage
<1>4. /\ list_text(Entries(z)) # Missing
      /\ \A k \in Keys : Signature(k, list_text(Entries(z))) # Missing
  BY <1>3, PackageEntriesAssumption DEF Entries
<1> QED  BY <1>1, <1>2, <1>4

(* embed adds the list of the entries, with a signature that fits. *)
LEMMA AgreedIs ==
  ASSUME NEW p \in Packages, IsPackage(pkg[p]), ListsOK, Agreed(p) # Refused
  PROVE  /\ Agreed(p) = nupkg_hashes(pkg[p])
         /\ Fits(lists[BaseName[p]].sig, Agreed(p))
<1> DEFINE l == lists[BaseName[p]]
<1>1. /\ l.text # Missing /\ l.sig # Missing
      /\ nupkg_hashes(pkg[p]) = l.text
      /\ check_signature(l.text, l.sig, Trusted)
      /\ Agreed(p) = l.text
  BY DEF Agreed
<1>2. Trusted # {} => SignedBy(l.sig, l.text, Trusted)
  BY <1>1 DEF check_signature
<1>3. Trusted # {} => SignedBy(l.sig, l.text, Keys)
  BY <1>2, PackageKeysAssumption DEF SignedBy
<1>4. l.sig # EmptySignature
  BY DEF ListsOK, Names
<1> QED  BY <1>1, <1>3, <1>4 DEF Fits

(* The package at hand is one of the packages. *)
LEMMA ThisPackage ==
  ASSUME ControlOK, proc.cmd # "none"
  PROVE  /\ proc.args \in Seq(Packages) /\ proc.i \in 1 .. Len(proc.args)
         /\ Len(proc.args) \in Nat /\ This \in Packages
<1>1. proc.args \in Seq(Packages) /\ proc.i \in 1 .. Len(proc.args)
  BY PackageArgsAssumption DEF ControlOK
<1> QED  BY <1>1 DEF This

-----------------------------------------------------------------------------
(* How a step changes the record of the command. *)

SameTask == proc'.cmd = proc.cmd /\ proc'.args = proc.args

SamePackage ==
  /\ SameTask /\ proc'.i = proc.i /\ This' = This
  /\ Earlier' = Earlier /\ Reached' = Reached

(* A command that goes on with a package. *)
LEMMA GoFields ==
  ASSUME IsProc, NEW pc, Go(pc)
  PROVE  /\ IsProc' /\ SamePackage /\ proc'.pc = pc
         /\ proc'.data = proc.data /\ proc'.signature = proc.signature
<1>1. /\ IsProc' /\ SameTask /\ proc'.i = proc.i /\ proc'.pc = pc
      /\ proc'.data = proc.data /\ proc'.signature = proc.signature
  BY DEF IsProc, Go, SameTask
<1> QED  BY <1>1 DEF SamePackage, SameTask, This, Earlier, Reached

(* A command that ends. *)
LEMMA ExitFields ==
  ASSUME IsProc, NEW status, Exit(status)
  PROVE  IsProc' /\ SamePackage /\ proc'.pc = "exit" /\ proc'.exit = status
<1>1. /\ IsProc' /\ SameTask /\ proc'.i = proc.i /\ proc'.pc = "exit"
      /\ proc'.exit = status
  BY DEF IsProc, Exit, SameTask
<1> QED  BY <1>1 DEF SamePackage, SameTask, This, Earlier, Reached

(* A command that is done with a package. *)
LEMMA NextFields ==
  ASSUME ControlOK, proc.cmd # "none", NextPackage
  PROVE  /\ IsProc' /\ SameTask
         /\ \/ /\ proc'.pc = "exit" /\ proc'.exit = "ok"
               /\ proc.i = Len(proc.args) /\ SamePackage
            \/ /\ proc'.pc = "examine" /\ proc'.i = proc.i + 1
               /\ proc'.i \in 1 .. Len(proc.args)
<1>0. proc.i \in 1 .. Len(proc.args) /\ Len(proc.args) \in Nat
  BY ThisPackage
<1>1. CASE proc.i = Len(proc.args)
  BY <1>1, ExitFields DEF NextPackage, ControlOK, SamePackage
<1>2. CASE proc.i # Len(proc.args)
  <2>1. /\ IsProc' /\ SameTask /\ proc'.pc = "examine"
        /\ proc'.i = proc.i + 1
    BY <1>2 DEF NextPackage, ControlOK, IsProc, SameTask
  <2> QED  BY <1>0, <1>2, <2>1
<1> QED  BY <1>1, <1>2

-----------------------------------------------------------------------------
(* The steps that leave the packages alone. *)

(* They keep what is said of the packages alone. *)
LEMMA PackagesStay ==
  ASSUME NupkgInv, UNCHANGED <<pkg, before>>
  PROVE  /\ PackagesOK' /\ TrueOK'
         /\ SamePackage /\ EarlierSigned => EarlierSigned'
         /\ SamePackage /\ LaterSame => LaterSame'
<1>1. PackagesOK' /\ TrueOK'
  BY DEF NupkgInv, PackagesOK, TrueOK
<1>2. SamePackage /\ EarlierSigned => EarlierSigned'
  BY DEF SamePackage, EarlierSigned
<1>3. SamePackage /\ LaterSame => LaterSame'
  BY DEF SamePackage, LaterSame
<1> QED  BY <1>1, <1>2, <1>3

(* A package is refused, or the process is killed. *)
LEMMA FailStep ==
  ASSUME NupkgInv, Running, UNCHANGED <<pkg, lists, before>>,
         Exit("killed") \/ (Exit("fail") /\ proc.pc \in {"examine", "sign"})
  PROVE  NupkgInv'
<1>1. /\ IsProc' /\ SamePackage /\ proc'.pc = "exit"
      /\ proc'.exit \in {"killed", "fail"}
      /\ proc'.exit = "fail" => proc.pc \in {"examine", "sign"}
  <2>1. IsProc
    BY DEF NupkgInv, ControlOK
  <2>2. CASE Exit("killed")
    BY <2>1, <2>2, ExitFields
  <2>3. CASE Exit("fail") /\ proc.pc \in {"examine", "sign"}
    BY <2>1, <2>3, ExitFields
  <2> QED  BY <2>2, <2>3
<1>2. ControlOK'
  BY <1>1
     DEF NupkgInv, ControlOK, SamePackage, SameTask, Adding, Torn, Signs, Running
<1>3. StageOK'
  BY <1>1 DEF StageOK, Adding, Torn
<1>4. BatchOK'
  BY <1>1, PackagesStay
     DEF NupkgInv, BatchOK, SamePackage, SameTask, Signs, Running, Refusal
<1>5. ListsOK'
  BY DEF NupkgInv, ListsOK
<1> QED  BY <1>2, <1>3, <1>4, <1>5, PackagesStay DEF NupkgInv

(* Between commands. *)
LEMMA IdleStep ==
  ASSUME PackagesOK', ListsOK', TrueOK', proc' = Idle
  PROVE  NupkgInv'
<1>1. /\ IsProc' /\ proc'.cmd = "none" /\ proc'.pc = "exit"
      /\ proc'.exit = "none"
  BY DEF IsProc, Idle
<1>2. ControlOK' /\ StageOK' /\ BatchOK'
  BY <1>1 DEF ControlOK, StageOK, BatchOK, Signs, Adding, Torn
<1> QED  BY <1>2 DEF NupkgInv

(* A command begins at its first package. *)
LEMMA StartStep ==
  ASSUME NupkgInv, Start
  PROVE  NupkgInv'
<1>1. PICK cmd \in Commands, args \in ArgLists :
        proc' = [Idle EXCEPT !.cmd = cmd, !.pc = "examine",
                             !.args = args, !.i = 1]
  BY DEF Start
<1>2. UNCHANGED <<pkg, lists>> /\ before' = pkg
  BY DEF Start
<1>3. /\ IsProc' /\ proc'.cmd = cmd /\ proc'.pc = "examine"
      /\ proc'.args = args /\ proc'.i = 1
  BY <1>1 DEF IsProc, Idle
<1>4. cmd \in {"list-nupkg", "embed", "nupkg"} /\ 1 \in 1 .. Len(args)
  BY PackageArgsAssumption
<1>5. ControlOK'
  BY <1>3, <1>4 DEF ControlOK, Adding, Torn, Signs
<1>6. StageOK'
  BY <1>3 DEF StageOK, Adding, Torn
<1>7. PackagesOK' /\ ListsOK' /\ TrueOK'
  BY <1>2 DEF NupkgInv, PackagesOK, ListsOK, TrueOK
<1>8. EarlierSigned'
  BY <1>3 DEF EarlierSigned, Earlier
<1>9. BatchOK'
  BY <1>2, <1>3, <1>8 DEF BatchOK, LaterSame, Running, Refusal
<1> QED  BY <1>5, <1>6, <1>7, <1>9 DEF NupkgInv

(* A package is examined. *)
LEMMA ExamineStep ==
  ASSUME NupkgInv, Examine
  PROVE  NupkgInv'
<1> DEFINE text == IF proc.cmd = "embed" THEN Agreed(This)
                                         ELSE nupkg_hashes(pkg[This])
           next == CASE proc.cmd = "list-nupkg" -> "open list"
                     [] proc.cmd = "nupkg"      -> "sign"
                     [] proc.cmd = "embed"      -> "add list"
<1>0. UNCHANGED <<pkg, lists, before>> /\ proc.pc = "examine"
  BY DEF Examine
<1>1. proc.cmd \in {"list-nupkg", "nupkg", "embed"}
  BY <1>0 DEF NupkgInv, ControlOK
<1>2. \/ text = Refused /\ Exit("fail")
      \/ /\ text # Refused
         /\ proc' = [proc EXCEPT !.data = text, !.pc = next,
                       !.signature = lists[BaseName[This]].sig]
  BY DEF Examine
<1>3. CASE Exit("fail")
  BY <1>0, <1>3, FailStep DEF Running
<1>4. CASE /\ text # Refused
           /\ proc' = [proc EXCEPT !.data = text, !.pc = next,
                         !.signature = lists[BaseName[This]].sig]
  <2>1. This \in Packages /\ IsPackage(pkg[This]) /\ ListsOK
    BY <1>1, ThisPackage DEF NupkgInv, PackagesOK
  <2>2. /\ text = nupkg_hashes(pkg[This])
        /\ proc.cmd = "embed" => Fits(lists[BaseName[This]].sig, text)
    BY <1>4, <2>1, AgreedIs
  <2>3. /\ text = Entries(pkg[This]) /\ text # Missing
        /\ pkg[This].list = Missing /\ pkg[This].sig = Missing
        /\ \A k \in Keys : Signature(k, text) # Missing
    BY <1>4, <2>1, <2>2, HashesAre
  <2>4. \/ next = "open list" /\ proc.cmd = "list-nupkg"
        \/ next = "sign" /\ proc.cmd = "nupkg"
        \/ next = "add list" /\ proc.cmd = "embed"
    BY <1>1
  <2> HIDE DEF text, next
  <2>5. /\ IsProc' /\ SameTask /\ proc'.i = proc.i /\ proc'.pc = next
        /\ proc'.data = text /\ proc'.signature = lists[BaseName[This]].sig
    BY <1>4 DEF NupkgInv, ControlOK, IsProc, SameTask
  <2>6. SamePackage
    BY <2>5 DEF SamePackage, SameTask, This, Earlier, Reached
  <2>7. ControlOK'
    BY <2>4, <2>5 DEF NupkgInv, ControlOK, SameTask, Signs, Adding, Torn
  <2>8. StageOK'
    BY <1>0, <2>2, <2>3, <2>4, <2>5, <2>6 DEF StageOK, SamePackage, Adding, Torn
  <2>9. BatchOK'
    BY <1>0, <2>4, <2>5, <2>6, PackagesStay
       DEF NupkgInv, BatchOK, SamePackage, SameTask, Signs, Running, Refusal
  <2>10. ListsOK'
    BY <1>0, <2>1 DEF ListsOK
  <2> QED  BY <1>0, <2>7, <2>8, <2>9, <2>10, PackagesStay DEF NupkgInv
<1> QED  BY <1>2, <1>3, <1>4

(* nupkg signs the list. *)
LEMMA SignStep ==
  ASSUME NupkgInv, Sign
  PROVE  NupkgInv'
<1>0. UNCHANGED <<pkg, lists, before>> /\ proc.pc = "sign"
  BY DEF Sign
<1>1. PICK key \in Keys \union {NoKey} :
        \/ key = NoKey /\ Exit("fail")
        \/ /\ key # NoKey
           /\ proc' = [proc EXCEPT !.signature = Signature(key, proc.data),
                                   !.pc = "add list"]
  BY DEF Sign
<1>2. CASE Exit("fail")
  BY <1>0, <1>2, FailStep DEF Running
<1>3. CASE /\ key # NoKey
           /\ proc' = [proc EXCEPT !.signature = Signature(key, proc.data),
                                   !.pc = "add list"]
  <2>1. /\ IsProc' /\ SameTask /\ proc'.i = proc.i /\ proc'.pc = "add list"
        /\ proc'.data = proc.data /\ key \in Keys
        /\ proc'.signature = Signature(key, proc.data)
    BY <1>3 DEF NupkgInv, ControlOK, IsProc, SameTask
  <2>2. SamePackage
    BY <2>1 DEF SamePackage, SameTask, This, Earlier, Reached
  <2>3. ControlOK'
    BY <1>0, <2>1 DEF NupkgInv, ControlOK, SameTask, Signs, Adding, Torn
  <2>4. Fits(proc'.signature, proc'.data)
    <3>1. Signature(key, proc.data) # EmptySignature
      BY <2>1, PackageKeysAssumption DEF Signature, EmptySignature
    <3> QED  BY <1>0, <2>1, <3>1 DEF NupkgInv, StageOK, Fits, SignedBy
  <2>5. StageOK'
    BY <1>0, <2>1, <2>2, <2>4 DEF NupkgInv, StageOK, SamePackage, Adding, Torn
  <2>6. BatchOK'
    BY <1>0, <2>1, <2>2, PackagesStay
       DEF NupkgInv, BatchOK, SamePackage, SameTask, Signs, Running, Refusal
  <2>7. ListsOK'
    BY <1>0 DEF NupkgInv, ListsOK
  <2> QED  BY <1>0, <2>3, <2>5, <2>6, <2>7, PackagesStay DEF NupkgInv
<1> QED  BY <1>1, <1>2, <1>3

(* One of the lists changes, or its signature. *)
ListsChanged(b) ==
  /\ lists' = [a \in Names |-> lists'[a]]
  /\ \A a \in Names \ {b} : lists'[a] = lists[a]
  /\ lists'[b] = [text |-> lists'[b].text, sig |-> lists'[b].sig]
  /\ lists'[b].sig # EmptySignature

(* The others stay what they are. *)
LEMMA ListsChange ==
  ASSUME ListsOK, NEW b, ListsChanged(b)
  PROVE  ListsOK'
BY DEF ListsOK, ListsChanged

(* list-nupkg writes lists only. *)
LEMMA ListStep ==
  ASSUME NupkgInv, OpenList \/ WriteList
  PROVE  NupkgInv'
<1>0. /\ UNCHANGED <<pkg, before>> /\ proc.pc \in {"open list", "write list"}
      /\ Go("write list") \/ NextPackage
  BY DEF OpenList, WriteList
<1>1. proc.cmd = "list-nupkg"
  BY <1>0 DEF NupkgInv, ControlOK
<1>2. /\ IsProc' /\ SameTask
      /\ proc'.pc \in {"write list", "exit", "examine"}
      /\ proc'.i \in 1 .. Len(proc.args)
  <2>1. CASE Go("write list")
    BY <1>1, <2>1, GoFields, ThisPackage DEF NupkgInv, ControlOK, SamePackage
  <2>2. CASE NextPackage
    BY <1>1, <2>2, NextFields, ThisPackage DEF NupkgInv, SamePackage
  <2> QED  BY <1>0, <2>1, <2>2
<1>3. ControlOK'
  BY <1>1, <1>2 DEF NupkgInv, ControlOK, SameTask, Signs, Adding, Torn
<1>4. StageOK' /\ BatchOK'
  BY <1>1, <1>2 DEF StageOK, BatchOK, SameTask, Signs, Adding, Torn
<1>5. ListsOK'
  <2>1. BaseName[This] \in Names /\ ListsOK
    BY <1>1, ThisPackage DEF NupkgInv, Names
  <2>2. PICK text : lists' = [lists EXCEPT ![BaseName[This]].text = text]
    BY DEF OpenList, WriteList
  <2>3. ListsChanged(BaseName[This])
    BY <2>1, <2>2 DEF ListsOK, ListsChanged
  <2> QED  BY <2>1, <2>3, ListsChange
<1> QED  BY <1>0, <1>3, <1>4, <1>5, PackagesStay DEF NupkgInv

-----------------------------------------------------------------------------
(* The steps that add to a package. *)

(* A change of a package that was not signed leaves the signed ones and    *)
(* the later ones alone.                                                   *)
LEMMA OthersStay ==
  ASSUME NupkgInv, Signs, ~Signed(pkg[This]), UNCHANGED before,
         \A p \in Packages \ {This} : pkg'[p] = pkg[p]
  PROVE  /\ This \notin Earlier /\ Earlier \subseteq Packages
         /\ This \in Reached
         /\ \A p \in Earlier : Signed(pkg'[p])
         /\ \A p \in Packages \ Reached : pkg'[p] = before'[p]
<1>1. /\ proc.args \in Seq(Packages) /\ proc.i \in 1 .. Len(proc.args)
      /\ Len(proc.args) \in Nat
  BY ThisPackage DEF NupkgInv, Signs
<1>2. Earlier \subseteq Packages
  <2>1. \A k \in 1 .. proc.i - 1 : k \in 1 .. Len(proc.args)
    BY <1>1
  <2> QED  BY <1>1, <2>1 DEF Earlier
<1>3. This \in Reached
  <2>1. proc.i \in 1 .. proc.i
    BY <1>1
  <2> QED  BY <2>1 DEF This, Reached
<1>4. EarlierSigned /\ LaterSame
  BY DEF NupkgInv, BatchOK
<1>5. This \notin Earlier
  BY <1>4 DEF EarlierSigned
<1>6. \A p \in Earlier : Signed(pkg'[p])
  BY <1>2, <1>4, <1>5 DEF EarlierSigned
<1> QED  BY <1>2, <1>3, <1>4, <1>5, <1>6 DEF LaterSame

(* The package at hand changes, and the command goes on with it. *)
LEMMA AddingStep ==
  ASSUME NupkgInv, proc.pc \in Adding, NEW pc \in Torn, Go(pc),
         UNCHANGED <<lists, before>>,
         pkg' = [p \in Packages |-> pkg'[p]],
         \A p \in Packages \ {This} : pkg'[p] = pkg[p],
         IsPackage(pkg'[This]), pkg'[This].entries = pkg[This].entries,
         pkg'[This].torn = TRUE, ~Signed(pkg[This]), IsTrue(pkg'[This]),
         pc = "fill list" => pkg'[This].sig = Missing,
         pc # "fill list" => pkg'[This].list = proc.data,
         pc = "close" => pkg'[This].sig = proc.signature
  PROVE  NupkgInv'
<1>1. Signs
  BY DEF NupkgInv, ControlOK
<1>2. /\ IsProc' /\ SamePackage /\ proc'.pc = pc
      /\ proc'.data = proc.data /\ proc'.signature = proc.signature
  BY GoFields DEF NupkgInv, ControlOK
<1>3. PackagesOK' /\ ListsOK' /\ TrueOK'
  BY DEF NupkgInv, PackagesOK, ListsOK, TrueOK
<1>4. ControlOK'
  BY <1>1, <1>2
     DEF NupkgInv, ControlOK, SamePackage, SameTask, Signs, Adding, Torn
<1>5. Entries(pkg'[This]) = Entries(pkg[This])
  BY SameEntries
<1>6. /\ proc.data = Entries(pkg[This]) /\ proc.data # Missing
      /\ Fits(proc.signature, proc.data)
  BY DEF NupkgInv, StageOK
<1>7. StageOK'
  BY <1>2, <1>5, <1>6 DEF StageOK, SamePackage, Adding, Torn
<1>8. BatchOK'
  BY <1>1, <1>2, OthersStay
     DEF BatchOK, EarlierSigned, LaterSame, SamePackage, Running, Refusal, Torn
<1> QED  BY <1>3, <1>4, <1>7, <1>8 DEF NupkgInv

(* How one entry of the package at hand changes. *)
LEMMA ChangedFields ==
  ASSUME NupkgInv, proc.pc \in Adding
  PROVE  /\ This \in Packages /\ IsPackage(pkg[This])
         /\ proc.data = Entries(pkg[This]) /\ Fits(proc.signature, proc.data)
<1>1. proc.cmd # "none"
  BY DEF NupkgInv, ControlOK, Signs
<1>2. This \in Packages
  BY <1>1, ThisPackage DEF NupkgInv
<1> QED  BY <1>2 DEF NupkgInv, PackagesOK, StageOK

(* The entry of the list begins, and the archive is torn. *)
LEMMA BeginListStep ==
  ASSUME NupkgInv, BeginList
  PROVE  NupkgInv'
<1>0. /\ proc.pc = "add list" /\ UNCHANGED <<lists, before>>
      /\ Go("fill list")
      /\ pkg' = [pkg EXCEPT ![This].list = {}, ![This].torn = TRUE]
  BY DEF BeginList
<1>1. This \in Packages /\ IsPackage(pkg[This])
  BY <1>0, ChangedFields DEF Adding
<1>2. /\ pkg' = [p \in Packages |-> pkg'[p]]
      /\ \A p \in Packages \ {This} : pkg'[p] = pkg[p]
      /\ pkg'[This] = [pkg[This] EXCEPT !.list = {}, !.torn = TRUE]
  BY <1>0, <1>1 DEF NupkgInv, PackagesOK
<1>3. /\ IsPackage(pkg'[This]) /\ pkg'[This].entries = pkg[This].entries
      /\ pkg'[This].sig = pkg[This].sig /\ pkg'[This].torn = TRUE
  BY <1>1, <1>2 DEF IsPackage
<1>4. pkg[This].sig = Missing
  BY <1>0 DEF NupkgInv, StageOK
<1>5. ~Signed(pkg[This]) /\ IsTrue(pkg'[This])
  BY <1>3, <1>4 DEF Signed, IsTrue
<1> QED  BY <1>0, <1>2, <1>3, <1>4, <1>5, AddingStep DEF Adding, Torn

(* It is written. *)
LEMMA FillListStep ==
  ASSUME NupkgInv, FillList
  PROVE  NupkgInv'
<1>0. /\ proc.pc = "fill list" /\ UNCHANGED <<lists, before>>
      /\ Go("add sig") /\ pkg' = [pkg EXCEPT ![This].list = proc.data]
  BY DEF FillList
<1>1. This \in Packages /\ IsPackage(pkg[This])
  BY <1>0, ChangedFields DEF Adding, Torn
<1>2. /\ pkg' = [p \in Packages |-> pkg'[p]]
      /\ \A p \in Packages \ {This} : pkg'[p] = pkg[p]
      /\ pkg'[This] = [pkg[This] EXCEPT !.list = proc.data]
  BY <1>0, <1>1 DEF NupkgInv, PackagesOK
<1>3. /\ IsPackage(pkg'[This]) /\ pkg'[This].entries = pkg[This].entries
      /\ pkg'[This].list = proc.data /\ pkg'[This].sig = pkg[This].sig
      /\ pkg'[This].torn = pkg[This].torn
  BY <1>1, <1>2 DEF IsPackage
<1>4. pkg[This].sig = Missing /\ pkg[This].torn = TRUE
  BY <1>0 DEF NupkgInv, StageOK, Torn
<1>5. ~Signed(pkg[This]) /\ IsTrue(pkg'[This])
  BY <1>3, <1>4 DEF Signed, IsTrue
<1> QED  BY <1>0, <1>2, <1>3, <1>4, <1>5, AddingStep DEF Adding, Torn

(* The entry of the signature begins, or is written, beside a whole list.  *)
LEMMA SigStep ==
  ASSUME NupkgInv, BeginSig \/ FillSig
  PROVE  NupkgInv'
<1> DEFINE value == IF BeginSig THEN EmptySignature ELSE proc.signature
           pc == IF BeginSig THEN "fill sig" ELSE "close"
<1>0. /\ proc.pc \in {"add sig", "fill sig"} /\ UNCHANGED <<lists, before>>
      /\ Go(pc) /\ pkg' = [pkg EXCEPT ![This].sig = value]
      /\ value = EmptySignature \/ value = proc.signature
      /\ pc = "close" => value = proc.signature
      /\ pc \in {"fill sig", "close"}
  BY DEF BeginSig, FillSig
<1> HIDE DEF value, pc
<1>1. /\ This \in Packages /\ IsPackage(pkg[This])
      /\ proc.data = Entries(pkg[This]) /\ Fits(proc.signature, proc.data)
  BY <1>0, ChangedFields DEF Adding, Torn
<1>2. /\ pkg' = [p \in Packages |-> pkg'[p]]
      /\ \A p \in Packages \ {This} : pkg'[p] = pkg[p]
      /\ pkg'[This] = [pkg[This] EXCEPT !.sig = value]
  BY <1>0, <1>1 DEF NupkgInv, PackagesOK
<1>3. /\ IsPackage(pkg'[This]) /\ pkg'[This].entries = pkg[This].entries
      /\ pkg'[This].list = pkg[This].list /\ pkg'[This].sig = value
      /\ pkg'[This].torn = pkg[This].torn
  BY <1>1, <1>2 DEF IsPackage
<1>4. pkg[This].list = proc.data /\ pkg[This].torn = TRUE
  BY <1>0 DEF NupkgInv, StageOK, Torn
<1>5. Entries(pkg'[This]) = Entries(pkg[This])
  BY <1>3, SameEntries
<1>6. ~Signed(pkg[This]) /\ IsTrue(pkg'[This])
  BY <1>0, <1>1, <1>3, <1>4, <1>5 DEF Signed, IsTrue
<1> QED  BY <1>0, <1>2, <1>3, <1>4, <1>6, AddingStep DEF Adding, Torn

(* Closing an archive leaves the entries what they are. *)
LEMMA ClosedFields ==
  ASSUME NEW z, IsPackage(z), NEW y, y = [z EXCEPT !.torn = FALSE]
  PROVE  /\ IsPackage(y) /\ y.entries = z.entries
         /\ y.list = z.list /\ y.sig = z.sig /\ y.torn = FALSE
BY DEF IsPackage

(* The archive of the package at hand is closed. *)
CloseArchive == pkg' = [pkg EXCEPT ![This].torn = FALSE]

(* What closing an archive makes of the packages, when the command goes on *)
(* and when an exception leaves the with statement.                        *)
LEMMA ClosedArchive ==
  ASSUME NupkgInv, proc.pc \in Torn, CloseArchive
  PROVE  /\ PackagesOK' /\ TrueOK' /\ Signs /\ ~Signed(pkg[This])
         /\ \A p \in Packages \ {This} : pkg'[p] = pkg[p]
         /\ proc.pc = "close" => Signed(pkg'[This])
<1>1. Signs /\ proc.cmd # "none"
  BY DEF NupkgInv, ControlOK, Adding, Torn, Signs
<1>2. This \in Packages
  BY <1>1, ThisPackage DEF NupkgInv
<1>3. /\ pkg' = [p \in Packages |-> pkg'[p]]
      /\ \A p \in Packages \ {This} : pkg'[p] = pkg[p]
      /\ pkg'[This] = [pkg[This] EXCEPT !.torn = FALSE]
  BY <1>2 DEF NupkgInv, PackagesOK, CloseArchive
<1>4. /\ IsPackage(pkg'[This]) /\ pkg'[This].entries = pkg[This].entries
      /\ pkg'[This].list = pkg[This].list /\ pkg'[This].sig = pkg[This].sig
      /\ pkg'[This].torn = FALSE
  <2>1. IsPackage(pkg[This])
    BY <1>2 DEF NupkgInv, PackagesOK
  <2> QED  BY <1>3, <2>1, ClosedFields
<1>5. /\ proc.data # Missing
      /\ proc.signature \notin {Missing, EmptySignature}
      /\ pkg[This].torn = TRUE
      /\ proc.pc = "close" => /\ pkg[This].list = proc.data
                              /\ pkg[This].sig = proc.signature
  BY DEF NupkgInv, StageOK, Adding, Torn, Fits
<1>6. PackagesOK'
  BY <1>3, <1>4 DEF NupkgInv, PackagesOK
<1>7. Entries(pkg'[This]) = Entries(pkg[This])
  BY <1>4, SameEntries
<1>8. TrueOK'
  BY <1>2, <1>3, <1>4, <1>7 DEF NupkgInv, TrueOK, IsTrue
<1>9. ~Signed(pkg[This]) /\ (proc.pc = "close" => Signed(pkg'[This]))
  BY <1>4, <1>5 DEF Signed
<1> QED  BY <1>1, <1>3, <1>6, <1>8, <1>9

(* The archive is closed, and the command goes on to the next package. *)
LEMMA CloseStep ==
  ASSUME NupkgInv, Close
  PROVE  NupkgInv'
<1>0. /\ proc.pc = "close" /\ UNCHANGED <<lists, before>> /\ NextPackage
      /\ CloseArchive
  BY DEF Close, CloseArchive
<1>1. /\ PackagesOK' /\ TrueOK' /\ Signs /\ ~Signed(pkg[This])
      /\ \A p \in Packages \ {This} : pkg'[p] = pkg[p]
      /\ Signed(pkg'[This])
  BY <1>0, ClosedArchive DEF Torn
<1>2. /\ \A p \in Earlier : Signed(pkg'[p])
      /\ \A p \in Packages \ Reached : pkg'[p] = before'[p]
  BY <1>0, <1>1, OthersStay
<1>3. /\ IsProc' /\ SameTask
      /\ \/ /\ proc'.pc = "exit" /\ proc'.exit = "ok"
            /\ proc.i = Len(proc.args) /\ SamePackage
         \/ /\ proc'.pc = "examine" /\ proc'.i = proc.i + 1
            /\ proc'.i \in 1 .. Len(proc.args)
  BY <1>0, <1>1, NextFields DEF NupkgInv, Signs
<1>4. /\ proc.args \in Seq(Packages) /\ proc.i \in 1 .. Len(proc.args)
      /\ Len(proc.args) \in Nat
  BY <1>1, ThisPackage DEF NupkgInv, Signs
<1>5. ControlOK'
  BY <1>1, <1>3, <1>4
     DEF NupkgInv, ControlOK, SamePackage, SameTask, Signs, Adding, Torn
<1>6. StageOK'
  BY <1>3 DEF StageOK, Adding, Torn
<1>7. BatchOK'
  <2>1. CASE SamePackage /\ proc'.pc = "exit" /\ proc'.exit = "ok"
             /\ proc.i = Len(proc.args)
    BY <1>1, <1>2, <2>1
       DEF BatchOK, EarlierSigned, LaterSame, SamePackage, SameTask, Running,
           Refusal
  <2>2. CASE /\ proc'.pc = "examine" /\ proc'.i = proc.i + 1
             /\ proc'.i \in 1 .. Len(proc.args)
    <3>1. proc'.args = proc.args
      BY <1>3 DEF SameTask
    <3>2. /\ proc'.i - 1 = proc.i /\ proc'.i \in 1 .. proc'.i
          /\ 1 .. proc.i \subseteq 1 .. proc'.i
          /\ \A k \in 1 .. proc.i : k \in 1 .. proc.i - 1 \/ k = proc.i
      BY <1>4, <2>2
    <3>3. Earlier' = Reached
      BY <3>1, <3>2 DEF Earlier, Reached
    <3>4. Reached \subseteq Reached'
      BY <3>1, <3>2 DEF Reached
    <3>5. Reached \subseteq Earlier \union {This}
      BY <3>2 DEF Reached, Earlier, This
    <3>6. EarlierSigned' /\ LaterSame'
      BY <1>1, <1>2, <3>3, <3>4, <3>5 DEF EarlierSigned, LaterSame
    <3>7. This' \in Packages
      BY <1>4, <2>2, <3>1 DEF This
    <3>8. This' \in Earlier' \/ pkg'[This'] = before'[This']
      BY <1>2, <3>3, <3>7
    <3> QED  BY <2>2, <3>6, <3>8 DEF BatchOK, Running, Refusal
  <2> QED  BY <1>3, <2>1, <2>2
<1>8. ListsOK'
  BY <1>0 DEF NupkgInv, ListsOK
<1> QED  BY <1>1, <1>5, <1>6, <1>7, <1>8 DEF NupkgInv

(* An exception in the middle of a package. *)
LEMMA InterruptStep ==
  ASSUME NupkgInv, Interrupt
  PROVE  NupkgInv'
<1>0. /\ Running /\ UNCHANGED <<lists, before>> /\ Exit("killed")
      /\ UNCHANGED pkg \/ (proc.pc \in Torn /\ CloseArchive)
  BY DEF Interrupt, CloseArchive, Torn
<1>1. CASE UNCHANGED pkg
  BY <1>0, <1>1, FailStep
<1>2. CASE proc.pc \in Torn /\ CloseArchive
  <2>1. /\ PackagesOK' /\ TrueOK' /\ Signs /\ ~Signed(pkg[This])
        /\ \A p \in Packages \ {This} : pkg'[p] = pkg[p]
    BY <1>2, ClosedArchive
  <2>2. /\ IsProc' /\ SamePackage /\ proc'.pc = "exit"
        /\ proc'.exit = "killed"
    BY <1>0, ExitFields DEF NupkgInv, ControlOK
  <2>3. ControlOK'
    BY <2>1, <2>2
       DEF NupkgInv, ControlOK, SamePackage, SameTask, Signs, Adding, Torn
  <2>4. StageOK'
    BY <2>2 DEF StageOK, Adding, Torn
  <2>5. BatchOK'
    BY <1>0, <2>1, <2>2, OthersStay
       DEF BatchOK, EarlierSigned, LaterSame, SamePackage, Running, Refusal
  <2>6. ListsOK'
    BY <1>0 DEF NupkgInv, ListsOK
  <2> QED  BY <2>1, <2>3, <2>4, <2>5, <2>6 DEF NupkgInv
<1> QED  BY <1>0, <1>1, <1>2

-----------------------------------------------------------------------------
(* The invariant. *)

(* Every step keeps it. *)
LEMMA NupkgInvStep ==
  ASSUME NupkgInv, [NupkgNext]_pkgVars
  PROVE  NupkgInv'
<1>1. CASE Kill
  BY <1>1, FailStep DEF Kill
<1>2. CASE Rebuild
  <2>1. PICK p \in Packages, e \in Builds : pkg' = [pkg EXCEPT ![p] = Fresh(e)]
    BY <1>2 DEF Rebuild
  <2>2. IsPackage(Fresh(e)) /\ IsTrue(Fresh(e))
    BY DEF IsPackage, IsTrue, Fresh
  <2>3. PackagesOK' /\ ListsOK' /\ TrueOK'
    BY <1>2, <2>1, <2>2 DEF NupkgInv, PackagesOK, ListsOK, TrueOK, Rebuild
  <2> QED  BY <1>2, <2>3, IdleStep DEF Rebuild
<1>3. CASE Push
  <2>1. PICK p \in Packages : pkg' = [pkg EXCEPT ![p].nuget = TRUE]
    BY <1>3 DEF Push
  <2>2. /\ pkg' = [q \in Packages |-> pkg'[q]]
        /\ \A q \in Packages \ {p} : pkg'[q] = pkg[q]
        /\ pkg'[p] = [pkg[p] EXCEPT !.nuget = TRUE]
    BY <2>1 DEF NupkgInv, PackagesOK
  <2>3. /\ IsPackage(pkg'[p]) /\ pkg'[p].entries = pkg[p].entries
        /\ pkg'[p].list = pkg[p].list /\ pkg'[p].sig = pkg[p].sig
    BY <2>2 DEF NupkgInv, PackagesOK, IsPackage
  <2>4. IsTrue(pkg'[p])
    BY <2>3, SameEntries DEF NupkgInv, TrueOK, IsTrue
  <2>5. PackagesOK' /\ TrueOK'
    BY <2>2, <2>3, <2>4 DEF NupkgInv, PackagesOK, TrueOK
  <2>6. ListsOK'
    BY <1>3 DEF NupkgInv, ListsOK, Push
  <2> QED  BY <1>3, <2>5, <2>6, IdleStep DEF Push
<1>4. CASE SignYml
  <2>1. PICK b \in Names, key \in Keys :
          lists' = [lists EXCEPT ![b].sig = Signature(key, lists[b].text)]
    BY <1>4 DEF SignYml
  <2>2. Signature(key, lists[b].text) # EmptySignature
    BY PackageKeysAssumption DEF Signature, EmptySignature
  <2>3. ListsChanged(b)
    BY <2>1, <2>2 DEF NupkgInv, ListsOK, ListsChanged
  <2>4. ListsOK' /\ PackagesOK' /\ TrueOK'
    BY <1>4, <2>3, ListsChange DEF SignYml, NupkgInv, PackagesOK, TrueOK
  <2> QED  BY <1>4, <2>4, IdleStep DEF SignYml
<1>5. CASE UNCHANGED pkgVars
  <2>1. UNCHANGED <<pkg, lists, proc, before>>
    BY <1>5 DEF pkgVars
  <2>2. PackagesOK' /\ ListsOK' /\ TrueOK'
    BY <2>1 DEF NupkgInv, PackagesOK, ListsOK, TrueOK
  <2>3. ControlOK' /\ StageOK'
    BY <2>1 DEF NupkgInv, ControlOK, IsProc, StageOK, Signs, This
  <2>4. BatchOK'
    BY <2>1
       DEF NupkgInv, BatchOK, Signs, This, Earlier, Reached, EarlierSigned,
           LaterSame, Running, Refusal
  <2> QED  BY <2>2, <2>3, <2>4 DEF NupkgInv
<1> QED
  BY <1>1, <1>2, <1>3, <1>4, <1>5, StartStep, ExamineStep, SignStep, ListStep,
     BeginListStep, FillListStep, SigStep, CloseStep, InterruptStep
     DEF NupkgNext, ToolStep

(* It holds where no command has run. *)
LEMMA NupkgInitially ==
  ASSUME NupkgInit
  PROVE  NupkgInv
<1>1. /\ IsProc /\ proc.cmd = "none" /\ proc.pc = "exit"
      /\ proc.exit = "none"
  BY DEF NupkgInit, IsProc, Idle
<1>2. \A e \in Builds : IsPackage(Fresh(e)) /\ IsTrue(Fresh(e))
  BY DEF IsPackage, IsTrue, Fresh
<1>3. PackagesOK /\ TrueOK
  BY <1>2 DEF NupkgInit, PackagesOK, TrueOK
<1>5. ListsOK
  BY PackageEntriesAssumption DEF NupkgInit, ListsOK, EmptySignature
<1>4. ControlOK /\ StageOK /\ BatchOK
  BY <1>1 DEF ControlOK, StageOK, BatchOK, Signs, Adding, Torn
<1> QED  BY <1>3, <1>4, <1>5 DEF NupkgInv

(* NupkgInv is an invariant of the commands. *)
LEMMA NupkgInvHolds == NupkgSpec => []NupkgInv
<1>1. NupkgInit => NupkgInv
  BY NupkgInitially
<1>2. NupkgInv /\ [NupkgNext]_pkgVars => NupkgInv'
  BY NupkgInvStep
<1> QED  BY <1>1, <1>2, PTL DEF NupkgSpec

-----------------------------------------------------------------------------
(* The theorems. *)

(* A readable package with both entries holds the list of exactly its      *)
(* other entries and, when public keys are set, a signature of that list   *)
(* or one that an exception left cut, which no key verifies.               *)
THEOREM NupkgSignedIsTrue == NupkgSpec => []SignedIsTrue
<1>1. NupkgInv => SignedIsTrue
  BY DEF NupkgInv, TrueOK, IsTrue, Fits, SignedIsTrue
<1> QED  BY <1>1, NupkgInvHolds, PTL

(* embed and nupkg leave the packages before the one they stop at signed,  *)
(* the ones after it as they were, and the one itself too when they refuse *)
(* it; with success, all are signed.                                       *)
THEOREM NupkgStopsBetween == NupkgSpec => []StopsBetween
<1>1. NupkgInv => StopsBetween
  <2> SUFFICES ASSUME NupkgInv, ~Running, Signs PROVE StopsBetween
    BY DEF StopsBetween, Signs
  <2>1. EarlierSigned /\ LaterSame
    BY DEF NupkgInv, BatchOK
  <2>2. \A k \in 1 .. proc.i - 1 : Signed(pkg[proc.args[k]])
    BY <2>1 DEF EarlierSigned, Earlier
  <2>3. \A p \in Packages \ {proc.args[k] : k \in 1 .. proc.i} :
          pkg[p] = before[p]
    BY <2>1 DEF LaterSame, Reached
  <2>4. proc.exit = "ok" => proc.i = Len(proc.args) /\ Signed(pkg[This])
    BY DEF NupkgInv, BatchOK
  <2>5. proc.exit = "fail" /\ This \notin Earlier => pkg[This] = before[This]
    BY DEF NupkgInv, BatchOK, Refusal
  <2> QED  BY <2>2, <2>3, <2>4, <2>5 DEF StopsBetween, Earlier
<1> QED  BY <1>1, NupkgInvHolds, PTL

(* No command changes a readable package that has one of the entries: a    *)
(* retry, after whatever stop, signs nothing twice.                        *)
THEOREM NupkgSignedStays == NupkgSpec => SignedStays
<1> DEFINE Stays == Running => \A p \in Packages :
                      ~pkg[p].torn /\ (pkg[p].list # Missing \/ pkg[p].sig # Missing)
                        => pkg'[p] = pkg[p]
<1>1. NupkgInv /\ [NupkgNext]_pkgVars => [Stays]_pkgVars
  <2> SUFFICES ASSUME NupkgInv, NupkgNext, Running,
                      NEW p \in Packages, ~pkg[p].torn,
                      pkg[p].list # Missing \/ pkg[p].sig # Missing
               PROVE  pkg'[p] = pkg[p]
    OBVIOUS
  <2>0. pkg = [q \in Packages |-> pkg[q]]
    BY DEF NupkgInv, PackagesOK
  <2>1. CASE UNCHANGED pkg
    BY <2>1
  <2>2. CASE BeginList
    <3>1. This # p
      BY <2>2 DEF BeginList, NupkgInv, StageOK
    <3> QED  BY <2>0, <2>2, <3>1 DEF BeginList
  <2>3. CASE \/ FillList \/ BeginSig \/ FillSig \/ Close
             \/ Interrupt /\ proc.pc \in Torn
    <3>1. This # p
      BY <2>3 DEF FillList, BeginSig, FillSig, Close, NupkgInv, StageOK, Torn
    <3> QED  BY <2>0, <2>3, <3>1 DEF FillList, BeginSig, FillSig, Close, Interrupt
  <2>4. \/ UNCHANGED pkg \/ BeginList \/ FillList \/ BeginSig \/ FillSig
        \/ Close
        \/ Interrupt /\ proc.pc \in Torn
    BY DEF NupkgNext, ToolStep, Examine, Sign, OpenList, WriteList, Start, Kill,
           Interrupt, Rebuild, Push, SignYml, Torn
  <2> QED  BY <2>1, <2>2, <2>3, <2>4
<1> QED  BY <1>1, NupkgInvHolds, PTL DEF NupkgSpec, SignedStays

=============================================================================
