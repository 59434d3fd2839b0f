----------------------------- MODULE SignLists ------------------------------
(***************************************************************************)
(* Lists of hashes and their signatures, as tools/sign_package.py makes    *)
(* and checks them.  A list is a set of pairs of a name and a hash: its    *)
(* text is sorted and has one line for each, so that equal texts are equal *)
(* sets.  A hash is taken for the content it identifies.  A signature is   *)
(* a record of the key that made it and the list it was made for; keys     *)
(* cannot be guessed, so openssl verifies exactly those.                   *)
(***************************************************************************)
EXTENDS Integers, Sequences

CONSTANTS
  BrokenNames,  \* names with a line break of list_text: \n or \r
  SplitNames,   \* names with another separator that splitlines knows
  Refused,      \* what a function returns when the script fails instead
  Missing       \* the content of a file that does not exist

Pair(name, hash) == <<name, hash>>

(* list_text refuses names that would break a line. *)
list_text(pairs) ==
  IF \E pair \in pairs : pair[1] \in BrokenNames THEN Refused ELSE pairs

\* Mutant: the second file of a name replaces the first in the list.
FileHashes_Replace(paths, base, content) ==
  IF \E i \in 1 .. Len(paths) : content[paths[i]] = Missing
  THEN Refused
  ELSE list_text({Pair(base[paths[i]], content[paths[i]]) :
                  i \in {j \in 1 .. Len(paths) :
                           ~\E k \in j + 1 .. Len(paths) :
                               base[paths[j]] = base[paths[k]]}})

(* file_hashes and list_text: files by their base names, no two alike. *)
FileList(paths, base, content) ==
  IF \/ \E i, j \in 1 .. Len(paths) : i # j /\ base[paths[i]] = base[paths[j]]
     \/ \E i \in 1 .. Len(paths) : content[paths[i]] = Missing
  THEN Refused
  ELSE list_text({Pair(base[paths[i]], content[paths[i]]) :
                  i \in 1 .. Len(paths)})

(* The dictionary of merge when the lines of all lists are in it: a later  *)
(* line of a name takes the place of an earlier one.                       *)
Collected(lists) ==
  UNION {{p \in lists[i] : \A j \in i + 1 .. Len(lists) :
                            \A q \in lists[j] : q[1] # p[1]} :
         i \in 1 .. Len(lists)}

(* merge cannot read a list, or finds a line in it that is none: part of a *)
(* name that splitlines took apart.                                        *)
Unreadable(list) == list = Missing \/ \E p \in list : p[1] \in SplitNames

\* Mutant: no test for a name that is in the dictionary already.
MergedList_NoNameTest(lists) ==
  IF \E i \in 1 .. Len(lists) : Unreadable(lists[i])
  THEN Refused
  ELSE list_text(Collected(lists))

(* The lists in one, when all can be read and no name is in two. *)
MergedList(lists) ==
  IF \/ \E i \in 1 .. Len(lists) : Unreadable(lists[i])
     \/ \E i, j \in 1 .. Len(lists) :
          i < j /\ \E p \in lists[i], q \in lists[j] : p[1] = q[1]
  THEN Refused
  ELSE list_text(Collected(lists))

Signature(key, list) == [key |-> key, list |-> list]

SignedBy(sig, list, keys) == \E k \in keys : sig = Signature(k, list)

(* The keys of public_keys: {} when the variable is not set, which accepts *)
(* any signature; Refused when it is set and has no key, or one that is    *)
(* not base64.                                                             *)
check_signature(list, sig, keys) ==
  keys # Refused /\ (keys = {} \/ SignedBy(sig, list, keys))

=============================================================================
