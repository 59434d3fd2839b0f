----------------------------- MODULE MCSignFiles ----------------------------
(***************************************************************************)
(* Five files: two with the same base name in different directories, one   *)
(* of another name, one whose name has a line break and one with another   *)
(* separator in it; and the directory's own list and signature.  Four jobs *)
(* hand lists to merge, two of them with the same name in it.  The         *)
(* public key of one of two signers is set, or none is, or it cannot be    *)
(* read.                                                                   *)
(***************************************************************************)
EXTENDS SignFiles

MCPaths == {"a/lib", "b/lib", "obj", "bad", "odd"}
MCBaseName ==
  [p \in MCPaths \union OwnFiles |-> IF p \in {"a/lib", "b/lib"} THEN "lib"
                                     ELSE p]
MCArgLists ==
  {<<"a/lib">>, <<"a/lib", "obj">>, <<"a/lib", "b/lib">>, <<"obj", "bad">>,
   <<"a/lib", "out/list", "out/sig">>, <<"obj", "out/sig">>}
MCSettings == {{}, {"release"}, Refused}
MCJobFiles == <<<<"a/lib">>, <<"b/lib">>, <<"obj">>, <<"odd">>>>

=============================================================================
