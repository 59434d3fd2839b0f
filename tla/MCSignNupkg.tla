---------------------------- MODULE MCSignNupkg -----------------------------
(***************************************************************************)
(* Two packages of the same base name in two directories.  A build puts    *)
(* one of two versions into a package, or an entry with a broken name, or  *)
(* an entry twice.  An argument list names one package, both, or one twice.*)
(***************************************************************************)
EXTENDS SignNupkg

MCPackages == {"a/x", "b/x"}
MCBaseName == [p \in MCPackages |-> "x"]
MCBuilds ==
  {<<Pair("lib", 1)>>, <<Pair("lib", 2)>>, <<Pair("lib", 1), Pair("lib", 2)>>,
   <<Pair("bad", 1)>>}
MCArgLists == {<<"a/x">>, <<"a/x", "b/x">>, <<"b/x", "b/x">>}

=============================================================================
