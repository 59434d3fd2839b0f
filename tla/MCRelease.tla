----------------------------- MODULE MCRelease ------------------------------
(***************************************************************************)
(* A library and an object file, or two object files of the same name from *)
(* two directories.  The sign job has the trusted key or another.          *)
(***************************************************************************)
EXTENDS Release

MCBuilds == {<<"lib", "a/o">>, <<"lib", "a/o", "b/o">>}
MCBaseName == [p \in {"lib", "a/o", "b/o"} |-> IF p = "lib" THEN p ELSE "o"]

=============================================================================
