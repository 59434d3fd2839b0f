-------------------------- MODULE MCHandleManager ---------------------------
(***************************************************************************)
(* A store of two slots; one object and NULL, so that compare-exchange     *)
(* meets a comparand that matches and one that does not; a plain and a     *)
(* dependent type; extra info present or NULL.                             *)
(***************************************************************************)
EXTENDS HandleCalls

MCObjects == {1001}
MCTypes == {2, 6}
MCExtras == {2001}

=============================================================================
