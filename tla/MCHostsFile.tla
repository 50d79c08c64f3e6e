----------------------------- MODULE MCHostsFile -----------------------------
(***************************************************************************)
(* HostsFile for TLC.                                                      *)
(***************************************************************************)
EXTENDS HostsFile

MCHostLists == {<<"web">>, <<"web", "api">>}
=============================================================================
