----------------------------- MODULE MCDashboard -----------------------------
(***************************************************************************)
(* Dashboard for TLC: the selected tunnel moves up, goes and comes back,   *)
(* and before the supervisor has started there is none at all.             *)
(***************************************************************************)
EXTENDS Dashboard

MCSnapshots == {<<"api", "web">>, <<"web">>, <<>>}

OfApi == [tunnel |-> "api"]
OfNone == [tunnel |-> NoTunnel]
MCEntries == {OfApi, OfNone}

MCAccepted == [t \in {"", "level:error", "timeout"} |->
    CASE t = "" -> MCEntries [] t = "level:error" -> {OfApi} [] t = "timeout" -> {OfNone}]
=============================================================================
