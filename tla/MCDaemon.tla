------------------------------- MODULE MCDaemon -------------------------------
(***************************************************************************)
(* Daemon for TLC. One file moves a tunnel to the port of the other, which *)
(* it removes; in one two tunnels share a port, which Validate has to      *)
(* refuse. No hosts of a file differ only in their case.                   *)
(***************************************************************************)
EXTENDS Daemon

Tunnel(n, h, p) == [name |-> n, hostname |-> h, local_port |-> p, well_formed |-> TRUE]

Two == <<Tunnel("web", "W", 1), Tunnel("api", "a", 2)>>
Moved == <<Tunnel("web", "W", 2)>>
OnePort == <<Tunnel("web", "W", 1), Tunnel("api", "a", 1)>>

MCNames == {"web", "api"}
MCHosts == {"w", "a"}
MCtoKey == [h \in {"w", "W", "a"} |-> IF h = "W" THEN "w" ELSE h]

MCFiles == {Two, Moved, OnePort}
=============================================================================
