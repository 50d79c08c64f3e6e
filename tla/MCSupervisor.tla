---------------------------- MODULE MCSupervisor ----------------------------
(***************************************************************************)
(* Supervisor for TLC. The configurations cover what a reload can do to a  *)
(* tunnel: keep it, change its target, change only its health check (to    *)
(* one that makes the runner panic), remove it and add it.                 *)
(***************************************************************************)
EXTENDS Supervisor

Tunnel(f, p, h) == [fwd |-> f, port |-> p, health |-> h]

Base == [web |-> Tunnel("x", 1, "on")]
Retargeted == [web |-> Tunnel("y", 1, "on")]
HealthOnly == [web |-> Tunnel("x", 1, "badInterval")]
Two == [web |-> Tunnel("x", 1, "on"), api |-> Tunnel("y", 2, "off")]

MCNames == {"web", "api"}
MCForwards == {"x", "y"}
MCPorts == {1, 2}

MCConfigs == {Base, Retargeted, HealthOnly, Two}
=============================================================================
