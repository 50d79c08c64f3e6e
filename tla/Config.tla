-------------------------------- MODULE Config --------------------------------
(***************************************************************************)
(* internal/config/config.go: which files Load accepts. A file is the list *)
(* of its tunnels; of a tunnel there are the name, the hostname and the    *)
(* local port, and whether the other required fields are there and well    *)
(* formed. Those fields, the health check and the defaults only reach the  *)
(* runner: Supervisor has them.                                            *)
(***************************************************************************)
EXTENDS Naturals, Sequences

CONSTANTS
    Files,      \* what the configuration file may hold, valid or not
    None        \* an empty field

ASSUME ListsAssumption == \A f \in Files : Len(f) \in Nat /\ DOMAIN f = 1..Len(f)

NoPort == 0
MaxPort == 65535

\* What the maps of Validate tell apart: hostnames as they are spelled.
Distinct(s, t) ==
    s.name # t.name /\ s.hostname # t.hostname /\ s.local_port # t.local_port

Complete(t) ==
    /\ t.name # None /\ t.hostname # None
    /\ t.well_formed
    /\ t.local_port \in 1..MaxPort

\* Validate returns at the first tunnel that is incomplete, or clashes with an
\* earlier one; only whether it returns an error matters.
Validate(c) ==
    /\ c # <<>>
    /\ \A i \in DOMAIN c : Complete(c[i]) /\ \A j \in 1..(i - 1) : Distinct(c[j], c[i])

Configs == {c \in Files : Validate(c)}

\* The tunnels of a configuration by their names.
NamesOf(c) == {c[i].name : i \in DOMAIN c}
FindTunnel(c, n) == c[CHOOSE i \in DOMAIN c : c[i].name = n]
=============================================================================
