----------------------------- MODULE MCGateway ------------------------------
(* An instance of Gateway for TLC: a configuration to start with, one that    *)
(* differs from it in both logging settings, and one that needs a restart.    *)
EXTENDS Gateway, TLC

Base    == [static |-> 1, logging |-> [level |-> "info", json |-> FALSE]]
Quieter == [static |-> 1, logging |-> [level |-> "warn", json |-> TRUE]]
Moved   == [static |-> 2, logging |-> [level |-> "warn", json |-> TRUE]]

ThreeConfigs == {Base, Quieter, Moved}
\* Reloads are looked at with one client, no fault and upstreams, the rest with two
\* clients, one fault, and upstreams or none.
Clients   == [config |-> 1, cli |-> 2]
Faults    == [config |-> 0, cli |-> 1]
Proxying  == [config |-> {"on"}, cli |-> {"on", "none"}]
=============================================================================
