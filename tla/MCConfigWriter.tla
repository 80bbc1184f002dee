--------------------------- MODULE MCConfigWriter ---------------------------
(***************************************************************************)
(* Two writers of one configuration that have the same process id, each in *)
(* its own PID namespace: the directory is a volume they share.            *)
(***************************************************************************)
EXTENDS ConfigWriter

CONSTANTS w1, w2

MCPidOf == [w \in Writers |-> 1]
=============================================================================
