----------------------------- MODULE MCDatasink -----------------------------
(* One server whose runs and restarts share three buffers: enough for one   *)
(* to be lost or spoiled between two others.  With a volume set any write   *)
(* may fill its file, so that rollovers follow each other.  Servers meet in *)
(* nothing but the one thread that takes their messages.                    *)
EXTENDS Datasink

CONSTANT s1

MCServers == {s1}
=============================================================================
