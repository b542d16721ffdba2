------------------------------ MODULE MCIpcPorts ------------------------------
(* Instance of IpcPorts: a short name and one that is cut when stored. *)
EXTENDS IpcPorts, TLC

CONSTANTS short, long, cut

MCName   == {short, long}
MCStored == short :> short @@ long :> cut
=============================================================================
