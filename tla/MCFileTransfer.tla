---------------------------- MODULE MCFileTransfer ---------------------------
(***************************************************************************)
(* The model of file transfers that TLC checks: the second file is longer  *)
(* than a window, so that a late ack of the first one matters.             *)
(***************************************************************************)
EXTENDS FileTransfer

MCSizes == <<{4}, {3}>>
=============================================================================
