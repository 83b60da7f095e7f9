---------------------------- MODULE MCSupervise -----------------------------
(***************************************************************************)
(* Two runs, each traced or not; captures of one picture; the children     *)
(* open the device twice between them and may decode one picture too many. *)
(***************************************************************************)
EXTENDS Supervise

MCPictures == 1
MCFirst == 1
MCLast == 1
MCMaxRun == 2
MCMaxContext == 2

=============================================================================
