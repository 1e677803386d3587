---------------------------- MODULE MCTbxSockets ----------------------------
(***************************************************************************)
(* Two threads on one socket; transaction numbers wrap at three.             *)
(***************************************************************************)
EXTENDS TbxSockets

CONSTANTS t1, t2

TwoThreads == {t1, t2}
=============================================================================
