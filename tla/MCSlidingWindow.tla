-------------------------- MODULE MCSlidingWindow --------------------------
(***************************************************************************)
(* Instances of SlidingWindow for TLC; the .cfg files give the constants.  *)
(***************************************************************************)
EXTENDS SlidingWindow
=============================================================================
