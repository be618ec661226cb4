---------------------------- MODULE MCNvsReset ----------------------------
(* NvsReset for TLC: two identities after the one that may be on flash.    *)
EXTENDS NvsReset
===========================================================================
