---------------------------- MODULE MCLinkSync ----------------------------
(* Constants for checking LinkSync. *)
EXTENDS LinkSync

CONSTANTS f1, vme, lvd, other
=============================================================================
