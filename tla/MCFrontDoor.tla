---------------------------- MODULE MCFrontDoor ----------------------------
(* Small instances of FrontDoor, and of the AuditLog under it, for TLC.     *)
EXTENDS FrontDoor
=============================================================================
