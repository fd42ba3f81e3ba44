------------------------- MODULE MCDiskSpaceCache -------------------------
(* Small instances of DiskSpaceCache for TLC.                               *)
EXTENDS DiskSpaceCache
=============================================================================
