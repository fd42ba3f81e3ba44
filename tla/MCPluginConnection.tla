------------------------- MODULE MCPluginConnection -------------------------
(* Small instances of PluginConnection for TLC.                             *)
EXTENDS PluginConnection
=============================================================================
