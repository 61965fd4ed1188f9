-------------------------- MODULE MC_ExtensionHost --------------------------
(* The extension host with three extensions and two shutdown workers. *)
EXTENDS ExtensionHost
=============================================================================
