---------------------------- MODULE MCBatchRename ----------------------------
(* BatchRename on a small instance: two files that swap their names.       *)
EXTENDS BatchRename

CONSTANTS a, b, none

MCEntries == <<a, b>>
=============================================================================
