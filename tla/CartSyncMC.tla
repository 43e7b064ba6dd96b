------------------------------ MODULE CartSyncMC ------------------------------
(* Small instances of CartSync: the constants of the .cfg files. *)
EXTENDS CartSync
CONSTANTS my, th, s1, s2, latte, mocha
=============================================================================
