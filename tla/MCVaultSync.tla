----------------------------- MODULE MCVaultSync -----------------------------
(* Small instances of VaultSync.                                              *)
EXTENDS VaultSync, SmallVault

CONSTANTS s1, s2
=============================================================================
