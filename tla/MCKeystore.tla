----------------------------- MODULE MCKeystore -----------------------------
(* Small instances of the keystore: every source of keystore and password. *)
EXTENDS Keystore

EveryMode == AllModes
=============================================================================
