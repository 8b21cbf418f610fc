---------------------------- MODULE MCCredentials ----------------------------
(* Three identities: one paired, one whose pair failed, one paired again.  *)
EXTENDS Credentials
=============================================================================
