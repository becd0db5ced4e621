-------------------------- MODULE MCSyncHttpClient --------------------------
(* The client has no constants; TLC checks the invariant of the proofs too. *)
EXTENDS SyncHttpClient_proofs
=============================================================================
