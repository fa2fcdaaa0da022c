----------------------------- MODULE MCRecovery -----------------------------
(***************************************************************************)
(* Values for the constants of Recovery: those of MCBootloader.  The host  *)
(* that makes trouble gives up whatever it has begun, at any point.        *)
(***************************************************************************)
EXTENDS MCBootloader, Recovery

TroubleRequests == {"DOWNLOAD", "UPLOAD", "GET_STATUS", "DETACH"}

=============================================================================
