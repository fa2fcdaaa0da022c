------------------------------- MODULE MCUpdate -------------------------------
(***************************************************************************)
(* The instances of MCBootloader the theorems of StreamProofs and          *)
(* SafeUpdateProofs speak about: what the theorems presume is true of them.*)
(***************************************************************************)
EXTENDS MCBootloader, SafeUpdateProofs

ASSUME HypothesesMet ==
    HostWaits /\ RegionsApart /\ DeliveredWhole /\ LengthsCoverHeader

=============================================================================
