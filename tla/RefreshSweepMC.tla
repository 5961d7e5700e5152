--------------------------- MODULE RefreshSweepMC ---------------------------
(***************************************************************************)
(* Values for the constants of RefreshSweep that a configuration file      *)
(* cannot express.                                                         *)
(***************************************************************************)
EXTENDS RefreshSweep

CONSTANTS S1, S2, S3

FirstTwo == <<S1, S2>>
FirstThree == <<S1, S2, S3>>

=============================================================================
