--------------------------- MODULE MCHealthClient ---------------------------
(* Small instances of HealthClient.                                        *)
EXTENDS HealthClient

MCReports == {"empty", "r1", "r2"}
=============================================================================
