---------------------------- MODULE MCTelemetry ----------------------------
(***************************************************************************)
(* The program's shared sensor of the database, another that is enabled in *)
(* automatic mode, and a client's own.                                     *)
(***************************************************************************)
EXTENDS Telemetry

MCTypeOf == [s \in Sensors |-> IF s = "client" THEN "ClientSensor" ELSE "PDatabase"]
MCModeOf == [s \in Sensors |-> CASE s = "client" -> "unique"
                                 [] s = "auto"   -> "auto"
                                 [] OTHER        -> "shared"]
=============================================================================
