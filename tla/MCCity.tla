------------------------------- MODULE MCCity -------------------------------
(* PID 1 with two units. *)
EXTENDS CityProps
=============================================================================
