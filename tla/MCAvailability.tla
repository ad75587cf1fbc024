---------------------------- MODULE MCAvailability ----------------------------
(* Instance of Availability: up to three stays in the hours 0 to 4. *)
EXTENDS Availability

MCHours == 0..4
MCBuffers == 0..2
==============================================================================
