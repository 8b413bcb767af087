-------------------------- MODULE MCEventDelivery --------------------------
(* The runs of EventDelivery. No symmetry: liveness is checked. *)
EXTENDS EventDelivery
=============================================================================
