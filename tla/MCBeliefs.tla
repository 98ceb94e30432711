----------------------------- MODULE MCBeliefs -----------------------------
(* A sensor, a chain of beliefs computed from it, and a pose that rests on  *)
(* the sensor or on the end of the chain.                                    *)
EXTENDS Beliefs

Sensor == [entity |-> "level", source |-> "node", needs |-> {}]
Link(e, n) == [entity |-> e, source |-> "host", needs |-> {{n}}]
Either(e, a, b) == [entity |-> e, source |-> "host", needs |-> {{a}, {b}}]

Fused == {Sensor, Link("mode", "level"), Link("alert", "mode"), Either("pose", "level", "alert")}
=============================================================================
