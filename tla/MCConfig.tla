------------------------------ MODULE MCConfig ------------------------------
(* Config with a few request bodies: thresholds out of range and out of      *)
(* order, integers beyond their fields, another network with its key.        *)
EXTENDS Config

ThresholdBodies == [{"presence", "motion", "high"} -> {-7, 94}]
WideIntegers == {[key \in {"rate", "brightness"} |-> IF key = "rate" THEN 65546 ELSE 300]}
NetworkBodies == [{"pass"} -> {"", "secret"}] \cup [{"ssid"} -> {"home", "away"}]
SomeBodies == ThresholdBodies \cup WideIntegers \cup NetworkBodies

\* A motion threshold in range, below the default one of presence.
OutOfOrder == {[key \in {"motion"} |-> 10]}

IntegerBodies == [{"rate"} -> {50, 65546}] \cup [{"brightness"} -> {50, 300}]
=============================================================================
