------------------------------ MODULE MCWifi ------------------------------
(* Wifi on one network in range and one out of range. *)
EXTENDS Wifi

CONSTANTS home, gone   \* in range, out of range

TwoNetworks == {home, gone}
InRange == {home}

=============================================================================
