-------------------------------- MODULE MCOta --------------------------------
(* Ota with the factory image, a good update and a bad one. *)
EXTENDS Ota

CONSTANTS old, good, bad

Images == {old, good, bad}
BadImages == {bad}

=============================================================================
