------------------------------ MODULE MCModemD ------------------------------
(* The modems are named in the source; every constant is given by the cfg. *)
EXTENDS ModemD

=============================================================================
