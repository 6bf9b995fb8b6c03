------------------------------ MODULE MCCmrMsg ------------------------------
(* The module that owns a camera thread, and another that sends to it.        *)
EXTENDS CmrMsg

CONSTANTS own, usr

=============================================================================
