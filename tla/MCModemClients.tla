--------------------------- MODULE MCModemClients ---------------------------
(* Constants for the client table's run. *)
EXTENDS ModemClients, TLC
CONSTANTS c1, c2, c3, n1, n2

MCSymmetry == Permutations(Clients) \cup Permutations(Notifiers)

=============================================================================
