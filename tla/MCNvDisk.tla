------------------------------ MODULE MCNvDisk ------------------------------
(* Two NV snapshots besides the blank and the damaged contents.  Only          *)
(* equality of contents matters, so two are enough to tell old from new.       *)
EXTENDS NvDisk

CONSTANTS v1, v2, ff, junk

MCValues == {v1, v2, ff, junk}

=============================================================================
