----------------------------- MODULE MCNvServer -----------------------------
(* One sector: mixed snapshots are NvBuf's subject.  0xFF is one of the two     *)
(* contents, and a damaged file reads as 0xFF too.  A missing file, which only *)
(* a first boot has, is left to MCNvDisk: here the files exist, maybe short.   *)
EXTENDS NvServer

CONSTANTS d1, ff

MCData == {d1, ff}

MCInit == Init0 /\ \A c \in Disk!Copies : image[c].kind # "missing"

MCSpec == MCInit /\ [][NextServer]_allVars

=============================================================================
