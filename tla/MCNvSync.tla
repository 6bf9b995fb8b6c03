------------------------------ MODULE MCNvSync ------------------------------
(* Partition 1 is known, 9 is not.  The requests cover two overlapping bodies,  *)
(* a body that spans packets, an empty body, no body, an unknown partition, a   *)
(* gap in reqIdx at a body and at the tail, and reqIdx wrapping.                *)
EXTENDS NvSync, SequencesExt

CONSTANTS d1, d2

MCData == {d1, d2}

Body(s, ds) == [start |-> s, data |-> ds]

\* The request for partition p: bodies bs; reqIdx starts at f, and the number of token
\* sk and of those after it is one too high (0: none).
Req(p, f, bs, sk) ==
  LET Frame(i) == (f + i + (IF sk > 0 /\ i >= sk THEN 1 ELSE 0)) % FrameMod
      BodyUnits(i) ==
        <<[type |-> "body", req |-> Frame(i), start |-> bs[i].start, num |-> Len(bs[i].data)]>>
          \o [j \in 1 .. Len(bs[i].data) |-> [type |-> "data", val |-> bs[i].data[j]]]
  IN <<[type |-> "head", req |-> Frame(0), part |-> p]>>
       \o FlattenSeq([i \in 1 .. Len(bs) |-> BodyUnits(i)])
       \o <<[type |-> "tail", req |-> Frame(Len(bs) + 1)]>>

MCRequests ==
  {Req(1, 1, <<Body(0, <<d2>>), Body(0, <<d1>>)>>, 0),
   Req(1, FrameMod - 1, <<Body(0, <<d1, d2>>)>>, 0),
   Req(1, 0, <<Body(2, <<>>)>>, 0),
   Req(1, 0, <<>>, 0),
   Req(9, 0, <<>>, 0),
   Req(1, 0, <<Body(0, <<>>)>>, 1),
   Req(1, 0, <<Body(0, <<d2>>)>>, 2)}

\* Misplaced bytes may read as anything; or they are always refused.
MCAnyToken == AnyToken
MCNoToken == [type : {"data"}]

=============================================================================
