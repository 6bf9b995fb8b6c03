---------------------------- MODULE NvSync_proofs ----------------------------
(***************************************************************************)
(* NvSync: what the analyzer commits and acknowledges, for any requests of *)
(* any length, cut into packets in any way, with packets lost, repeated    *)
(* and abandoned.  As long as no packet boundary of the group cuts a token *)
(* the analyzer reads every token from its beginning; after a cut it may   *)
(* read anything (Misreadings), and only types, the packet layer and the   *)
(* difference between fromChannel and backup are known.                    *)
(***************************************************************************)
EXTENDS NvSync, TLAPS

\* Token i is the last one among the first n units.
LastToken(i, n) ==
  /\ i \in 1 .. n
  /\ IsToken(cpReq[i])
  /\ \A m \in i + 1 .. n : ~IsToken(cpReq[m])

\* q units into the request, inside the data of body b.
InData(b, q) ==
  /\ cpReq[b].type = "body"
  /\ b <= q /\ q <= b + cpReq[b].num
  /\ start = cpReq[b].start + (q - b)
  /\ len = cpReq[b].num - (q - b)

\* The analyzer has analyzed exactly the first q units of the request.
At(q) ==
  /\ q \in 0 .. Len(cpReq) - 1
  /\ syncState = "head" => q = 0
  /\ syncState # "head" =>
       /\ syncId = cpReq[1].part
       /\ InOrder(cpReq, q)
       /\ Writes(cpReq, q, base[syncId], work[syncId])
       /\ \E i \in 1 .. q : /\ LastToken(i, q)
                            /\ syncReqFrame = cpReq[i].req
                            /\ syncState = "data" => InData(i, q)
  /\ syncState = "body" => IsToken(cpReq[q + 1])

\* fromChannel differs from backup only in the partition of the request in progress.
CleanInv ==
  /\ syncState # "head" => syncId \in Parts /\ syncBusy
  /\ \A p \in Parts : work[p] # base[p] => syncState # "head" /\ syncId = p

\* The modem's packets, and the one being analyzed.
PacketInv ==
  /\ cpLast.from <= cpLast.to /\ cpLast.to <= Len(cpReq)
  /\ cpLast.front => cpLast.to < Len(cpReq) /\ IsToken(cpReq[cpLast.to + 1])
  /\ cpPos = cpLast.to + (IF cpLast.front THEN 1 ELSE 0)
  /\ cpBack = cpLast.front
  /\ cpSub = 0 => cpLast = NoUnits
  /\ cpSub = 1 => cpLast.from = 0 /\ ~cpLast.back
  /\ cpSub > 0 => Size(cpLast) # 0
  /\ cpLast.front \/ cpLast.back => cutSome
  /\ idxGrp = "current" => idxSub < cpSub
  /\ Reading =>
       /\ idxGrp = "current" /\ syncBusy /\ idxSub = cpSub - 1
       /\ rest.to = cpLast.to /\ rest.front = cpLast.front
       /\ rest.back => cpLast.back
       /\ rest.from <= rest.to

\* Until a token of the group is cut, the analyzer and the modem agree on what comes next.
AlignInv ==
  ~cutSome =>
    /\ Reading => ~skew /\ At(rest.from)
    /\ (~Reading /\ syncBusy /\ idxGrp = "current") =>
         /\ ~skew
         /\ idxSub = cpSub - 1 => At(cpPos)
         /\ idxSub = cpSub - 2 => At(cpLast.from)

\* Nothing was lost or cut and the request is good: it is on its way to the commit.
WholeInv ==
  (whole /\ ~cutSome /\ WellFormed(cpReq) /\ ~applied /\ cpSub > 0) =>
    /\ idxGrp = "current" /\ syncBusy /\ idxSub = cpSub - 1
    /\ At(IF Reading THEN rest.from ELSE cpPos)

IInv == /\ TypeOK
        /\ CleanInv
        /\ PacketInv
        /\ AlignInv
        /\ WholeInv
        /\ UncutAckMeansCommitted

-----------------------------------------------------------------------------
(* Proofs                                                                  *)

\* The request being sent has the shape the modem gives its requests.
LEMMA RequestShape == TypeOK => IsRequest(cpReq)
  BY RequestsAssumption DEF TypeOK

\* A token is nobody's data.
LEMMA TokenIsNoData ==
  ASSUME NEW r, IsRequest(r), NEW i \in 1 .. Len(r), IsToken(r[i]), NEW s
  PROVE  ~IsDataOf(r, i, s)
  <1> SUFFICES ASSUME NEW j \in 1 .. i - 1, r[j].type = "body", i <= j + r[j].num PROVE FALSE
    BY DEF IsDataOf
  <1>1. j \in 1 .. Len(r) /\ IsBody(r, j)
    BY DEF IsRequest
  <1>2. ~IsToken(r[i])
    BY <1>1 DEF IsBody
  <1> QED
    BY <1>2

\* The data units of a body are the data of its sectors, in order.
LEMMA OwnData ==
  ASSUME NEW r, IsRequest(r), NEW b \in 1 .. Len(r), r[b].type = "body",
         NEW i \in b + 1 .. b + r[b].num, NEW s
  PROVE  IsDataOf(r, i, s) <=> s = r[b].start + (i - b - 1)
  <1>1. IsBody(r, b) /\ r[b].num \in Nat /\ i \in 1 .. Len(r)
    BY DEF IsRequest, IsBody
  <1>2. ASSUME NEW j \in 1 .. i - 1, r[j].type = "body", i <= j + r[j].num PROVE j = b
    <2>1. j \in 1 .. Len(r) /\ IsBody(r, j) /\ r[j].num \in Nat
      BY <1>1, <1>2 DEF IsRequest, IsBody
    <2>2. ~(j < b)
      <3>1. j < b => b \in j + 1 .. j + r[j].num
        BY <1>2, <2>1
      <3>2. b \in j + 1 .. j + r[j].num => ~IsToken(r[b])
        BY <2>1 DEF IsBody
      <3> QED
        BY <3>1, <3>2 DEF IsToken
    <2>3. ~(b < j)
      <3>1. b < j => j \in b + 1 .. b + r[b].num
        BY <1>1
      <3>2. j \in b + 1 .. b + r[b].num => ~IsToken(r[j])
        BY <1>1 DEF IsBody
      <3> QED
        BY <3>1, <3>2, <1>2 DEF IsToken
    <2> QED
      BY <2>2, <2>3
  <1>3. b \in 1 .. i - 1 /\ i <= b + r[b].num
    BY <1>1
  <1> QED
    BY <1>2, <1>3 DEF IsDataOf

\* A token changes nothing of what has been written.
LEMMA WritesToken ==
  ASSUME NEW r, IsRequest(r), NEW q \in 0 .. Len(r) - 1, IsToken(r[q + 1]),
         NEW old, NEW new, Writes(r, q, old, new)
  PROVE  Writes(r, q + 1, old, new)
  <1>0. Len(r) \in Nat
    BY DEF IsRequest
  <1>1. \A s : ~IsDataOf(r, q + 1, s)
    BY <1>0, TokenIsNoData
  <1>2. \A i \in 1 .. q + 1 : i \in 1 .. q \/ i = q + 1
    BY <1>0
  <1>3. 1 .. q \subseteq 1 .. q + 1
    BY <1>0
  <1> SUFFICES ASSUME NEW s \in Sectors
               PROVE  \/ new[s] = old[s] /\ \A i \in 1 .. q + 1 : ~IsDataOf(r, i, s)
                      \/ \E i \in 1 .. q + 1 : /\ IsDataOf(r, i, s)
                                               /\ new[s] = r[i].val
                                               /\ \A m \in i + 1 .. q + 1 : ~IsDataOf(r, m, s)
    BY DEF Writes
  <1>4. CASE new[s] = old[s] /\ \A i \in 1 .. q : ~IsDataOf(r, i, s)
    BY <1>1, <1>2, <1>4
  <1>5. ASSUME NEW i \in 1 .. q, IsDataOf(r, i, s), new[s] = r[i].val,
               \A m \in i + 1 .. q : ~IsDataOf(r, m, s)
        PROVE  /\ i \in 1 .. q + 1
               /\ \A m \in i + 1 .. q + 1 : ~IsDataOf(r, m, s)
    <2>1. \A m \in i + 1 .. q + 1 : m \in i + 1 .. q \/ m = q + 1
      BY <1>0
    <2> QED
      BY <1>0, <1>1, <1>5, <2>1
  <1> QED
    BY <1>4, <1>5 DEF Writes

\* n sectors of a body's data, copied into the buffer, change what they are the data of.
LEMMA WritesData ==
  ASSUME NEW r, IsRequest(r), NEW b \in 1 .. Len(r), r[b].type = "body",
         NEW q \in Nat, NEW n \in Nat, b <= q, q + n <= b + r[b].num,
         NEW old, NEW w, NEW new, Writes(r, q, old, w),
         \A s \in Sectors :
           new[s] = IF s \in r[b].start + (q - b) .. r[b].start + (q - b) + n - 1
                      THEN r[q + (s - (r[b].start + (q - b))) + 1].val ELSE w[s]
  PROVE  Writes(r, q + n, old, new)
  <1> DEFINE st == r[b].start + (q - b)
  <1>0. Len(r) \in Nat /\ r[b].num \in Nat /\ r[b].start \in Nat /\ b \in Nat
    BY DEF IsRequest, IsBody
  <1>1. \A i \in q + 1 .. q + n : \A s : IsDataOf(r, i, s) <=> s = st + (i - q - 1)
    <2> SUFFICES ASSUME NEW i \in q + 1 .. q + n, NEW s
                 PROVE  IsDataOf(r, i, s) <=> s = st + (i - q - 1)
      OBVIOUS
    <2>1. i \in b + 1 .. b + r[b].num
      BY <1>0
    <2>2. r[b].start + (i - b - 1) = st + (i - q - 1)
      BY <1>0
    <2> QED
      BY <2>1, <2>2, OwnData
  <1> SUFFICES ASSUME NEW s \in Sectors
               PROVE  \/ new[s] = old[s] /\ \A i \in 1 .. q + n : ~IsDataOf(r, i, s)
                      \/ \E i \in 1 .. q + n : /\ IsDataOf(r, i, s)
                                               /\ new[s] = r[i].val
                                               /\ \A m \in i + 1 .. q + n : ~IsDataOf(r, m, s)
    BY DEF Writes
  <1>s. s \in Int /\ st \in Nat
    BY <1>0, SyncAssumption DEF Sectors
  <1>n. new[s] = IF s \in st .. st + n - 1 THEN r[q + (s - st) + 1].val ELSE w[s]
    OBVIOUS
  <1> HIDE DEF st
  <1>2. CASE s \in st .. st + n - 1
    <2> DEFINE i == q + (s - st) + 1
    <2>1. i \in q + 1 .. q + n /\ i \in 1 .. q + n
      BY <1>2, <1>s
    <2>2. IsDataOf(r, i, s) /\ new[s] = r[i].val
      <3>1. s = st + (i - q - 1)
        BY <1>s
      <3> QED
        BY <1>1, <1>2, <1>n, <2>1, <3>1
    <2>3. \A m \in i + 1 .. q + n : m \in q + 1 .. q + n /\ s # st + (m - q - 1)
      BY <1>2, <1>s
    <2> QED
      BY <1>1, <2>1, <2>2, <2>3
  <1>3. CASE s \notin st .. st + n - 1
    <2>1. new[s] = w[s]
      BY <1>3, <1>n
    <2>2. \A m \in q + 1 .. q + n : ~IsDataOf(r, m, s)
      <3>1. \A m \in q + 1 .. q + n : st + (m - q - 1) \in st .. st + n - 1
        BY <1>s
      <3> QED
        BY <1>1, <1>3, <3>1
    <2>3. CASE w[s] = old[s] /\ \A i \in 1 .. q : ~IsDataOf(r, i, s)
      <3>1. \A m \in 1 .. q + n : m \in 1 .. q \/ m \in q + 1 .. q + n
        OBVIOUS
      <3> QED
        BY <2>1, <2>2, <2>3, <3>1
    <2>4. ASSUME NEW i \in 1 .. q, IsDataOf(r, i, s), w[s] = r[i].val,
                 \A m \in i + 1 .. q : ~IsDataOf(r, m, s)
          PROVE  i \in 1 .. q + n /\ \A m \in i + 1 .. q + n : ~IsDataOf(r, m, s)
      <3>1. \A m \in i + 1 .. q + n : m \in i + 1 .. q \/ m \in q + 1 .. q + n
        OBVIOUS
      <3> QED
        BY <2>2, <2>4, <3>1
    <2> QED
      BY <2>1, <2>3, <2>4 DEF Writes
  <1> QED
    BY <1>2, <1>3

\* A token with the next number keeps the request in order.
LEMMA OrderToken ==
  ASSUME NEW r, NEW q \in Nat, InOrder(r, q), NEW i \in 1 .. q,
         IsToken(r[i]), \A m \in i + 1 .. q : ~IsToken(r[m]),
         r[q + 1].req = NextFrame(r[i].req)
  PROVE  InOrder(r, q + 1)
  <1> SUFFICES ASSUME NEW a \in 1 .. q + 1, NEW c \in 1 .. q + 1, a < c, IsToken(r[a]),
                      IsToken(r[c]), \A m \in a + 1 .. c - 1 : ~IsToken(r[m])
               PROVE  r[c].req = NextFrame(r[a].req)
    BY DEF InOrder
  <1>1. CASE c \in 1 .. q
    BY <1>1 DEF InOrder
  <1>2. CASE c = q + 1
    <2>1. ~(a < i)
      BY <1>2
    <2>2. ~(i < a)
      BY <1>2
    <2> QED
      BY <1>2, <2>1, <2>2
  <1> QED
    BY <1>1, <1>2

\* Data keeps the request in order.
LEMMA OrderData ==
  ASSUME NEW r, NEW q \in Nat, NEW n \in Nat, InOrder(r, q),
         \A m \in q + 1 .. q + n : ~IsToken(r[m])
  PROVE  InOrder(r, q + n)
  <1> SUFFICES ASSUME NEW a \in 1 .. q + n, NEW c \in 1 .. q + n, a < c, IsToken(r[a]),
                      IsToken(r[c]), \A m \in a + 1 .. c - 1 : ~IsToken(r[m])
               PROVE  r[c].req = NextFrame(r[a].req)
    BY DEF InOrder
  <1>1. a \in 1 .. q /\ c \in 1 .. q
    OBVIOUS
  <1> QED
    BY <1>1 DEF InOrder

\* While a packet is read, its next unit is a unit of the request.
LEMMA UnitExists ==
  ASSUME TypeOK, PacketInv, Reading
  PROVE  /\ rest.from \in Nat /\ rest.to \in Nat /\ rest.back \in BOOLEAN /\ rest.front \in BOOLEAN
         /\ Len(cpReq) \in Nat
         /\ rest.from <= rest.to /\ rest.to <= Len(cpReq)
         /\ rest.front => rest.to < Len(cpReq) /\ IsToken(cpReq[rest.to + 1])
         /\ Size(rest) \in Nat
         /\ cpPos = rest.to + (IF rest.front THEN 1 ELSE 0) /\ cpBack = rest.front
         /\ cpSub > 0 /\ cpSub \in Nat
  <1>1. IsRequest(cpReq)
    BY RequestShape
  <1> QED
    BY <1>1 DEF TypeOK, PacketInv, Packets, Size, IsRequest

\* In a group without cut tokens the next token is read from its beginning, and it is the
\* one that comes next in the request.
LEMMA UncutInPlace ==
  ASSUME IInv, Reading, ~cutSome
  PROVE  /\ ~skew /\ ~rest.back /\ ~rest.front /\ rest.from < rest.to
         /\ At(rest.from)
         /\ syncState # "data" => InPlace
  <1>0. IsRequest(cpReq)
    BY RequestShape DEF IInv
  <1>u. /\ rest.from \in Nat /\ rest.to \in Nat /\ Len(cpReq) \in Nat
        /\ rest.from <= rest.to /\ rest.to <= Len(cpReq)
    BY UnitExists DEF IInv
  <1>1. ~rest.front /\ ~rest.back
    BY DEF IInv, PacketInv
  <1>2. ~skew /\ At(rest.from)
    BY DEF IInv, AlignInv
  <1>3. rest.from < rest.to
    BY <1>1, <1>u DEF Reading, Size
  <1>4. syncState # "data" => IsToken(Unit)
    <2>1. syncState = "head" => IsToken(Unit)
      BY <1>0, <1>2, <1>3, <1>u DEF At, Unit, IsRequest, IsToken
    <2>2. syncState = "body" => IsToken(Unit)
      BY <1>2 DEF At, Unit
    <2> QED
      BY <2>1, <2>2 DEF IInv, TypeOK
  <1> QED
    BY <1>1, <1>2, <1>3, <1>4 DEF InPlace

\* Whatever the bytes are, the fields of what they read as have their types; a body of the
\* request keeps to the partition.
LEMMA ReadingTypes ==
  ASSUME TypeOK, PacketInv, Reading, NEW u \in Readings
  PROVE  /\ InPlace => u = Unit /\ rest.from + 1 \in 1 .. Len(cpReq)
         /\ u.type \in {"head", "body", "tail"} => u.req \in Frames
         /\ u.type = "body" => u.start \in Nat /\ u.num \in Nat
         /\ (InPlace /\ u.type = "body") => u.start + u.num <= NSects
  <1>u. /\ rest.from \in Nat /\ rest.to \in Nat /\ Len(cpReq) \in Nat
        /\ rest.from <= rest.to /\ rest.to <= Len(cpReq)
    BY UnitExists
  <1>1. CASE InPlace
    <2>1. u = Unit
      BY <1>1 DEF Readings
    <2>2. rest.from + 1 \in 1 .. Len(cpReq)
      BY <1>1, <1>u DEF InPlace
    <2>3. /\ IsToken(u) => u.req \in Frames
          /\ u.type = "body" => IsBody(cpReq, rest.from + 1)
      BY <2>1, <2>2, RequestShape DEF IsRequest, Unit
    <2> QED
      BY <1>1, <2>1, <2>2, <2>3 DEF IsToken, IsBody, Unit
  <1>2. CASE ~InPlace
    <2>1. u \in AnyToken
      BY <1>2, MisreadingsAssumption DEF Readings
    <2>2. \/ u.type = "head" /\ u.req \in Frames
          \/ u.type = "body" /\ u.req \in Frames /\ u.start \in 0 .. NSects /\ u.num \in 0 .. NSects
          \/ u.type = "tail" /\ u.req \in Frames
          \/ u.type = "data"
      BY <2>1 DEF AnyToken
    <2> QED
      BY <1>2, <2>2, SyncAssumption
  <1> QED
    BY <1>1, <1>2

\* Going on in the packet keeps the packet and the types.
LEMMA SkipPacket ==
  ASSUME TypeOK, PacketInv, Reading, NEW n \in Nat, rest.from + n <= rest.to, Skip(n),
         UNCHANGED <<cpVars, cutSome, idxGrp, idxSub, syncBusy>>
  PROVE  PacketInv' /\ rest' \in Packets /\ skew' \in BOOLEAN /\ rsp' = rsp
  <1>u. rest.from \in Nat /\ rest.to \in Nat
    BY UnitExists
  <1>1. rest' \in Packets /\ skew' \in BOOLEAN /\ rsp' = rsp
    BY DEF Skip, TypeOK, Packets, NoUnits
  <1>2. CASE Size(rest) = n
    <2>1. ~Reading'
      BY <1>2 DEF Skip, Reading, NoUnits, Size
    <2> QED
      BY <1>1, <2>1 DEF PacketInv, cpVars
  <1>3. CASE Size(rest) # n
    <2>1. /\ rest'.from = rest.from + n /\ rest'.to = rest.to /\ rest'.back = rest.back
          /\ rest'.front = rest.front
      BY <1>3 DEF Skip, TypeOK, Packets
    <2>2. rest'.from <= rest'.to
      BY <1>u, <2>1
    <2> QED
      BY <1>1, <2>1, <2>2 DEF PacketInv, cpVars
  <1> QED
    BY <1>2, <1>3

\* So does going astray in it.
LEMMA StrayPacket ==
  ASSUME TypeOK, PacketInv, Reading, Stray,
         UNCHANGED <<cpVars, cutSome, idxGrp, idxSub, syncBusy>>
  PROVE  PacketInv' /\ rest' \in Packets /\ skew' \in BOOLEAN /\ rsp' = rsp
  <1>0. NoUnits \in Packets
    BY DEF NoUnits, Packets
  <1>1. rest' \in Packets /\ rsp' = rsp
    BY <1>0, Zenon DEF Stray, TypeOK
  <1>2. skew' \in BOOLEAN
    BY Zenon DEF Stray
  <1>3. CASE rest' = rest
    BY <1>1, <1>2, <1>3 DEF PacketInv, cpVars, Reading, Size
  <1>4. CASE rest' = NoUnits
    <2>1. ~Reading'
      BY <1>4 DEF Reading, NoUnits, Size
    <2> QED
      BY <1>1, <1>2, <2>1 DEF PacketInv, cpVars
  <1> QED
    BY <1>3, <1>4 DEF Stray

\* A token, in place or not, is passed.
LEMMA PastTokenPacket ==
  ASSUME TypeOK, PacketInv, Reading, PastToken,
         UNCHANGED <<cpVars, cutSome, idxGrp, idxSub, syncBusy>>
  PROVE  PacketInv' /\ rest' \in Packets /\ skew' \in BOOLEAN /\ rsp' = rsp
  <1>1. CASE InPlace
    <2>1. rest.from + 1 <= rest.to
      BY <1>1, UnitExists DEF InPlace
    <2> QED
      BY <1>1, <2>1, SkipPacket DEF PastToken
  <1>2. CASE ~InPlace
    BY <1>2, StrayPacket DEF PastToken
  <1> QED
    BY <1>1, <1>2

\* In a group with a cut token nothing more has to be shown.
LEMMA CutSuffices ==
  ASSUME TypeOK', CleanInv', PacketInv', cutSome'
  PROVE  IInv'
  BY DEF IInv, AlignInv, WholeInv, UncutAckMeansCommitted

\* Going on n units further in the packet keeps analyzer and modem aligned.
LEMMA SkipAligns ==
  ASSUME TypeOK, PacketInv, Reading, ~cutSome, ~skew, ~rest.back, NEW n \in Nat, rest.from + n <= rest.to,
         Skip(n), UNCHANGED <<cpVars, cutSome, whole, idxGrp, idxSub, syncBusy>>,
         \A q \in Nat : q = rest.from + n => At(q)'
  PROVE  AlignInv' /\ WholeInv'
  <1>u. /\ rest.from \in Nat /\ rest.to \in Nat /\ rest.front \in BOOLEAN
        /\ rest.from <= rest.to
        /\ cpPos = rest.to + (IF rest.front THEN 1 ELSE 0)
        /\ Size(rest) \in Nat
    BY UnitExists
  <1>k. ~skew'
    BY DEF Skip
  <1>1. CASE Size(rest) = n
    <2>1. rest' = NoUnits /\ ~Reading'
      BY <1>1 DEF Skip, Reading, NoUnits, Size
    <2>2. rest.from + n = rest.to /\ ~rest.front
      BY <1>1, <1>u DEF Size
    <2>3. cpPos' = rest.from + n
      BY <1>u, <2>2 DEF cpVars
    <2>4. At(cpPos)'
      BY <1>u, <2>3
    <2>6. AlignInv'
      <3>1. idxSub' = cpSub' - 1 /\ cpSub' \in Nat
        BY DEF PacketInv, cpVars, TypeOK
      <3> QED
        BY <1>k, <2>1, <2>4, <3>1 DEF AlignInv
    <2> QED
      BY <2>1, <2>4, <2>6 DEF WholeInv, PacketInv, cpVars
  <1>2. CASE Size(rest) # n
    <2>1. rest' = [rest EXCEPT !.from = rest.from + n]
      BY <1>2 DEF Skip
    <2>2. /\ rest'.from = rest.from + n /\ rest'.to = rest.to /\ rest'.back = rest.back
          /\ rest'.front = rest.front
      BY <2>1 DEF TypeOK, Packets
    <2>3. Reading'
      <3>1. Size(rest') = (rest.to - (rest.from + n)) + (IF rest.front THEN 1 ELSE 0)
        BY <1>u, <2>2 DEF Size
      <3>2. Size(rest) = (rest.to - rest.from) + (IF rest.front THEN 1 ELSE 0)
        BY <1>u DEF Size
      <3>3. Size(rest') = Size(rest) - n
        BY <1>u, <3>1, <3>2
      <3> QED
        BY <1>2, <1>u, <3>3 DEF Reading
    <2>4. At(rest.from)'
      BY <1>u, <2>2
    <2> QED
      BY <1>k, <2>2, <2>3, <2>4, <1>u DEF PacketInv, AlignInv, WholeInv, cpVars
  <1> QED
    BY <1>1, <1>2

\* restoreData undoes whatever the request in progress wrote.
LEMMA RestoreCleans ==
  ASSUME TypeOK, CleanInv, restoreData
  PROVE  work' = base
  <1>1. \A p \in Parts : work'[p] = base[p]
    BY DEF TypeOK, CleanInv, restoreData
  <1>2. work' \in [Parts -> [Sectors -> Data]]
    BY DEF TypeOK, CleanInv, restoreData
  <1> QED
    BY <1>1, <1>2 DEF TypeOK

\* A request that is good and has arrived whole is on its way to the commit.
Good == whole /\ ~cutSome /\ WellFormed(cpReq) /\ ~applied

\* A refused packet ends the request; it was not a good one.
LEMMA FailKeeps == ASSUME IInv, Reading, ~Good, Fail PROVE IInv'
  <1> USE SyncAssumption, PartsAssumption
  <1>1. work' = base
    BY RestoreCleans DEF IInv, Fail
  <1> USE DEF IInv, Fail, syncInit, Break, sendPacktRsp, cpVars
  <1>2. ~Reading'
    BY DEF Reading, Size, NoUnits
  <1>3. TypeOK'
    <2>1. /\ syncReqFrame' \in 0 .. FrameMod - 1 /\ syncState' \in {"head", "body", "data"}
          /\ start' \in 0 .. NSects /\ len' \in 0 .. NSects - start'
      OBVIOUS
    <2>3. syncBusy' \in BOOLEAN /\ syncId' \in Parts \cup {NoPart}
      BY Zenon
    <2>2. rest' \in Packets /\ rsp' \in [last : BOOLEAN, val : 0 .. 1]
      BY DEF NoUnits, Packets
    <2>4. skew' \in BOOLEAN
      BY Zenon
    <2> QED
      BY <1>1, <2>1, <2>2, <2>3, <2>4 DEF TypeOK
  <1>4. CleanInv'
    BY <1>1 DEF CleanInv
  <1>5. PacketInv'
    BY <1>2 DEF PacketInv
  <1>6. AlignInv' /\ WholeInv' /\ UncutAckMeansCommitted'
    BY <1>2 DEF AlignInv, WholeInv, Good, UncutAckMeansCommitted, AckMeansCommitted
  <1> QED
    BY <1>3, <1>4, <1>5, <1>6

\* The next token of a good request is accepted.
LEMMA GoodIsAccepted ==
  ASSUME IInv, Reading, Good, NEW u \in Readings
  PROVE  /\ syncState = "head" => u.type = "head" /\ u.part \in Parts
         /\ syncState = "body" => u.type \in {"body", "tail"} /\ InSequence(u)
  <1>0. IsRequest(cpReq)
    BY RequestShape DEF IInv
  <1>u. /\ rest.from \in Nat /\ rest.to \in Nat /\ Len(cpReq) \in Nat
        /\ rest.from <= rest.to /\ rest.to <= Len(cpReq)
    BY UnitExists DEF IInv
  <1>1. At(rest.from) /\ rest.from < rest.to /\ (syncState # "data" => InPlace)
    BY UncutInPlace DEF Good
  <1>2. syncState # "data" => u = Unit
    BY <1>1 DEF Readings
  <1>3. rest.from + 1 \in 1 .. Len(cpReq)
    BY <1>1, <1>u
  <1>5. syncState = "head" => u.type = "head" /\ u.part \in Parts
    BY <1>0, <1>1, <1>2, <1>3 DEF At, Unit, Good, WellFormed, IsRequest
  <1>6. ASSUME syncState = "body" PROVE u.type \in {"body", "tail"} /\ InSequence(u)
    <2>1. PICK i \in 1 .. rest.from : LastToken(i, rest.from) /\ syncReqFrame = cpReq[i].req
      BY <1>1, <1>6 DEF At
    <2>2. IsToken(cpReq[rest.from + 1]) /\ cpReq[rest.from + 1].type # "head"
      BY <1>0, <1>1, <1>6, <1>3, <1>u, <2>1 DEF At, IsRequest
    <2>3. i \in 1 .. Len(cpReq) /\ i < rest.from + 1 /\ (rest.from + 1) - 1 = rest.from
      BY <1>u, <2>1
    <2>4. cpReq[rest.from + 1].req = NextFrame(cpReq[i].req)
      BY <1>3, <2>1, <2>2, <2>3 DEF Good, WellFormed, InOrder, LastToken
    <2> QED
      BY <1>2, <1>6, <2>1, <2>2, <2>4 DEF Unit, InSequence, IsToken
  <1> QED
    BY <1>5, <1>6

\* getTokenContinue preserves the invariant: it drops a token only where one was cut.
LEMMA getTokenContinueKeeps == ASSUME IInv, getTokenContinue PROVE IInv'
  <1> USE DEF getTokenContinue, Turn, Break, sendPacktRsp, cpVars, srvVars
  <1>0. cutSome
    BY UncutInPlace DEF MayEndInToken, IInv, TypeOK, Packets
  <1>1. ~Reading'
    BY DEF Reading, Size, NoUnits
  <1>2. TypeOK'
    <2>1. skew' \in BOOLEAN
      BY Zenon
    <2> QED
      BY <2>1 DEF IInv, TypeOK, NoUnits, Packets
  <1>3. CleanInv'
    BY DEF IInv, CleanInv
  <1>4. PacketInv'
    BY <1>1 DEF IInv, PacketInv
  <1> QED
    BY <1>0, <1>2, <1>3, <1>4, CutSuffices

\* syncGetHead preserves the invariant.
LEMMA syncGetHeadKeeps ==
  ASSUME IInv, Turn, NEW u \in Readings, syncGetHead(u) PROVE IInv'
  <1>0. Reading /\ syncState = "head"
    BY DEF Turn, syncGetHead
  <1>1. CASE ~(u.type = "head" /\ u.part \in Parts)
    <2>1. Fail
      BY <1>1 DEF syncGetHead
    <2>2. ~Good
      BY <1>0, <1>1, GoodIsAccepted
    <2> QED
      BY <1>0, <2>1, <2>2, FailKeeps
  <1>2. CASE u.type = "head" /\ u.part \in Parts
    <2>0. /\ syncReqFrame' = u.req /\ syncId' = u.part /\ syncState' = "body"
          /\ PastToken
          /\ UNCHANGED <<base, work, idxGrp, idxSub, syncBusy, start, len, overrun, cpVars, whole, cutSome, applied>>
      BY <1>2 DEF syncGetHead
    <2>1. PacketInv' /\ rest' \in Packets /\ skew' \in BOOLEAN /\ rsp' = rsp
      BY <1>0, <2>0, PastTokenPacket DEF IInv
    <2>2. TypeOK'
      <3>1. syncReqFrame' \in 0 .. FrameMod - 1 /\ syncId' \in Parts
        BY <1>0, <1>2, <2>0, ReadingTypes DEF IInv, Frames
      <3> QED
        BY <2>0, <2>1, <3>1 DEF IInv, TypeOK, cpVars
    <2>3. CleanInv'
      BY <1>0, <1>2, <2>0 DEF IInv, CleanInv, PacketInv
    <2>4. CASE cutSome
      BY <2>0, <2>1, <2>2, <2>3, <2>4, CutSuffices
    <2>5. CASE ~cutSome
      <3>r. IsRequest(cpReq) /\ Len(cpReq) \in Nat \ {0, 1} /\ cpReq' = cpReq
        BY <2>0, RequestShape DEF IInv, IsRequest, cpVars
      <3>a. /\ ~skew /\ ~rest.back /\ At(rest.from) /\ rest.from < rest.to /\ InPlace
        BY <1>0, <2>5, UncutInPlace
      <3>b. rest.from = 0 /\ rest.from + 1 <= rest.to /\ rest.from \in Nat /\ u = Unit
        BY <1>0, <3>a, UnitExists, ReadingTypes DEF At, IInv
      <3>c. Unit = cpReq[1] /\ IsToken(cpReq[1]) /\ cpReq[1].req \in Frames /\ IsToken(cpReq[2])
        BY <3>a, <3>b, <3>r DEF Unit, IsRequest, InPlace
      <3>d. \A i \in 1 .. 1 : \A s : ~IsDataOf(cpReq, i, s)
        BY DEF IsDataOf
      <3>e. work[cpReq[1].part] = base[cpReq[1].part]
        BY <1>0, <1>2, <3>b, <3>c DEF IInv, CleanInv
      <3>f. Writes(cpReq, 1, base[cpReq[1].part], work[cpReq[1].part])
        BY <3>d, <3>e DEF Writes
      <3>g. InOrder(cpReq, 1)
        BY DEF InOrder
      <3>h. \A q \in Nat : q = rest.from + 1 => At(q)'
        <4> SUFFICES ASSUME NEW q \in Nat, q = 1 PROVE At(q)'
          BY <3>b
        <4>1. /\ syncId' = cpReq'[1].part /\ InOrder(cpReq', q) /\ syncReqFrame' = cpReq'[q].req
              /\ Writes(cpReq', q, base'[syncId'], work'[syncId'])
          BY <2>0, <3>b, <3>c, <3>f, <3>g, <3>r
        <4>2. LastToken(q, q)'
          BY <3>c, <3>r DEF LastToken
        <4>3. q \in 0 .. Len(cpReq') - 1 /\ q \in 1 .. q /\ q + 1 = 2
          BY <3>r
        <4>4. IsToken(cpReq'[q + 1])
          BY <3>c, <3>r, <4>3
        <4> QED
          BY <2>0, <4>1, <4>2, <4>3, <4>4 DEF At
      <3>1. AlignInv' /\ WholeInv'
        BY <1>0, <2>0, <2>5, <3>a, <3>b, <3>h, SkipAligns DEF IInv, PastToken
      <3>2. UncutAckMeansCommitted'
        BY <2>0, <2>1 DEF IInv, UncutAckMeansCommitted, AckMeansCommitted
      <3> QED
        BY <2>1, <2>2, <2>3, <3>1, <3>2 DEF IInv
    <2> QED
      BY <2>4, <2>5
  <1> QED
    BY <1>1, <1>2

\* syncGetBody preserves the invariant.
LEMMA syncGetBodyKeeps ==
  ASSUME IInv, Turn, NEW u \in Readings, syncGetBody(u) PROVE IInv'
  <1>0. /\ Reading /\ syncState = "body" /\ u.type = "body" /\ InSequence(u)
        /\ u.start + u.num <= NSects
        /\ syncReqFrame' = NextFrame(syncReqFrame)
        /\ start' = u.start /\ len' = u.num /\ syncState' = "data"
        /\ PastToken
        /\ UNCHANGED <<base, work, idxGrp, idxSub, syncBusy, syncId, overrun, cpVars, whole, cutSome, applied>>
    BY DEF Turn, syncGetBody
  <1>1. PacketInv' /\ rest' \in Packets /\ skew' \in BOOLEAN /\ rsp' = rsp
    BY <1>0, PastTokenPacket DEF IInv
  <1>2. TypeOK'
    <2>1. u.req \in Frames /\ u.start \in Nat /\ u.num \in Nat
      BY <1>0, ReadingTypes DEF IInv
    <2>2. syncReqFrame' \in 0 .. FrameMod - 1
      BY <1>0, <2>1 DEF Frames, InSequence
    <2>3. start' \in 0 .. NSects /\ len' \in 0 .. NSects - start'
      BY <1>0, <2>1, SyncAssumption
    <2> QED
      BY <1>0, <1>1, <2>2, <2>3 DEF IInv, TypeOK, cpVars
  <1>3. CleanInv'
    BY <1>0 DEF IInv, CleanInv
  <1>4. CASE cutSome
    BY <1>0, <1>1, <1>2, <1>3, <1>4, CutSuffices
  <1>5. CASE ~cutSome
    <2> DEFINE q0 == rest.from
               b == rest.from + 1
    <2>r. IsRequest(cpReq) /\ cpReq' = cpReq
      BY <1>0, RequestShape DEF IInv, cpVars
    <2>a. ~skew /\ ~rest.back /\ At(q0) /\ rest.from < rest.to /\ InPlace
      BY <1>0, <1>5, UncutInPlace
    <2>b. q0 \in Nat /\ b <= rest.to /\ b \in 1 .. Len(cpReq) /\ Len(cpReq) \in Nat
      BY <1>0, <2>a, UnitExists DEF IInv
    <2>c. u = cpReq[b] /\ cpReq[b].type = "body"
      BY <1>0, <2>a, ReadingTypes DEF IInv, Unit
    <2>d. IsBody(cpReq, b) /\ IsToken(cpReq[b]) /\ cpReq[b].req \in Frames
      BY <2>b, <2>c, <2>r DEF IsRequest, IsToken
    <2>e. PICK i \in 1 .. q0 : LastToken(i, q0) /\ syncReqFrame = cpReq[i].req
      BY <1>0, <2>a DEF At
    <2>f. cpReq[b].req = NextFrame(cpReq[i].req) /\ syncReqFrame' = cpReq[b].req
      BY <1>0, <2>c, <2>e DEF InSequence
    <2>g. InOrder(cpReq, b)
      BY <1>0, <2>a, <2>b, <2>e, <2>f, OrderToken DEF At, LastToken
    <2>h. Writes(cpReq, b, base[syncId], work[syncId])
      BY <1>0, <2>a, <2>b, <2>d, <2>r, WritesToken DEF At
    <2>i. b \in 1 .. Len(cpReq) - 1 /\ b \in 1 .. b /\ \A m \in b + 1 .. b : FALSE
      BY <2>b, <2>d DEF IsBody
    <2>j. \A q \in Nat : q = rest.from + 1 => At(q)'
      <3> SUFFICES ASSUME NEW q \in Nat, q = b PROVE At(q)'
        OBVIOUS
      <3>0. /\ cpReq'[q].type = "body" /\ cpReq'[q].num \in Nat /\ cpReq'[q].start \in Nat
            /\ start' = cpReq'[q].start /\ len' = cpReq'[q].num
        BY <1>0, <2>c, <2>d, <2>r DEF IsBody
      <3>1. InData(q, q)'
        BY <3>0 DEF InData
      <3>2. LastToken(q, q)'
        BY <2>d, <2>i, <2>r DEF LastToken
      <3>3. q \in 1 .. q /\ q \in 0 .. Len(cpReq) - 1
        BY <2>i
      <3>4. /\ syncId' = cpReq'[1].part /\ InOrder(cpReq', q) /\ syncReqFrame' = cpReq'[q].req
            /\ Writes(cpReq', q, base'[syncId'], work'[syncId'])
        BY <1>0, <2>a, <2>f, <2>g, <2>h, <2>r DEF At
      <3> QED
        BY <1>0, <2>r, <3>1, <3>2, <3>3, <3>4 DEF At
    <2>1. AlignInv' /\ WholeInv'
      BY <1>0, <1>5, <2>a, <2>b, <2>j, SkipAligns DEF IInv, PastToken
    <2>2. UncutAckMeansCommitted'
      BY <1>0, <1>1 DEF IInv, UncutAckMeansCommitted, AckMeansCommitted
    <2> QED
      BY <1>1, <1>2, <1>3, <2>1, <2>2 DEF IInv
  <1> QED
    BY <1>4, <1>5

\* syncGetBodyOverrun preserves the invariant: no body of the request reaches that far.
LEMMA syncGetBodyOverrunKeeps ==
  ASSUME IInv, Turn, NEW u \in Readings, syncGetBodyOverrun(u) PROVE IInv'
  <1>0. /\ Reading /\ syncState = "body" /\ u.type = "body" /\ u.start + u.num > NSects
        /\ overrun' = TRUE
        /\ UNCHANGED <<base, work, srvVars, rest, skew, rsp, cpVars, whole, cutSome, applied>>
    BY DEF Turn, syncGetBodyOverrun
  <1>1. cutSome
    <2> SUFFICES ASSUME ~cutSome PROVE FALSE
      OBVIOUS
    <2>1. InPlace
      BY <1>0, UncutInPlace
    <2>2. u.start + u.num <= NSects /\ u.start \in Nat /\ u.num \in Nat
      BY <1>0, <2>1, ReadingTypes DEF IInv
    <2> QED
      BY <1>0, <2>2, SyncAssumption
  <1>2. TypeOK'
    BY <1>0, <1>1 DEF IInv, TypeOK, cpVars, srvVars
  <1>3. CleanInv'
    BY <1>0 DEF IInv, CleanInv, srvVars
  <1>4. PacketInv'
    BY <1>0 DEF IInv, PacketInv, Reading, Size, cpVars, srvVars
  <1> QED
    BY <1>0, <1>1, <1>2, <1>3, <1>4, CutSuffices

\* What syncGetTail commits if no token of the group was cut: the whole request, in order,
\* to its partition.
LEMMA TailIsWhole ==
  ASSUME IInv, Turn, ~cutSome, NEW u \in Readings, syncGetTail(u)
  PROVE  /\ WellFormed(cpReq)
         /\ syncId = cpReq[1].part
         /\ Writes(cpReq, Len(cpReq), base[syncId], work[syncId])
  <1>0. Reading /\ syncState = "body" /\ u.type = "tail" /\ InSequence(u)
    BY DEF Turn, syncGetTail
  <1> DEFINE q0 == rest.from
  <1>r. IsRequest(cpReq)
    BY RequestShape DEF IInv
  <1>a. At(q0) /\ InPlace /\ rest.from < rest.to
    BY <1>0, UncutInPlace
  <1>b. q0 \in Nat /\ q0 + 1 \in 1 .. Len(cpReq) /\ Len(cpReq) \in Nat
    BY <1>0, <1>a, UnitExists DEF IInv
  <1>u. u = cpReq[q0 + 1]
    BY <1>0, <1>a, ReadingTypes DEF IInv, Unit
  <1>c. cpReq[q0 + 1].type = "tail" /\ IsToken(cpReq[q0 + 1]) /\ q0 + 1 = Len(cpReq)
    BY <1>0, <1>b, <1>r, <1>u DEF IsToken, IsRequest
  <1>e. PICK i \in 1 .. q0 : LastToken(i, q0) /\ syncReqFrame = cpReq[i].req
    BY <1>0, <1>a DEF At
  <1>f. cpReq[q0 + 1].req = NextFrame(cpReq[i].req)
    BY <1>0, <1>e, <1>u DEF InSequence
  <1>g. InOrder(cpReq, q0 + 1)
    BY <1>0, <1>a, <1>b, <1>e, <1>f, OrderToken DEF At, LastToken
  <1>h. Writes(cpReq, q0 + 1, base[syncId], work[syncId])
    BY <1>0, <1>a, <1>b, <1>c, <1>r, WritesToken DEF At
  <1>i. syncId = cpReq[1].part /\ syncId \in Parts
    BY <1>0, <1>a DEF At, IInv, CleanInv
  <1> QED
    BY <1>c, <1>g, <1>h, <1>i DEF WellFormed

\* syncGetTail preserves the invariant.
LEMMA syncGetTailKeeps ==
  ASSUME IInv, Turn, NEW u \in Readings, syncGetTail(u) PROVE IInv'
  <1> USE SyncAssumption, PartsAssumption
  <1>0. syncId \in Parts
    BY DEF IInv, CleanInv, syncGetTail
  <1>1. base' \in [Parts -> [Sectors -> Data]] /\ \A p \in Parts : work'[p] = base'[p]
    BY <1>0 DEF IInv, TypeOK, CleanInv, syncGetTail
  <1> USE DEF IInv, syncGetTail, syncInit, Break, sendPacktRsp, cpVars
  <1>2. ~Reading'
    BY DEF Reading, Size, NoUnits
  <1>3. TypeOK'
    <2>1. /\ syncReqFrame' \in 0 .. FrameMod - 1 /\ syncState' \in {"head", "body", "data"}
          /\ start' \in 0 .. NSects /\ len' \in 0 .. NSects - start'
      OBVIOUS
    <2>2. rest' \in Packets /\ rsp' \in [last : BOOLEAN, val : 0 .. 1]
      BY DEF NoUnits, Packets
    <2>3. /\ syncBusy' \in BOOLEAN /\ syncId' \in Parts \cup {NoPart} /\ applied' \in BOOLEAN
          /\ skew' \in BOOLEAN
      BY Zenon
    <2>4. /\ work' = work /\ idxGrp' = idxGrp /\ idxSub' = idxSub /\ cpReq' = cpReq
          /\ cpPos' = cpPos /\ cpBack' = cpBack /\ cpSub' = cpSub /\ cpLast' = cpLast
          /\ whole' = whole /\ cutSome' = cutSome /\ overrun' = overrun
      OBVIOUS
    <2> QED
      BY <1>1, <2>1, <2>2, <2>3, <2>4 DEF TypeOK
  <1>4. CleanInv'
    BY <1>1 DEF CleanInv
  <1>5. PacketInv'
    BY <1>2 DEF PacketInv
  <1>6. AlignInv' /\ WholeInv' /\ UncutAckMeansCommitted'
    BY <1>2 DEF AlignInv, WholeInv, UncutAckMeansCommitted, AckMeansCommitted
  <1> QED
    BY <1>3, <1>4, <1>5, <1>6

\* syncGetBodyFails preserves the invariant.
LEMMA syncGetBodyFailsKeeps ==
  ASSUME IInv, Turn, NEW u \in Readings, syncGetBodyFails(u) PROVE IInv'
  <1>1. Reading /\ Fail /\ ~Good
    BY GoodIsAccepted DEF Turn, syncGetBodyFails
  <1> QED
    BY <1>1, FailKeeps

\* The sectors syncGetData copies: n whole units of data.
LEMMA DataUnits ==
  ASSUME IInv, Reading, DataInPlace,
         NEW n, n = IF len <= Size(rest) THEN len ELSE Size(rest)
  PROVE  /\ n \in Nat /\ n <= len /\ rest.from + n <= rest.to
         /\ \A m \in rest.from + 1 .. rest.from + n : ~IsToken(cpReq[m]) /\ cpReq[m].val \in Data
         /\ len > Size(rest) => rest.from + n = rest.to /\ ~rest.front
  <1>u. /\ rest.from \in Nat /\ rest.to \in Nat /\ rest.front \in BOOLEAN /\ rest.back \in BOOLEAN
        /\ Len(cpReq) \in Nat /\ rest.from <= rest.to /\ rest.to <= Len(cpReq) /\ Size(rest) \in Nat
    BY UnitExists DEF IInv
  <1>l. len \in Nat
    BY SyncAssumption DEF IInv, TypeOK
  <1>1. CASE len = 0
    BY <1>1, <1>u, <1>l
  <1>2. CASE len # 0
    <2>1. /\ ~rest.back
          /\ len > rest.to - rest.from => ~rest.front
          /\ \A i \in rest.from + 1 .. rest.to : i <= rest.from + len => ~IsToken(cpReq[i])
      BY <1>2 DEF DataInPlace
    <2>2. Size(rest) = (rest.to - rest.from) + (IF rest.front THEN 1 ELSE 0)
      BY <1>u, <2>1 DEF Size
    <2>3. /\ n \in Nat /\ n <= len /\ rest.from + n <= rest.to
          /\ len > Size(rest) => rest.from + n = rest.to /\ ~rest.front
      BY <1>u, <1>l, <2>1, <2>2
    <2>4. ASSUME NEW m \in rest.from + 1 .. rest.from + n
          PROVE  ~IsToken(cpReq[m]) /\ cpReq[m].val \in Data
      <3>1. m \in rest.from + 1 .. rest.to /\ m <= rest.from + len /\ m \in 1 .. Len(cpReq)
        BY <1>u, <1>l, <2>3
      <3>2. ~IsToken(cpReq[m])
        BY <2>1, <3>1
      <3> QED
        BY <3>1, <3>2, RequestShape DEF IInv, IsRequest
    <2> QED
      BY <2>3, <2>4
  <1> QED
    BY <1>1, <1>2

\* Where in the request the analyzer is while it copies data.
LEMMA DataPosition ==
  ASSUME IInv, Reading, ~cutSome, syncState = "data"
  PROVE  /\ ~skew /\ ~rest.back /\ At(rest.from)
         /\ \E b \in 1 .. rest.from :
              /\ b \in 1 .. Len(cpReq) /\ LastToken(b, rest.from) /\ syncReqFrame = cpReq[b].req
              /\ InData(b, rest.from) /\ IsBody(cpReq, b)
              /\ DataInPlace
  <1>1. ~skew /\ ~rest.back /\ ~rest.front /\ At(rest.from)
    BY UncutInPlace
  <1>2. PICK b \in 1 .. rest.from : LastToken(b, rest.from) /\ syncReqFrame = cpReq[b].req /\ InData(b, rest.from)
    BY <1>1 DEF At
  <1>u. /\ rest.from \in Nat /\ rest.to \in Nat /\ Len(cpReq) \in Nat
        /\ rest.from <= rest.to /\ rest.to <= Len(cpReq)
    BY UnitExists DEF IInv
  <1>3. b \in 1 .. Len(cpReq) /\ b \in Nat
    BY <1>u
  <1>4. IsBody(cpReq, b) /\ cpReq[b].num \in Nat
    BY <1>2, <1>3, RequestShape DEF IInv, InData, IsRequest, IsBody
  <1>5. len = cpReq[b].num - (rest.from - b) /\ len \in Nat
    BY <1>2, <1>3, <1>4, <1>u DEF InData
  <1>6. ASSUME NEW i \in rest.from + 1 .. rest.to, i <= rest.from + len PROVE ~IsToken(cpReq[i])
    <2>1. i \in b + 1 .. b + cpReq[b].num
      BY <1>3, <1>4, <1>5, <1>6, <1>u
    <2> QED
      BY <1>4, <2>1 DEF IsBody
  <1>7. DataInPlace
    BY <1>1, <1>6 DEF DataInPlace
  <1> QED
    BY <1>1, <1>2, <1>3, <1>4, <1>7

\* syncGetData preserves the invariant.
LEMMA syncGetDataKeeps == ASSUME IInv, syncGetData PROVE IInv'
  <1> DEFINE q0 == rest.from
             n == IF len <= Size(rest) THEN len ELSE Size(rest)
             new == [s \in Sectors |-> IF s \in start .. start + n - 1
                                         THEN cpReq[rest.from + (s - start) + 1].val
                                         ELSE work[syncId][s]]
  <1>0. /\ Reading /\ syncState = "data" /\ DataInPlace
        /\ work' = [work EXCEPT ![syncId] = new]
        /\ start' = start + n /\ len' = len - n
        /\ \/ len <= Size(rest) /\ syncState' = "body" /\ Skip(n)
           \/ len > Size(rest) /\ sendPacktRsp(rest, 1) /\ Break /\ syncState' = syncState
        /\ UNCHANGED <<base, idxGrp, idxSub, syncBusy, syncReqFrame, syncId, overrun, cpVars, whole, cutSome, applied>>
    BY DEF syncGetData, Turn
  <1>r. IsRequest(cpReq) /\ cpReq' = cpReq
    BY <1>0, RequestShape DEF IInv, cpVars
  <1>u. /\ q0 \in Nat /\ rest.to \in Nat /\ rest.front \in BOOLEAN /\ Len(cpReq) \in Nat
        /\ q0 <= rest.to /\ rest.to <= Len(cpReq) /\ Size(rest) \in Nat
        /\ cpPos = rest.to + (IF rest.front THEN 1 ELSE 0)
        /\ cpSub > 0 /\ cpSub \in Nat
    BY <1>0, UnitExists DEF IInv
  <1>c. len \in Nat /\ start \in Nat /\ start + len <= NSects
    BY SyncAssumption DEF IInv, TypeOK
  <1>d. /\ n \in Nat /\ n <= len /\ q0 + n <= rest.to
        /\ \A m \in q0 + 1 .. q0 + n : ~IsToken(cpReq[m]) /\ cpReq[m].val \in Data
        /\ len > Size(rest) => q0 + n = rest.to /\ ~rest.front
    BY <1>0, DataUnits
  <1>n. (len <= Size(rest) => n = len)
    OBVIOUS
  <1>w. new = [s \in Sectors |-> IF s \in start .. start + n - 1
                                   THEN cpReq[q0 + (s - start) + 1].val ELSE work[syncId][s]]
    OBVIOUS
  <1>s. q0 = rest.from
    OBVIOUS
  <1> HIDE DEF n, q0, new
  <1>e. syncId \in Parts
    BY <1>0 DEF IInv, CleanInv
  <1>i. new \in [Sectors -> Data]
    <2> SUFFICES ASSUME NEW s \in Sectors
                 PROVE  (IF s \in start .. start + n - 1
                           THEN cpReq[q0 + (s - start) + 1].val ELSE work[syncId][s]) \in Data
      BY <1>w
    <2>1. s \in start .. start + n - 1 => q0 + (s - start) + 1 \in q0 + 1 .. q0 + n
      BY <1>c, <1>d, <1>u, SyncAssumption DEF Sectors
    <2>2. work[syncId][s] \in Data
      BY <1>e DEF IInv, TypeOK
    <2> QED
      BY <1>d, <2>1, <2>2
  <1>k. work' \in [Parts -> [Sectors -> Data]] /\ work'[syncId] = new
        /\ \A p \in Parts : p # syncId => work'[p] = work[p]
    BY <1>0, <1>e, <1>i DEF IInv, TypeOK
  <1>3. CleanInv'
    BY <1>0, <1>e, <1>k DEF IInv, CleanInv
  <1>t. start' \in 0 .. NSects /\ len' \in 0 .. NSects - start'
    BY <1>0, <1>c, <1>d, SyncAssumption
  <1>1. PacketInv' /\ rest' \in Packets /\ skew' \in BOOLEAN /\ rsp' \in [last : BOOLEAN, val : 0 .. 1]
        /\ syncState' \in {"head", "body", "data"}
    <2>1. CASE len <= Size(rest)
      <3>1. Skip(n) /\ syncState' = "body"
        BY <1>0, <1>c, <1>u, <2>1
      <3>2. PacketInv' /\ rest' \in Packets /\ skew' \in BOOLEAN /\ rsp' = rsp
        BY <1>0, <1>d, <1>s, <3>1, SkipPacket DEF IInv
      <3> QED
        BY <3>1, <3>2 DEF IInv, TypeOK
    <2>2. CASE len > Size(rest)
      <3>1. sendPacktRsp(rest, 1) /\ Break /\ syncState' = "data"
        BY <1>0, <1>c, <1>u, <2>2
      <3>2. ~Reading' /\ rest' \in Packets /\ rsp' \in [last : BOOLEAN, val : 0 .. 1]
        BY <3>1 DEF Break, sendPacktRsp, Reading, Size, NoUnits, Packets
      <3>3. skew' \in BOOLEAN
        BY <3>1, Zenon DEF Break
      <3>4. PacketInv'
        BY <1>0, <3>2 DEF IInv, PacketInv, cpVars
      <3> QED
        BY <3>1, <3>2, <3>3, <3>4
    <2> QED
      BY <1>c, <1>u, <2>1, <2>2
  <1>2. TypeOK'
    BY <1>0, <1>1, <1>k, <1>t DEF IInv, TypeOK, cpVars
  <1>4. CASE cutSome
    BY <1>0, <1>1, <1>2, <1>3, <1>4, CutSuffices
  <1>5. CASE ~cutSome
    <2>a. ~skew /\ ~rest.back /\ At(q0)
      BY <1>0, <1>5, <1>s, DataPosition
    <2>b. PICK b \in 1 .. q0 :
                /\ b \in 1 .. Len(cpReq) /\ LastToken(b, q0) /\ syncReqFrame = cpReq[b].req
                /\ InData(b, q0) /\ IsBody(cpReq, b)
      BY <1>0, <1>5, <1>s, DataPosition
    <2> DEFINE num == cpReq[b].num
               first == cpReq[b].start
    <2>c. /\ b \in Nat /\ num \in Nat /\ first \in Nat
          /\ cpReq[b].type = "body" /\ b <= q0 /\ q0 <= b + num
          /\ start = first + (q0 - b) /\ len = num - (q0 - b)
          /\ b + num < Len(cpReq)
      BY <1>u, <2>b DEF InData, IsBody
    <2> HIDE DEF num, first
    <2>d. q0 + n <= b + num
      BY <1>d, <1>u, <2>c
    <2>e. syncId = cpReq[1].part
      BY <1>0, <2>a DEF At
    <2>h. InOrder(cpReq, q0 + n)
      BY <1>0, <1>d, <1>u, <2>a, OrderData DEF At
    <2>j. Writes(cpReq, q0 + n, base[syncId], new)
      <3>1. \A s \in Sectors :
              new[s] = IF s \in cpReq[b].start + (q0 - b) .. cpReq[b].start + (q0 - b) + n - 1
                         THEN cpReq[q0 + (s - (cpReq[b].start + (q0 - b))) + 1].val ELSE work[syncId][s]
        BY <1>w, <2>c DEF first
      <3>2. Writes(cpReq, q0, base[syncId], work[syncId])
        BY <1>0, <2>a DEF At
      <3> QED
        BY <1>d, <1>r, <1>u, <2>b, <2>c, <2>d, <3>1, <3>2, WritesData DEF num
    <2>l. LastToken(b, q0 + n)
      <3>1. \A m \in b + 1 .. q0 + n : m \in b + 1 .. q0 \/ m \in q0 + 1 .. q0 + n
        BY <1>d, <1>u, <2>c
      <3>2. b \in 1 .. q0 + n
        BY <1>d, <1>u
      <3> QED
        BY <1>d, <2>b, <3>1, <3>2 DEF LastToken
    \* everything At says but the end of the body
    <2>m. \A q \in Nat : q = q0 + n =>
            /\ q \in 0 .. Len(cpReq') - 1
            /\ syncId' = cpReq'[1].part
            /\ InOrder(cpReq', q)
            /\ Writes(cpReq', q, base'[syncId'], work'[syncId'])
            /\ b \in 1 .. q /\ LastToken(b, q)' /\ syncReqFrame' = cpReq'[b].req
      <3> SUFFICES ASSUME NEW q \in Nat, q = q0 + n
                   PROVE  /\ q \in 0 .. Len(cpReq') - 1
                          /\ syncId' = cpReq'[1].part
                          /\ InOrder(cpReq', q)
                          /\ Writes(cpReq', q, base'[syncId'], work'[syncId'])
                          /\ b \in 1 .. q /\ LastToken(b, q)' /\ syncReqFrame' = cpReq'[b].req
        OBVIOUS
      <3>1. LastToken(b, q)
        BY <2>l
      <3>2. LastToken(b, q)' /\ b \in 1 .. q
        BY <1>r, <3>1 DEF LastToken
      <3>3. q \in 0 .. Len(cpReq') - 1
        BY <1>d, <1>r, <1>u, <2>c, <2>d
      <3> QED
        BY <1>0, <1>k, <1>r, <2>b, <2>e, <2>h, <2>j, <3>2, <3>3
    <2>5. CASE len <= Size(rest)
      <3>0. n = len /\ syncState' = "body" /\ Skip(n)
        BY <1>0, <1>c, <1>n, <1>u, <2>5
      <3>1. \A q \in Nat : q = rest.from + n => At(q)'
        <4> SUFFICES ASSUME NEW q \in Nat, q = q0 + n PROVE At(q)'
          BY <1>s
        <4>1. q = b + num
          BY <1>u, <2>c, <3>0
        <4>2. IsToken(cpReq'[q + 1])
          BY <1>r, <2>b, <4>1 DEF IsBody, num
        <4> QED
          BY <2>m, <3>0, <4>2 DEF At
      <3>2. AlignInv' /\ WholeInv'
        BY <1>0, <1>5, <1>d, <1>s, <2>a, <3>0, <3>1, SkipAligns DEF IInv
      <3>3. UncutAckMeansCommitted'
        BY <1>0, <3>0 DEF IInv, UncutAckMeansCommitted, AckMeansCommitted, Skip
      <3> QED
        BY <1>1, <1>2, <1>3, <3>2, <3>3 DEF IInv
    <2>6. CASE len > Size(rest)
      <3>0. /\ q0 + n = rest.to /\ ~rest.front
            /\ sendPacktRsp(rest, 1) /\ Break /\ syncState' = "data"
        BY <1>0, <1>c, <1>d, <1>u, <2>6
      <3>1. /\ rest' = NoUnits /\ ~skew' /\ rsp' = [last |-> rest.to = Len(cpReq), val |-> 1]
            /\ cpPos' = rest.to /\ cpSub' = cpSub
        BY <1>0, <1>u, <3>0 DEF sendPacktRsp, Break, cpVars
      <3>2. ~Reading'
        BY <3>1 DEF Reading, Size, NoUnits
      <3>3. \A q \in Nat : q = rest.to => At(q)'
        <4> SUFFICES ASSUME NEW q \in Nat, q = q0 + n PROVE At(q)'
          BY <3>0
        <4>1. /\ b <= q /\ q <= b + num
              /\ start' = first + (q - b) /\ len' = num - (q - b)
          BY <1>0, <1>d, <1>u, <2>c, <2>d
        <4>2. InData(b, q)'
          BY <1>r, <2>c, <4>1 DEF InData, num, first
        <4> QED
          BY <2>m, <3>0, <4>2 DEF At
      <3>4. At(cpPos)'
        BY <1>u, <3>1, <3>3
      <3>5. idxSub' = cpSub' - 1 /\ idxGrp' = "current" /\ syncBusy'
        BY <1>0, <3>1 DEF IInv, PacketInv
      <3>6. AlignInv'
        BY <1>u, <3>1, <3>2, <3>4, <3>5 DEF AlignInv
      <3>7. WholeInv'
        BY <3>2, <3>4, <3>5 DEF WholeInv
      <3>8. rest.to # Len(cpReq)
        BY <1>u, <2>c, <2>d, <3>0
      <3>9. UncutAckMeansCommitted'
        BY <3>1, <3>8 DEF UncutAckMeansCommitted, AckMeansCommitted
      <3> QED
        BY <1>1, <1>2, <1>3, <3>6, <3>7, <3>9 DEF IInv
    <2> QED
      BY <1>c, <1>u, <2>5, <2>6
  <1> QED
    BY <1>4, <1>5

\* syncGetDataAstray preserves the invariant: it stays inside the body's sectors, and only a
\* cut token leads it astray.
LEMMA syncGetDataAstrayKeeps == ASSUME IInv, syncGetDataAstray PROVE IInv'
  <1>0. /\ Reading /\ syncState = "data" /\ ~DataInPlace
        /\ UNCHANGED <<base, idxGrp, idxSub, syncBusy, syncReqFrame, syncId, overrun, cpVars, whole, cutSome, applied>>
    BY DEF syncGetDataAstray, Turn
  <1>c. cutSome
    BY <1>0, DataPosition
  <1>e. syncId \in Parts
    BY <1>0 DEF IInv, CleanInv
  <1>k. /\ work' \in [Parts -> [Sectors -> Data]]
        /\ \A p \in Parts : p # syncId => work'[p] = work[p]
    BY <1>e DEF syncGetDataAstray, IInv, TypeOK
  <1>l. len \in Nat /\ start \in Nat /\ start + len <= NSects
    BY SyncAssumption DEF IInv, TypeOK
  <1>1. /\ PacketInv' /\ rest' \in Packets /\ skew' \in BOOLEAN /\ rsp' \in [last : BOOLEAN, val : 0 .. 1]
        /\ syncState' \in {"body", "data"}
        /\ start' \in 0 .. NSects /\ len' \in 0 .. NSects - start'
    <2>1. CASE start' = start + len /\ len' = 0 /\ syncState' = "body" /\ Stray
      <3>1. PacketInv' /\ rest' \in Packets /\ skew' \in BOOLEAN /\ rsp' = rsp
        BY <1>0, <2>1, StrayPacket DEF IInv
      <3> QED
        BY <1>l, <2>1, <3>1, SyncAssumption DEF IInv, TypeOK
    <2>2. ASSUME NEW n \in 0 .. len - 1, start' = start + n, len' = len - n,
                 sendPacktRsp(rest, 1), rest' = NoUnits, skew' = TRUE, syncState' = syncState
          PROVE  /\ PacketInv' /\ rest' \in Packets /\ skew' \in BOOLEAN /\ rsp' \in [last : BOOLEAN, val : 0 .. 1]
                 /\ syncState' \in {"body", "data"}
                 /\ start' \in 0 .. NSects /\ len' \in 0 .. NSects - start'
      <3>1. ~Reading' /\ rest' \in Packets /\ rsp' \in [last : BOOLEAN, val : 0 .. 1]
        BY <2>2 DEF sendPacktRsp, Reading, Size, NoUnits, Packets
      <3>2. skew' \in BOOLEAN
        BY <2>2, Zenon
      <3>3. PacketInv'
        BY <1>0, <3>1 DEF IInv, PacketInv, cpVars
      <3>4. start' \in 0 .. NSects /\ len' \in 0 .. NSects - start'
        BY <1>l, <2>2, SyncAssumption
      <3> QED
        BY <1>0, <2>2, <3>1, <3>2, <3>3, <3>4
    <2> QED
      BY <2>1, <2>2 DEF syncGetDataAstray
  <1>2. TypeOK'
    BY <1>0, <1>1, <1>k DEF IInv, TypeOK, cpVars
  <1>3. CleanInv'
    BY <1>0, <1>1, <1>e, <1>k DEF IInv, CleanInv
  <1> QED
    BY <1>0, <1>1, <1>2, <1>3, <1>c, CutSuffices

\* ChannelFail preserves the invariant.
LEMMA ChannelFailKeeps == ASSUME IInv, ChannelFail PROVE IInv'
  <1> USE SyncAssumption, PartsAssumption
  <1>1. work' = base
    BY RestoreCleans DEF IInv, ChannelFail
  <1> USE DEF IInv, ChannelFail, Waiting, syncInit, cpVars
  <1>2. ~Reading'
    BY DEF Reading, Size
  <1>3. TypeOK'
    <2>1. /\ syncReqFrame' \in 0 .. FrameMod - 1 /\ syncState' \in {"head", "body", "data"}
          /\ start' \in 0 .. NSects /\ len' \in 0 .. NSects - start'
      OBVIOUS
    <2>2. syncBusy' \in BOOLEAN /\ syncId' \in Parts \cup {NoPart} /\ whole' \in BOOLEAN
      BY Zenon
    <2> QED
      BY <1>1, <2>1, <2>2 DEF TypeOK
  <1>4. CleanInv'
    BY <1>1 DEF CleanInv
  <1>5. PacketInv'
    BY <1>2 DEF PacketInv
  <1>6. AlignInv' /\ UncutAckMeansCommitted'
    BY <1>2 DEF AlignInv, UncutAckMeansCommitted, AckMeansCommitted
  <1>7. WholeInv'
    BY DEF WholeInv, TypeOK
  <1> QED
    BY <1>3, <1>4, <1>5, <1>6, <1>7

\* The four ways a packet is received.
StartGrp(sub) == idxGrp = "other" /\ sub = 0
ContGrp(sub) == idxGrp = "current" /\ sub = idxSub + 1

Started(p) ==
  /\ idxGrp' = "current" /\ idxSub' = 0 /\ rest' = p /\ ~skew' /\ rsp' = rsp
  /\ syncState' = "head" /\ syncBusy' /\ work' = base

Continued(sub, p) ==
  /\ syncBusy /\ idxSub' = sub /\ rest' = p
  /\ UNCHANGED <<work, idxGrp, syncState, syncBusy, syncReqFrame, syncId, start, len, skew, rsp>>

Refused(sub, p) ==
  /\ ~syncBusy /\ idxSub' = sub /\ rsp' = [last |-> p.to = Len(cpReq), val |-> 0]
  /\ UNCHANGED <<work, idxGrp, syncState, syncBusy, syncReqFrame, syncId, start, len, rest, skew>>

\* Deliver does one of them, keeps types and leaves fromChannel clean.
LEMMA DeliverCases ==
  ASSUME IInv, NEW sub \in Nat, NEW p \in Packets, Deliver(sub, p)
  PROVE  /\ \/ StartGrp(sub) /\ Started(p)
            \/ ContGrp(sub) /\ Continued(sub, p)
            \/ ContGrp(sub) /\ Refused(sub, p)
            \/ ~StartGrp(sub) /\ ~ContGrp(sub) /\ UNCHANGED <<work, srvVars, rest, skew, rsp>>
         /\ UNCHANGED <<base, overrun, applied>>
         /\ /\ work' \in [Parts -> [Sectors -> Data]]
            /\ idxGrp' \in {"current", "other"} /\ idxSub' \in Nat
            /\ syncState' \in {"head", "body", "data"} /\ syncBusy' \in BOOLEAN
            /\ syncReqFrame' \in 0 .. FrameMod - 1 /\ syncId' \in Parts \cup {NoPart}
            /\ start' \in 0 .. NSects /\ len' \in 0 .. NSects - start'
            /\ rest' \in Packets /\ skew' \in BOOLEAN /\ rsp' \in [last : BOOLEAN, val : 0 .. 1]
         /\ CleanInv'
  <1> USE SyncAssumption, PartsAssumption
  <1>b. UNCHANGED <<base, overrun, applied>>
    BY DEF Deliver
  <1>1. CASE StartGrp(sub) /\ idxGrp' = "current"
    <2>0. /\ idxGrp' = "current" /\ idxSub' = 0 /\ rest' = p /\ rsp' = rsp /\ syncBusy' /\ ~skew'
          /\ IF syncBusy
               THEN /\ restoreData
                    /\ syncState' = "head" /\ syncReqFrame' = 0
                    /\ syncId' = NoPart /\ start' = 0 /\ len' = 0
               ELSE UNCHANGED <<work, syncState, syncReqFrame, syncId, start, len>>
      BY <1>1 DEF Deliver, StartGrp, srvVars
    <2>b. syncBusy' \in BOOLEAN /\ skew' \in BOOLEAN
      BY <1>1, Zenon DEF Deliver, StartGrp, srvVars
    <2>1. CASE syncBusy
      <3>1. work' = base
        BY <2>0, <2>1, RestoreCleans DEF IInv
      <3>2. /\ syncReqFrame' \in 0 .. FrameMod - 1 /\ start' \in 0 .. NSects /\ len' \in 0 .. NSects - start'
            /\ syncState' = "head" /\ syncId' \in Parts \cup {NoPart}
        BY <2>0, <2>1
      <3>3. CleanInv'
        BY <1>b, <3>1, <3>2 DEF CleanInv
      <3> QED
        BY <1>1, <1>b, <2>0, <2>b, <3>1, <3>2, <3>3 DEF Started, IInv, TypeOK
    <2>2. CASE ~syncBusy
      <3>1. syncState = "head"
        BY <2>2 DEF IInv, CleanInv
      <3>2. work = base
        BY <3>1 DEF IInv, CleanInv, TypeOK
      <3>3. CleanInv'
        BY <1>b, <2>0, <2>2, <3>1, <3>2 DEF CleanInv
      <3> QED
        BY <1>1, <1>b, <2>0, <2>b, <2>2, <3>1, <3>2, <3>3 DEF Started, IInv, TypeOK
    <2> QED
      BY <2>1, <2>2
  <1>2. CASE ContGrp(sub) /\ Continued(sub, p)
    <2>1. CleanInv'
      BY <1>2, <1>b DEF IInv, CleanInv, Continued
    <2> QED
      BY <1>2, <1>b, <2>1 DEF Continued, IInv, TypeOK
  <1>3. CASE ContGrp(sub) /\ Refused(sub, p)
    <2>1. CleanInv'
      BY <1>3, <1>b DEF IInv, CleanInv, Refused
    <2>2. rsp' \in [last : BOOLEAN, val : 0 .. 1]
      BY <1>3 DEF Refused
    <2> QED
      BY <1>3, <1>b, <2>1, <2>2 DEF Refused, IInv, TypeOK
  <1>4. CASE ~StartGrp(sub) /\ ~ContGrp(sub) /\ UNCHANGED <<work, srvVars, rest, skew, rsp>>
    <2>1. CleanInv'
      BY <1>4, <1>b DEF IInv, CleanInv, srvVars
    <2> QED
      BY <1>4, <1>b, <2>1 DEF srvVars, IInv, TypeOK
  <1>5. \/ StartGrp(sub) /\ idxGrp' = "current"
        \/ ContGrp(sub) /\ Continued(sub, p)
        \/ ContGrp(sub) /\ Refused(sub, p)
        \/ ~StartGrp(sub) /\ ~ContGrp(sub) /\ UNCHANGED <<work, srvVars, rest, skew, rsp>>
    BY DEF Deliver, StartGrp, ContGrp, Continued, Refused, sendPacktRsp
  <1> QED
    BY <1>1, <1>2, <1>3, <1>4, <1>5

\* The packet the modem is about to send.
LEMMA NextPacketShape ==
  ASSUME IInv, NEW n \in Nat, NEW cut \in BOOLEAN, MaySend(n, cut), Advance(n, cut),
         cutSome' = (cutSome \/ cut)
  PROVE  LET p == NextPacket(n, cut)
         IN /\ p \in Packets /\ Size(p) # 0 /\ ~Reading
            /\ p.from = cpPos /\ p.back = cpBack /\ p.front = cut /\ p.from <= p.to
            /\ cpReq' = cpReq /\ cpLast' = p /\ cpSub \in Nat /\ cpSub' = cpSub + 1
            /\ cpPos' \in 0 .. Len(cpReq') /\ cpBack' = cut
            /\ cpSub = 0 => cpPos = 0 /\ ~cpBack
            /\ cutSome' \in BOOLEAN
            /\ (idxGrp' = "current" => idxSub' < cpSub') =>
                 ((Reading' => /\ idxGrp' = "current" /\ syncBusy' /\ idxSub' = cpSub' - 1
                               /\ rest' = p) => PacketInv')
  <1> DEFINE p == NextPacket(n, cut)
  <1>t. /\ cpPos \in Nat /\ cpBack \in BOOLEAN /\ cpSub \in Nat /\ cpLast \in Packets
        /\ cpLast.to \in Nat /\ cutSome \in BOOLEAN
    BY DEF IInv, TypeOK, Packets
  <1>r. Len(cpReq) \in Nat
    BY RequestShape DEF IInv, IsRequest
  <1>1. /\ p \in Packets /\ p.from = cpPos /\ p.to = cpPos + n /\ p.back = cpBack /\ p.front = cut
        /\ p.from <= p.to
    BY <1>t DEF NextPacket, Packets
  <1>2. Size(p) # 0 /\ ~Reading
    BY DEF MaySend, Waiting
  <1>3. /\ cpReq' = cpReq /\ cpLast' = p /\ cpSub' = cpSub + 1 /\ cpBack' = cut
        /\ cpPos' = p.to + (IF cut THEN 1 ELSE 0)
    BY <1>1 DEF Advance
  <1>4. p.to <= Len(cpReq) /\ (cut => p.to < Len(cpReq) /\ IsToken(cpReq[p.to + 1]))
    BY <1>1 DEF MaySend
  <1>5. cpPos' \in 0 .. Len(cpReq')
    BY <1>1, <1>3, <1>4, <1>r, <1>t
  <1>6. cpSub = 0 => cpPos = 0 /\ ~cpBack
    BY <1>t DEF IInv, PacketInv, NoUnits
  <1>7. cutSome' \in BOOLEAN /\ (p.front \/ p.back => cutSome')
    BY <1>1, <1>t DEF IInv, PacketInv
  <1>8. ASSUME idxGrp' = "current" => idxSub' < cpSub',
               Reading' => /\ idxGrp' = "current" /\ syncBusy' /\ idxSub' = cpSub' - 1
                           /\ rest' = p
        PROVE  PacketInv'
    <2>1. /\ cpLast'.from <= cpLast'.to /\ cpLast'.to <= Len(cpReq')
          /\ cpLast'.front => cpLast'.to < Len(cpReq') /\ IsToken(cpReq'[cpLast'.to + 1])
          /\ cpPos' = cpLast'.to + (IF cpLast'.front THEN 1 ELSE 0)
          /\ cpBack' = cpLast'.front
      BY <1>1, <1>3, <1>4
    <2>2. /\ cpSub' # 0
          /\ cpSub' = 1 => cpLast'.from = 0 /\ ~cpLast'.back
          /\ Size(cpLast') # 0
      BY <1>1, <1>2, <1>3, <1>6, <1>t
    <2>3. cpLast'.front \/ cpLast'.back => cutSome'
      BY <1>3, <1>7
    <2>4. Reading' => /\ rest'.to = cpLast'.to /\ rest'.front = cpLast'.front
                      /\ rest'.back => cpLast'.back
                      /\ rest'.from <= rest'.to
      BY <1>1, <1>3, <1>8
    <2> HIDE DEF p
    <2> QED
      BY <1>8, <2>1, <2>2, <2>3, <2>4 DEF PacketInv
  <1> QED
    BY <1>1, <1>2, <1>3, <1>5, <1>6, <1>7, <1>8, <1>t

\* cpSend preserves the invariant: whatever the packet layer makes of the packet.
LEMMA cpSendKeeps ==
  ASSUME IInv, NEW n \in Nat, NEW cut \in BOOLEAN, cpSend(n, cut) PROVE IInv'
  <1> DEFINE p == NextPacket(n, cut)
  <1>0. /\ MaySend(n, cut) /\ Advance(n, cut) /\ cutSome' = (cutSome \/ cut) /\ whole' = whole
        /\ Deliver(cpSub, p)
    BY DEF cpSend
  <1>s. /\ p \in Packets /\ Size(p) # 0 /\ ~Reading
        /\ p.from = cpPos /\ p.back = cpBack
        /\ cpReq' = cpReq /\ cpLast' = p /\ cpSub \in Nat /\ cpSub' = cpSub + 1
        /\ cpPos' \in 0 .. Len(cpReq') /\ cpBack' = cut
        /\ cpSub = 0 => cpPos = 0 /\ ~cpBack
        /\ cutSome' \in BOOLEAN
        /\ (idxGrp' = "current" => idxSub' < cpSub') =>
             ((Reading' => /\ idxGrp' = "current" /\ syncBusy' /\ idxSub' = cpSub' - 1
                           /\ rest' = p) => PacketInv')
    BY <1>0, NextPacketShape
  <1> HIDE DEF p
  <1>d. /\ \/ StartGrp(cpSub) /\ Started(p)
           \/ ContGrp(cpSub) /\ Continued(cpSub, p)
           \/ ContGrp(cpSub) /\ Refused(cpSub, p)
           \/ ~StartGrp(cpSub) /\ ~ContGrp(cpSub) /\ UNCHANGED <<work, srvVars, rest, skew, rsp>>
        /\ UNCHANGED <<base, overrun, applied>>
        /\ /\ work' \in [Parts -> [Sectors -> Data]]
           /\ idxGrp' \in {"current", "other"} /\ idxSub' \in Nat
           /\ syncState' \in {"head", "body", "data"} /\ syncBusy' \in BOOLEAN
           /\ syncReqFrame' \in 0 .. FrameMod - 1 /\ syncId' \in Parts \cup {NoPart}
           /\ start' \in 0 .. NSects /\ len' \in 0 .. NSects - start'
           /\ rest' \in Packets /\ skew' \in BOOLEAN /\ rsp' \in [last : BOOLEAN, val : 0 .. 1]
        /\ CleanInv'
    BY <1>0, <1>s, DeliverCases
  <1>1. TypeOK'
    BY <1>0, <1>d, <1>s DEF IInv, TypeOK
  <1>g. Good' => Good
    BY <1>0, <1>d, <1>s DEF Good
  <1>i. idxSub \in Nat /\ idxGrp \in {"current", "other"} /\ (idxGrp = "current" => idxSub < cpSub)
    BY DEF IInv, TypeOK, PacketInv
  <1>2. CASE StartGrp(cpSub) /\ Started(p)
    <2>1. /\ cpSub = 0 /\ idxGrp' = "current" /\ idxSub' = 0 /\ rest' = p /\ rsp' = rsp
          /\ syncState' = "head" /\ syncBusy' /\ ~skew'
      BY <1>2 DEF StartGrp, Started
    <2>2. Reading'
      BY <1>s, <2>1 DEF Reading
    <2>3. PacketInv'
      BY <1>s, <2>1
    <2>4. At(0)'
      <3>1. Len(cpReq') \in Nat \ {0, 1}
        BY <1>s, RequestShape DEF IInv, IsRequest
      <3> QED
        BY <2>1, <3>1 DEF At
    <2>5. rest'.from = 0 /\ ~rest'.back
      BY <1>s, <2>1
    <2>6. At(rest.from)'
      BY <2>4, <2>5
    <2>7. AlignInv'
      BY <2>1, <2>2, <2>6 DEF AlignInv
    <2>8. WholeInv'
      BY <1>s, <2>1, <2>2, <2>6 DEF WholeInv
    <2>9. UncutAckMeansCommitted'
      BY <1>0, <1>d, <2>1 DEF IInv, UncutAckMeansCommitted, AckMeansCommitted
    <2> QED
      BY <1>1, <1>d, <2>3, <2>7, <2>8, <2>9 DEF IInv
  <1>3. CASE ContGrp(cpSub) /\ Continued(cpSub, p)
    <2>1. /\ idxGrp = "current" /\ cpSub = idxSub + 1 /\ syncBusy
          /\ idxGrp' = "current" /\ syncBusy' /\ idxSub' = cpSub /\ rest' = p /\ rsp' = rsp
      BY <1>3 DEF ContGrp, Continued
    <2>2. Reading'
      BY <1>s, <2>1 DEF Reading
    <2>3. PacketInv'
      BY <1>s, <2>1
    <2>4. cpPos \in Nat /\ (~cutSome => At(cpPos) /\ ~skew)
      BY <1>i, <1>s, <2>1 DEF IInv, AlignInv, TypeOK
    <2>5. \A q \in Nat : At(q) => At(q)'
      BY <1>3, <1>d, <1>s DEF Continued, At, LastToken, InData
    <2>6. rest'.from = cpPos /\ skew' = skew
      BY <1>3, <1>s, <2>1 DEF Continued
    <2>7. ~cutSome' => At(rest.from)' /\ ~skew'
      BY <1>0, <2>4, <2>5, <2>6
    <2>8. WholeInv'
      <3>1. Good' => At(cpPos)
        BY <1>g, <1>i, <1>s, <2>1 DEF IInv, WholeInv, Good
      <3>2. Good' => At(rest.from)'
        BY <2>4, <2>5, <2>6, <3>1
      <3> QED
        BY <1>s, <2>1, <2>2, <3>2 DEF WholeInv, Good
    <2>9. UncutAckMeansCommitted'
      BY <1>0, <1>d, <2>1 DEF IInv, UncutAckMeansCommitted, AckMeansCommitted
    <2>10. AlignInv'
      BY <2>2, <2>7 DEF AlignInv
    <2> QED
      BY <1>1, <1>d, <2>3, <2>8, <2>9, <2>10 DEF IInv
  <1>4. CASE ContGrp(cpSub) /\ Refused(cpSub, p)
    <2>1. /\ ~syncBusy /\ idxSub' = cpSub /\ rsp'.val = 0 /\ rest' = rest /\ ~syncBusy'
          /\ idxGrp = "current" /\ cpSub = idxSub + 1
      BY <1>4 DEF ContGrp, Refused
    <2>2. ~Reading'
      BY <1>s, <2>1 DEF Reading
    <2>3. PacketInv'
      BY <1>s, <2>1, <2>2
    <2>4. AlignInv' /\ UncutAckMeansCommitted'
      BY <2>1, <2>2 DEF AlignInv, UncutAckMeansCommitted, AckMeansCommitted
    <2>5. WholeInv'
      BY <1>g, <1>i, <1>s, <2>1 DEF IInv, WholeInv, Good
    <2> QED
      BY <1>1, <1>d, <2>3, <2>4, <2>5 DEF IInv
  <1>5. CASE ~StartGrp(cpSub) /\ ~ContGrp(cpSub) /\ UNCHANGED <<work, srvVars, rest, skew, rsp>>
    <2>1. /\ idxSub' = idxSub /\ idxGrp' = idxGrp /\ rsp' = rsp /\ rest' = rest
          /\ ~(idxGrp = "other" /\ cpSub = 0) /\ ~(idxGrp = "current" /\ cpSub = idxSub + 1)
      BY <1>5 DEF StartGrp, ContGrp, srvVars
    <2>2. ~Reading'
      BY <1>s, <2>1 DEF Reading
    <2>3. PacketInv'
      BY <1>i, <1>s, <2>1, <2>2
    <2>4. AlignInv'
      <3>1. (~cutSome' /\ syncBusy' /\ idxGrp' = "current") => ~skew'
        BY <1>0, <1>5, <1>s DEF IInv, AlignInv, srvVars
      <3> QED
        BY <1>i, <1>s, <2>1, <2>2, <3>1 DEF AlignInv
    <2>5. WholeInv'
      <3>1. ~Good
        BY <1>i, <1>s, <2>1 DEF IInv, WholeInv, Good
      <3> QED
        BY <1>g, <3>1 DEF WholeInv, Good
    <2>6. UncutAckMeansCommitted'
      BY <1>0, <1>d, <2>1 DEF IInv, UncutAckMeansCommitted, AckMeansCommitted
    <2> QED
      BY <1>1, <1>d, <2>3, <2>4, <2>5, <2>6 DEF IInv
  <1> QED
    BY <1>2, <1>3, <1>4, <1>5, <1>d

\* A step that changes nothing preserves the invariant.
LEMMA StutterKeeps == ASSUME IInv, UNCHANGED vars PROVE IInv'
  <1> USE DEF IInv, vars, srvVars, cpVars
  <1>1. TypeOK' /\ CleanInv' /\ UncutAckMeansCommitted'
    BY DEF TypeOK, CleanInv, UncutAckMeansCommitted, AckMeansCommitted
  <1>2. PacketInv' /\ (Reading' <=> Reading)
    BY DEF PacketInv, Reading, Size
  <1>3. \A q \in Nat : At(q) => At(q)'
    BY DEF At, LastToken, InData
  <1>4. rest.from \in Nat /\ cpPos \in Nat /\ cpLast.from \in Nat
    BY DEF TypeOK, Packets
  <1>7. AlignInv'
    BY <1>2, <1>3, <1>4 DEF AlignInv
  <1>8. WholeInv'
    BY <1>2, <1>3, <1>4 DEF WholeInv, WellFormed
  <1> QED
    BY <1>1, <1>2, <1>7, <1>8

\* cpLose preserves the invariant: the analyzer now waits for the lost packet.
LEMMA cpLoseKeeps == ASSUME IInv, NEW n \in Nat, cpLose(n) PROVE IInv'
  <1> DEFINE p == NextPacket(n, FALSE)
  <1>0. /\ MaySend(n, FALSE) /\ Advance(n, FALSE) /\ whole' = FALSE /\ cutSome' = (cutSome \/ FALSE)
        /\ UNCHANGED <<base, work, srvVars, rest, skew, overrun, rsp, cutSome, applied>>
    BY DEF cpLose, IInv, TypeOK
  <1>s. /\ p \in Packets /\ ~Reading
        /\ p.from = cpPos /\ p.back = cpBack
        /\ cpReq' = cpReq /\ cpLast' = p /\ cpSub \in Nat /\ cpSub' = cpSub + 1
        /\ cpPos' \in 0 .. Len(cpReq') /\ cpBack' = FALSE
        /\ (idxGrp' = "current" => idxSub' < cpSub') =>
             ((Reading' => /\ idxGrp' = "current" /\ syncBusy' /\ idxSub' = cpSub' - 1
                           /\ rest' = p) => PacketInv')
    BY <1>0, NextPacketShape
  <1> HIDE DEF p
  <1>i. idxSub \in Nat /\ (idxGrp = "current" => idxSub < cpSub)
    BY DEF IInv, TypeOK, PacketInv
  <1>1. TypeOK'
    <2>1. cpBack' \in BOOLEAN /\ whole' \in BOOLEAN
      BY <1>0, <1>s, Zenon
    <2> QED
      BY <1>0, <1>s, <2>1 DEF IInv, TypeOK, srvVars
  <1>2. CleanInv'
    BY <1>0 DEF IInv, CleanInv, srvVars
  <1>3. ~Reading'
    BY <1>0, <1>s DEF Reading
  <1>4. PacketInv'
    BY <1>0, <1>3, <1>i, <1>s DEF srvVars
  <1>5. AlignInv'
    <2>1. ASSUME ~cutSome', syncBusy', idxGrp' = "current"
          PROVE  /\ ~skew'
                 /\ idxSub' # cpSub' - 1
                 /\ idxSub' = cpSub' - 2 => At(cpLast.from)'
      <3>1. ~cutSome /\ syncBusy /\ idxGrp = "current" /\ idxSub' = idxSub /\ skew' = skew
        BY <1>0, <2>1 DEF srvVars
      <3>2. ASSUME idxSub' = cpSub' - 2 PROVE At(cpLast.from)'
        <4>1. At(cpPos) /\ cpPos \in Nat
          BY <1>i, <1>s, <3>1, <3>2 DEF IInv, AlignInv, TypeOK
        <4>2. \A q \in Nat : At(q) => At(q)'
          BY <1>0, <1>s DEF srvVars, At, LastToken, InData
        <4>3. cpLast'.from = cpPos
          BY <1>s
        <4> QED
          BY <4>1, <4>2, <4>3
      <3>3. ~skew'
        BY <1>s, <3>1 DEF IInv, AlignInv
      <3> QED
        BY <1>i, <1>s, <3>1, <3>2, <3>3
    <2> QED
      BY <1>3, <2>1 DEF AlignInv
  <1>6. WholeInv' /\ UncutAckMeansCommitted'
    BY <1>0 DEF IInv, WholeInv, UncutAckMeansCommitted, AckMeansCommitted
  <1> QED
    BY <1>1, <1>2, <1>4, <1>5, <1>6 DEF IInv

\* cpRepeat preserves the invariant: a packet is analyzed again only if it was not before.
LEMMA cpRepeatKeeps == ASSUME IInv, cpRepeat PROVE IInv'
  <1> DEFINE sub == cpSub - 1
  <1>0. ~Reading /\ cpSub > 0 /\ UNCHANGED <<cpVars, whole, cutSome>> /\ Deliver(sub, cpLast)
    BY DEF cpRepeat, Waiting
  <1>s. /\ cpLast \in Packets /\ Size(cpLast) # 0 /\ cpSub \in Nat /\ sub \in Nat
        /\ cpSub = 1 => cpLast.from = 0 /\ ~cpLast.back
        /\ cpReq' = cpReq /\ cpLast' = cpLast /\ cpSub' = cpSub /\ cpPos' = cpPos /\ cpBack' = cpBack
        /\ cpLast.from \in Nat /\ cpLast.from <= cpLast.to
    BY <1>0 DEF IInv, TypeOK, PacketInv, cpVars, Packets
  <1>d. /\ \/ StartGrp(sub) /\ Started(cpLast)
           \/ ContGrp(sub) /\ Continued(sub, cpLast)
           \/ ContGrp(sub) /\ Refused(sub, cpLast)
           \/ ~StartGrp(sub) /\ ~ContGrp(sub) /\ UNCHANGED <<work, srvVars, rest, skew, rsp>>
        /\ UNCHANGED <<base, overrun, applied>>
        /\ /\ work' \in [Parts -> [Sectors -> Data]]
           /\ idxGrp' \in {"current", "other"} /\ idxSub' \in Nat
           /\ syncState' \in {"head", "body", "data"} /\ syncBusy' \in BOOLEAN
           /\ syncReqFrame' \in 0 .. FrameMod - 1 /\ syncId' \in Parts \cup {NoPart}
           /\ start' \in 0 .. NSects /\ len' \in 0 .. NSects - start'
           /\ rest' \in Packets /\ skew' \in BOOLEAN /\ rsp' \in [last : BOOLEAN, val : 0 .. 1]
        /\ CleanInv'
    BY <1>0, <1>s, DeliverCases
  <1>1. TypeOK'
    BY <1>0, <1>d, <1>s DEF IInv, TypeOK
  <1>g. Good' => Good
    BY <1>0, <1>d, <1>s DEF Good
  <1>i. idxSub \in Nat /\ (idxGrp = "current" => idxSub < cpSub)
    BY DEF IInv, TypeOK, PacketInv
  <1>p. ASSUME idxGrp' = "current" => idxSub' < cpSub,
               Reading' => idxGrp' = "current" /\ syncBusy' /\ idxSub' = cpSub - 1 /\ rest' = cpLast
        PROVE  PacketInv'
    BY <1>0, <1>p, <1>s DEF IInv, PacketInv
  <1>2. CASE StartGrp(sub) /\ Started(cpLast)
    <2>1. /\ cpSub = 1 /\ idxGrp' = "current" /\ idxSub' = 0 /\ rest' = cpLast /\ rsp' = rsp
          /\ syncState' = "head" /\ syncBusy' /\ ~skew'
      BY <1>2, <1>s DEF StartGrp, Started
    <2>2. Reading'
      BY <1>s, <2>1 DEF Reading
    <2>3. PacketInv'
      BY <1>p, <2>1
    <2>4. At(0)'
      <3>1. Len(cpReq') \in Nat \ {0, 1}
        BY <1>s, RequestShape DEF IInv, IsRequest
      <3> QED
        BY <2>1, <3>1 DEF At
    <2>5. rest'.from = 0 /\ ~rest'.back
      BY <1>s, <2>1
    <2>6. At(rest.from)'
      BY <2>4, <2>5
    <2>7. AlignInv'
      BY <2>1, <2>2, <2>6 DEF AlignInv
    <2>8. WholeInv'
      BY <1>s, <2>1, <2>2, <2>6 DEF WholeInv
    <2>9. UncutAckMeansCommitted'
      BY <1>0, <1>d, <2>1 DEF IInv, UncutAckMeansCommitted, AckMeansCommitted
    <2> QED
      BY <1>1, <1>d, <2>3, <2>7, <2>8, <2>9 DEF IInv
  <1>3. CASE ContGrp(sub) /\ Continued(sub, cpLast)
    <2>1. /\ idxGrp = "current" /\ idxSub = cpSub - 2 /\ syncBusy
          /\ idxGrp' = "current" /\ syncBusy' /\ idxSub' = cpSub - 1 /\ rest' = cpLast /\ rsp' = rsp
      BY <1>3, <1>s, <1>i DEF ContGrp, Continued
    <2>2. Reading'
      BY <1>s, <2>1 DEF Reading
    <2>3. PacketInv'
      BY <1>p, <1>s, <2>1
    <2>4. ~cutSome => At(cpLast.from) /\ ~skew
      BY <1>0, <2>1 DEF IInv, AlignInv
    <2>5. \A q \in Nat : At(q) => At(q)'
      BY <1>3, <1>d, <1>s DEF Continued, At, LastToken, InData
    <2>6. rest'.from = cpLast.from /\ skew' = skew
      BY <1>3, <2>1 DEF Continued
    <2>7. ~cutSome' => At(rest.from)' /\ ~skew'
      BY <1>0, <1>s, <2>4, <2>5, <2>6
    <2>8. ~Good
      BY <1>0, <1>s, <1>i, <2>1 DEF IInv, WholeInv, Good
    <2>9. WholeInv' /\ AlignInv'
      BY <1>g, <2>2, <2>7, <2>8 DEF WholeInv, Good, AlignInv
    <2>10. UncutAckMeansCommitted'
      BY <1>0, <1>d, <2>1 DEF IInv, UncutAckMeansCommitted, AckMeansCommitted
    <2> QED
      BY <1>1, <1>d, <2>3, <2>9, <2>10 DEF IInv
  <1>4. CASE ContGrp(sub) /\ Refused(sub, cpLast)
    <2>1. ~syncBusy /\ idxSub' = cpSub - 1 /\ rsp'.val = 0 /\ rest' = rest /\ ~syncBusy'
      BY <1>4 DEF ContGrp, Refused
    <2>2. ~Reading'
      BY <1>0, <2>1 DEF Reading
    <2>3. PacketInv'
      BY <1>p, <1>s, <2>1, <2>2
    <2>4. AlignInv' /\ UncutAckMeansCommitted'
      BY <2>1, <2>2 DEF AlignInv, UncutAckMeansCommitted, AckMeansCommitted
    <2>5. WholeInv'
      BY <1>0, <1>g, <2>1 DEF IInv, WholeInv, Good
    <2> QED
      BY <1>1, <1>d, <2>3, <2>4, <2>5 DEF IInv
  <1>5. CASE UNCHANGED <<work, srvVars, rest, skew, rsp>>
    <2>1. UNCHANGED vars
      BY <1>0, <1>5, <1>d DEF vars
    <2> QED
      BY <2>1, StutterKeeps
  <1> QED
    BY <1>2, <1>3, <1>4, <1>5, <1>d

\* cpNewGroup preserves the invariant.
LEMMA cpNewGroupKeeps == ASSUME IInv, NEW r \in Requests, cpNewGroup(r) PROVE IInv'
  <1> USE DEF IInv, cpNewGroup, Waiting
  <1>0. Len(r) \in Nat
    BY RequestsAssumption DEF IsRequest
  <1>1. /\ rest' = rest /\ ~Reading'
        /\ cpReq' = r /\ cpPos' = 0 /\ cpBack' = FALSE /\ cpSub' = 0 /\ cpLast' = NoUnits
        /\ idxGrp' = "other" /\ applied' = FALSE /\ whole' = TRUE /\ cutSome' = FALSE
        /\ rsp' = [last |-> FALSE, val |-> 0]
    BY DEF Reading
  <1>2. TypeOK'
    <2>1. /\ cpBack' \in BOOLEAN /\ applied' \in BOOLEAN /\ whole' \in BOOLEAN /\ cutSome' \in BOOLEAN
      BY <1>1, Zenon
    <2>2. /\ cpLast' \in Packets /\ rsp' \in [last : BOOLEAN, val : 0 .. 1] /\ cpPos' \in 0 .. Len(cpReq')
          /\ cpSub' \in Nat
      BY <1>0, <1>1 DEF NoUnits, Packets
    <2> QED
      BY <1>1, <2>1, <2>2 DEF TypeOK
  <1>3. CleanInv'
    BY DEF CleanInv
  <1>4. PacketInv'
    <2>1. cpLast'.from = 0 /\ cpLast'.to = 0 /\ ~cpLast'.back /\ ~cpLast'.front
      BY <1>1 DEF NoUnits
    <2>2. cpBack' = cpLast'.front
      <3>1. NoUnits.front = FALSE
        BY Zenon DEF NoUnits
      <3> QED
        BY <1>1, <3>1, Zenon
    <2> QED
      BY <1>0, <1>1, <2>1, <2>2 DEF PacketInv
  <1>5. AlignInv' /\ WholeInv' /\ UncutAckMeansCommitted'
    BY <1>1 DEF AlignInv, WholeInv, UncutAckMeansCommitted, AckMeansCommitted
  <1> QED
    BY <1>2, <1>3, <1>4, <1>5

\* The invariant holds when the daemon starts.
LEMMA InitIInv == Init => IInv
  <1> SUFFICES ASSUME Init PROVE IInv
    OBVIOUS
  <1> USE DEF Init
  <1>0. Len(cpReq) \in Nat
    BY RequestsAssumption DEF IsRequest
  <1>1. ~Reading
    BY DEF Reading, NoUnits, Size
  <1>2. TypeOK
    <2>1. /\ syncBusy \in BOOLEAN /\ cpBack \in BOOLEAN /\ applied \in BOOLEAN /\ whole \in BOOLEAN
          /\ cutSome \in BOOLEAN /\ skew \in BOOLEAN /\ overrun \in BOOLEAN /\ ~overrun
      BY Zenon
    <2>2. /\ cpLast \in Packets /\ rest \in Packets /\ rsp \in [last : BOOLEAN, val : 0 .. 1]
          /\ cpPos \in 0 .. Len(cpReq) /\ cpSub \in Nat /\ idxSub \in Nat
          /\ syncReqFrame \in 0 .. FrameMod - 1 /\ start \in 0 .. NSects /\ len \in 0 .. NSects - start
      BY <1>0, SyncAssumption DEF NoUnits, Packets
    <2> QED
      BY <2>1, <2>2 DEF TypeOK
  <1>3. CleanInv
    BY DEF CleanInv
  <1>4. PacketInv
    <2>1. cpLast.from = 0 /\ cpLast.to = 0 /\ ~cpLast.back /\ ~cpLast.front
      BY DEF NoUnits
    <2>2. cpBack = cpLast.front
      BY Zenon DEF NoUnits
    <2> QED
      BY <1>0, <1>1, <2>1, <2>2 DEF PacketInv
  <1>5. AlignInv /\ WholeInv /\ UncutAckMeansCommitted
    BY <1>1 DEF AlignInv, WholeInv, UncutAckMeansCommitted, AckMeansCommitted
  <1> QED
    BY <1>2, <1>3, <1>4, <1>5 DEF IInv

-----------------------------------------------------------------------------
(* Theorems                                                                *)

\* Every step preserves the invariant.
LEMMA NextKeeps == ASSUME IInv, [Next]_vars PROVE IInv'
  <1>1. CASE Analyze
    <2>1. CASE getTokenContinue \/ syncGetData \/ syncGetDataAstray
      BY <2>1, getTokenContinueKeeps, syncGetDataKeeps, syncGetDataAstrayKeeps
    <2>2. CASE AnalyzeToken
      <3>1. Turn
        BY <2>2 DEF AnalyzeToken
      <3>2. PICK u \in Readings : \/ syncGetHead(u) \/ syncGetBody(u) \/ syncGetBodyOverrun(u)
                                 \/ syncGetTail(u) \/ syncGetBodyFails(u)
        BY <2>2 DEF AnalyzeToken
      <3> QED
        BY <3>1, <3>2, syncGetHeadKeeps, syncGetBodyKeeps, syncGetBodyOverrunKeeps,
           syncGetTailKeeps, syncGetBodyFailsKeeps
    <2> QED
      BY <1>1, <2>1, <2>2 DEF Analyze
  <1>2. CASE ChannelFail
    BY <1>2, ChannelFailKeeps
  <1>3. CASE \E n \in 0 .. MaxUnits, cut \in BOOLEAN : cpSend(n, cut)
    <2>1. PICK n \in 0 .. MaxUnits : \E cut \in BOOLEAN : cpSend(n, cut)
      BY <1>3
    <2>2. PICK cut \in BOOLEAN : cpSend(n, cut)
      BY <2>1
    <2>3. n \in Nat
      BY SyncAssumption
    <2> QED
      BY <2>2, <2>3, cpSendKeeps
  <1>4. CASE \E n \in 0 .. MaxUnits : cpLose(n)
    <2>1. PICK n \in 0 .. MaxUnits : cpLose(n)
      BY <1>4
    <2>2. n \in Nat
      BY SyncAssumption
    <2> QED
      BY <2>1, <2>2, cpLoseKeeps
  <1>5. CASE cpRepeat
    BY <1>5, cpRepeatKeeps
  <1>6. CASE \E r \in Requests : cpNewGroup(r)
    BY <1>6, cpNewGroupKeeps
  <1>7. CASE UNCHANGED vars
    BY <1>7, StutterKeeps
  <1> QED
    BY <1>1, <1>2, <1>3, <1>4, <1>5, <1>6, <1>7 DEF Next, NotFollowed

\* Whatever the modem and the channel do, the analyzer is exactly where the modem is in its
\* request until a packet boundary cuts one of its tokens; and even then it never loses
\* track of which partition may differ from its backup.
THEOREM SyncInvariant == Spec => []IInv
  <1>1. IInv /\ [Next]_vars => IInv'
    BY NextKeeps
  <1> QED
    BY <1>1, InitIInv, PTL DEF Spec

\* Every variable keeps its type; no body makes the analyzer write past the partition unless
\* a token of its group was cut.
THEOREM SyncTypes == Spec => []TypeOK
  <1>1. IInv => TypeOK
    BY DEF IInv
  <1> QED
    BY <1>1, SyncInvariant, PTL

\* Between requests the fromChannel buffer is the backup buffer in every partition.
THEOREM SyncIdleIsClean == Spec => []IdleIsClean
  <1>1. IInv => IdleIsClean
    <2> SUFFICES ASSUME IInv, syncState = "head" PROVE work = base
      BY DEF IdleIsClean
    <2>1. \A p \in Parts : work[p] = base[p]
      BY DEF IInv, CleanInv
    <2> QED
      BY <2>1 DEF IInv, TypeOK
  <1> QED
    BY <1>1, SyncInvariant, PTL

\* In a group without cut tokens the answer 1 to the last packet means the request is
\* in backup.
THEOREM SyncUncutAck == Spec => []UncutAckMeansCommitted
  <1>1. IInv => UncutAckMeansCommitted
    BY DEF IInv
  <1> QED
    BY <1>1, SyncInvariant, PTL

\* A well-formed request that arrives whole is committed by the time its last packet
\* has been analyzed.
THEOREM SyncWholeGroupCommits == Spec => []WholeGroupCommits
  <1>1. IInv => WholeGroupCommits
    <2> SUFFICES ASSUME IInv, ~Reading, cpPos = Len(cpReq), whole, ~cutSome, WellFormed(cpReq), ~applied
                 PROVE  FALSE
      BY DEF WholeGroupCommits
    <2>1. Len(cpReq) \in Nat \ {0, 1}
      BY RequestShape DEF IInv, IsRequest
    <2>2. cpSub > 0
      <3>1. cpSub = 0 => cpPos = 0
        BY DEF IInv, PacketInv, NoUnits
      <3> QED
        BY <2>1, <3>1 DEF IInv, TypeOK
    <2>3. At(Len(cpReq))
      BY <2>2 DEF IInv, WholeInv
    <2> QED
      BY <2>1, <2>3 DEF At
  <1> QED
    BY <1>1, SyncInvariant, PTL

\* In a group without cut tokens backup changes only by a tail that ends a well-formed
\* request, and then by exactly what the request says: no loss, repetition, abandoned group
\* or cut in an earlier group commits anything else.
THEOREM SyncCommitIsWhole == Spec => CommitIsWholeRequest
  <1> DEFINE Whole == (base' # base /\ ~cutSome) =>
                        LET p == cpReq[1].part IN
                          /\ WellFormed(cpReq)
                          /\ Writes(cpReq, Len(cpReq), base[p], base'[p])
                          /\ \A q \in Parts \ {p} : base'[q] = base[q]
  <1>1. IInv /\ [Next]_vars => [Whole]_vars
    <2> SUFFICES ASSUME IInv, Next, base' # base, ~cutSome PROVE Whole
      BY DEF vars
    <2>1. AnalyzeToken
      BY DEF Next, NotFollowed, vars, Analyze, getTokenContinue, syncGetData, syncGetDataAstray,
             ChannelFail, cpSend, cpLose, cpRepeat, cpNewGroup, Deliver
    <2>2. PICK u \in Readings : syncGetTail(u)
      BY <2>1 DEF AnalyzeToken, syncGetHead, syncGetBody, syncGetBodyOverrun, syncGetBodyFails, Fail
    <2>3. /\ WellFormed(cpReq)
          /\ syncId = cpReq[1].part
          /\ Writes(cpReq, Len(cpReq), base[syncId], work[syncId])
      BY <2>1, <2>2, TailIsWhole DEF AnalyzeToken
    <2>4. syncId \in Parts
      BY <2>2 DEF syncGetTail, IInv, CleanInv
    <2>5. base'[syncId] = work[syncId] /\ \A q \in Parts \ {syncId} : base'[q] = base[q]
      BY <2>2, <2>4 DEF syncGetTail, IInv, TypeOK
    <2> QED
      BY <2>3, <2>5
  <1> QED
    BY <1>1, SyncInvariant, PTL DEF CommitIsWholeRequest, Spec

=============================================================================
