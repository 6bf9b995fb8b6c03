-------------------------------- MODULE NvSync --------------------------------
(***************************************************************************)
(* The NV sync protocol: packet layer (nvitem_packet.c), request analyzer  *)
(* (nvitem_sync.c) and the loop of main that reopens the channel           *)
(* (nvitem_server.c), against a modem that sends requests in groups of     *)
(* packets, may abandon a group, lose or repeat a packet, and whose        *)
(* channel may fail under a read.                                          *)
(*                                                                         *)
(* A request is a sequence of units: a token (head, body or tail, all      *)
(* sizeof(SYNC_REQ) bytes) or one sector of data.  A packet carries the    *)
(* units after number from up to number to of the request being sent; where *)
(* CutTokens holds it may begin with the second part of unit from (back)   *)
(* and end with the first part of unit to + 1 (front).                     *)
(* A token read from anywhere but the beginning of a token is any of       *)
(* Misreadings: what stands where type, reqIdx, start and num should be    *)
(* are the bytes of another field or of data.                              *)
(* Group numbers are fresh, so _idxGrp is kept as "is it the number of the *)
(* group being sent?".  base and work are the data of the backup and       *)
(* fromChannel buffers; main alone changes both.                           *)
(***************************************************************************)
EXTENDS Integers, Sequences

CONSTANTS Parts,      \* partition ids getCtlId knows
          NSects,     \* sectors per partition
          Data,       \* contents of a sector
          Requests,   \* the requests the modem may send
          FrameMod,   \* reqIdx counts modulo this (2^32 in the code)
          MaxUnits,   \* units per packet (PACKETSIZE)
          CutTokens,  \* may a packet end inside a token?
          Misreadings \* what bytes that are not a token of the request may read as

ASSUME SyncAssumption == /\ NSects \in Nat \ {0}
                         /\ FrameMod \in Nat \ {0}
                         /\ MaxUnits \in Nat \ {0}
                         /\ CutTokens \in BOOLEAN

NoPart == -1

ASSUME PartsAssumption == NoPart \notin Parts

Sectors == 0 .. NSects - 1
Frames == 0 .. FrameMod - 1

-----------------------------------------------------------------------------
(* External: the modem's requests                                          *)

IsToken(u) == u.type \in {"head", "body", "tail"}

NextFrame(n) == (n + 1) % FrameMod

\* The sectors a body announces exist and follow it, then comes the next token.
IsBody(r, i) ==
  /\ r[i].start \in Nat /\ r[i].num \in Nat
  /\ r[i].start + r[i].num <= NSects
  /\ i + r[i].num < Len(r)
  /\ \A j \in i + 1 .. i + r[i].num : ~IsToken(r[j])
  /\ IsToken(r[i + r[i].num + 1])

\* A head, bodies with their data, a tail.  The partition may be unknown and reqIdx may
\* skip a number.
IsRequest(r) ==
  /\ Len(r) \in Nat \ {0, 1}
  /\ \A i \in 1 .. Len(r) : /\ r[i].type = "head" <=> i = 1
                            /\ r[i].type = "tail" <=> i = Len(r)
                            /\ r[i].type = "body" => IsBody(r, i)
                            /\ IsToken(r[i]) => r[i].req \in Frames
                            /\ ~IsToken(r[i]) => r[i].type = "data" /\ r[i].val \in Data
  /\ IsToken(r[2])

ASSUME RequestsAssumption == \A r \in Requests : IsRequest(r)

\* What any bytes may read as; a type other than the three is "data".  All ranges past
\* the end of a partition are alike, so start and num need go no further than NSects.
AnyToken ==
  [type : {"head"}, req : Frames, part : Parts \cup {NoPart}]
    \cup [type : {"body"}, req : Frames, start : 0 .. NSects, num : 0 .. NSects]
    \cup [type : {"tail"}, req : Frames]
    \cup [type : {"data"}]

ASSUME MisreadingsAssumption == Misreadings \subseteq AnyToken

\* Unit i of r is the data of sector s.
IsDataOf(r, i, s) ==
  \E j \in 1 .. i - 1 : /\ r[j].type = "body"
                        /\ i <= j + r[j].num
                        /\ s = r[j].start + (i - j - 1)

\* What the first n units of a request mean to a partition: the last unit that is the
\* data of a sector decides, the other sectors are as before.
Writes(r, n, old, new) ==
  \A s \in Sectors :
    \/ new[s] = old[s] /\ \A i \in 1 .. n : ~IsDataOf(r, i, s)
    \/ \E i \in 1 .. n : /\ IsDataOf(r, i, s)
                         /\ new[s] = r[i].val
                         /\ \A m \in i + 1 .. n : ~IsDataOf(r, m, s)

\* Each token up to unit n has the number after that of the token before it.
InOrder(r, n) ==
  \A i, j \in 1 .. n :
    (i < j /\ IsToken(r[i]) /\ IsToken(r[j]) /\ \A m \in i + 1 .. j - 1 : ~IsToken(r[m]))
      => r[j].req = NextFrame(r[i].req)

WellFormed(r) == r[1].part \in Parts /\ InOrder(r, Len(r))

-----------------------------------------------------------------------------
VARIABLES base, work,          \* backup and fromChannel data of each partition
          idxGrp, idxSub,      \* packet layer
          syncState, syncBusy, syncReqFrame, syncId, start, len,   \* analyzer
          rest,                \* what is left to analyze of the current packet
          skew,                \* reading goes on inside a unit; rest only says "not at the end"
          overrun,             \* a body beyond the partition was accepted
          rsp,                 \* the last response
          cpReq,               \* modem: the request being sent
          cpPos, cpBack,       \* modem: where the next packet begins
          cpSub,               \* modem: its number
          cpLast,              \* modem: the packet sent last
          whole, cutSome,      \* history of the group: nothing lost, a token cut so far
          applied              \* history of the group: committed

srvVars == <<idxGrp, idxSub, syncState, syncBusy, syncReqFrame, syncId, start, len>>
cpVars == <<cpReq, cpPos, cpBack, cpSub, cpLast>>
vars == <<base, work, srvVars, rest, skew, overrun, rsp, cpVars, whole, cutSome, applied>>

Packets == [from : Nat, to : Nat, back : BOOLEAN, front : BOOLEAN]

NoUnits == [from |-> 0, to |-> 0, back |-> FALSE, front |-> FALSE]

\* Units left of a packet, parts of units included; the loop runs while (0 != size).
Size(p) == (p.to - p.from) + (IF p.back THEN 1 ELSE 0) + (IF p.front THEN 1 ELSE 0)

Reading == Size(rest) # 0

\* syncAnalyzer is in its inner loop, or in _getPacket; the daemon has kept to its buffers.
Turn == Reading /\ ~overrun
Waiting == ~Reading /\ ~overrun

\* The next unit of the packet.
Unit == cpReq[rest.from + 1]

-----------------------------------------------------------------------------
Init ==
  /\ base \in [Parts -> [Sectors -> Data]]
  /\ work = base
  /\ idxGrp = "other" /\ idxSub = 0
  /\ syncState = "head" /\ syncBusy = FALSE /\ syncReqFrame = 0
  /\ syncId = NoPart /\ start = 0 /\ len = 0
  /\ rest = NoUnits /\ skew = FALSE /\ overrun = FALSE
  /\ rsp = [last |-> FALSE, val |-> 0]
  /\ cpReq \in Requests
  /\ cpPos = 0 /\ cpBack = FALSE
  /\ cpSub = 0
  /\ cpLast = NoUnits
  /\ whole = TRUE
  /\ cutSome = FALSE
  /\ applied = FALSE

\* _syncInit
syncInit ==
  /\ syncState' = "head" /\ syncBusy' = FALSE /\ syncReqFrame' = 0
  /\ syncId' = NoPart /\ start' = 0 /\ len' = 0

\* Variant: only a request interrupted in its data is undone.
restoreData_DataOnly ==
  work' = IF syncState = "data" THEN [work EXCEPT ![syncId] = base[syncId]] ELSE work

\* _syncReset(SYNC_FAIL_RESET): undo what an unfinished request wrote.
restoreData == work' = IF syncState # "head" THEN [work EXCEPT ![syncId] = base[syncId]] ELSE work

\* _sendPacktRsp: the answer says which packet it is for.
sendPacktRsp(p, v) == rsp' = [last |-> p.to = Len(cpReq), val |-> v]

\* The rest of the packet is dropped (break); the next one is read from its beginning.
Break == rest' = NoUnits /\ skew' = FALSE

-----------------------------------------------------------------------------
(* _getPacket and the head of syncAnalyzer's loop                          *)

\* Packet p, number sub of the current group, is read from the channel.
Deliver(sub, p) ==
  LET startGrp == idxGrp = "other" /\ sub = 0
      contGrp == idxGrp = "current" /\ sub = idxSub + 1
  IN /\ \/ \* _PACKET_START, cutting off the request in progress if there is one
           /\ startGrp
           /\ idxGrp' = "current" /\ idxSub' = 0
           /\ rest' = p /\ skew' = FALSE
           /\ IF syncBusy
                THEN /\ restoreData
                     /\ syncState' = "head" /\ syncReqFrame' = 0
                     /\ syncId' = NoPart /\ start' = 0 /\ len' = 0
                ELSE UNCHANGED <<work, syncState, syncReqFrame, syncId, start, len>>
           /\ syncBusy' = TRUE
           /\ UNCHANGED rsp
        \/ \* _PACKET_CONTINUE of a request in progress
           /\ contGrp /\ syncBusy
           /\ idxSub' = sub
           /\ rest' = p
           /\ UNCHANGED <<work, idxGrp, syncState, syncBusy, syncReqFrame, syncId, start, len, skew, rsp>>
        \/ \* _PACKET_CONTINUE without a request: refused
           /\ contGrp /\ ~syncBusy
           /\ idxSub' = sub
           /\ sendPacktRsp(p, 0)
           /\ UNCHANGED <<work, idxGrp, syncState, syncBusy, syncReqFrame, syncId, start, len, rest, skew>>
        \/ \* _PACKET_SKIP: not answered
           /\ ~startGrp /\ ~contGrp
           /\ UNCHANGED <<work, srvVars, rest, skew, rsp>>
     /\ UNCHANGED <<base, overrun, applied>>

\* _PACKET_FAIL: undo, then main closes and reopens the channel (_initPacket, _syncInit).
ChannelFail ==
  /\ Waiting
  /\ restoreData
  /\ syncInit
  /\ idxGrp' = "other" /\ idxSub' = 0
  /\ whole' = (whole /\ cpSub = 0)
  /\ UNCHANGED <<base, rest, skew, overrun, rsp, cpVars, cutSome, applied>>

-----------------------------------------------------------------------------
(* One turn of the inner loop of syncAnalyzer: while (0 != size)           *)

\* The next bytes are a token of the request, read from its beginning.
InPlace == ~skew /\ ~rest.back /\ rest.from < rest.to /\ IsToken(Unit)

Readings == IF InPlace THEN {Unit} ELSE Misreadings

\* The packet may still hold sizeof(SYNC_REQ) bytes, or fewer.
MayHoldToken == skew \/ rest.from < rest.to \/ (rest.back /\ rest.front)
MayEndInToken == skew \/ rest.from = rest.to

\* __getToken: fewer bytes than a token are left; they are dropped with the packet.
getTokenContinue ==
  /\ Turn
  /\ syncState \in {"head", "body"}
  /\ MayEndInToken
  /\ sendPacktRsp(rest, 1)
  /\ Break
  /\ UNCHANGED <<base, work, srvVars, overrun, cpVars, whole, cutSome, applied>>

\* Variant: a refused packet is answered with 1.
Fail_Answers1 ==
  /\ restoreData
  /\ syncInit
  /\ sendPacktRsp(rest, 1)
  /\ Break
  /\ UNCHANGED <<base, idxGrp, idxSub, overrun, cpVars, whole, cutSome, applied>>

Fail ==
  /\ restoreData
  /\ syncInit
  /\ sendPacktRsp(rest, 0)
  /\ Break
  /\ UNCHANGED <<base, idxGrp, idxSub, overrun, cpVars, whole, cutSome, applied>>

\* Go on n units further; a packet that ends here gets no response.
Skip(n) == /\ rest' = IF Size(rest) = n THEN NoUnits ELSE [rest EXCEPT !.from = @ + n]
           /\ UNCHANGED <<skew, rsp>>

\* Go on some bytes further: somewhere inside a unit, or at the end of the packet.
Stray == /\ rest' \in {rest, NoUnits}
         /\ skew' = (rest' # NoUnits)
         /\ UNCHANGED rsp

PastToken == IF InPlace THEN Skip(1) ELSE Stray

syncGetHead(u) ==
  /\ syncState = "head"
  /\ MayHoldToken
  /\ IF u.type = "head" /\ u.part \in Parts
       THEN /\ syncReqFrame' = u.req
            /\ syncId' = u.part
            /\ syncState' = "body"
            /\ PastToken
            /\ UNCHANGED <<base, work, idxGrp, idxSub, syncBusy, start, len, overrun, cpVars, whole, cutSome, applied>>
       ELSE Fail

\* Variants: the number is not looked at; it is compared without wrapping to 0.
InSequence_Unchecked(u) == TRUE
InSequence_NoWrap(u) == u.req = syncReqFrame + 1

\* A body or tail must carry the next reqIdx.
InSequence(u) == u.req = NextFrame(syncReqFrame)

\* Variant: reqIdx counts on past the width of its field.
syncGetBody_NoWrap(u) ==
  /\ syncState = "body"
  /\ MayHoldToken
  /\ u.type = "body" /\ InSequence(u)
  /\ u.start + u.num <= NSects
  /\ syncReqFrame' = syncReqFrame + 1
  /\ start' = u.start
  /\ len' = u.num
  /\ syncState' = "data"
  /\ PastToken
  /\ UNCHANGED <<base, work, idxGrp, idxSub, syncBusy, syncId, overrun, cpVars, whole, cutSome, applied>>

syncGetBody(u) ==
  /\ syncState = "body"
  /\ MayHoldToken
  /\ u.type = "body" /\ InSequence(u)
  /\ u.start + u.num <= NSects
  /\ syncReqFrame' = NextFrame(syncReqFrame)
  /\ start' = u.start
  /\ len' = u.num
  /\ syncState' = "data"
  /\ PastToken
  /\ UNCHANGED <<base, work, idxGrp, idxSub, syncBusy, syncId, overrun, cpVars, whole, cutSome, applied>>

\* Neither _markDirtyInfo nor writeData looks at the range: a body that reaches past the
\* partition makes them write past the dirty table and the buffer.  What the daemon does
\* after that is not followed.
syncGetBodyOverrun(u) ==
  /\ syncState = "body"
  /\ MayHoldToken
  /\ u.type = "body" /\ InSequence(u)
  /\ u.start + u.num > NSects
  /\ overrun' = TRUE
  /\ UNCHANGED <<base, work, srvVars, rest, skew, rsp, cpVars, whole, cutSome, applied>>

\* SYNC_DONE: backupData, then the response.
syncGetTail(u) ==
  /\ syncState = "body"
  /\ MayHoldToken
  /\ u.type = "tail" /\ InSequence(u)
  /\ base' = [base EXCEPT ![syncId] = work[syncId]]
  /\ applied' = TRUE
  /\ syncInit
  /\ sendPacktRsp(rest, 1)
  /\ Break
  /\ UNCHANGED <<work, idxGrp, idxSub, overrun, cpVars, whole, cutSome>>

syncGetBodyFails(u) ==
  /\ syncState = "body"
  /\ MayHoldToken
  /\ ~(u.type \in {"body", "tail"} /\ InSequence(u))
  /\ Fail

\* Whole sectors of data follow, as many as the packet has or the body still wants.
DataInPlace ==
  \/ len = 0
  \/ /\ ~skew /\ ~rest.back
     /\ len > rest.to - rest.from => ~rest.front
     /\ \A i \in rest.from + 1 .. rest.to : i <= rest.from + len => ~IsToken(cpReq[i])

\* _syncGetData: len sectors of the packet, or as many as it still has.
syncGetData ==
  /\ Turn
  /\ syncState = "data"
  /\ DataInPlace
  /\ LET n == IF len <= Size(rest) THEN len ELSE Size(rest)
         new == [s \in Sectors |-> IF s \in start .. start + n - 1
                                     THEN cpReq[rest.from + (s - start) + 1].val
                                     ELSE work[syncId][s]]
     IN /\ work' = [work EXCEPT ![syncId] = new]
        /\ start' = start + n
        /\ len' = len - n
        /\ \/ \* SYNC_NEXT
              /\ len <= Size(rest)
              /\ syncState' = "body"
              /\ Skip(n)
           \/ \* SYNC_CONTINUE
              /\ len > Size(rest)
              /\ sendPacktRsp(rest, 1)
              /\ Break
              /\ UNCHANGED syncState
  /\ UNCHANGED <<base, idxGrp, idxSub, syncBusy, syncReqFrame, syncId, overrun, cpVars, whole, cutSome, applied>>

\* _syncGetData over bytes that are not the sectors of the body: anything may be written
\* there.  A sector filled in part counts as still to come.
syncGetDataAstray ==
  /\ Turn
  /\ syncState = "data"
  /\ ~DataInPlace
  /\ \E new \in [Sectors -> Data] :
       /\ \A s \in Sectors : s \notin start .. start + len - 1 => new[s] = work[syncId][s]
       /\ work' = [work EXCEPT ![syncId] = new]
  /\ \/ \* SYNC_NEXT
        /\ start' = start + len /\ len' = 0
        /\ syncState' = "body"
        /\ Stray
     \/ \* SYNC_CONTINUE
        /\ \E n \in 0 .. len - 1 : start' = start + n /\ len' = len - n
        /\ sendPacktRsp(rest, 1)
        /\ rest' = NoUnits /\ skew' = TRUE
        /\ UNCHANGED syncState
  /\ UNCHANGED <<base, idxGrp, idxSub, syncBusy, syncReqFrame, syncId, overrun, cpVars, whole, cutSome, applied>>

-----------------------------------------------------------------------------
(* External: the modem and the channel                                     *)

\* The next packet: n more units of the request and, if cut, the first part of the
\* token after them.
NextPacket(n, cut) == [from |-> cpPos, to |-> cpPos + n, back |-> cpBack, front |-> cut]

MaySend(n, cut) ==
  /\ Waiting
  /\ cpPos + n <= Len(cpReq)
  /\ cut => CutTokens /\ cpPos + n < Len(cpReq) /\ IsToken(cpReq[cpPos + n + 1])
  /\ Size(NextPacket(n, cut)) \in 1 .. MaxUnits

\* The second part of a cut token comes with the packet after.
Advance(n, cut) ==
  /\ cpPos' = cpPos + n + (IF cut THEN 1 ELSE 0)
  /\ cpBack' = cut
  /\ cpSub' = cpSub + 1
  /\ cpLast' = NextPacket(n, cut)
  /\ UNCHANGED cpReq

cpSend(n, cut) ==
  /\ MaySend(n, cut)
  /\ Advance(n, cut)
  /\ cutSome' = (cutSome \/ cut)
  /\ UNCHANGED whole
  /\ Deliver(cpSub, NextPacket(n, cut))

\* The packet is read by nobody (the channel failed meanwhile).
cpLose(n) ==
  /\ MaySend(n, FALSE)
  /\ Advance(n, FALSE)
  /\ whole' = FALSE
  /\ UNCHANGED <<base, work, srvVars, rest, skew, overrun, rsp, cutSome, applied>>

\* The modem repeats the packet it sent last, having seen no response.
cpRepeat ==
  /\ Waiting
  /\ cpSub > 0
  /\ UNCHANGED <<cpVars, whole, cutSome>>
  /\ Deliver(cpSub - 1, cpLast)

\* A new group with a fresh number, the old one finished or not.
cpNewGroup(r) ==
  /\ Waiting
  /\ cpReq' = r
  /\ cpPos' = 0 /\ cpBack' = FALSE
  /\ cpSub' = 0
  /\ cpLast' = NoUnits
  /\ idxGrp' = "other"
  /\ whole' = TRUE
  /\ cutSome' = FALSE
  /\ applied' = FALSE
  /\ rsp' = [last |-> FALSE, val |-> 0]
  /\ UNCHANGED <<base, work, idxSub, syncState, syncBusy, syncReqFrame, syncId, start, len, rest, skew, overrun>>

AnalyzeToken ==
  /\ Turn
  /\ \E u \in Readings : \/ syncGetHead(u) \/ syncGetBody(u) \/ syncGetBodyOverrun(u)
                         \/ syncGetTail(u) \/ syncGetBodyFails(u)

Analyze == getTokenContinue \/ AnalyzeToken \/ syncGetData \/ syncGetDataAstray

\* A daemon that wrote past its buffers is left where it is.
NotFollowed == overrun /\ UNCHANGED vars

Next ==
  \/ Analyze
  \/ ChannelFail
  \/ \E n \in 0 .. MaxUnits, cut \in BOOLEAN : cpSend(n, cut)
  \/ \E n \in 0 .. MaxUnits : cpLose(n)
  \/ cpRepeat
  \/ \E r \in Requests : cpNewGroup(r)
  \/ NotFollowed

Spec == Init /\ [][Next]_vars

-----------------------------------------------------------------------------
(* Properties                                                              *)

\* Every variable keeps its type; a body reaches at most to the end of the partition, unless
\* a packet boundary cut a token of the same group.
TypeOK ==
  /\ base \in [Parts -> [Sectors -> Data]]
  /\ work \in [Parts -> [Sectors -> Data]]
  /\ idxGrp \in {"current", "other"}
  /\ idxSub \in Nat
  /\ syncState \in {"head", "body", "data"}
  /\ syncBusy \in BOOLEAN
  /\ syncReqFrame \in 0 .. FrameMod - 1
  /\ syncId \in Parts \cup {NoPart}
  /\ start \in 0 .. NSects
  /\ len \in 0 .. NSects - start
  /\ rest \in Packets
  /\ skew \in BOOLEAN
  /\ overrun \in BOOLEAN /\ (overrun => cutSome)
  /\ rsp \in [last : BOOLEAN, val : 0 .. 1]
  /\ cpReq \in Requests
  /\ cpPos \in 0 .. Len(cpReq)
  /\ cpSub \in Nat
  /\ cpLast \in Packets
  /\ cpBack \in BOOLEAN /\ whole \in BOOLEAN /\ cutSome \in BOOLEAN /\ applied \in BOOLEAN

\* While no request is being analyzed fromChannel equals backup in every partition:
\* no abandoned, refused or interrupted request leaves a sector behind.
IdleIsClean == syncState = "head" => work = base

\* backup changes only to what one complete, well-formed request means, whatever packets of
\* its group were lost or repeated and whatever was cut or abandoned before, unless a packet
\* boundary cut a token of the group: what is left of such a token may read as a tail.
CommitIsWholeRequest ==
  [][(base' # base /\ ~cutSome) =>
       LET p == cpReq[1].part IN
         /\ WellFormed(cpReq)
         /\ Writes(cpReq, Len(cpReq), base[p], base'[p])
         /\ \A q \in Parts \ {p} : base'[q] = base[q]]_vars

\* A response 1 to the packet that ends a request means the request is committed.
AckMeansCommitted == (rsp.last /\ rsp.val = 1) => applied

\* The same of a group none of whose tokens was cut by a packet boundary, whatever was cut,
\* lost or abandoned in the groups before it.
UncutAckMeansCommitted == ~cutSome => AckMeansCommitted

\* A well-formed request whose packets all arrive, in order and with whole tokens, is
\* committed, whatever state earlier groups and channel failures left the analyzer in.
WholeGroupCommits ==
  (~Reading /\ cpPos = Len(cpReq) /\ whole /\ ~cutSome /\ WellFormed(cpReq)) => applied

=============================================================================
