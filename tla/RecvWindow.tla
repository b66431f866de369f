----------------------------- MODULE RecvWindow -----------------------------
(***************************************************************************)
(* The receiving half of one tcb, from an arriving segment to the          *)
(* application: tcp_established, PushData, AdjustPair, PushDataInQueue and *)
(* GetData, the ring towards the socket, the acknowledgement that          *)
(* check_socket_out_queue sends later, and the states a FIN leads through. *)
(*                                                                         *)
(* A peer streams bytes from position 1 on, in segments it may cut         *)
(* anywhere and send again, and the network hands over any segment below   *)
(* sndNxt at any time and any number of times.  The history variable       *)
(* inOrder remembers whether a segment ever overtook a missing one.        *)
(* Sequence numbers are the peer's initial number plus the position,       *)
(* modulo SeqSpace (2^32 in C); the field pos of a segment stands for its  *)
(* payload, the bytes of the stream from that position on.                 *)
(***************************************************************************)
EXTENDS Integers, Sequences, FiniteSets, SequencesExt

CONSTANTS
  SeqSpace,     \* sequence numbers live in 0 .. SeqSpace - 1
  Isn,          \* the peer's initial sequence number
  CurrentSize,  \* ReceiveWindow->CurrentSize (4000 in C)
  PeerWindow,   \* bytes the peer sends beyond its last ack (rx_win, 0xffff)
  RingSize,     \* messages the ring towards the socket holds
  BufferSize,   \* the buffer PushDataInQueue gives GetData (1000 in C)
  MaxLen,       \* BOUND: longest segment
  StreamBound   \* BOUND: bytes the peer sends in all

ASSUME RecvAssumption ==
  /\ SeqSpace \in Nat /\ StreamBound + 2 < SeqSpace /\ Isn \in 0 .. SeqSpace - 1
  /\ PeerWindow \in Nat \ {0} /\ RingSize \in Nat
  /\ BufferSize \in Nat \ {0}
  /\ MaxLen \in Nat \ {0} /\ CurrentSize \in Nat /\ MaxLen < CurrentSize
  /\ StreamBound \in Nat

VARIABLES
  state,         \* ptcb->state
  pairs,         \* RecvWindow->SeqPairs, as a sequence
  CurrentSeq,    \* RecvWindow->CurrentSequenceNumber
  ack,           \* ptcb->ack
  need_ack_now,  \* ptcb->need_ack_now
  ring,          \* socket_tcb_ring: messages the application has not read
  aborted,       \* an assert failed or a NULL link was followed
  readPos,       \* history: position after the last byte read
  discarded,     \* history: a message found the ring full
  inOrder,       \* history: no segment came ahead of a missing one
  oversized,     \* history: a segment brought BufferSize new bytes or more
  poolEmpty,     \* history: no message was left to hand data over in
  beyond,        \* history: a segment ended far beyond the first queued pair
  sndNxt,        \* peer: position after the last byte it has sent
  arrived,       \* peer and network: end of the gap-free part that arrived
  peerClosed,    \* peer: it has sent its FIN
  una            \* peer: highest acknowledgement it has seen

window == <<pairs, CurrentSeq, ack, ring, aborted, discarded, poolEmpty>>
peer   == <<sndNxt, peerClosed, una>>
vars   == <<state, window, need_ack_now, readPos, inOrder, oversized, beyond,
            arrived, peer>>

(* The number of a position, and the position a number stands for.         *)
SeqNumber(p)  == (Isn + p) % SeqSpace
PositionOf(n) == (n - Isn) % SeqSpace

curPos == PositionOf(CurrentSeq)
ackPos == PositionOf(ack)

States == {"ESTABLISHED", "FIN_2", "CLOSED", "REMOVED"}

Positions == 1 .. StreamBound + 2   \* the stream, its FIN, and their end

(* An OutOfSeqPair: the numbers a queued segment covers and its payload.   *)
Pair == [seq : 0 .. SeqSpace - 1, len : 0 .. MaxLen, fin : BOOLEAN,
         pos : Positions]

Init ==
  /\ state = "ESTABLISHED" /\ pairs = <<>>
  /\ CurrentSeq = SeqNumber(1) /\ ack = SeqNumber(1) /\ need_ack_now = FALSE
  /\ ring = <<>> /\ aborted = FALSE
  /\ readPos = 1 /\ discarded = FALSE /\ inOrder = TRUE
  /\ oversized = FALSE /\ poolEmpty = FALSE /\ beyond = FALSE
  /\ sndNxt = 1 /\ arrived = 1 /\ peerClosed = FALSE /\ una = 1
-----------------------------------------------------------------------------
(* AdjustPair: insert the new pair, then one pass that merges.             *)

SeqEnd(pair) == (pair.seq + pair.len) % SeqSpace

FinLen(pair) == IF pair.fin THEN 1 ELSE 0

(* The new pair goes behind every leading pair that starts no later.       *)
InsertPair(list, new) ==
  LET k == CHOOSE k \in 0 .. Len(list) :
             /\ \A i \in 1 .. k : list[i].seq <= new.seq
             /\ k < Len(list) => list[k + 1].seq > new.seq
  IN  InsertAt(list, k + 1, new)

Covers(pair, next) == SeqEnd(pair) >= SeqEnd(next)

(* The pass compares each pair it stands on with the next one only; a      *)
(* covered next pair is deleted and the pass moves on from the one after.  *)
Kept(list) ==
  LET kept[i \in 1 .. Len(list)] ==
        i = 1 \/ ~(kept[i - 1] /\ Covers(list[i - 1], list[i]))
  IN  kept

(* The assert that starts differ, and NextPair = Pair->Next when the pair  *)
(* just deleted was the last one and Pair is NULL.                         *)
MergeFails(list) ==
  \/ \E i \in 1 .. Len(list) - 1 :
       Kept(list)[i] /\ ~(list[i].seq < list[i + 1].seq)
  \/ ~Kept(list)[Len(list)]

Merge(list) ==
  LET kept   == {i \in 1 .. Len(list) : Kept(list)[i]}
      nth(j) == CHOOSE i \in kept : Cardinality({k \in kept : k <= i}) = j
  IN  [j \in 1 .. Cardinality(kept) |-> list[nth(j)]]

(* Mutant: a FIN is acknowledged that is not there.                        *)
AckAlwaysFin(list) == (SeqEnd(Head(list)) + 1) % SeqSpace

(* What AdjustPair returns: the end of the first pair.                     *)
AckAfter(list) == (SeqEnd(Head(list)) + FinLen(Head(list))) % SeqSpace
-----------------------------------------------------------------------------
(* GetData and PushDataInQueue: at most one pair goes to the socket.       *)

(* Mutant: a pair that starts right at CurrentSeq has to wait.             *)
ReadyBehind(pair) == pair.seq < CurrentSeq

Ready(pair) == pair.seq <= CurrentSeq

(* Mutant: the overlap with what the socket has is handed over again.      *)
WholePair(pair) == [pos |-> pair.pos, len |-> pair.len]

(* The bytes of the pair that the socket has not had yet.                  *)
NewBytes(pair) ==
  LET offset == (CurrentSeq - pair.seq) % SeqSpace
  IN  [pos |-> pair.pos + offset, len |-> pair.len - offset]

(* Mutant: one byte more is let through than the assert allows.            *)
LongerThanBuffer(pair) == NewBytes(pair).len > BufferSize

(* The assert that the new bytes are fewer than the buffer holds.          *)
TooLong(pair) == NewBytes(pair).len >= BufferSize

(* The asserts of GetData: the window has a number; an empty pair is a     *)
(* FIN; a pair with data reaches what was delivered and fits the buffer.   *)
GetDataFails(pair) ==
  \/ CurrentSeq = 0
  \/ Ready(pair) /\ pair.len = 0 /\ ~pair.fin
  \/ /\ Ready(pair) /\ pair.len # 0
     /\ SeqEnd(pair) < CurrentSeq \/ TooLong(pair)

(* rte_mempool_get fails for data that is to be handed over, and the code  *)
(* writes through NULL.  Which connection took the messages is not         *)
(* modelled here (SocketRings does).                                       *)
NeedsMessage(pair) ==
  Ready(pair) /\ pair.len # 0 /\ NewBytes(pair).len # 0

Enqueue(msg) ==
  IF msg.len = 0
  THEN UNCHANGED <<ring, discarded>>
  ELSE IF Len(ring) < RingSize
       THEN ring' = Append(ring, msg) /\ UNCHANGED discarded
       ELSE discarded' = TRUE /\ UNCHANGED ring

PushDataInQueue(list) ==
  LET pair == Head(list)
  IN  IF Ready(pair)
      THEN /\ Enqueue(IF pair.len = 0 THEN [pos |-> pair.pos, len |-> 0]
                                      ELSE NewBytes(pair))
           /\ pairs' = Tail(list)
           /\ CurrentSeq' = SeqEnd(pair)
      ELSE /\ pairs' = list
           /\ UNCHANGED <<CurrentSeq, ring, discarded>>
-----------------------------------------------------------------------------
(* PushData.                                                               *)

(* Mutant: no test.                                                        *)
NeverOutside(seg) == FALSE

OutOfWindow(seg) ==
  /\ pairs # <<>>
  /\ (seg.seq - Head(pairs).seq + seg.len) % SeqSpace < CurrentSize

(* Mutant: no test.                                                        *)
NeverDuplicate(seg) == FALSE

Duplicate(seg) == CurrentSeq > SeqEnd(seg)

PushData(seg) ==
  LET list   == InsertPair(pairs, seg)
      merged == Merge(list)
  IN  IF OutOfWindow(seg) \/ Duplicate(seg)
      THEN UNCHANGED window
      ELSE IF MergeFails(list) \/ GetDataFails(Head(merged))
      THEN /\ aborted' = TRUE
           /\ UNCHANGED <<pairs, CurrentSeq, ack, ring, discarded, poolEmpty>>
      ELSE \/ /\ ack' = AckAfter(merged)
              /\ PushDataInQueue(merged)
              /\ UNCHANGED <<aborted, poolEmpty>>
           \/ /\ NeedsMessage(Head(merged))
              /\ aborted' = TRUE /\ poolEmpty' = TRUE
              /\ UNCHANGED <<pairs, CurrentSeq, ack, ring, discarded>>
-----------------------------------------------------------------------------
(* The handlers of the states that data and a FIN go through.              *)

tcp_established(seg) ==
  /\ state = "ESTABLISHED"
  /\ state' = IF seg.fin THEN "FIN_2" ELSE state
  /\ IF seg.len > 0 \/ seg.fin
     THEN need_ack_now' = TRUE /\ PushData(seg)
     ELSE UNCHANGED <<need_ack_now, window>>

tcp_fin2 ==
  /\ state = "FIN_2"
  /\ state' = "CLOSED"
  /\ UNCHANGED <<need_ack_now, window>>

tcp_closed ==
  /\ state = "CLOSED"
  /\ state' = "REMOVED"
  /\ UNCHANGED <<need_ack_now, window>>

(* What the network may hand to tcp_in: a part of the stream sent so far,  *)
(* the FIN if the part reaches the end, or an empty acknowledgement.       *)
Segments ==
  {seg \in [seq : {0}, len : 0 .. MaxLen, fin : BOOLEAN, pos : Positions] :
     /\ seg.pos + seg.len <= sndNxt
     /\ seg.fin => peerClosed /\ seg.pos + seg.len = sndNxt}

(* The segment starts no later than what the socket lacks and brings more  *)
(* of it than the buffer of PushDataInQueue takes.                         *)
Overflows(seg) ==
  seg.pos <= curPos /\ seg.pos + seg.len >= curPos + BufferSize

(* The segment ends CurrentSize or more beyond the first pair that is      *)
(* queued.                                                                 *)
FarBeyond(seg) ==
  pairs # <<>> /\ seg.pos + seg.len >= Head(pairs).pos + CurrentSize

Arrive(seg) ==
  /\ ~aborted
  /\ tcp_established([seg EXCEPT !.seq = SeqNumber(seg.pos)]) \/ tcp_fin2 \/ tcp_closed
  /\ arrived' = IF seg.pos <= arrived /\ arrived < seg.pos + seg.len
                THEN seg.pos + seg.len ELSE arrived
  /\ inOrder' = (inOrder /\ seg.pos <= arrived)
  /\ oversized' = (oversized \/ (state = "ESTABLISHED" /\ Overflows(seg)))
  /\ beyond' = (beyond \/ (state = "ESTABLISHED" /\ FarBeyond(seg)))
  /\ UNCHANGED <<readPos, peer>>

(* check_socket_out_queue finds the tcb's ring empty and need_ack_now set. *)
(* The acknowledgement reaches the peer or is lost.                        *)
SendAckNow ==
  /\ ~aborted /\ state # "REMOVED" /\ need_ack_now
  /\ need_ack_now' = FALSE
  /\ una' \in {una} \union {p \in Positions : p = ackPos /\ p > una}
  /\ UNCHANGED <<state, window, readPos, inOrder, oversized, beyond, arrived,
                 sndNxt, peerClosed>>

(* socket_read_nonblock, and each turn of socket_read.                     *)
SocketRead ==
  /\ ~aborted /\ state # "REMOVED" /\ ring # <<>>
  /\ ring' = Tail(ring)
  /\ readPos' = Head(ring).pos + Head(ring).len
  /\ UNCHANGED <<state, pairs, CurrentSeq, ack, need_ack_now, aborted,
                 discarded, inOrder, oversized, poolEmpty, beyond, arrived,
                 peer>>
-----------------------------------------------------------------------------
(* The peer.                                                               *)

PeerSends ==
  /\ ~peerClosed
  /\ \E len \in 1 .. MaxLen :
       /\ sndNxt + len <= una + PeerWindow
       /\ sndNxt + len <= StreamBound + 1
       /\ sndNxt' = sndNxt + len
  /\ UNCHANGED <<state, window, need_ack_now, readPos, inOrder, oversized,
                 beyond, arrived, peerClosed, una>>

PeerCloses ==
  /\ ~peerClosed
  /\ peerClosed' = TRUE
  /\ UNCHANGED <<state, window, need_ack_now, readPos, inOrder, oversized,
                 beyond, arrived, sndNxt, una>>

Next ==
  \/ \E seg \in Segments : Arrive(seg)
  \/ SendAckNow
  \/ SocketRead
  \/ PeerSends
  \/ PeerCloses

(* The network hands over what is missing next, and the application reads. *)
NextBytesArrive ==
  \E seg \in Segments :
    seg.pos <= arrived /\ arrived < seg.pos + seg.len /\ Arrive(seg)

Spec     == Init /\ [][Next]_vars
FairSpec == Spec /\ WF_vars(NextBytesArrive) /\ WF_vars(SocketRead)
-----------------------------------------------------------------------------
(* The type of every variable.                                             *)
TypeOK ==
  /\ state \in States
  /\ pairs \in Seq(Pair)
  /\ CurrentSeq \in 0 .. SeqSpace - 1 /\ ack \in 0 .. SeqSpace - 1
  /\ need_ack_now \in BOOLEAN
  /\ ring \in Seq([pos : Positions, len : 1 .. MaxLen])
  /\ aborted \in BOOLEAN /\ discarded \in BOOLEAN /\ inOrder \in BOOLEAN
  /\ oversized \in BOOLEAN /\ poolEmpty \in BOOLEAN /\ beyond \in BOOLEAN
  /\ {readPos, sndNxt, arrived, una} \subseteq Positions
  /\ peerClosed \in BOOLEAN

(* The bytes the application reads are the peer's stream: the messages in  *)
(* the ring and the bytes already read follow each other without overlap   *)
(* up to CurrentSeq, without a gap unless the ring was full, and all of    *)
(* them are covered by the acknowledgement that will be sent.              *)
StreamIntegrity ==
  LET end(i) == IF i = 0 THEN readPos ELSE ring[i].pos + ring[i].len
  IN  /\ \A i \in 1 .. Len(ring) :
           /\ end(i - 1) <= ring[i].pos
           /\ discarded \/ end(i - 1) = ring[i].pos
      /\ end(Len(ring)) <= curPos /\ curPos <= ackPos
      /\ discarded \/ end(Len(ring)) = curPos

(* "maximum contiuous data we have received": nothing the peer will drop   *)
(* from its own buffer is still missing here (AdjustPair, line 109).       *)
AckOnlyReceived == ackPos <= arrived + 1 /\ (ackPos = arrived + 1 => peerClosed)

(* The stream reached the end of the number space.  There the number after *)
(* a segment is smaller than CurrentSeq, and PushData drops the segment as *)
(* a duplicate (tcp_windows.c 350), every time it comes.                   *)
AtWrap == Isn + arrived >= SeqSpace

(* As long as no segment overtook a missing one, repeated, cut and         *)
(* overlapping segments never make the stack acknowledge too much, nothing *)
(* stays queued and all that arrived is delivered.  No assert fails and no *)
(* NULL link is followed (tcp_windows.c 75, 102, 151, 163 and 177), with   *)
(* two exceptions that do end the process: a segment with as many new      *)
(* bytes as the buffer or more (171), and an empty message pool (121).     *)
(* All this ends with the number space.                                    *)
InOrderService ==
  inOrder /\ ~AtWrap =>
    /\ AckOnlyReceived
    /\ aborted <=> oversized \/ poolEmpty
    /\ ~aborted /\ state = "ESTABLISHED" => pairs = <<>> /\ curPos = arrived

(* What is queued waits for something that is missing: the queue ascends   *)
(* and starts beyond what was delivered, so no segment makes more than one *)
(* pair ready and the single pass of GetData misses none.                  *)
QueueWaits ==
  /\ \A i, j \in 1 .. Len(pairs) : i < j => pairs[i].seq < pairs[j].seq
  /\ \A i \in 1 .. Len(pairs) : CurrentSeq < pairs[i].seq

(* Of what AdjustPair lets through, in any order and with any overlap, the *)
(* asserts of GetData fail exactly for the segment that brings as many new *)
(* bytes as the buffer holds or more (tcp_windows.c 171): no pair that has *)
(* waited in the queue fails them, and the assert at 163, of which its     *)
(* author says "I don't now if there is any scenrio where i will see       *)
(* this", and those at 151 and 177 always hold.                            *)
GetDataServes ==
  \A seg \in Segments :
    LET s    == [seg EXCEPT !.seq = SeqNumber(seg.pos)]
        list == InsertPair(pairs, s)
    IN  /\ seg.len > 0 \/ seg.fin
        /\ ~OutOfWindow(s) /\ ~Duplicate(s) /\ ~MergeFails(list)
        => (GetDataFails(Head(Merge(list))) <=> Overflows(seg))

(* Nothing is delivered that reaches the end of the number space, and so   *)
(* CurrentSeq, which goes up, never comes to mean an earlier byte.         *)
StopsAtWrap == Isn + curPos < SeqSpace

(* The assert of AdjustPair that two pairs do not start with one number    *)
(* (tcp_windows.c 75) and the NULL it may follow (102) are only reached    *)
(* after a segment ended CurrentSize or more beyond the first queued pair: *)
(* as long as none does, gaps, repetitions and overlaps are harmless.      *)
AbortsNamed == aborted => oversized \/ poolEmpty \/ beyond

(* In whatever order segments come: the queue waits for what is missing,   *)
(* GetData fails on a segment too long for its buffer and on no other, the *)
(* merge fails on nothing but a queue that reaches too far, and delivery   *)
(* stops where the numbers would start again.                              *)
AnyOrderService == QueueWaits /\ GetDataServes /\ AbortsNamed /\ StopsAtWrap

(* A gap is never closed: the first pair of the queue stays queued, since  *)
(* PushData drops the segment that would reach it as "out of receive       *)
(* window size" (tcp_windows.c 346), although it is inside.  Whatever came *)
(* ahead of a missing segment is therefore lost to the application.        *)
FirstPairStays ==
  pairs # <<>> => \E i \in 1 .. Len(pairs') : pairs'[i] = Head(pairs)

GapStaysOpen == [][FirstPairStays]_vars

(* The peer and the reader are the two ends of a byte channel: the reader  *)
(* never goes back, never repeats a byte and never passes what the peer    *)
(* has sent.  What it may skip, StreamIntegrity says.                      *)
Channel == INSTANCE ByteChannel
             WITH Start <- 1, Bound <- StreamBound + 1,
                  written <- sndNxt, delivered <- readPos

ReadsChannel == Channel!Safety

(* Every byte sent is read in the end, and the reader catches up with the  *)
(* peer whenever it is behind, unless the ring was full, a segment         *)
(* overtook another one, the tcb was removed under the application, the    *)
(* process ended on a segment as long as the buffer or on an empty pool,   *)
(* or the stream reached the end of the number space.                      *)
EventuallyRead ==
  readPos < sndNxt ~>
    readPos = sndNxt \/ discarded \/ ~inOrder \/ state = "REMOVED"
      \/ oversized \/ poolEmpty \/ AtWrap
=============================================================================
