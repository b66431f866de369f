----------------------------- MODULE SendWindow -----------------------------
(***************************************************************************)
(* The sending half of one tcb: sendtcpdata, the send window that keeps    *)
(* every data packet until it is acknowledged, and the retransmission      *)
(* timer.  All of it runs on the stack's lcore, one call at a time from    *)
(* the main loop: check_socket_out_queue (a message of the application),   *)
(* tcp_in (an acknowledgement) and DoTimer (one tick per second).          *)
(* The network loses, repeats and reorders; the peer acknowledges what it  *)
(* has received without a gap, as TCP requires.                            *)
(*                                                                         *)
(* Sequence numbers are uint32_t in the code and numbers modulo SeqSpace   *)
(* here.  The history variables sent, finPos, rcvd and the field pos of a  *)
(* pair are positions in the stream, which never wrap.  CurrentSize, a     *)
(* count of the bytes in the window that nothing reads, is left out.       *)
(***************************************************************************)
EXTENDS Integers, Sequences, SequencesExt

CONSTANTS
  SeqSpace,         \* sequence numbers live in 0 .. SeqSpace - 1 (2^32 in C)
  Rto,            \* rto_value: the ticks after which the head is sent again
  MaxLen,         \* BOUND: longest message of socket_send
  StreamBound,    \* BOUND: bytes the application sends in all
  SendAfterClose  \* whether the application sends after socket_close

ASSUME ParametersAssumption ==
  /\ SeqSpace \in Nat \ {0} /\ Rto \in Nat /\ MaxLen \in Nat \ {0}
  /\ StreamBound \in Nat
  /\ SendAfterClose \in BOOLEAN

VARIABLES
  next_seq,     \* ptcb->next_seq
  window,       \* the pairs from SendWindow->Head on
  lastEnd,      \* m_EndSeqNumber of SendWindow->Last, NoLast when NULL
  rto_timer,    \* ptcb->rto_timer, Stopped when the timer is off
  aborted,      \* an assert has failed: the process is gone
  sent,         \* history: stream position of next_seq
  finPos,       \* history: stream position of the FIN, NoFin before close
  segs,         \* segments on their way to the peer
  acks,         \* acknowledgements on their way back
  rcvd          \* the peer has every position below rcvd

core    == <<next_seq, window, lastEnd, rto_timer>>
network == <<segs, acks, rcvd>>
vars    == <<core, aborted, sent, finPos, network>>

InitSeq == 2     \* next_seq after the SYN|ACK, which takes number 1
NoLast  == -1
Stopped == -1
NoFin   == 0

(* Every position the stream may reach, the FIN's and its successor's too. *)
Positions == InitSeq .. InitSeq + StreamBound + 1

SeqNumber(p) == p % SeqSpace

(* A send_seq_pair: the numbers the packet covers and its data length.     *)
Pair == [start : 0 .. SeqSpace - 1, end : 0 .. SeqSpace - 1,
         len : 1 .. MaxLen, pos : Positions]

(* End of the bytes the application asked to be sent before it closed.     *)
DataEnd == IF finPos = NoFin THEN sent ELSE finPos

Init ==
  /\ next_seq = SeqNumber(InitSeq) /\ window = <<>> /\ lastEnd = NoLast
  /\ rto_timer = Stopped /\ aborted = FALSE
  /\ sent = InitSeq /\ finPos = NoFin
  /\ segs = {} /\ acks = {InitSeq} /\ rcvd = InitSeq

-----------------------------------------------------------------------------
(* Sending.                                                                *)

OnWire(pair) == [pos |-> pair.pos, len |-> pair.len]
FinOnWire(p) == [pos |-> p, len |-> 0]

StartTimer(t) == IF t < 0 THEN 0 ELSE t

(* The two asserts of PushDataToSendWindow.                                *)
PushAsserts(seq) ==
  IF window = <<>> THEN lastEnd = NoLast ELSE lastEnd = seq

(* Mutant: Last stays at the first pair that was linked.                   *)
LinkLastOnce(pair) ==
  lastEnd' = IF window = <<>> THEN pair.end ELSE lastEnd

LinkLast(pair) == lastEnd' = pair.end

PushDataToSendWindow(pair) ==
  /\ window' = Append(window, pair)
  /\ LinkLast(pair)
  /\ rto_timer' = StartTimer(rto_timer)

(* sendtcpdata with the flags ACK and a payload of len bytes.              *)
SendData(len) ==
  LET pair == [start |-> next_seq, end |-> (next_seq + len) % SeqSpace,
               len |-> len, pos |-> sent]
  IN  IF PushAsserts(next_seq)
      THEN /\ PushDataToSendWindow(pair)
           /\ next_seq' = pair.end
           /\ sent' = sent + len
           /\ segs' = segs \union {OnWire(pair)}
           /\ UNCHANGED <<aborted, finPos, acks, rcvd>>
      ELSE /\ aborted' = TRUE
           /\ UNCHANGED <<core, sent, finPos, network>>

(* sendtcpdata with the flags ACK|FIN and no payload: the FIN takes a      *)
(* sequence number but never enters the send window.                       *)
SendFin ==
  /\ next_seq' = (next_seq + 1) % SeqSpace
  /\ sent' = sent + 1
  /\ finPos' = sent
  /\ segs' = segs \union {FinOnWire(sent)}
  /\ UNCHANGED <<window, lastEnd, rto_timer, aborted, acks, rcvd>>

(* check_socket_out_queue takes one message off the tcb's ring.            *)
SendDataMsg ==
  /\ ~aborted
  /\ SendAfterClose \/ finPos = NoFin
  /\ \E len \in 1 .. MaxLen :
       /\ (IF finPos = NoFin THEN sent ELSE sent - 1) + len
            <= InitSeq + StreamBound
       /\ SendData(len)

SocketCloseMsg ==
  /\ ~aborted
  /\ finPos = NoFin
  /\ SendFin
-----------------------------------------------------------------------------
(* Acknowledgements.                                                       *)

(* Mutants: a pair is released on an acknowledgement of a part of it, or   *)
(* only on one beyond its end.                                             *)
RetiresPartly(pair, AckValue)   == pair.start < AckValue
RetiresStrictly(pair, AckValue) == pair.end < AckValue

(* The test of the loop that pops pairs off the head.                      *)
Retires(pair, AckValue) == pair.end <= AckValue

(* Mutants: the timer or Last is left as it was.                           *)
TimerLeftOn(rest) == UNCHANGED rto_timer
LastLeft(rest)    == UNCHANGED lastEnd

(* The timer and Last after the loop, `rest' being what the loop left.     *)
TimerAfterAck(rest) == rto_timer' = IF rest = <<>> THEN Stopped ELSE rto_timer
LastAfterAck(rest) == lastEnd' = IF rest = <<>> THEN NoLast ELSE lastEnd

RetirePairs(AckValue) ==
  \E k \in 0 .. Len(window) :
    LET rest == SubSeq(window, k + 1, Len(window))
    IN  /\ \A i \in 1 .. k : Retires(window[i], AckValue)
        /\ k < Len(window) => ~Retires(window[k + 1], AckValue)
        /\ window' = rest
        /\ TimerAfterAck(rest)
        /\ LastAfterAck(rest)
        /\ UNCHANGED <<next_seq, aborted>>

AdjustSendWindow(AckValue) ==
  \/ /\ window = <<>>
     /\ aborted' = (rto_timer # Stopped)
     /\ UNCHANGED core
  \/ /\ window # <<>>
     /\ window[1].start > AckValue
     /\ UNCHANGED <<core, aborted>>
  \/ /\ window # <<>>
     /\ window[1].start <= AckValue
     /\ RetirePairs(AckValue)

(* tcp_in on a packet whose recv_ack names the position p.  The packet may *)
(* come again later.                                                       *)
AckArrives(p) ==
  /\ ~aborted
  /\ p \in acks
  /\ AdjustSendWindow(SeqNumber(p))
  /\ UNCHANGED <<sent, finPos, network>>
-----------------------------------------------------------------------------
(* DoRtoTimer, once per second.                                            *)

(* Mutant: one tick late.                                                  *)
ExpiredLate == rto_timer > Rto

Expired == rto_timer >= Rto

RtoTick ==
  /\ ~Expired
  /\ rto_timer' = rto_timer + 1
  /\ UNCHANGED <<segs, aborted>>

(* Mutant: the timer starts again but nothing is sent.                     *)
RestartWithoutSending ==
  Expired /\ rto_timer' = 0 /\ UNCHANGED <<segs, aborted>>

(* GetFirstUnAckedPacket follows Head without a test of its own.           *)
RetransmitHead ==
  /\ Expired
  /\ IF window = <<>>
     THEN aborted' = TRUE /\ UNCHANGED <<rto_timer, segs>>
     ELSE /\ rto_timer' = 0
          /\ segs' = segs \union {OnWire(window[1])}
          /\ UNCHANGED aborted

DoRtoTimer ==
  /\ ~aborted
  /\ rto_timer >= 0
  /\ RtoTick \/ RetransmitHead
  /\ UNCHANGED <<next_seq, window, lastEnd, sent, finPos, acks, rcvd>>
-----------------------------------------------------------------------------
(* The network and the peer.                                               *)

LoseSegment ==
  /\ \E m \in segs : segs' = segs \ {m}
  /\ UNCHANGED <<core, aborted, sent, finPos, acks, rcvd>>

LoseAck ==
  /\ \E p \in acks : acks' = acks \ {p}
  /\ UNCHANGED <<core, aborted, sent, finPos, segs, rcvd>>

(* A segment at rcvd lets the peer advance: by a part of the segment when  *)
(* its buffer is short, by more when it already holds later segments.      *)
(* Any other segment is acknowledged again with the same number.           *)
PeerTakesData(m) ==
  IF m.pos <= rcvd /\ rcvd < m.pos + m.len /\ rcvd < DataEnd
  THEN rcvd' \in rcvd + 1 .. DataEnd
  ELSE rcvd' = rcvd

PeerTakesFin(m) == rcvd' = IF m.pos = rcvd THEN rcvd + 1 ELSE rcvd

PeerReceives(p) ==
  /\ \E m \in segs :
       /\ m.pos = p
       /\ IF m.len > 0 THEN PeerTakesData(m) ELSE PeerTakesFin(m)
  /\ acks' = acks \union {rcvd'}
  /\ UNCHANGED <<core, aborted, sent, finPos, segs>>
-----------------------------------------------------------------------------
Next ==
  \/ SendDataMsg
  \/ SocketCloseMsg
  \/ \E p \in Positions : AckArrives(p)
  \/ DoRtoTimer
  \/ LoseSegment
  \/ LoseAck
  \/ \E p \in Positions : PeerReceives(p)

(* The main loop calls DoTimer for ever; a segment or an acknowledgement   *)
(* that is sent again and again is not lost every time.                    *)
Fairness ==
  /\ WF_vars(DoRtoTimer)
  /\ \A p \in Positions : SF_vars(PeerReceives(p)) /\ SF_vars(AckArrives(p))

Spec     == Init /\ [][Next]_vars
FairSpec == Spec /\ Fairness
-----------------------------------------------------------------------------
(* The type of every variable.  The timer never passes rto_value, so       *)
(* DoRtoTimer (timer.c) cannot skip an expiry.                             *)
TypeOK ==
  /\ next_seq \in 0 .. SeqSpace - 1
  /\ window \in Seq(Pair)
  /\ lastEnd \in NoLast .. SeqSpace - 1
  /\ rto_timer \in Stopped .. Rto
  /\ aborted \in BOOLEAN
  /\ sent \in Positions /\ finPos \in Positions \union {NoFin}
  /\ segs \subseteq [pos : Positions, len : 0 .. MaxLen]
  /\ acks \subseteq Positions
  /\ rcvd \in Positions

(* The asserts on the send window and on the timer (tcp_windows.c 237, 324 *)
(* and 329) hold and Head is not followed when it is NULL, whatever order  *)
(* sends, acknowledgements and expiries come in.                           *)
NoAbort == ~aborted

(* The timer runs exactly while data is unacknowledged: never a timer      *)
(* without a packet to send again, never a packet without a timer.         *)
TimerIffUnacked == (window # <<>>) <=> (rto_timer # Stopped)

(* The list is well formed: each pair starts where the one before it ends, *)
(* Last is NULL exactly with Head and is the final pair, and (until a FIN  *)
(* takes a number) the next number to be sent is where the list ends.      *)
ListWellFormed ==
  /\ \A i \in 1 .. Len(window) - 1 : window[i].end = window[i + 1].start
  /\ lastEnd = IF window = <<>> THEN NoLast ELSE window[Len(window)].end
  /\ window # <<>> /\ finPos = NoFin => lastEnd = next_seq

(* Head, Last, the timer and the next number agree, and so no assert on    *)
(* them fails, in whatever order sends, acknowledgements, expiries come.   *)
WindowSound == NoAbort /\ TimerIffUnacked /\ ListWellFormed

(* No byte is forgotten: whatever the peer has not received is still in    *)
(* the send window, where the timer can send it again.                     *)
HeldUntilReceived ==
  \A b \in Positions :
    rcvd <= b /\ b < DataEnd =>
      \E i \in 1 .. Len(window) :
        window[i].pos <= b /\ b < window[i].pos + window[i].len

(* The stack, the network and the peer together are a byte channel whose   *)
(* sender holds what was not delivered: what the application sends before  *)
(* it closes reaches the peer, and AdjustSendWindow gives a byte up only   *)
(* after that, the oldest first.                                           *)
DeliveredEnd == IF rcvd > DataEnd THEN DataEnd ELSE rcvd
ReleasedEnd  == IF window = <<>> THEN DataEnd ELSE window[1].pos
Channel == INSTANCE HeldChannel
             WITH Start <- InitSeq, Bound <- InitSeq + StreamBound,
                  written <- DataEnd, delivered <- DeliveredEnd,
                  released <- ReleasedEnd
ImplementsChannel == Channel!HeldSpec

(* Once the application stops, every pair is acknowledged and released.    *)
WindowDrains == <>[](window = <<>>)
=============================================================================
