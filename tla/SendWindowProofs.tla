-------------------------- MODULE SendWindowProofs --------------------------
(***************************************************************************)
(* Proofs about SendWindow for every value of its constants, under two     *)
(* conditions: the connection sends less than one turn of the sequence     *)
(* numbers, since the code compares them as plain numbers, and the         *)
(* application sends nothing after socket_close, which the run             *)
(* SendWindow_lateSend shows to be needed.                                 *)
(***************************************************************************)
EXTENDS SendWindow, SequenceTheorems, TLAPS

NoWrap      == InitSeq + StreamBound + 1 < SeqSpace
StopsAtClose == ~SendAfterClose

(* Without a wrap a number and its stream position are the same.           *)
Numbering ==
  /\ next_seq = sent
  /\ \A i \in 1 .. Len(window) :
       /\ window[i].start = window[i].pos
       /\ window[i].end = window[i].pos + window[i].len

(* The FIN is the last thing sent, and the bytes before it respect the     *)
(* bound on the stream.                                                    *)
FinLast ==
  /\ finPos # NoFin => sent = finPos + 1
  /\ DataEnd <= InitSeq + StreamBound

(* The peer is never ahead of what was sent, an acknowledgement never      *)
(* ahead of the peer, and the only empty segment is the FIN.               *)
PeerBehind ==
  /\ rcvd <= sent
  /\ \A p \in acks : p <= rcvd
  /\ \A m \in segs : m.len = 0 => finPos # NoFin /\ m.pos = finPos

IInv ==
  /\ TypeOK
  /\ NoAbort
  /\ TimerIffUnacked
  /\ ListWellFormed
  /\ HeldUntilReceived
  /\ Numbering
  /\ FinLast
  /\ PeerBehind

(* A number below the modulus is its own residue.                          *)
LEMMA SmallResidue ==
  ASSUME NEW M \in Nat \ {0}, NEW p \in 0 .. M - 1
  PROVE  p % M = p
  OBVIOUS

(* The initial state, an empty window and a stopped timer, satisfies IInv. *)
LEMMA InitIInv ==
  ASSUME NoWrap, Init
  PROVE  IInv
<1>1. SeqNumber(InitSeq) = InitSeq
  BY SmallResidue, ParametersAssumption DEF NoWrap, InitSeq, SeqNumber
<1>2. TypeOK
  <2>1. InitSeq \in Positions /\ InitSeq \in 0 .. SeqSpace - 1
    BY ParametersAssumption DEF NoWrap, InitSeq, Positions
  <2>2. NoLast \in NoLast .. SeqSpace - 1 /\ Stopped \in Stopped .. Rto
    BY ParametersAssumption DEF NoLast, Stopped
  <2>3. <<>> \in Seq(Pair)
    OBVIOUS
  <2>4. QED
    BY <1>1, <2>1, <2>2, <2>3 DEF Init, TypeOK, NoFin
<1>3. NoAbort /\ TimerIffUnacked /\ ListWellFormed
  BY DEF Init, NoAbort, TimerIffUnacked, ListWellFormed, NoLast, Stopped
<1>4. HeldUntilReceived
  BY DEF Init, HeldUntilReceived, DataEnd, Positions, InitSeq
<1>5. Numbering /\ FinLast /\ PeerBehind
  BY <1>1, ParametersAssumption
  DEF Init, Numbering, FinLast, PeerBehind, DataEnd, InitSeq, NoFin
<1>6. QED
  BY <1>2, <1>3, <1>4, <1>5 DEF IInv

(* A message of the application: the new pair goes to the end of the list  *)
(* that already reaches next_seq, so PushDataToSendWindow's asserts hold.  *)
LEMMA SendDataMsgIInv ==
  ASSUME NoWrap, StopsAtClose, IInv, SendDataMsg
  PROVE  IInv'
<1> DEFINE pair(len) == [start |-> next_seq, end |-> next_seq + len,
                         len |-> len, pos |-> sent]
<1>1. finPos = NoFin
  BY DEF SendDataMsg, StopsAtClose
<1>2. PICK len \in 1 .. MaxLen :
        sent + len <= InitSeq + StreamBound /\ SendData(len)
  BY <1>1 DEF SendDataMsg
<1>3. (next_seq + len) % SeqSpace = next_seq + len
  <2>1. next_seq + len \in 0 .. SeqSpace - 1
    BY <1>2, ParametersAssumption DEF IInv, Numbering, TypeOK, NoWrap, InitSeq
  <2>2. QED
    BY <2>1, SmallResidue, ParametersAssumption
<1>4. PushAsserts(next_seq)
  BY <1>1 DEF IInv, ListWellFormed, PushAsserts
<1>5. /\ window' = Append(window, pair(len))
      /\ lastEnd' = next_seq + len
      /\ rto_timer' = StartTimer(rto_timer)
      /\ next_seq' = next_seq + len
      /\ sent' = sent + len
      /\ segs' = segs \union {OnWire(pair(len))}
      /\ UNCHANGED <<aborted, finPos, acks, rcvd>>
  BY <1>2, <1>3, <1>4 DEF SendData, PushDataToSendWindow, LinkLast
<1>6. pair(len) \in Pair /\ next_seq + len \in 0 .. SeqSpace - 1
  BY <1>2, ParametersAssumption
  DEF Pair, IInv, Numbering, TypeOK, NoWrap, InitSeq, Positions
<1>7. /\ window' \in Seq(Pair)
      /\ Len(window') = Len(window) + 1
      /\ \A i \in 1 .. Len(window) : window'[i] = window[i]
      /\ window'[Len(window) + 1] = pair(len)
  BY <1>5, <1>6, AppendProperties DEF IInv, TypeOK
<1>8. Len(window) \in Nat /\ window \in Seq(Pair) /\ window' # <<>>
  BY <1>5, <1>7 DEF IInv, TypeOK
<1>9. TypeOK'
  <2>1. rto_timer' \in Stopped .. Rto
    BY <1>5, ParametersAssumption DEF IInv, TypeOK, StartTimer, Stopped
  <2>2. sent' \in Positions
    BY <1>2, <1>5, ParametersAssumption DEF IInv, TypeOK, Positions, InitSeq
  <2>3. segs' \subseteq [pos : Positions, len : 0 .. MaxLen]
    BY <1>2, <1>5, ParametersAssumption DEF IInv, TypeOK, OnWire
  <2>4. next_seq' \in 0 .. SeqSpace - 1 /\ lastEnd' \in NoLast .. SeqSpace - 1
    BY <1>5, <1>6 DEF NoLast
  <2>5. QED
    BY <1>5, <1>7, <2>1, <2>2, <2>3, <2>4 DEF IInv, TypeOK
<1>10. NoAbort' /\ TimerIffUnacked'
  BY <1>5, <1>8, ParametersAssumption
  DEF IInv, TypeOK, NoAbort, TimerIffUnacked, StartTimer, Stopped
<1>11. ListWellFormed'
  <2>1. ASSUME NEW i \in 1 .. Len(window') - 1
        PROVE  window'[i].end = window'[i + 1].start
    <3>1. CASE i = Len(window)
      <4>1. window[i].end = next_seq
        BY <1>1, <3>1, <2>1, <1>8 DEF IInv, ListWellFormed
      <4>2. QED
        BY <3>1, <4>1, <1>7, <1>8, <2>1
    <3>2. CASE i # Len(window)
      <4>1. i \in 1 .. Len(window) - 1 /\ i + 1 \in 1 .. Len(window)
        BY <3>2, <2>1, <1>7, <1>8
      <4>2. QED
        BY <4>1, <1>7, <1>8 DEF IInv, ListWellFormed
    <3>3. QED
      BY <3>1, <3>2
  <2>2. lastEnd' = window'[Len(window')].end /\ lastEnd' = next_seq'
    BY <1>5, <1>7
  <2>3. QED
    BY <2>1, <2>2, <1>8 DEF ListWellFormed
<1>12. HeldUntilReceived'
  <2>1. DataEnd = sent /\ DataEnd' = sent + len
    BY <1>1, <1>5 DEF DataEnd
  <2>2. ASSUME NEW b \in Positions, rcvd <= b, b < sent + len
        PROVE  \E i \in 1 .. Len(window') :
                 window'[i].pos <= b /\ b < window'[i].pos + window'[i].len
    <3>1. CASE b < sent
      <4>1. PICK i \in 1 .. Len(window) :
              window[i].pos <= b /\ b < window[i].pos + window[i].len
        BY <2>1, <2>2, <3>1 DEF IInv, HeldUntilReceived
      <4>2. window'[i] = window[i] /\ i \in 1 .. Len(window')
        BY <4>1, <1>7, <1>8
      <4>3. QED
        BY <4>1, <4>2
    <3>2. CASE b >= sent
      <4>1. Len(window) + 1 \in 1 .. Len(window')
        BY <1>7, <1>8
      <4>2. QED
        BY <4>1, <3>2, <2>2, <1>7
    <3>3. QED
      BY <3>1, <3>2 DEF IInv, TypeOK, Positions, InitSeq
  <2>3. QED
    BY <2>1, <2>2, <1>5 DEF HeldUntilReceived
<1>13. Numbering'
  BY <1>5, <1>7, <1>8 DEF IInv, Numbering
<1>14. FinLast'
  BY <1>1, <1>2, <1>5 DEF FinLast, DataEnd
<1>15. PeerBehind'
  BY <1>1, <1>2, <1>5 DEF IInv, TypeOK, PeerBehind, OnWire, Positions, InitSeq
<1>16. QED
  BY <1>9, <1>10, <1>11, <1>12, <1>13, <1>14, <1>15 DEF IInv

(* SOCKET_CLOSE: the FIN takes a number and leaves the window alone.       *)
LEMMA SocketCloseIInv ==
  ASSUME NoWrap, IInv, SocketCloseMsg
  PROVE  IInv'
<1>1. /\ finPos = NoFin /\ finPos' = sent /\ sent' = sent + 1
      /\ segs' = segs \union {FinOnWire(sent)}
      /\ UNCHANGED <<window, lastEnd, rto_timer, aborted, acks, rcvd>>
  BY DEF SocketCloseMsg, SendFin
<1>2. sent \in Nat /\ InitSeq <= sent /\ sent <= InitSeq + StreamBound
  BY <1>1 DEF IInv, FinLast, TypeOK, Positions, DataEnd, InitSeq
<1>3. next_seq' = sent + 1 /\ sent + 1 \in 0 .. SeqSpace - 1
  <2>1. sent + 1 \in 0 .. SeqSpace - 1
    BY <1>2, ParametersAssumption DEF NoWrap, InitSeq
  <2>2. QED
    BY <2>1, SmallResidue, ParametersAssumption
    DEF SocketCloseMsg, SendFin, IInv, Numbering
<1>4. finPos' # NoFin /\ DataEnd' = sent /\ DataEnd = sent
  BY <1>1, <1>2 DEF DataEnd, NoFin, InitSeq
<1>5. TypeOK'
  <2>1. sent \in Positions /\ sent + 1 \in Positions /\ 0 \in 0 .. MaxLen
    BY <1>2, ParametersAssumption DEF Positions, InitSeq
  <2>2. FinOnWire(sent) \in [pos : Positions, len : 0 .. MaxLen]
    BY <2>1 DEF FinOnWire
  <2>3. segs' \subseteq [pos : Positions, len : 0 .. MaxLen]
    BY <1>1, <2>2 DEF IInv, TypeOK
  <2>4. /\ window' \in Seq(Pair) /\ lastEnd' \in NoLast .. SeqSpace - 1
        /\ rto_timer' \in Stopped .. Rto /\ aborted' \in BOOLEAN
        /\ acks' \subseteq Positions /\ rcvd' \in Positions
    BY <1>1 DEF IInv, TypeOK
  <2>5. QED
    BY <1>1, <1>3, <2>1, <2>3, <2>4 DEF TypeOK
<1>6. NoAbort' /\ TimerIffUnacked' /\ ListWellFormed'
  BY <1>1, <1>4 DEF IInv, NoAbort, TimerIffUnacked, ListWellFormed
<1>7. HeldUntilReceived'
  BY <1>1, <1>4 DEF IInv, HeldUntilReceived
<1>8. Numbering' /\ FinLast'
  BY <1>1, <1>2, <1>3, <1>4 DEF IInv, Numbering, FinLast
<1>9. PeerBehind'
  BY <1>1, <1>2, <1>4 DEF IInv, TypeOK, PeerBehind, FinOnWire, Positions, InitSeq
<1>10. QED
  BY <1>5, <1>6, <1>7, <1>8, <1>9 DEF IInv

(* What an acknowledgement of the number p leaves of the list.             *)
Rest(p, k) ==
  /\ \A i \in 1 .. k : Retires(window[i], p)
  /\ window' \in Seq(Pair) /\ Len(window') = Len(window) - k
  /\ \A i \in 1 .. Len(window) - k : window'[i] = window[k + i]
  /\ window' = <<>> <=> k = Len(window)

(* The loop of AdjustSendWindow pops the first k pairs, for some k.        *)
LEMMA RestOfWindow ==
  ASSUME IInv, NEW p, window # <<>>, RetirePairs(p)
  PROVE  \E k \in 0 .. Len(window) :
           /\ Rest(p, k)
           /\ rto_timer' = (IF window' = <<>> THEN Stopped ELSE rto_timer)
           /\ lastEnd' = (IF window' = <<>> THEN NoLast ELSE lastEnd)
           /\ UNCHANGED <<next_seq, aborted>>
<1> DEFINE n == Len(window)
           rest(k) == SubSeq(window, k + 1, n)
<1>1. PICK k \in 0 .. n :
        /\ \A i \in 1 .. k : Retires(window[i], p)
        /\ window' = rest(k)
        /\ rto_timer' = (IF rest(k) = <<>> THEN Stopped ELSE rto_timer)
        /\ lastEnd' = (IF rest(k) = <<>> THEN NoLast ELSE lastEnd)
        /\ UNCHANGED <<next_seq, aborted>>
  BY DEF RetirePairs, TimerAfterAck, LastAfterAck
<1>2. n \in Nat /\ window \in Seq(Pair) /\ n # 0
  BY DEF IInv, TypeOK
<1>3. /\ window' \in Seq(Pair)
      /\ Len(window') = n - k
      /\ \A i \in 1 .. n - k : window'[i] = window[k + i]
  <2>1. \A i \in k + 1 .. n : window[i] \in Pair
    BY <1>2
  <2>2. /\ rest(k) \in Seq(Pair)
        /\ Len(rest(k)) = IF k + 1 <= n THEN n - (k + 1) + 1 ELSE 0
        /\ \A i \in 1 .. n - (k + 1) + 1 : rest(k)[i] = window[k + 1 + i - 1]
    BY <2>1, <1>2, SubSeqProperties
  <2>3. \A i \in 1 .. n - k : k + 1 + i - 1 = k + i
    BY <1>2
  <2>4. QED
    BY <1>1, <1>2, <2>2, <2>3
<1>4. window' = <<>> <=> k = n
  <2>1. Len(window') = 0 <=> k = n
    BY <1>2, <1>3
  <2>2. window' = <<>> <=> Len(window') = 0
    BY <1>3, EmptySeq
  <2>3. QED
    BY <2>1, <2>2
<1>5. QED
  BY <1>1, <1>3, <1>4 DEF Rest

(* An acknowledgement pops the pairs that end at or below it: the peer has *)
(* all their bytes, so what it lacks stays; an empty list stops the timer. *)
LEMMA AckArrivesIInv ==
  ASSUME NoWrap, IInv, NEW p \in Positions, AckArrives(p)
  PROVE  IInv'
<1>1. SeqNumber(p) = p
  BY SmallResidue, ParametersAssumption
  DEF SeqNumber, Positions, NoWrap, InitSeq
<1>2. p <= rcvd /\ UNCHANGED <<sent, finPos, segs, acks, rcvd>>
  BY DEF AckArrives, network, IInv, PeerBehind
<1>3. CASE UNCHANGED <<next_seq, window, lastEnd, rto_timer>> /\ aborted' = FALSE
  <2>1. TypeOK'
    BY <1>2, <1>3 DEF IInv, TypeOK
  <2>2. NoAbort' /\ TimerIffUnacked' /\ ListWellFormed'
    BY <1>2, <1>3 DEF IInv, NoAbort, TimerIffUnacked, ListWellFormed
  <2>3. HeldUntilReceived' /\ Numbering' /\ FinLast' /\ PeerBehind'
    BY <1>2, <1>3
    DEF IInv, HeldUntilReceived, Numbering, FinLast, PeerBehind, DataEnd
  <2>4. QED
    BY <2>1, <2>2, <2>3 DEF IInv
<1>4. CASE window # <<>> /\ RetirePairs(p)
  <2> DEFINE n == Len(window)
  <2>1. PICK k \in 0 .. n :
          /\ \A i \in 1 .. k : Retires(window[i], p)
          /\ window' \in Seq(Pair) /\ Len(window') = n - k
          /\ \A i \in 1 .. n - k : window'[i] = window[k + i]
          /\ window' = <<>> <=> k = n
          /\ rto_timer' = (IF window' = <<>> THEN Stopped ELSE rto_timer)
          /\ lastEnd' = (IF window' = <<>> THEN NoLast ELSE lastEnd)
          /\ UNCHANGED <<next_seq, aborted>>
    BY <1>4, RestOfWindow DEF Rest
  <2>2. n \in Nat /\ window \in Seq(Pair) /\ n # 0
    BY <1>4 DEF IInv, TypeOK
  <2>3. /\ window' \in Seq(Pair)
        /\ Len(window') = n - k
        /\ \A i \in 1 .. n - k : window'[i] = window[k + i]
    BY <2>1
  <2>4. window' = <<>> <=> k = n
    BY <2>1
  <2>5. TypeOK'
    BY <1>2, <2>1, <2>3, ParametersAssumption
    DEF IInv, TypeOK, Stopped, NoLast
  <2>6. NoAbort' /\ TimerIffUnacked'
    BY <1>4, <2>1 DEF IInv, NoAbort, TimerIffUnacked
  <2>7. ListWellFormed'
    <3>1. ASSUME NEW i \in 1 .. Len(window') - 1
          PROVE  window'[i].end = window'[i + 1].start
      <4>1. /\ window'[i] = window[k + i]
            /\ window'[i + 1] = window[k + i + 1]
            /\ k + i \in 1 .. n - 1
        BY <2>2, <2>3
      <4>2. QED
        BY <4>1 DEF IInv, ListWellFormed
    <3>2. lastEnd' = IF window' = <<>> THEN NoLast
                                       ELSE window'[Len(window')].end
      <4>1. CASE k = n
        BY <4>1, <2>1, <2>4
      <4>2. CASE k # n
        <5>1. window' # <<>> /\ n - k \in 1 .. n - k /\ k + (n - k) = n
          BY <4>2, <2>2, <2>4
        <5>2. window'[Len(window')] = window[n]
          BY <5>1, <2>3
        <5>3. lastEnd' = window[n].end
          BY <5>1, <1>4, <2>1 DEF IInv, ListWellFormed
        <5>4. QED
          BY <5>1, <5>2, <5>3
      <4>3. QED
        BY <4>1, <4>2
    <3>3. window' # <<>> /\ finPos' = NoFin => lastEnd' = next_seq'
      BY <1>2, <1>4, <2>1 DEF IInv, ListWellFormed
    <3>4. QED
      BY <3>1, <3>2, <3>3 DEF ListWellFormed
  <2>8. HeldUntilReceived'
    <3>1. ASSUME NEW b \in Positions, rcvd <= b, b < DataEnd
          PROVE  \E i \in 1 .. Len(window') :
                   window'[i].pos <= b /\ b < window'[i].pos + window'[i].len
      <4>1. PICK i \in 1 .. n :
              window[i].pos <= b /\ b < window[i].pos + window[i].len
        BY <3>1 DEF IInv, HeldUntilReceived
      <4>2. window[i].end = window[i].pos + window[i].len
        BY DEF IInv, Numbering
      <4>3. window[i].end \in Nat /\ p \in Nat /\ b \in Nat /\ rcvd \in Nat
        <5>1. window[i] \in Pair
          BY <2>2
        <5>2. window[i].end \in Nat
          BY <5>1, ParametersAssumption DEF Pair
        <5>3. QED
          BY <5>2, <3>1 DEF IInv, TypeOK, Positions, InitSeq
      <4>4. ~Retires(window[i], p)
        BY <1>2, <3>1, <4>1, <4>2, <4>3 DEF Retires
      <4>5. i > k
        BY <2>1, <2>2, <4>4
      <4>6. i - k \in 1 .. Len(window') /\ window'[i - k] = window[i]
        BY <2>2, <2>3, <4>5
      <4>7. QED
        BY <4>1, <4>6
    <3>2. QED
      BY <3>1, <1>2 DEF HeldUntilReceived, DataEnd
  <2>9. Numbering'
    <3>1. ASSUME NEW i \in 1 .. Len(window')
          PROVE  window'[i] = window[k + i] /\ k + i \in 1 .. n
      BY <2>2, <2>3
    <3>2. QED
      BY <1>2, <2>1, <3>1 DEF IInv, Numbering
  <2>10. FinLast' /\ PeerBehind'
    BY <1>2 DEF IInv, FinLast, PeerBehind, DataEnd
  <2>11. QED
    BY <2>5, <2>6, <2>7, <2>8, <2>9, <2>10 DEF IInv
<1>5. \/ UNCHANGED <<next_seq, window, lastEnd, rto_timer>> /\ aborted' = FALSE
      \/ window # <<>> /\ RetirePairs(p)
  BY <1>1
  DEF AckArrives, AdjustSendWindow, core, IInv, TypeOK, NoAbort, TimerIffUnacked
<1>6. QED
  BY <1>3, <1>4, <1>5

(* A tick counts up to rto_value, then the head goes out again; there is a *)
(* head to send because the timer only runs with a non-empty window.       *)
LEMMA DoRtoTimerIInv ==
  ASSUME NoWrap, IInv, DoRtoTimer
  PROVE  IInv'
<1>1. UNCHANGED <<next_seq, window, lastEnd, sent, finPos, acks, rcvd>>
  BY DEF DoRtoTimer
<1>2. window # <<>> /\ rto_timer \in 0 .. Rto
  BY DEF DoRtoTimer, IInv, TimerIffUnacked, TypeOK, Stopped
<1>3. aborted' = FALSE /\ rto_timer' \in 0 .. Rto
  BY <1>2, ParametersAssumption
  DEF DoRtoTimer, RtoTick, RetransmitHead, Expired, IInv, NoAbort, TypeOK
<1>4. segs' = segs \/ segs' = segs \union {OnWire(window[1])}
  BY <1>2 DEF DoRtoTimer, RtoTick, RetransmitHead
<1>5. OnWire(window[1]) \in [pos : Positions, len : 1 .. MaxLen]
  <2>1. window[1] \in Pair
    BY <1>2 DEF IInv, TypeOK
  <2>2. QED
    BY <2>1 DEF OnWire, Pair
<1>6. TypeOK'
  <2>1. rto_timer' \in Stopped .. Rto
    BY <1>3, ParametersAssumption DEF Stopped
  <2>2. segs' \subseteq [pos : Positions, len : 0 .. MaxLen]
    <3>1. OnWire(window[1]) \in [pos : Positions, len : 0 .. MaxLen]
      BY <1>5, ParametersAssumption
    <3>2. QED
      BY <1>4, <3>1 DEF IInv, TypeOK
  <2>3. QED
    BY <1>1, <1>3, <2>1, <2>2 DEF IInv, TypeOK
<1>7. NoAbort' /\ TimerIffUnacked' /\ ListWellFormed'
  BY <1>1, <1>2, <1>3
  DEF IInv, NoAbort, TimerIffUnacked, ListWellFormed, Stopped
<1>8. HeldUntilReceived' /\ Numbering' /\ FinLast'
  BY <1>1 DEF IInv, HeldUntilReceived, Numbering, FinLast, DataEnd
<1>9. PeerBehind'
  BY <1>1, <1>4, <1>5 DEF IInv, PeerBehind
<1>10. QED
  BY <1>6, <1>7, <1>8, <1>9 DEF IInv

(* What the network loses is never the only copy the invariant counts on.  *)
LEMMA LossIInv ==
  ASSUME IInv, LoseSegment \/ LoseAck
  PROVE  IInv'
<1>1. /\ UNCHANGED <<next_seq, window, lastEnd, rto_timer>>
      /\ UNCHANGED <<aborted, sent, finPos, rcvd>>
      /\ segs' \subseteq segs /\ acks' \subseteq acks
  BY DEF LoseSegment, LoseAck, core
<1>2. TypeOK'
  BY <1>1 DEF IInv, TypeOK
<1>3. NoAbort' /\ TimerIffUnacked' /\ ListWellFormed'
  BY <1>1 DEF IInv, NoAbort, TimerIffUnacked, ListWellFormed
<1>4. HeldUntilReceived' /\ Numbering' /\ FinLast'
  BY <1>1 DEF IInv, HeldUntilReceived, Numbering, FinLast, DataEnd
<1>5. PeerBehind'
  BY <1>1 DEF IInv, PeerBehind
<1>6. QED
  BY <1>2, <1>3, <1>4, <1>5 DEF IInv

(* The peer only ever advances, and never past what was sent.              *)
LEMMA PeerReceivesIInv ==
  ASSUME NoWrap, IInv, NEW p \in Positions, PeerReceives(p)
  PROVE  IInv'
<1>1. /\ UNCHANGED <<next_seq, window, lastEnd, rto_timer>>
      /\ UNCHANGED <<aborted, sent, finPos, segs>>
      /\ acks' = acks \union {rcvd'}
  BY DEF PeerReceives, core
<1>2. sent \in Nat /\ rcvd \in Nat /\ DataEnd \in Nat /\ DataEnd <= sent
  BY DEF IInv, TypeOK, FinLast, DataEnd, Positions, InitSeq, NoFin
<1>3. rcvd' \in Nat /\ rcvd <= rcvd' /\ rcvd' <= sent
  <2>1. PICK m \in segs :
          IF m.len > 0 THEN PeerTakesData(m) ELSE PeerTakesFin(m)
    BY DEF PeerReceives
  <2>2. CASE m.len > 0
    BY <2>1, <2>2, <1>2 DEF PeerTakesData, IInv, PeerBehind
  <2>3. CASE ~(m.len > 0)
    <3>1. m.len = 0
      BY <2>3 DEF IInv, TypeOK
    <3>2. m.pos + 1 = sent
      BY <3>1 DEF IInv, PeerBehind, FinLast
    <3>3. QED
      BY <2>1, <2>3, <3>2, <1>2 DEF PeerTakesFin, IInv, PeerBehind
  <2>4. QED
    BY <2>2, <2>3
<1>4. TypeOK'
  <2>1. rcvd' \in Positions
    BY <1>2, <1>3, ParametersAssumption DEF IInv, TypeOK, Positions, InitSeq
  <2>2. acks' \subseteq Positions
    BY <1>1, <2>1 DEF IInv, TypeOK
  <2>3. QED
    BY <1>1, <2>1, <2>2 DEF IInv, TypeOK
<1>5. NoAbort' /\ TimerIffUnacked' /\ ListWellFormed'
  BY <1>1 DEF IInv, NoAbort, TimerIffUnacked, ListWellFormed
<1>6. HeldUntilReceived'
  BY <1>1, <1>2, <1>3
  DEF IInv, HeldUntilReceived, DataEnd, Positions, InitSeq
<1>7. Numbering' /\ FinLast'
  BY <1>1 DEF IInv, Numbering, FinLast, DataEnd
<1>8. PeerBehind'
  <2>1. \A q \in acks' : q <= rcvd'
    BY <1>1, <1>2, <1>3 DEF IInv, TypeOK, PeerBehind, Positions, InitSeq
  <2>2. QED
    BY <1>1, <1>3, <2>1 DEF IInv, PeerBehind
<1>9. QED
  BY <1>4, <1>5, <1>6, <1>7, <1>8 DEF IInv

(* Every step preserves the invariant.                                     *)
LEMMA NextIInv ==
  ASSUME NoWrap, StopsAtClose, IInv, [Next]_vars
  PROVE  IInv'
<1>1. CASE UNCHANGED vars
  BY <1>1
  DEF vars, core, network, IInv, TypeOK, NoAbort, TimerIffUnacked,
      ListWellFormed, HeldUntilReceived, Numbering, FinLast, PeerBehind, DataEnd
<1>2. QED
  BY <1>1, SendDataMsgIInv, SocketCloseIInv, AckArrivesIInv, DoRtoTimerIInv,
     LossIInv, PeerReceivesIInv
  DEF Next

(* The inductive invariant holds in every behaviour of the send window.    *)
THEOREM InductiveInvariant ==
  ASSUME NoWrap, StopsAtClose
  PROVE  Spec => []IInv
<1>1. Init => IInv
  BY InitIInv
<1>2. IInv /\ [Next]_vars => IInv'
  BY NextIInv
<1>3. QED
  BY <1>1, <1>2, PTL DEF Spec

(* Every variable keeps its type; in particular the retransmission timer   *)
(* never passes rto_value.                                                 *)
THEOREM TypeCorrect ==
  ASSUME NoWrap, StopsAtClose
  PROVE  Spec => []TypeOK
<1>1. IInv => TypeOK
  BY DEF IInv
<1>2. QED
  BY <1>1, InductiveInvariant, PTL

(* No assert of tcp_windows.c fails and the timer never follows a NULL     *)
(* Head, in whatever order sends, acknowledgements and expiries come: the  *)
(* timer runs exactly while data is unacknowledged, the pairs stay         *)
(* contiguous up to the next number, and Last is NULL exactly with Head.   *)
THEOREM WindowStaysSound ==
  ASSUME NoWrap, StopsAtClose
  PROVE  Spec => []WindowSound
<1>1. IInv => WindowSound
  BY DEF IInv, WindowSound
<1>2. QED
  BY <1>1, InductiveInvariant, PTL

(* No byte leaves the send window before the peer has received it.         *)
THEOREM NothingForgotten ==
  ASSUME NoWrap, StopsAtClose
  PROVE  Spec => []HeldUntilReceived
<1>1. IInv => HeldUntilReceived
  BY DEF IInv
<1>2. QED
  BY <1>1, InductiveInvariant, PTL

-----------------------------------------------------------------------------
(* The pairs lie in the stream one after the other, none beyond its end.   *)
PairsInStream ==
  \A i \in 1 .. Len(window) :
    /\ window[i].pos + window[i].len <= DataEnd
    /\ \A j \in 1 .. i - 1 : window[j].pos + window[j].len <= window[i].pos

(* The positions of a pair are numbers, and where it ends the next begins. *)
LEMMA PairPositions ==
  ASSUME IInv, NEW i \in 1 .. Len(window)
  PROVE  /\ window[i].pos \in Nat /\ window[i].len \in Nat \ {0}
         /\ window[i].end = window[i].pos + window[i].len
         /\ i # Len(window) =>
              window[i + 1].pos = window[i].pos + window[i].len
<1>1. window[i] \in Pair /\ Len(window) \in Nat
  BY DEF IInv, TypeOK
<1>2. window[i].pos \in Nat /\ window[i].len \in Nat \ {0}
  BY <1>1, ParametersAssumption DEF Pair, Positions, InitSeq
<1>3. window[i].end = window[i].pos + window[i].len
  BY DEF IInv, Numbering
<1>4. ASSUME i # Len(window)
      PROVE  window[i + 1].pos = window[i].end
  <2>1. i \in 1 .. Len(window) - 1 /\ i + 1 \in 1 .. Len(window)
    BY <1>1, <1>4
  <2>2. QED
    BY <2>1 DEF IInv, ListWellFormed, Numbering
<1>5. QED
  BY <1>2, <1>3, <1>4

(* A data message links its pair where the stream ended, or aborts.        *)
LEMMA SendAppends ==
  ASSUME StopsAtClose, IInv, SendDataMsg
  PROVE  \/ UNCHANGED <<window, DataEnd, DeliveredEnd>>
         \/ \E len \in 1 .. MaxLen, pair \in Pair :
              /\ window' = Append(window, pair)
              /\ pair.pos = DataEnd /\ pair.len = len
              /\ DataEnd' = DataEnd + len /\ rcvd' = rcvd
              /\ DataEnd' <= InitSeq + StreamBound
<1>1. finPos = NoFin /\ DataEnd = sent
  BY DEF SendDataMsg, StopsAtClose, DataEnd
<1>2. PICK len \in 1 .. MaxLen :
        sent + len <= InitSeq + StreamBound /\ SendData(len)
  BY <1>1 DEF SendDataMsg
<1> DEFINE pair == [start |-> next_seq, end |-> (next_seq + len) % SeqSpace,
                    len |-> len, pos |-> sent]
<1>3. CASE PushAsserts(next_seq)
  <2>1. /\ window' = Append(window, pair)
        /\ sent' = sent + len /\ UNCHANGED <<finPos, rcvd>>
    BY <1>2, <1>3 DEF SendData, PushDataToSendWindow
  <2>2. DataEnd' = DataEnd + len
    BY <1>1, <2>1 DEF DataEnd
  <2>3. pair \in Pair
    <3>1. (next_seq + len) % SeqSpace \in 0 .. SeqSpace - 1
      BY <1>2, ParametersAssumption DEF IInv, TypeOK
    <3>2. QED
      BY <3>1 DEF Pair, IInv, TypeOK
  <2>4. pair.pos = sent /\ pair.len = len
    OBVIOUS
  <2> HIDE DEF pair
  <2>5. QED
    BY <1>1, <1>2, <2>1, <2>2, <2>3, <2>4
<1>4. CASE ~PushAsserts(next_seq)
  BY <1>2, <1>4 DEF SendData, core, network, DataEnd, DeliveredEnd
<1>5. QED
  BY <1>3, <1>4

(* The other steps but an acknowledgement leave the list where it is.      *)
LEMMA WindowAndEnd ==
  ASSUME IInv, [Next]_vars,
         ~SendDataMsg, ~ \E p \in Positions : AckArrives(p)
  PROVE  UNCHANGED <<window, DataEnd>>
<1>1. CASE SocketCloseMsg
  <2>1. finPos = NoFin /\ finPos' = sent /\ UNCHANGED window
    BY <1>1 DEF SocketCloseMsg, SendFin
  <2>2. finPos' # NoFin
    BY <2>1 DEF IInv, TypeOK, Positions, InitSeq, NoFin
  <2>3. QED
    BY <2>1, <2>2 DEF DataEnd
<1>2. CASE UNCHANGED <<window, sent, finPos>>
  BY <1>2 DEF DataEnd
<1>3. SocketCloseMsg \/ UNCHANGED <<window, sent, finPos>>
  BY DEF Next, vars, core, DoRtoTimer, LoseSegment, LoseAck, PeerReceives
<1>4. QED
  BY <1>1, <1>2, <1>3

(* An acknowledgement names a position the peer has passed; either it pops *)
(* pairs or it leaves the list alone.                                      *)
LEMMA AckPops ==
  ASSUME NoWrap, IInv, NEW p \in Positions, AckArrives(p)
  PROVE  /\ p <= rcvd /\ UNCHANGED <<sent, finPos, rcvd, DataEnd>>
         /\ \/ UNCHANGED window
            \/ \E k \in 0 .. Len(window) : Rest(p, k)
<1>1. SeqNumber(p) = p
  BY SmallResidue, ParametersAssumption
  DEF SeqNumber, Positions, NoWrap, InitSeq
<1>2. p <= rcvd /\ UNCHANGED <<sent, finPos, rcvd>>
  BY DEF AckArrives, network, IInv, PeerBehind
<1>3. UNCHANGED window \/ (window # <<>> /\ RetirePairs(p))
  BY <1>1 DEF AckArrives, AdjustSendWindow, core
<1>4. QED
  BY <1>2, <1>3, RestOfWindow DEF DataEnd

(* The initial list is empty, and every step keeps the pairs in order.     *)
LEMMA PairsInStreamStep ==
  ASSUME NoWrap, StopsAtClose, IInv, PairsInStream, [Next]_vars
  PROVE  PairsInStream'
<1>1. CASE UNCHANGED <<window, DataEnd>>
  BY <1>1 DEF PairsInStream
<1>2. CASE SendDataMsg /\ ~UNCHANGED <<window, DataEnd>>
  <2>1. PICK len \in 1 .. MaxLen, pair \in Pair :
          /\ window' = Append(window, pair)
          /\ pair.pos = DataEnd /\ pair.len = len
          /\ DataEnd' = DataEnd + len
    BY <1>2, SendAppends
  <2>2. /\ Len(window) \in Nat /\ DataEnd \in Nat
        /\ Len(window') = Len(window) + 1
        /\ \A i \in 1 .. Len(window) : window'[i] = window[i]
        /\ window'[Len(window) + 1] = pair
    <3>1. DataEnd \in Nat
      BY DEF IInv, TypeOK, DataEnd, Positions, InitSeq, NoFin
    <3>2. window \in Seq(Pair) /\ Len(window) \in Nat
      BY DEF IInv, TypeOK
    <3>3. QED
      BY <2>1, <3>1, <3>2, AppendProperties
  <2>3. ASSUME NEW i \in 1 .. Len(window)
        PROVE  /\ window[i].pos + window[i].len <= DataEnd
               /\ window[i].pos + window[i].len <= DataEnd'
    <3>1. window[i].pos \in Nat /\ window[i].len \in Nat
      BY PairPositions
    <3>2. window[i].pos + window[i].len <= DataEnd
      BY DEF PairsInStream
    <3>3. QED
      BY <2>1, <2>2, <3>1, <3>2
  <2>4. ASSUME NEW i \in 1 .. Len(window')
        PROVE  /\ window'[i].pos + window'[i].len <= DataEnd'
               /\ \A j \in 1 .. i - 1 :
                    window'[j].pos + window'[j].len <= window'[i].pos
    <3>1. CASE i \in 1 .. Len(window)
      <4>1. \A j \in 1 .. i - 1 : j \in 1 .. Len(window)
        BY <3>1, <2>2
      <4>2. QED
        BY <3>1, <4>1, <2>2, <2>3 DEF PairsInStream
    <3>2. CASE i = Len(window) + 1
      <4>1. \A j \in 1 .. i - 1 : j \in 1 .. Len(window)
        BY <3>2, <2>2
      <4>2. QED
        BY <3>2, <4>1, <2>1, <2>2, <2>3
    <3>3. QED
      BY <2>2, <3>1, <3>2
  <2>5. QED
    BY <2>4 DEF PairsInStream
<1>3. CASE \E p \in Positions : AckArrives(p) /\ ~UNCHANGED window
  <2>1. PICK p \in Positions : AckArrives(p) /\ ~UNCHANGED window
    BY <1>3
  <2>2. UNCHANGED DataEnd /\ \E k \in 0 .. Len(window) : Rest(p, k)
    BY <2>1, AckPops
  <2>3. PICK k \in 0 .. Len(window) : Rest(p, k)
    BY <2>2
  <2>4. Len(window) \in Nat
    BY DEF IInv, TypeOK
  <2>5. ASSUME NEW i \in 1 .. Len(window')
        PROVE  /\ window'[i] = window[k + i] /\ k + i \in 1 .. Len(window)
               /\ \A j \in 1 .. i - 1 : /\ window'[j] = window[k + j]
                                        /\ k + j \in 1 .. k + i - 1
    BY <2>3, <2>4 DEF Rest
  <2>6. ASSUME NEW i \in 1 .. Len(window')
        PROVE  /\ window'[i].pos + window'[i].len <= DataEnd
               /\ \A j \in 1 .. i - 1 :
                    window'[j].pos + window'[j].len <= window'[i].pos
    <3>1. /\ window[k + i].pos + window[k + i].len <= DataEnd
          /\ \A j \in 1 .. k + i - 1 :
               window[j].pos + window[j].len <= window[k + i].pos
      BY <2>5 DEF PairsInStream
    <3>2. QED
      BY <2>5, <3>1
  <2>7. QED
    BY <2>2, <2>6 DEF PairsInStream
<1>4. CASE \E p \in Positions : AckArrives(p) /\ UNCHANGED window
  <2>1. UNCHANGED DataEnd
    BY <1>4, AckPops
  <2>2. QED
    BY <1>1, <1>4, <2>1
<1>5. QED
  BY <1>1, <1>2, <1>3, <1>4, WindowAndEnd

(* So the pairs lie in order in every behaviour.                           *)
LEMMA PairsStayInStream ==
  ASSUME NoWrap, StopsAtClose
  PROVE  Spec => []PairsInStream
<1>1. Init => PairsInStream
  BY DEF Init, PairsInStream
<1>2. IInv /\ PairsInStream /\ [Next]_vars => PairsInStream'
  BY PairsInStreamStep
<1>3. QED
  BY <1>1, <1>2, InductiveInvariant, PTL DEF Spec

(* An acknowledgement gives up whole pairs from the head of the list, and  *)
(* the peer has every byte of theirs.                                      *)
LEMMA AckReleases ==
  ASSUME NoWrap, IInv, IInv', PairsInStream,
         NEW p \in Positions, AckArrives(p)
  PROVE  \/ Channel!Release
         \/ UNCHANGED <<DataEnd, DeliveredEnd, ReleasedEnd>>
<1>1. /\ UNCHANGED <<DataEnd, DeliveredEnd, rcvd>>
      /\ p <= rcvd /\ p \in Nat /\ rcvd \in Nat /\ DataEnd \in Nat
  <2>1. UNCHANGED <<DataEnd, rcvd>> /\ p <= rcvd
    BY AckPops
  <2>2. UNCHANGED DeliveredEnd
    BY <2>1 DEF DeliveredEnd
  <2>3. p \in Nat /\ rcvd \in Nat
    BY DEF IInv, TypeOK, Positions, InitSeq
  <2>4. DataEnd \in Nat
    BY DEF DataEnd, IInv, TypeOK, Positions, InitSeq, NoFin
  <2>5. QED
    BY <2>1, <2>2, <2>3, <2>4
<1>2. Len(window) \in Nat /\ window \in Seq(Pair)
  BY DEF IInv, TypeOK
<1>3. CASE UNCHANGED window
  BY <1>1, <1>3 DEF ReleasedEnd
<1>4. CASE \E k \in 0 .. Len(window) : Rest(p, k)
  <2>1. PICK k \in 0 .. Len(window) : Rest(p, k)
    BY <1>4
  <2>2. CASE k = 0
    <3>1. window' = window
      BY <1>2, <2>1, <2>2 DEF Rest
    <3>2. QED
      BY <1>3, <3>1
  <2>3. CASE k \in 1 .. Len(window)
    <3>1. 1 \in 1 .. Len(window) /\ window # <<>>
      BY <1>2, <2>3
    <3>2. /\ ReleasedEnd = window[1].pos /\ window[1].pos \in Nat
          /\ window[1].len \in Nat \ {0}
      BY <3>1, PairPositions DEF ReleasedEnd
    <3>3. window[k].pos + window[k].len <= rcvd
      <4>1. /\ window[k].end <= p /\ window[k].end \in Nat
            /\ window[k].end = window[k].pos + window[k].len
        BY <2>1, <2>3, PairPositions DEF Rest, Retires
      <4>2. QED
        BY <1>1, <4>1
    <3>4. ReleasedEnd' \in Nat /\ ReleasedEnd < ReleasedEnd'
      <4>1. CASE k = Len(window)
        <5>1. ReleasedEnd' = DataEnd
          BY <1>1, <2>1, <4>1 DEF Rest, ReleasedEnd
        <5>2. window[1].pos + window[1].len <= DataEnd
          BY <3>1 DEF PairsInStream
        <5>3. QED
          BY <1>1, <3>2, <5>1, <5>2
      <4>2. CASE k # Len(window)
        <5>1. k + 1 \in 1 .. Len(window) /\ 1 \in 1 .. (k + 1) - 1
          BY <1>2, <2>3, <4>2
        <5>2. ReleasedEnd' = window[k + 1].pos
          BY <1>2, <2>1, <2>3, <4>2 DEF Rest, ReleasedEnd
        <5>3. window[1].pos + window[1].len <= window[k + 1].pos
          BY <5>1 DEF PairsInStream
        <5>4. window[k + 1].pos \in Nat
          BY <5>1, PairPositions
        <5>5. QED
          BY <3>2, <5>2, <5>3, <5>4
      <4>3. QED
        BY <4>1, <4>2
    <3>5. ReleasedEnd' <= rcvd /\ ReleasedEnd' <= DataEnd
      <4>1. CASE k = Len(window)
        <5>1. ReleasedEnd' = DataEnd /\ window' = <<>>
          BY <1>1, <2>1, <4>1 DEF Rest, ReleasedEnd
        <5>2. DataEnd <= rcvd
          <6>1. HeldUntilReceived' /\ Len(window') = 0
            BY <5>1 DEF IInv
          <6>2. rcvd \in Positions
            BY DEF IInv, TypeOK
          <6>3. ~(rcvd < DataEnd)
            BY <1>1, <6>1, <6>2 DEF HeldUntilReceived
          <6>4. QED
            BY <1>1, <6>3
        <5>3. QED
          BY <1>1, <5>1, <5>2
      <4>2. CASE k # Len(window)
        <5>1. k + 1 \in 1 .. Len(window)
          BY <1>2, <2>3, <4>2
        <5>2. ReleasedEnd' = window[k + 1].pos
          BY <1>2, <2>1, <2>3, <4>2 DEF Rest, ReleasedEnd
        <5>3. window[k + 1].pos = window[k].pos + window[k].len
          BY <2>3, <4>2, PairPositions
        <5>4. /\ window[k].pos \in Nat /\ window[k].len \in Nat
              /\ window[k].pos + window[k].len <= DataEnd
          BY <2>3, PairPositions DEF PairsInStream
        <5>5. QED
          BY <3>3, <5>2, <5>3, <5>4
      <4>3. QED
        BY <4>1, <4>2
    <3>6. ReleasedEnd' \in ReleasedEnd + 1 .. DeliveredEnd
      BY <1>1, <3>2, <3>4, <3>5 DEF DeliveredEnd
    <3>7. QED
      BY <1>1, <3>6 DEF Channel!Release, Channel!vars
  <2>4. QED
    BY <1>2, <2>2, <2>3
<1>5. QED
  BY <1>3, <1>4, AckPops

(* What a step does to the ends of the stream: the application writes, the *)
(* peer takes what was written, an acknowledgement gives up what the peer  *)
(* has, or nothing changes.                                                *)
LEMMA StepOfChannel ==
  ASSUME NoWrap, StopsAtClose, IInv, IInv', PairsInStream, [Next]_vars
  PROVE  \/ Channel!HeldWrite
         \/ Channel!HeldDeliver
         \/ Channel!Release
         \/ UNCHANGED <<DataEnd, DeliveredEnd, ReleasedEnd>>
<1>1. /\ sent \in Nat /\ rcvd \in Nat /\ rcvd <= sent
      /\ (finPos = NoFin \/ finPos + 1 = sent) /\ finPos \in Nat
      /\ DataEnd <= InitSeq + StreamBound /\ StreamBound \in Nat
  BY ParametersAssumption
  DEF IInv, TypeOK, PeerBehind, FinLast, Positions, InitSeq, NoFin
<1>2. CASE SendDataMsg
  <2>1. CASE UNCHANGED <<window, DataEnd, DeliveredEnd>>
    BY <2>1 DEF ReleasedEnd
  <2>2. CASE ~UNCHANGED <<window, DataEnd, DeliveredEnd>>
    <3>1. PICK len \in 1 .. MaxLen, pair \in Pair :
            /\ window' = Append(window, pair)
            /\ pair.pos = DataEnd
            /\ DataEnd' = DataEnd + len /\ rcvd' = rcvd
            /\ DataEnd' <= InitSeq + StreamBound
      BY <1>2, <2>2, SendAppends
    <3>2. finPos = NoFin /\ DataEnd = sent
      BY <1>2 DEF SendDataMsg, StopsAtClose, DataEnd
    <3>3. DataEnd' \in DataEnd + 1 .. InitSeq + StreamBound
      BY <1>1, <3>1, <3>2, ParametersAssumption DEF InitSeq
    <3>4. UNCHANGED DeliveredEnd
      BY <1>1, <3>1, <3>2, <3>3 DEF DeliveredEnd
    <3>5. UNCHANGED ReleasedEnd
      <4>1. /\ Len(window) \in Nat /\ Len(window') = Len(window) + 1
            /\ window'[Len(window) + 1] = pair
            /\ \A i \in 1 .. Len(window) : window'[i] = window[i]
            /\ window = <<>> <=> Len(window) = 0
            /\ window' # <<>>
        BY <3>1 DEF IInv, TypeOK
      <4>2. QED
        BY <3>1, <4>1 DEF ReleasedEnd
    <3>6. QED
      BY <3>3, <3>4, <3>5 DEF Channel!HeldWrite, Channel!Write
  <2>3. QED
    BY <2>1, <2>2
<1>3. CASE \E p \in Positions : AckArrives(p)
  BY <1>3, AckReleases
<1>4. CASE ~SendDataMsg /\ ~ \E p \in Positions : AckArrives(p)
  <2>1. UNCHANGED <<window, DataEnd, ReleasedEnd>> /\ DataEnd \in Nat
    BY <1>1, <1>4, WindowAndEnd DEF ReleasedEnd, DataEnd
  <2>2. rcvd' \in Nat /\ rcvd <= rcvd'
    <3>1. CASE \E p \in Positions : PeerReceives(p)
      <4>1. PICK m \in segs :
              IF m.len > 0 THEN PeerTakesData(m) ELSE PeerTakesFin(m)
        BY <3>1 DEF PeerReceives
      <4>2. CASE m.len > 0
        BY <1>1, <2>1, <4>1, <4>2 DEF PeerTakesData
      <4>3. CASE ~(m.len > 0)
        BY <1>1, <4>1, <4>3 DEF PeerTakesFin
      <4>4. QED
        BY <4>2, <4>3
    <3>2. CASE UNCHANGED rcvd
      BY <1>1, <3>2
    <3>3. (\E p \in Positions : PeerReceives(p)) \/ UNCHANGED rcvd
      BY <1>4
      DEF Next, vars, network, SocketCloseMsg, SendFin, DoRtoTimer,
          LoseSegment, LoseAck
    <3>4. QED
      BY <3>1, <3>2, <3>3
  <2>3. DeliveredEnd' = DeliveredEnd
          \/ DeliveredEnd' \in DeliveredEnd + 1 .. DataEnd
    BY <1>1, <2>1, <2>2 DEF DeliveredEnd
  <2>4. QED
    BY <2>1, <2>3 DEF Channel!HeldDeliver, Channel!Deliver
<1>5. QED
  BY <1>2, <1>3, <1>4

(* The send window with its network and its peer implements the safety of  *)
(* the held channel: a byte leaves the window only after the peer has it,  *)
(* the oldest first, and the peer has only what was written.               *)
THEOREM ImplementsChannelSafety ==
  ASSUME NoWrap, StopsAtClose
  PROVE  Spec => Channel!HeldSafety
<1>1. Init => Channel!HeldInit
  BY DEF Init, Channel!HeldInit, Channel!Init, DataEnd, DeliveredEnd,
         ReleasedEnd, NoFin, InitSeq
<1>2. IInv /\ IInv' /\ PairsInStream /\ [Next]_vars
        => [Channel!HeldNext]_(Channel!heldVars)
  BY StepOfChannel DEF Channel!HeldNext, Channel!heldVars, Channel!vars
<1>3. QED
  BY <1>1, <1>2, InductiveInvariant, PairsStayInStream, PTL
  DEF Spec, Channel!HeldSafety
=============================================================================
