-------------------------- MODULE AcceptQueueProofs --------------------------
(***************************************************************************)
(* Proofs about AcceptQueue for any number of connections, accepting       *)
(* threads and slots.  What is said of the ring holds whatever wakes the   *)
(* threads; that the asserts hold and that accept stays behind the         *)
(* handshakes holds as long as every wakeup was a signal.                  *)
(***************************************************************************)
EXTENDS AcceptQueue, FiniteSetTheorems, SequenceTheorems, TLAPS

HalfOpen == {c \in Conns : state[c] = "SYN_RECV"}

(* A connection is queued when its handshake starts, so those queued are   *)
(* those whose handshake is under way or complete.                         *)
EveryHandshakeQueued ==
  Cardinality(Established) + Cardinality(HalfOpen) = Len(arrivals)

IInv ==
  /\ TypeOK
  /\ AssertsHold
  /\ FifoAccept
  /\ RingShape
  /\ AcceptNotAhead
  /\ EveryHandshakeQueued

-----------------------------------------------------------------------------
(* Facts about the indices of the ring and the sets that are counted.      *)

(* Offset numbers the slots from 0, each differently.                      *)
LEMMA OffsetNumbersSlots ==
  ASSUME TypeOK
  PROVE  /\ \A i \in Slots : Offset(i) \in 0 .. listen_queue_max - 1
         /\ \A i, j \in Slots : Offset(i) = Offset(j) => i = j
         /\ Offset(listen_queue_rare) = 0
  BY AcceptAssumption DEF TypeOK, Offset, Slots

(* NextIndex stays in the ring.                                            *)
LEMMA NextIndexType ==
  ASSUME NEW i \in Slots
  PROVE  NextIndex(i) \in Slots
  BY AcceptAssumption DEF NextIndex, Slots

(* NextIndex moves one slot on, or from the last slot to the first.        *)
LEMMA OffsetOfNext ==
  ASSUME TypeOK, NEW i \in Slots
  PROVE  Offset(NextIndex(i)) =
           IF Offset(i) = listen_queue_max - 1 THEN 0 ELSE Offset(i) + 1
  BY AcceptAssumption DEF TypeOK, NextIndex, Offset, Slots

(* The lengths of the histories are numbers.                               *)
LEMMA HistoryLengths ==
  ASSUME TypeOK
  PROVE  Len(arrivals) \in Nat /\ Len(accepted) \in Nat
  BY DEF TypeOK

(* The counted sets are finite.                                            *)
LEMMA CountedSetsFinite ==
  /\ IsFiniteSet(Established) /\ Cardinality(Established) \in Nat
  /\ IsFiniteSet(HalfOpen) /\ Cardinality(HalfOpen) \in Nat
  /\ IsFiniteSet(Woken) /\ Cardinality(Woken) \in Nat
<1>1. /\ Established \in SUBSET Conns
      /\ HalfOpen \in SUBSET Conns
      /\ Woken \in SUBSET Acceptors
  BY DEF Established, HalfOpen, Woken
<1>2. IsFiniteSet(Established) /\ IsFiniteSet(HalfOpen) /\ IsFiniteSet(Woken)
  BY <1>1, AcceptAssumption, FS_Subset
<1>3. QED
  BY <1>2, FS_CardinalityType

(* The first assert of the ring: with room, the front slot is free.        *)
LEMMA FrontSlotFree ==
  ASSUME IInv, HasRoom
  PROVE  /\ newpTcbOnAccept[listen_queue_front] = NULL
         /\ Queued < listen_queue_max - 1
<1>1. Offset(listen_queue_front) = Queued /\ listen_queue_front \in Slots
  BY DEF IInv, RingShape, TypeOK
<1>2. newpTcbOnAccept[listen_queue_front] = NULL
  BY <1>1, HistoryLengths DEF IInv, RingShape, Queued
<1>3. Queued # listen_queue_max - 1
  <2>1. SUFFICES ASSUME Queued = listen_queue_max - 1  PROVE FALSE
    OBVIOUS
  <2>2. Offset(NextIndex(listen_queue_front)) = 0
    BY <1>1, <2>1, OffsetOfNext DEF IInv
  <2>3. NextIndex(listen_queue_front) = listen_queue_rare
    BY <1>1, <2>2, NextIndexType, OffsetNumbersSlots DEF IInv, TypeOK
  <2>4. QED
    BY <2>3 DEF HasRoom
<1>4. QED
  BY <1>2, <1>3, AcceptAssumption, HistoryLengths DEF IInv, RingShape, Queued

(* The two asserts of socket_accept: whoever was signalled finds a tcb.    *)
LEMMA WokenFindsConnection ==
  ASSUME IInv, ~spurious, NEW t \in Acceptors, pc[t] = "woken"
  PROVE  TakeAsserts
<1>1. Cardinality(Woken) > 0
  <2>1. t \in Woken
    BY DEF Woken
  <2>2. QED
    BY <2>1, CountedSetsFinite, FS_EmptySet
<1>2. Queued > 0
  BY <1>1, CountedSetsFinite, HistoryLengths
  DEF IInv, AcceptNotAhead, EveryHandshakeQueued, Queued
<1>3. listen_queue_front # listen_queue_rare
  BY <1>2, OffsetNumbersSlots, HistoryLengths DEF IInv, RingShape, Queued
<1>4. newpTcbOnAccept[listen_queue_rare] # NULL
  BY <1>2, OffsetNumbersSlots DEF IInv, RingShape, TypeOK
<1>5. QED
  BY <1>3, <1>4 DEF TakeAsserts

(* Where the asserts hold there is a connection to take.                   *)
LEMMA AssertsFindConnection ==
  ASSUME IInv, TakeAsserts
  PROVE  Queued > 0
<1>1. listen_queue_front \in Slots /\ listen_queue_rare \in Slots
  BY DEF IInv, TypeOK
<1>2. Offset(listen_queue_front) # 0
  BY <1>1, OffsetNumbersSlots DEF IInv, TakeAsserts
<1>3. QED
  BY <1>2, HistoryLengths DEF IInv, RingShape, Queued

-----------------------------------------------------------------------------
(* The initial state satisfies IInv.                                       *)
LEMMA InitIInv ==
  ASSUME Init
  PROVE  IInv
<1>1. TypeOK
  <2>1. 0 \in Slots /\ <<>> \in Seq(Conns)
    BY AcceptAssumption DEF Slots
  <2>2. QED
    BY <2>1 DEF Init, TypeOK, PCs
<1>2. AssertsHold /\ FifoAccept /\ Queued = 0
  BY AcceptAssumption DEF Init, AssertsHold, FifoAccept, Queued, Offset, Slots
<1>3. RingShape
  BY <1>2, AcceptAssumption DEF Init, RingShape, Offset, Slots
<1>4. Established = {} /\ HalfOpen = {} /\ Woken = {}
  BY DEF Init, Established, HalfOpen, Woken
<1>5. AcceptNotAhead /\ EveryHandshakeQueued
  BY <1>4, FS_EmptySet DEF Init, AcceptNotAhead, EveryHandshakeQueued
<1>6. QED
  BY <1>1, <1>2, <1>3, <1>5 DEF IInv

(* A SYN with room in the ring: the new tcb goes behind the queued ones.   *)
LEMMA ListenIInv ==
  ASSUME IInv, NEW c \in Conns, tcp_listen(c)
  PROVE  IInv'
<1>1. /\ state[c] = "CLOSED"
      /\ newpTcbOnAccept' =
           [newpTcbOnAccept EXCEPT ![listen_queue_front] = c]
      /\ listen_queue_front' = NextIndex(listen_queue_front)
      /\ state' = [state EXCEPT ![c] = "SYN_RECV"]
      /\ arrivals' = Append(arrivals, c)
      /\ UNCHANGED <<listen_queue_rare, WaitingOnAccept, pc, accepted>>
      /\ UNCHANGED <<aborted, spurious>>
  BY FrontSlotFree DEF tcp_listen
<1>2. TypeOK'
  <2>1. arrivals' \in Seq(Conns) /\ accepted' \in Seq(Conns)
    BY <1>1 DEF IInv, TypeOK
  <2>2. listen_queue_front' \in Slots /\ listen_queue_rare' \in Slots
    BY <1>1, NextIndexType DEF IInv, TypeOK
  <2>3. /\ newpTcbOnAccept' \in [Slots -> Conns \union {NULL}]
        /\ state' \in [Conns -> {"CLOSED", "SYN_RECV", "ESTABLISHED"}]
    BY <1>1 DEF IInv, TypeOK
  <2>4. QED
    BY <1>1, <2>1, <2>2, <2>3 DEF IInv, TypeOK
<1>3. AssertsHold'
  BY <1>1 DEF IInv, AssertsHold
<1>4. \A i : Offset(i)' = Offset(i)
  BY <1>1 DEF Offset
<1>5. /\ Len(arrivals') = Len(arrivals) + 1
      /\ \A n \in 1 .. Len(arrivals) : arrivals'[n] = arrivals[n]
      /\ arrivals'[Len(arrivals) + 1] = c
      /\ Queued' = Queued + 1
  <2>1. arrivals \in Seq(Conns) /\ arrivals' = Append(arrivals, c)
    BY <1>1 DEF IInv, TypeOK
  <2>2. QED
    BY <1>1, <2>1, AppendProperties, HistoryLengths DEF Queued, IInv
<1>6. Offset(listen_queue_front) = Queued /\ Queued \in Nat
      /\ Queued + 1 <= listen_queue_max - 1 /\ listen_queue_front \in Slots
  BY FrontSlotFree, HistoryLengths, AcceptAssumption
  DEF tcp_listen, IInv, RingShape, TypeOK, Queued
<1>7. \A i \in Slots :
        /\ Offset(i) \in 0 .. listen_queue_max - 1
        /\ i # listen_queue_front => Offset(i) # Queued
  BY <1>6, OffsetNumbersSlots DEF IInv
<1>8. \A i \in Slots :
        newpTcbOnAccept'[i] = IF i = listen_queue_front
                              THEN c ELSE newpTcbOnAccept[i]
  BY <1>1 DEF IInv, TypeOK
<1>9. FifoAccept'
  <2>1. \A n \in 1 .. Len(accepted) : accepted'[n] = arrivals'[n]
    BY <1>1, <1>5, <1>6, HistoryLengths DEF IInv, FifoAccept, Queued
  <2>2. ASSUME NEW i \in Slots, Offset(i) < Queued + 1
        PROVE  newpTcbOnAccept'[i] = arrivals'[Len(accepted) + Offset(i) + 1]
    <3>1. CASE i = listen_queue_front
      BY <3>1, <1>5, <1>6, <1>8, HistoryLengths DEF Queued, IInv
    <3>2. CASE i # listen_queue_front
      <4>1. Offset(i) < Queued
        BY <3>2, <2>2, <1>6, <1>7
      <4>2. newpTcbOnAccept[i] = arrivals[Len(accepted) + Offset(i) + 1]
        BY <4>1 DEF IInv, FifoAccept
      <4>3. Len(accepted) + Offset(i) + 1 \in 1 .. Len(arrivals)
        BY <4>1, <1>7, HistoryLengths DEF Queued, IInv
      <4>4. QED
        BY <3>2, <4>2, <4>3, <1>5, <1>8
    <3>3. QED
      BY <3>1, <3>2
  <2>3. QED
    BY <2>1, <2>2, <1>1, <1>4, <1>5 DEF FifoAccept
<1>10. RingShape'
  <2>1. Offset(NextIndex(listen_queue_front)) = Queued + 1
    BY <1>6, OffsetOfNext, AcceptAssumption DEF IInv
  <2>2. ASSUME NEW i \in Slots
        PROVE  newpTcbOnAccept'[i] # NULL <=> Offset(i) < Queued + 1
    BY <1>6, <1>7, <1>8, AcceptAssumption DEF IInv, RingShape
  <2>3. QED
    BY <2>1, <2>2, <1>1, <1>4, <1>5, <1>6 DEF RingShape
<1>11. /\ Established' = Established
       /\ HalfOpen' = HalfOpen \union {c} /\ c \notin HalfOpen
       /\ Woken' = Woken
  BY <1>1 DEF IInv, TypeOK, Established, HalfOpen, Woken
<1>12. AcceptNotAhead'
  BY <1>1, <1>11 DEF IInv, AcceptNotAhead
<1>13. EveryHandshakeQueued'
  <2>1. Cardinality(HalfOpen') = Cardinality(HalfOpen) + 1
    BY <1>11, CountedSetsFinite, FS_AddElement
  <2>2. QED
    BY <2>1, <1>5, <1>11, CountedSetsFinite, HistoryLengths
    DEF IInv, EveryHandshakeQueued
<1>14. QED
  BY <1>2, <1>3, <1>9, <1>10, <1>12, <1>13 DEF IInv

-----------------------------------------------------------------------------
(* Steps that leave the ring and the histories alone keep what is said of  *)
(* them.                                                                   *)
LEMMA RingUntouched ==
  ASSUME FifoAccept, RingShape, UNCHANGED <<ring, history>>
  PROVE  FifoAccept' /\ RingShape'
<1>1. /\ UNCHANGED <<newpTcbOnAccept, listen_queue_front, listen_queue_rare,
                     arrivals, accepted>>
      /\ \A i : Offset(i)' = Offset(i)
      /\ Queued' = Queued
  BY DEF ring, history, Offset, Queued
<1>2. QED
  BY <1>1 DEF FifoAccept, RingShape

(* A handshake completes: at most one thread is woken for it.              *)
LEMMA SynRcvIInv ==
  ASSUME IInv, NEW c \in Conns, tcp_syn_rcv(c)
  PROVE  IInv'
<1>1. /\ state[c] = "SYN_RECV"
      /\ state' = [state EXCEPT ![c] = "ESTABLISHED"]
      /\ UNCHANGED <<ring, WaitingOnAccept, aborted, spurious, history>>
      /\ SignalAccept
  BY DEF tcp_syn_rcv
<1>2. FifoAccept' /\ RingShape'
  BY <1>1, RingUntouched DEF IInv
<1>3. /\ Established' = Established \union {c} /\ c \notin Established
      /\ HalfOpen' = HalfOpen \ {c} /\ c \in HalfOpen
  BY <1>1 DEF IInv, TypeOK, Established, HalfOpen
<1>4. /\ Cardinality(Established') = Cardinality(Established) + 1
      /\ Cardinality(HalfOpen') = Cardinality(HalfOpen) - 1
  BY <1>3, CountedSetsFinite, FS_AddElement, FS_RemoveElement
<1>5. EveryHandshakeQueued'
  BY <1>1, <1>4, CountedSetsFinite, HistoryLengths
  DEF IInv, EveryHandshakeQueued, history
<1>6. /\ pc' \in [Acceptors -> PCs]
      /\ Cardinality(Woken') <= Cardinality(Woken) + 1
  <2>1. CASE UNCHANGED pc
    <3>1. Woken' = Woken
      BY <2>1 DEF Woken
    <3>2. QED
      BY <2>1, <3>1, CountedSetsFinite DEF IInv, TypeOK
  <2>2. ASSUME NEW t \in Acceptors, pc' = [pc EXCEPT ![t] = "woken"]
        PROVE  /\ pc' \in [Acceptors -> PCs]
               /\ Cardinality(Woken') <= Cardinality(Woken) + 1
    <3>1. pc' \in [Acceptors -> PCs] /\ Woken' = Woken \union {t}
      BY <2>2 DEF IInv, TypeOK, PCs, Woken
    <3>2. \/ Cardinality(Woken \union {t}) = Cardinality(Woken)
          \/ Cardinality(Woken \union {t}) = Cardinality(Woken) + 1
      BY CountedSetsFinite, FS_AddElement
    <3>3. QED
      BY <3>1, <3>2, CountedSetsFinite
  <2>3. UNCHANGED pc
        \/ \E t \in Acceptors : pc' = [pc EXCEPT ![t] = "woken"]
    BY <1>1 DEF SignalAccept
  <2>4. QED
    BY <2>1, <2>2, <2>3
<1>7. AcceptNotAhead'
  <2>1. Cardinality(Woken') \in Nat
    <3>1. Woken' \in SUBSET Acceptors
      BY DEF Woken
    <3>2. QED
      BY <3>1, AcceptAssumption, FS_Subset, FS_CardinalityType
  <2>2. QED
    BY <2>1, <1>1, <1>4, <1>6, CountedSetsFinite, HistoryLengths
    DEF IInv, AcceptNotAhead, history
<1>8. TypeOK'
  BY <1>1, <1>6 DEF IInv, TypeOK, ring, history
<1>9. AssertsHold'
  BY <1>1 DEF IInv, AssertsHold
<1>10. QED
  BY <1>2, <1>5, <1>7, <1>8, <1>9 DEF IInv

(* Entering socket_accept, and starting to wait: nobody is woken.          *)
LEMMA EnterIInv ==
  ASSUME IInv, NEW t \in Acceptors, CheckWaiting(t) \/ StartWaiting(t)
  PROVE  IInv'
<1>1. /\ UNCHANGED <<ring, state, aborted, spurious, history>>
      /\ WaitingOnAccept' \in {0, 1}
      /\ \E p \in {"entered", "waiting"} : pc' = [pc EXCEPT ![t] = p]
      /\ pc[t] \in {"idle", "entered"}
  BY DEF CheckWaiting, StartWaiting, IInv, TypeOK
<1>2. FifoAccept' /\ RingShape'
  BY <1>1, RingUntouched DEF IInv
<1>3. pc' \in [Acceptors -> PCs] /\ Woken' = Woken
  BY <1>1 DEF IInv, TypeOK, PCs, Woken
<1>4. Established' = Established /\ HalfOpen' = HalfOpen
  BY <1>1 DEF Established, HalfOpen
<1>5. AcceptNotAhead' /\ EveryHandshakeQueued'
  BY <1>1, <1>3, <1>4
  DEF IInv, AcceptNotAhead, EveryHandshakeQueued, history
<1>6. TypeOK' /\ AssertsHold'
  BY <1>1, <1>3 DEF IInv, TypeOK, AssertsHold, ring, history
<1>7. QED
  BY <1>2, <1>5, <1>6 DEF IInv

(* A wakeup without a signal leaves the ring alone and voids what is       *)
(* promised of signalled threads.                                          *)
LEMMA SpuriousIInv ==
  ASSUME IInv, NEW t \in Acceptors, SpuriousWakeup(t)
  PROVE  IInv'
<1>1. /\ UNCHANGED <<ring, WaitingOnAccept, state, aborted, history>>
      /\ spurious' = TRUE
      /\ pc' = [pc EXCEPT ![t] = "woken"]
  BY DEF SpuriousWakeup
<1>2. FifoAccept' /\ RingShape'
  BY <1>1, RingUntouched DEF IInv
<1>3. TypeOK'
  BY <1>1 DEF IInv, TypeOK, PCs, ring, history
<1>4. EveryHandshakeQueued'
  BY <1>1 DEF IInv, EveryHandshakeQueued, Established, HalfOpen, history
<1>5. AssertsHold' /\ AcceptNotAhead'
  BY <1>1 DEF AssertsHold, AcceptNotAhead
<1>6. QED
  BY <1>2, <1>3, <1>4, <1>5 DEF IInv

(* An assert fails: nothing else changes, and a wakeup was no signal.      *)
LEMMA AbortIInv ==
  ASSUME IInv, NEW t \in Acceptors, TakeConnection(t), ~TakeAsserts
  PROVE  IInv'
<1>1. /\ UNCHANGED <<newpTcbOnAccept, listen_queue_front, listen_queue_rare,
                     WaitingOnAccept, state, pc, spurious, arrivals, accepted>>
      /\ aborted' = TRUE
  BY DEF TakeConnection
<1>2. spurious
  BY WokenFindsConnection DEF TakeConnection
<1>3. FifoAccept' /\ RingShape'
  BY <1>1, RingUntouched DEF IInv, ring, history
<1>4. TypeOK' /\ AssertsHold' /\ AcceptNotAhead' /\ EveryHandshakeQueued'
  BY <1>1, <1>2
  DEF IInv, TypeOK, AssertsHold, AcceptNotAhead, EveryHandshakeQueued,
      Established, HalfOpen, Woken
<1>5. QED
  BY <1>3, <1>4 DEF IInv

(* A woken thread takes the oldest connection and leaves.                  *)
LEMMA TakeIInv ==
  ASSUME IInv, NEW t \in Acceptors, TakeConnection(t), TakeAsserts
  PROVE  IInv'
<1>1. pc[t] = "woken" /\ Queued > 0
  BY AssertsFindConnection DEF TakeConnection
<1>2. /\ newpTcbOnAccept' =
           [newpTcbOnAccept EXCEPT ![listen_queue_rare] = NULL]
      /\ listen_queue_rare' = NextIndex(listen_queue_rare)
      /\ accepted' = Append(accepted, newpTcbOnAccept[listen_queue_rare])
      /\ WaitingOnAccept' = 0
      /\ pc' = [pc EXCEPT ![t] = "idle"]
      /\ UNCHANGED <<listen_queue_front, state, spurious, arrivals, aborted>>
  BY DEF TakeConnection, TakeOldest
<1>3. /\ listen_queue_rare \in Slots
      /\ newpTcbOnAccept[listen_queue_rare] \in Conns
      /\ newpTcbOnAccept[listen_queue_rare] = arrivals[Len(accepted) + 1]
  BY <1>1, OffsetNumbersSlots, HistoryLengths
  DEF IInv, TypeOK, TakeAsserts, FifoAccept, Queued
<1>4. TypeOK'
  <2>1. accepted' \in Seq(Conns)
    BY <1>2, <1>3 DEF IInv, TypeOK
  <2>2. listen_queue_rare' \in Slots
    BY <1>2, <1>3, NextIndexType
  <2>3. /\ newpTcbOnAccept' \in [Slots -> Conns \union {NULL}]
        /\ pc' \in [Acceptors -> PCs]
    BY <1>2 DEF IInv, TypeOK, PCs
  <2>4. QED
    BY <1>2, <2>1, <2>2, <2>3 DEF IInv, TypeOK
<1>5. AssertsHold'
  BY <1>2 DEF IInv, AssertsHold
<1>6. /\ Len(accepted') = Len(accepted) + 1
      /\ \A n \in 1 .. Len(accepted) : accepted'[n] = accepted[n]
      /\ accepted'[Len(accepted) + 1] = arrivals[Len(accepted) + 1]
      /\ Queued' = Queued - 1
  <2>1. accepted \in Seq(Conns)
        /\ accepted' = Append(accepted, newpTcbOnAccept[listen_queue_rare])
    BY <1>2 DEF IInv, TypeOK
  <2>2. QED
    BY <1>2, <1>3, <2>1, AppendProperties, HistoryLengths DEF Queued, IInv
<1>7. \A i \in Slots :
        /\ Offset(i) \in 0 .. listen_queue_max - 1
        /\ Offset(i)' = IF i = listen_queue_rare
                        THEN listen_queue_max - 1 ELSE Offset(i) - 1
  BY <1>2, <1>3, AcceptAssumption DEF IInv, TypeOK, Offset, Slots, NextIndex
<1>8. \A i \in Slots :
        newpTcbOnAccept'[i] = IF i = listen_queue_rare
                              THEN NULL ELSE newpTcbOnAccept[i]
  BY <1>2 DEF IInv, TypeOK
<1>9. Queued \in 1 .. listen_queue_max - 1
  BY <1>1 DEF IInv, RingShape
<1>10. FifoAccept'
  <2>1. \A n \in 1 .. Len(accepted') : accepted'[n] = arrivals'[n]
    BY <1>2, <1>6, HistoryLengths DEF IInv, FifoAccept
  <2>2. ASSUME NEW i \in Slots, Offset(i)' < Queued - 1
        PROVE  newpTcbOnAccept'[i]
                 = arrivals[Len(accepted) + 1 + Offset(i)' + 1]
    <3>1. i # listen_queue_rare /\ Offset(i)' = Offset(i) - 1
      BY <2>2, <1>7, <1>9, AcceptAssumption
    <3>2. Offset(i) < Queued
      BY <3>1, <2>2, <1>7, <1>9, AcceptAssumption
    <3>3. newpTcbOnAccept[i] = arrivals[Len(accepted) + Offset(i) + 1]
      BY <3>2 DEF IInv, FifoAccept
    <3>4. Len(accepted) + Offset(i) + 1 = Len(accepted) + 1 + Offset(i)' + 1
      BY <3>1, <1>7, HistoryLengths DEF IInv
    <3>5. QED
      BY <3>1, <3>3, <3>4, <1>8
  <2>3. QED
    BY <2>1, <2>2, <1>2, <1>6 DEF FifoAccept
<1>11. RingShape'
  <2>1. listen_queue_front \in Slots /\ listen_queue_front # listen_queue_rare
    BY <1>1 DEF IInv, TypeOK, TakeAsserts
  <2>2. Offset(listen_queue_front)' = Queued - 1
    BY <2>1, <1>2, <1>7 DEF IInv, RingShape
  <2>3. ASSUME NEW i \in Slots
        PROVE  newpTcbOnAccept'[i] # NULL <=> Offset(i)' < Queued - 1
    BY <1>7, <1>8, <1>9, AcceptAssumption DEF IInv, RingShape
  <2>4. Queued' \in 0 .. listen_queue_max - 1
    BY <1>6, <1>9, AcceptAssumption
  <2>5. Offset(listen_queue_front)' = Queued'
    BY <2>2, <1>6
  <2>6. \A i \in Slots : newpTcbOnAccept'[i] # NULL <=> Offset(i)' < Queued'
    BY <2>3, <1>6
  <2>7. QED
    BY <2>4, <2>5, <2>6 DEF RingShape
<1>12. AcceptNotAhead' /\ EveryHandshakeQueued'
  <2>1. /\ Established' = Established /\ HalfOpen' = HalfOpen
        /\ Woken' = Woken \ {t} /\ t \in Woken
    BY <1>1, <1>2 DEF IInv, TypeOK, Established, HalfOpen, Woken
  <2>2. Cardinality(Woken') = Cardinality(Woken) - 1
    BY <2>1, CountedSetsFinite, FS_RemoveElement
  <2>3. QED
    BY <2>1, <2>2, <1>2, <1>6, CountedSetsFinite, HistoryLengths
    DEF IInv, AcceptNotAhead, EveryHandshakeQueued
<1>13. QED
  BY <1>4, <1>5, <1>10, <1>11, <1>12 DEF IInv

-----------------------------------------------------------------------------
(* IInv is an invariant.                                                   *)
THEOREM InductiveInvariant == Spec => []IInv
<1>1. Init => IInv
  BY InitIInv
<1>2. IInv /\ [Next]_vars => IInv'
  <2> SUFFICES ASSUME IInv, [Next]_vars PROVE IInv'
    OBVIOUS
  <2>1. ASSUME NEW c \in Conns, tcp_listen(c) \/ tcp_syn_rcv(c)
        PROVE  IInv'
    BY <2>1, ListenIInv, SynRcvIInv
  <2>2. ASSUME NEW t \in Acceptors, CheckWaiting(t) \/ StartWaiting(t)
        PROVE  IInv'
    BY <2>2, EnterIInv
  <2>3. ASSUME NEW t \in Acceptors, SpuriousWakeup(t)
        PROVE  IInv'
    BY <2>3, SpuriousIInv
  <2>4. ASSUME NEW t \in Acceptors, TakeConnection(t)
        PROVE  IInv'
    BY <2>4, TakeIInv, AbortIInv
  <2>5. CASE UNCHANGED vars
    <3>1. UNCHANGED <<newpTcbOnAccept, listen_queue_front, listen_queue_rare,
                      WaitingOnAccept, state, pc, aborted, spurious, arrivals,
                      accepted>>
      BY <2>5 DEF vars, ring, history
    <3>2. FifoAccept' /\ RingShape'
      BY <3>1, RingUntouched DEF IInv, ring, history
    <3>3. TypeOK' /\ AssertsHold' /\ AcceptNotAhead' /\ EveryHandshakeQueued'
      BY <3>1
      DEF IInv, TypeOK, AssertsHold, AcceptNotAhead, EveryHandshakeQueued,
          Established, HalfOpen, Woken
    <3>4. QED
      BY <3>2, <3>3 DEF IInv
  <2>6. QED
    BY <2>1, <2>2, <2>3, <2>4, <2>5 DEF Next
<1>3. QED
  BY <1>1, <1>2, PTL DEF Spec

(* TypeOK holds of every reachable state.                                  *)
THEOREM TypeCorrect == Spec => []TypeOK
<1>1. IInv => TypeOK
  BY DEF IInv
<1>2. QED
  BY <1>1, InductiveInvariant, PTL

(* No assert of tcp_listen or socket_accept fails, and no more threads are *)
(* let through than handshakes have completed, before a wakeup without a   *)
(* signal: front, rare and the NULL slots agree with the signals sent.     *)
THEOREM SignalsKeepOrder == Spec => []SignalsSuffice
<1>1. IInv => SignalsSuffice
  BY DEF IInv, SignalsSuffice
<1>2. QED
  BY <1>1, InductiveInvariant, PTL

(* Connections are accepted in the order of their SYNs, none lost in the   *)
(* ring and none accepted twice; the slots in use are those from rare up   *)
(* to front.                                                               *)
THEOREM AcceptedInOrder == Spec => []RingInOrder
<1>1. IInv => RingInOrder
  BY DEF IInv, RingInOrder
<1>2. QED
  BY <1>1, InductiveInvariant, PTL
=============================================================================
