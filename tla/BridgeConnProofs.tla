-------------------------- MODULE BridgeConnProofs --------------------------
(***************************************************************************)
(* Proofs about BridgeConn for any peers, any size of the table and any    *)
(* number of segments, packets and spurious wakeups.                       *)
(***************************************************************************)
EXTENDS BridgeConn, SequenceTheorems, FiniteSetTheorems, TLAPS

Tcb == [client : Clients, ack : Nat, next_seq : Nat, start : Nat,
        state : {"SYN_RECV", "ESTABLISHED", "FIN_2", "CLOSED", "removed"},
        pairs : {<<>>}]

Kinds == {"synack", "ack", "hello", "fin"}

Accepted == {threads[i].conn : i \in DOMAIN threads}

(* The slot that the next SYN takes is as it was in the beginning.         *)
UnusedSlots ==
  \A x \in Slots \ Ids :
    wire[x].end = 1 /\ got[x] = InOrder /\ toApp[x] = <<>> /\ read[x] = 0

(* What wakes the accepting thread is a connection no thread has yet.      *)
NextToAccept ==
  /\ IsFiniteSet(Accepted)
  /\ spurious = 0 /\ accepting = "woken" =>
       newpTcbOnAccept \in Ids \ Accepted

(* The threads are behind the peer, which has sent no data before its      *)
(* connection is established.                                              *)
ReadBehind ==
  \A x \in Ids : got[x].inOrder =>
    /\ read[x] <= got[x].n
    /\ tcbs[x].state = "SYN_RECV" => got[x].n = 0

IInv ==
  /\ TypeOK
  /\ AcceptedOnce
  /\ SentInSequence
  /\ InOrderStream
  /\ UnusedSlots
  /\ NextToAccept
  /\ ReadBehind

-----------------------------------------------------------------------------
(* Facts about the data.                                                   *)

(* What the bounds are.                                                    *)
LEMMA BoundsMeaning ==
  /\ TOTAL_TCBS \in Nat /\ Segments \in Nat /\ Segments > 0
  /\ Padding \in Nat /\ Padding > 0 /\ Hello \in Nat /\ MaxSpurious \in Nat
BY BridgeConnAssumption

(* Sequences over a larger set.                                            *)
LEMMA LargerSeq ==
  ASSUME NEW S, NEW T, S \subseteq T, NEW s \in Seq(S)
  PROVE  s \in Seq(T)
<1>1. \A i \in 1 .. Len(s) : s[i] \in T
  BY ElementOfSeq
<1>2. s = [i \in 1 .. Len(s) |-> s[i]] /\ Len(s) \in Nat
  BY LenProperties
<1>3. QED
  BY <1>1, <1>2, IsASeq

(* Changing one element.                                                   *)
LEMMA ChangeElement ==
  ASSUME NEW S, NEW s \in Seq(S), NEW i \in DOMAIN s, NEW e \in S
  PROVE  /\ [s EXCEPT ![i] = e] \in Seq(S)
         /\ Len([s EXCEPT ![i] = e]) = Len(s)
         /\ DOMAIN [s EXCEPT ![i] = e] = DOMAIN s
         /\ [s EXCEPT ![i] = e][i] = e
         /\ \A j \in DOMAIN s \ {i} : [s EXCEPT ![i] = e][j] = s[j]
<1>1. [s EXCEPT ![i] = e] \in Seq(S) /\ Len([s EXCEPT ![i] = e]) = Len(s)
  BY ExceptSeq
<1>2. QED
  OBVIOUS

(* What may arrive: data of one byte at its place in the stream, the       *)
(* padding behind it, a SYN or a FIN.                                      *)
LEMMA PacketsMeaning ==
  ASSUME NEW p \in Packets
  PROVE  /\ p.seq \in 0 .. Segments + 1 /\ p.len \in Nat
         /\ p.syn \in BOOLEAN /\ p.fin \in BOOLEAN
         /\ p.syn => p = SYN
         /\ p.syn => p.seq = 0 /\ p.len = 0 /\ ~p.fin
         /\ p.fin /\ p.len = 0 => p.seq = Segments + 1
         /\ ~p.fin /\ ~p.syn /\ p.len = 0 => p = ACK
         /\ p.fin => p # PAD
         /\ p.len > 0 => p.seq > 0
         /\ p.len > 0 /\ p # PAD => p.len = 1
         /\ p.fin => p \notin {SYN, ACK, PAD}
         /\ SYN.seq = 0 /\ ~ACK.fin /\ ~ACK.syn /\ ACK.len = 0
         /\ ~SYN.fin /\ SYN.syn /\ ~PAD.fin /\ ~PAD.syn
<1>1. CASE p = SYN
  BY <1>1, BoundsMeaning DEF SYN, ACK, PAD
<1>2. CASE p = ACK
  BY <1>2, BoundsMeaning DEF SYN, ACK, PAD
<1>3. CASE p = PAD
  BY <1>3, BoundsMeaning DEF SYN, ACK, PAD
<1>4. CASE p = FIN
  BY <1>4, BoundsMeaning DEF SYN, ACK, PAD, FIN
<1>5. CASE \E k \in 1 .. Segments, fin \in BOOLEAN : p = Data(k, fin)
  <2>1. PICK k \in 1 .. Segments, fin \in BOOLEAN : p = Data(k, fin)
    BY <1>5
  <2>2. /\ p.seq = k /\ p.len = 1 /\ p.syn = FALSE /\ p.fin = fin
        /\ k \in Nat /\ k > 0 /\ k < Segments + 1
    BY <2>1, BoundsMeaning DEF Data
  <2>3. p # SYN /\ p # ACK
    BY <2>2 DEF SYN, ACK
  <2>4. p # PAD
    BY <2>2, BoundsMeaning DEF PAD
  <2>5. /\ SYN.seq = 0 /\ ~ACK.fin /\ ~ACK.syn /\ ACK.len = 0
        /\ ~SYN.fin /\ SYN.syn /\ ~PAD.fin /\ ~PAD.syn
    BY DEF SYN, ACK, PAD
  <2>6. /\ p.seq \in 0 .. Segments + 1 /\ p.len \in Nat
        /\ p.len # 0 /\ p.len = 1 /\ p.seq > 0
    BY <2>2, BoundsMeaning
  <2>7. p.syn \in BOOLEAN /\ p.fin \in BOOLEAN /\ ~p.syn
    BY <2>2, Zenon
  <2>8. QED
    BY <2>3, <2>4, <2>5, <2>6, <2>7, Zenon
<1>6. Segments \in 1 .. Segments /\ TRUE \in BOOLEAN /\ FALSE \in BOOLEAN
  BY BoundsMeaning
<1>7. QED
  BY <1>1, <1>2, <1>3, <1>4, <1>5, <1>6, Zenon DEF Packets

(* The types of the parts of the state.                                    *)
LEMMA TypesOf ==
  ASSUME TypeOK
  PROVE  /\ tcbs \in Seq(Tcb) /\ Ids = 1 .. Len(tcbs) /\ Len(tcbs) \in Nat
         /\ Ids \subseteq Slots
         /\ \A x \in Ids : tcbs[x] \in Tcb
<1>1. tcbs \in Seq(Tcb) /\ Len(tcbs) < TOTAL_TCBS
  BY DEF TypeOK, Tcb
<1>2. Len(tcbs) \in Nat /\ Ids = 1 .. Len(tcbs)
  BY <1>1, LenProperties DEF Ids
<1>3. \A x \in Ids : tcbs[x] \in Tcb
  BY <1>1, <1>2, ElementOfSeq
<1>4. Ids \subseteq Slots
  BY <1>1, <1>2, BoundsMeaning DEF Slots
<1>5. QED
  BY <1>1, <1>2, <1>3, <1>4

(* The conversations of the threads are connections.                       *)
LEMMA AcceptedAreIds ==
  ASSUME TypeOK
  PROVE  /\ Accepted \subseteq Ids
         /\ \A i \in DOMAIN threads :
              threads[i] \in [conn : Ids,
                at : {"send", "read", "poll", "close", "done"}]
<1>1. threads \in Seq([conn : Ids,
                       at : {"send", "read", "poll", "close", "done"}])
  BY DEF TypeOK
<1>2. DOMAIN threads = 1 .. Len(threads)
  BY <1>1, LenProperties
<1>3. \A i \in DOMAIN threads :
        threads[i] \in [conn : Ids,
          at : {"send", "read", "poll", "close", "done"}]
  BY <1>1, <1>2, ElementOfSeq
<1>4. QED
  BY <1>3 DEF Accepted

(* Where nothing waits, the receive window makes one pair of a segment.    *)
LEMMA OnePair ==
  ASSUME NEW s, NEW n
  PROVE  AdjustPair(<<>>, s, n) = <<[seq |-> s, len |-> n]>>
<1>1. {i \in DOMAIN <<>> : <<>>[i].seq <= s} = {}
  OBVIOUS
<1>2. Cardinality({i \in DOMAIN <<>> : <<>>[i].seq <= s}) = 0
  BY <1>1, FS_EmptySet, Zenon
<1>3. QED
  BY <1>2, Zenon DEF AdjustPair

(* It is taken at once.                                                    *)
LEMMA PairTaken ==
  ASSUME NEW s, NEW n
  PROVE  /\ AdjustPair(<<>>, s, n)[1] = [seq |-> s, len |-> n]
         /\ GetData(AdjustPair(<<>>, s, n)) = <<>>
<1> DEFINE e == [seq |-> s, len |-> n]
<1>1. AdjustPair(<<>>, s, n) = <<e>>
  BY OnePair, Zenon
<1> HIDE DEF e
<1>2. <<e>> \in Seq({e}) /\ <<e>> # <<>> /\ Len(<<e>>) = 1 /\ <<e>>[1] = e
  OBVIOUS
<1>3. Tail(<<e>>) \in Seq({e}) /\ Len(Tail(<<e>>)) = 0
  BY <1>2, HeadTailProperties
<1>4. Tail(<<e>>) = <<>>
  BY <1>3, EmptySeq
<1>5. GetData(AdjustPair(<<>>, s, n)) = <<>>
  BY <1>1, <1>4 DEF GetData
<1>6. AdjustPair(<<>>, s, n)[1] = e
  BY <1>1, <1>2
<1>7. QED
  BY <1>5, <1>6 DEF e

-----------------------------------------------------------------------------
(* What a step leaves alone.                                               *)

(* Steps without output.                                                   *)
LEMMA SameSent ==
  ASSUME SentInSequence, UNCHANGED <<tcbs, output>>
  PROVE  SentInSequence'
BY DEF SentInSequence, output, Ids

(* Steps that neither accept nor change a connection.                      *)
LEMMA SameAccept ==
  ASSUME AcceptedOnce, NextToAccept, UNCHANGED <<tcbs, accept>>
  PROVE  AcceptedOnce' /\ NextToAccept'
BY DEF AcceptedOnce, NextToAccept, Accepted, Ids, Removed, accept

(* Steps that neither receive nor read.                                    *)
LEMMA SameStream ==
  ASSUME InOrderStream, UnusedSlots, ReadBehind,
         UNCHANGED <<tcbs, output, toApp, history>>
  PROVE  InOrderStream' /\ UnusedSlots' /\ ReadBehind'
BY DEF InOrderStream, UnusedSlots, ReadBehind, Ids, output, history

(* A step of nothing.                                                      *)
LEMMA StutterIInv ==
  ASSUME IInv, UNCHANGED vars
  PROVE  IInv'
<1>1. TypeOK'
  BY DEF IInv, TypeOK, vars, accept, output, history, Ids
<1>2. SentInSequence'
  BY SameSent DEF IInv, vars
<1>3. AcceptedOnce' /\ NextToAccept'
  BY SameAccept DEF IInv, vars
<1>4. InOrderStream' /\ UnusedSlots' /\ ReadBehind'
  BY SameStream DEF IInv, vars
<1>5. QED
  BY <1>1, <1>2, <1>3, <1>4 DEF IInv

(* Another state or another number of one connection.                      *)
LEMMA ChangeTcb ==
  ASSUME TypeOK, AcceptedOnce, NextToAccept, UNCHANGED accept,
         NEW x \in Ids, NEW u \in Tcb,
         ~Removed(x), u.client = tcbs[x].client,
         tcbs' = [tcbs EXCEPT ![x] = u]
  PROVE  /\ tcbs' \in Seq(Tcb) /\ Len(tcbs') = Len(tcbs) /\ Ids' = Ids
         /\ tcbs'[x] = u /\ \A y \in Ids \ {x} : tcbs'[y] = tcbs[y]
         /\ AcceptedOnce' /\ NextToAccept'
<1>1. tcbs \in Seq(Tcb)
  BY TypesOf
<1>2. /\ tcbs' \in Seq(Tcb) /\ Len(tcbs') = Len(tcbs) /\ Ids' = Ids
      /\ tcbs'[x] = u /\ \A y \in Ids \ {x} : tcbs'[y] = tcbs[y]
  BY <1>1, ChangeElement DEF Ids
<1>3. \A y, z \in Ids : ~Removed(y)' /\ ~Removed(z)' /\ y # z
                          => tcbs'[y].client # tcbs'[z].client
  <2>1. \A y \in Ids : tcbs'[y].client = tcbs[y].client
    BY <1>2
  <2>2. \A y \in Ids : ~Removed(y)' => ~Removed(y)
    BY <1>2 DEF Removed
  <2>3. QED
    BY <2>1, <2>2 DEF AcceptedOnce
<1>4. AcceptedOnce'
  BY <1>2, <1>3 DEF AcceptedOnce, accept
<1>5. NextToAccept'
  BY <1>2 DEF NextToAccept, Accepted, accept
<1>6. QED
  BY <1>2, <1>4, <1>5

(* A packet that continues the numbers of its connection.                  *)
LEMMA SendOne ==
  ASSUME TypeOK, NEW x \in Slots, NEW kind \in Kinds, NEW seq, NEW ack \in Nat,
         seq = wire[x].end, OnWire(x, kind, seq, ack)
  PROVE  /\ Length(kind) \in Nat
         /\ wire' \in [Slots -> [end : Nat, ack : Nat]]
         /\ wire'[x].end = seq + Length(kind) /\ wire'[x].ack = ack
         /\ \A y \in Slots \ {x} : wire'[y] = wire[y]
         /\ sent' \in [Slots -> SUBSET Kinds]
         /\ kind \in sent'[x] /\ \A y \in Slots : sent[y] \subseteq sent'[y]
         /\ gaps' = gaps
<1>1. /\ wire \in [Slots -> [end : Nat, ack : Nat]]
      /\ sent \in [Slots -> SUBSET Kinds]
  BY DEF TypeOK, Kinds
<1>2. Length(kind) \in Nat
  BY BoundsMeaning DEF Length, Kinds
<1>3. seq + Length(kind) \in Nat
  BY <1>1, <1>2
<1>4. wire' = [wire EXCEPT ![x] = [end |-> seq + Length(kind), ack |-> ack]]
  BY DEF OnWire
<1>5. sent' = [sent EXCEPT ![x] = sent[x] \union {kind}]
  BY <1>1 DEF OnWire
<1>6. gaps' = gaps
  BY DEF OnWire
<1>7. /\ wire' \in [Slots -> [end : Nat, ack : Nat]]
      /\ wire'[x].end = seq + Length(kind) /\ wire'[x].ack = ack
      /\ \A y \in Slots \ {x} : wire'[y] = wire[y]
  BY <1>1, <1>3, <1>4
<1>8. /\ sent' \in [Slots -> SUBSET Kinds]
      /\ kind \in sent'[x] /\ \A y \in Slots : sent[y] \subseteq sent'[y]
  BY <1>1, <1>5
<1>9. QED
  BY <1>2, <1>6, <1>7, <1>8

-----------------------------------------------------------------------------
(* The beginning, and the threads.                                         *)

(* There are no connections, and no thread waits.                          *)
LEMMA InitIInv ==
  ASSUME Init
  PROVE  IInv
<1>1. Ids = {} /\ Accepted = {} /\ Len(tcbs) = 0 /\ Len(threads) = 0
  BY DEF Init, Ids, Accepted
<1>2. TypeOK
  <2>1. tcbs = <<>> /\ threads = <<>>
    BY DEF Init
  <2>2. \A S : <<>> \in Seq(S)
    BY EmptySeq, Zenon
  <2>3. \A S : [x \in Slots |-> <<>>] \in [Slots -> Seq(S)]
    BY <2>2, Zenon
  <2>4. toTcb \in [Slots -> Seq({"SEND_DATA", "SOCKET_CLOSE"})]
    BY <2>3, Zenon DEF Init
  <2>5. toApp \in [Slots -> Seq(1 .. Segments + 1)]
    BY <2>3, Zenon DEF Init
  <2>6. 0 < TOTAL_TCBS /\ 0 \in 0 .. Segments + 1 /\ 0 \in 0 .. MaxSpurious
    BY BoundsMeaning, BridgeConnAssumption
  <2>7. /\ wire \in [Slots -> [end : Nat, ack : Nat]]
        /\ sent \in [Slots -> SUBSET {"synack", "ack", "hello", "fin"}]
        /\ got \in [Slots -> [n : Nat, inOrder : BOOLEAN]]
        /\ read \in [Slots -> 0 .. Segments + 1]
        /\ packets \in [Clients -> Nat]
    BY <2>6 DEF Init, InOrder
  <2>8. tcbs \in Seq([client : Clients, ack : Nat, next_seq : Nat, start : Nat,
                      state : {"SYN_RECV", "ESTABLISHED", "FIN_2", "CLOSED",
                               "removed"},
                      pairs : {<<>>}])
    BY <2>1, <2>2, Zenon
  <2>9. threads \in Seq([conn : Ids,
                         at : {"send", "read", "poll", "close", "done"}])
    BY <2>1, <2>2, Zenon
  <2>10. Len(tcbs) < TOTAL_TCBS /\ newpTcbOnAccept \in 0 .. Len(tcbs)
    BY <1>1, <2>6 DEF Init
  <2>11. QED
    BY <2>4, <2>5, <2>6, <2>7, <2>8, <2>9, <2>10 DEF Init, TypeOK
<1>3. AcceptedOnce /\ NextToAccept
  BY <1>1, FS_EmptySet DEF Init, AcceptedOnce, NextToAccept, Accepted
<1>4. SentInSequence /\ InOrderStream /\ ReadBehind
  BY <1>1 DEF Init, SentInSequence, InOrderStream, ReadBehind
<1>5. UnusedSlots
  BY DEF Init, UnusedSlots
<1>6. QED
  BY <1>2, <1>3, <1>4, <1>5 DEF IInv

(* The accepting thread begins to wait.                                    *)
LEMMA AcceptIInv ==
  ASSUME IInv, socket_accept
  PROVE  IInv'
<1>1. /\ accepting = "out" /\ accepting' = "waiting"
      /\ UNCHANGED <<tcbs, newpTcbOnAccept, threads, spurious, missed, toTcb,
                     toApp, output, packets, fault, history>>
  BY DEF socket_accept
<1>2. TypeOK'
  BY <1>1 DEF IInv, TypeOK, output, history, Ids
<1>3. AcceptedOnce' /\ NextToAccept'
  BY <1>1 DEF IInv, AcceptedOnce, NextToAccept, Accepted, Ids, Removed
<1>4. SentInSequence' /\ InOrderStream' /\ UnusedSlots' /\ ReadBehind'
  BY <1>1, SameSent, SameStream DEF IInv
<1>5. QED
  BY <1>2, <1>3, <1>4 DEF IInv

(* It wakes for nothing.                                                   *)
LEMMA SpuriousIInv ==
  ASSUME IInv, SpuriousWakeup
  PROVE  IInv'
<1>1. /\ accepting = "waiting" /\ accepting' = "woken"
      /\ spurious < MaxSpurious /\ spurious' = spurious + 1
      /\ UNCHANGED <<tcbs, newpTcbOnAccept, threads, missed, toTcb, toApp,
                     output, packets, fault, history>>
  BY DEF SpuriousWakeup
<1>2. spurious' \in 0 .. MaxSpurious /\ spurious' # 0
  BY <1>1, BoundsMeaning DEF IInv, TypeOK
<1>3. TypeOK'
  BY <1>1, <1>2 DEF IInv, TypeOK, output, history, Ids
<1>4. AcceptedOnce' /\ NextToAccept'
  BY <1>1, <1>2 DEF IInv, AcceptedOnce, NextToAccept, Accepted, Ids, Removed
<1>5. SentInSequence' /\ InOrderStream' /\ UnusedSlots' /\ ReadBehind'
  BY <1>1, SameSent, SameStream DEF IInv
<1>6. QED
  BY <1>3, <1>4, <1>5 DEF IInv

(* It returns with the connection that is there: another thread, for a     *)
(* connection that has none unless the wakeup was spurious.                *)
LEMMA AcceptReturnsIInv ==
  ASSUME IInv, AcceptReturns
  PROVE  IInv'
<1> DEFINE Thread == [conn : Ids,
                      at : {"send", "read", "poll", "close", "done"}]
<1>1. /\ accepting = "woken"
      /\ UNCHANGED <<tcbs, newpTcbOnAccept, spurious, missed, toTcb, toApp,
                     output, packets, history>>
  BY DEF AcceptReturns
<1>2. SentInSequence' /\ InOrderStream' /\ UnusedSlots' /\ ReadBehind'
  BY <1>1, SameSent, SameStream DEF IInv
<1>3. CASE newpTcbOnAccept = 0
  <2>1. fault' = "null" /\ UNCHANGED <<accepting, threads>>
    BY <1>3 DEF AcceptReturns
  <2>2. TypeOK'
    BY <1>1, <2>1 DEF IInv, TypeOK, output, history, Ids
  <2>3. AcceptedOnce' /\ NextToAccept'
    BY <1>1, <2>1, SameAccept DEF IInv, accept
  <2>4. QED
    BY <1>2, <2>2, <2>3 DEF IInv
<1>4. CASE newpTcbOnAccept # 0
  <2> DEFINE new == [conn |-> newpTcbOnAccept, at |-> "send"]
  <2>1. accepting' = "out" /\ threads' = Append(threads, new)
        /\ UNCHANGED fault
    BY <1>4 DEF AcceptReturns
  <2>2. threads \in Seq(Thread)
    BY DEF IInv, TypeOK
  <2>3. newpTcbOnAccept \in Ids
    <3>1. TypeOK /\ newpTcbOnAccept \in 0 .. Len(tcbs)
      BY DEF IInv, TypeOK
    <3>2. QED
      BY <1>4, <3>1, TypesOf
  <2>4. new \in Thread
    BY <2>3
  <2>5. /\ threads' \in Seq(Thread) /\ Len(threads') = Len(threads) + 1
        /\ DOMAIN threads' = DOMAIN threads \union {Len(threads')}
        /\ threads'[Len(threads')] = new
        /\ \A i \in DOMAIN threads : threads'[i] = threads[i]
    <3> HIDE DEF new, Thread
    <3>1. /\ threads' \in Seq(Thread) /\ Len(threads') = Len(threads) + 1
          /\ \A i \in 1 .. Len(threads) : threads'[i] = threads[i]
          /\ threads'[Len(threads) + 1] = new
      BY <2>1, <2>2, <2>4, AppendProperties
    <3>2. /\ Len(threads) \in Nat /\ DOMAIN threads = 1 .. Len(threads)
          /\ DOMAIN threads' = 1 .. Len(threads')
      BY <2>2, <3>1, LenProperties
    <3>3. QED
      BY <3>1, <3>2
  <2>6. Accepted' = Accepted \union {newpTcbOnAccept}
    BY <2>5 DEF Accepted
  <2>7. TypeOK'
    BY <1>1, <2>1, <2>5 DEF IInv, TypeOK, output, history, Ids
  <2>8. /\ IsFiniteSet(Accepted')
        /\ newpTcbOnAccept \notin Accepted =>
             Cardinality(Accepted') = Cardinality(Accepted) + 1
    BY <2>6, FS_AddElement DEF IInv, NextToAccept
  <2>9. NextToAccept'
    BY <2>1, <2>8 DEF NextToAccept
  <2>10. Ids \ (Accepted \union missed) \subseteq {newpTcbOnAccept}
    BY <1>1 DEF IInv, AcceptedOnce, Accepted
  <2>11. Ids' \ (Accepted' \union missed') = {}
    BY <1>1, <2>6, <2>10 DEF Ids
  <2>12. spurious' = 0 => Cardinality(Accepted') = Len(threads')
    <3>1. SUFFICES ASSUME spurious = 0
                   PROVE  Cardinality(Accepted') = Len(threads')
      BY <1>1
    <3>2. Cardinality(Accepted) = Len(threads)
      BY <3>1 DEF IInv, AcceptedOnce, Accepted
    <3>3. newpTcbOnAccept \notin Accepted
      BY <1>1, <3>1 DEF IInv, NextToAccept
    <3>4. QED
      BY <2>5, <2>8, <3>2, <3>3
  <2>13. \A x, y \in Ids' : ~Removed(x)' /\ ~Removed(y)' /\ x # y
                              => tcbs'[x].client # tcbs'[y].client
    BY <1>1 DEF IInv, AcceptedOnce, Ids, Removed
  <2>14. AcceptedOnce'
    BY <2>1, <2>11, <2>12, <2>13 DEF AcceptedOnce, Accepted
  <2>15. QED
    BY <1>2, <2>7, <2>9, <2>14 DEF IInv
<1>5. QED
  BY <1>3, <1>4

(* Where the thread of a connection is.                                    *)
Places == {"send", "read", "poll", "close", "done"}

(* A thread that goes on keeps its connection.                             *)
LEMMA MoveThread ==
  ASSUME IInv, NEW i \in DOMAIN threads, NEW to \in Places,
         threads' = [threads EXCEPT ![i].at = to],
         UNCHANGED <<tcbs, newpTcbOnAccept, accepting, spurious, missed>>
  PROVE  /\ threads' \in Seq([conn : Ids, at : Places])
         /\ AcceptedOnce' /\ NextToAccept'
<1> DEFINE Thread == [conn : Ids, at : Places]
           moved == [threads[i] EXCEPT !.at = to]
<1>1. threads \in Seq(Thread)
  BY DEF IInv, TypeOK, Places
<1>2. threads[i] \in Thread
  BY AcceptedAreIds DEF IInv, Places
<1>3. moved \in Thread /\ moved.conn = threads[i].conn
  BY <1>2
<1>4. threads' = [threads EXCEPT ![i] = moved]
  BY <1>1
<1> HIDE DEF moved, Thread
<1>5. /\ threads' \in Seq(Thread) /\ Len(threads') = Len(threads)
      /\ DOMAIN threads' = DOMAIN threads /\ threads'[i] = moved
      /\ \A j \in DOMAIN threads \ {i} : threads'[j] = threads[j]
  BY <1>1, <1>3, <1>4, ChangeElement
<1>6. \A j \in DOMAIN threads : threads'[j].conn = threads[j].conn
  BY <1>3, <1>5
<1>7. Accepted' = Accepted
  BY <1>5, <1>6 DEF Accepted
<1>8. NextToAccept'
  BY <1>7 DEF IInv, NextToAccept, Ids
<1>9. AcceptedOnce'
  <2>1. /\ Ids \ (Accepted \union missed) \subseteq
             (IF accepting = "woken" THEN {newpTcbOnAccept} ELSE {})
        /\ spurious = 0 => Cardinality(Accepted) = Len(threads)
        /\ \A x, y \in Ids : ~Removed(x) /\ ~Removed(y) /\ x # y
                               => tcbs[x].client # tcbs[y].client
    BY DEF IInv, AcceptedOnce, Accepted
  <2>2. /\ Ids' \ (Accepted' \union missed') \subseteq
             (IF accepting' = "woken" THEN {newpTcbOnAccept'} ELSE {})
        /\ spurious' = 0 => Cardinality(Accepted') = Len(threads')
        /\ \A x, y \in Ids' : ~Removed(x)' /\ ~Removed(y)' /\ x # y
                                => tcbs'[x].client # tcbs'[y].client
    BY <1>5, <1>7, <2>1 DEF Ids, Removed
  <2>3. QED
    BY <2>2 DEF AcceptedOnce, Accepted
<1>10. QED
  BY <1>5, <1>8, <1>9 DEF Thread

(* A thread's call: a message for the stack, or only the search.           *)
LEMMA LooksUpIInv ==
  ASSUME IInv, NEW i \in DOMAIN threads, NEW from \in Places,
         NEW to \in Places, LooksUp(i, from, to)
  PROVE  IInv'
<1>1. UNCHANGED <<tcbs, newpTcbOnAccept, accepting, spurious, missed, toApp,
                  output, packets, history>>
  BY DEF LooksUp
<1>2. SentInSequence' /\ InOrderStream' /\ UnusedSlots' /\ ReadBehind'
  BY <1>1, SameSent, SameStream DEF IInv
<1>3. CASE Removed(threads[i].conn)
  <2>1. fault' = "garbage" /\ UNCHANGED <<threads, toTcb>>
    BY <1>3 DEF LooksUp
  <2>2. TypeOK'
    BY <1>1, <2>1 DEF IInv, TypeOK, output, history, Ids
  <2>3. AcceptedOnce' /\ NextToAccept'
    BY <1>1, <2>1, SameAccept DEF IInv, accept
  <2>4. QED
    BY <1>2, <2>2, <2>3 DEF IInv
<1>4. CASE ~Removed(threads[i].conn)
  <2> DEFINE x == threads[i].conn
             Messages == {"SEND_DATA", "SOCKET_CLOSE"}
             msg == IF from = "send" THEN "SEND_DATA" ELSE "SOCKET_CLOSE"
  <2>1. /\ threads' = [threads EXCEPT ![i].at = to] /\ UNCHANGED fault
        /\ \/ UNCHANGED toTcb
           \/ toTcb' = [toTcb EXCEPT ![x] = Append(@, msg)]
    BY <1>4 DEF LooksUp
  <2>2. /\ threads' \in Seq([conn : Ids, at : Places])
        /\ AcceptedOnce' /\ NextToAccept'
    BY <1>1, <2>1, MoveThread
  <2>3. x \in Slots
    BY AcceptedAreIds, TypesOf DEF IInv
  <2>4. toTcb' \in [Slots -> Seq(Messages)]
    <3>1. toTcb \in [Slots -> Seq(Messages)] /\ msg \in Messages
      BY DEF IInv, TypeOK
    <3> HIDE DEF x, msg, Messages
    <3>2. toTcb[x] \in Seq(Messages)
      BY <2>3, <3>1
    <3>3. Append(toTcb[x], msg) \in Seq(Messages)
      BY <3>1, <3>2, AppendProperties
    <3>4. QED
      BY <2>1, <2>3, <3>1, <3>3
  <2>5. TypeOK'
    BY <1>1, <2>1, <2>2, <2>4
       DEF IInv, TypeOK, output, history, Ids, Places
  <2>6. QED
    BY <1>2, <2>2, <2>5 DEF IInv
<1>5. QED
  BY <1>3, <1>4

(* What a list in increasing order has after its first element.            *)
LEMMA RestIncreases ==
  ASSUME NEW S \in SUBSET Int, NEW s \in Seq(S), s # <<>>,
         \A j, k \in DOMAIN s : j < k => s[j] < s[k]
  PROVE  /\ Tail(s) \in Seq(S) /\ Head(s) \in Range(s)
         /\ \A j, k \in DOMAIN Tail(s) : j < k => Tail(s)[j] < Tail(s)[k]
         /\ Range(Tail(s)) \subseteq {n \in Range(s) : n > Head(s)}
<1>1. /\ Tail(s) \in Seq(S) /\ Len(Tail(s)) = Len(s) - 1
      /\ \A j \in 1 .. Len(Tail(s)) : Tail(s)[j] = s[j + 1]
  BY HeadTailProperties
<1>2. /\ Len(s) \in Nat /\ DOMAIN s = 1 .. Len(s)
      /\ DOMAIN Tail(s) = 1 .. Len(Tail(s))
  BY <1>1, LenProperties
<1>3. Len(s) # 0
  BY EmptySeq
<1>4. Head(s) = s[1]
  OBVIOUS
<1>5. 1 \in DOMAIN s
  BY <1>2, <1>3
<1>6. ASSUME NEW j \in DOMAIN Tail(s)
      PROVE  j + 1 \in DOMAIN s /\ 1 < j + 1 /\ Tail(s)[j] = s[j + 1]
  BY <1>1, <1>2
<1>7. ASSUME NEW j \in DOMAIN Tail(s), NEW k \in DOMAIN Tail(s), j < k
      PROVE  Tail(s)[j] < Tail(s)[k]
  <2>1. j + 1 < k + 1
    BY <1>2, <1>7
  <2>2. QED
    BY <1>6, <2>1
<1>8. ASSUME NEW n \in Range(Tail(s))
      PROVE  n \in Range(s) /\ n > Head(s)
  <2>1. PICK j \in DOMAIN Tail(s) : n = Tail(s)[j]
    BY DEF Range
  <2>2. n = s[j + 1] /\ s[1] < s[j + 1] /\ j + 1 \in DOMAIN s
    BY <1>5, <1>6, <2>1
  <2>3. s[1] \in Int /\ s[j + 1] \in Int
    BY <1>2, <1>5, <2>2, ElementOfSeq
  <2>4. QED
    BY <1>4, <2>2, <2>3 DEF Range
<1>9. Head(s) \in Range(s)
  BY <1>4, <1>5 DEF Range
<1>10. QED
  BY <1>1, <1>7, <1>8, <1>9

(* A thread reads the next segment.                                        *)
LEMMA ReadReturnsIInv ==
  ASSUME IInv, NEW i \in DOMAIN threads, ReadReturns(i)
  PROVE  IInv'
<1> DEFINE x == threads[i].conn
           Seqs == Seq(1 .. Segments + 1)
<1>1. /\ toApp[x] # <<>> /\ toApp' = [toApp EXCEPT ![x] = Tail(toApp[x])]
      /\ read' = [read EXCEPT ![x] =
                    IF got[x].inOrder THEN Head(toApp[x]) ELSE 0]
      /\ UNCHANGED <<tcbs, newpTcbOnAccept, accepting, spurious, missed,
                     toTcb, output, packets, fault, got>>
  BY DEF ReadReturns
<1>2. PICK to \in Places : threads' = [threads EXCEPT ![i].at = to]
  BY DEF ReadReturns, Places
<1>3. /\ threads' \in Seq([conn : Ids, at : Places])
      /\ AcceptedOnce' /\ NextToAccept'
  BY <1>1, <1>2, MoveThread
<1>4. x \in Ids /\ x \in Slots /\ Ids \subseteq Slots
  BY AcceptedAreIds, TypesOf DEF IInv
<1>5. toApp \in [Slots -> Seqs] /\ read \in [Slots -> 0 .. Segments + 1]
  BY DEF IInv, TypeOK
<1>6. toApp[x] \in Seqs /\ Segments \in Nat
  BY <1>4, <1>5, BoundsMeaning
<1> HIDE DEF x
<1>7. Tail(toApp[x]) \in Seqs /\ Head(toApp[x]) \in 1 .. Segments + 1
  BY <1>1, <1>6, HeadTailProperties
<1>8. /\ toApp' \in [Slots -> Seqs] /\ read' \in [Slots -> 0 .. Segments + 1]
      /\ toApp'[x] = Tail(toApp[x])
      /\ read'[x] = IF got[x].inOrder THEN Head(toApp[x]) ELSE 0
      /\ \A y \in Slots \ {x} : toApp'[y] = toApp[y] /\ read'[y] = read[y]
  <2> HIDE DEF Seqs
  <2>1. /\ toApp' \in [Slots -> Seqs] /\ toApp'[x] = Tail(toApp[x])
        /\ \A y \in Slots \ {x} : toApp'[y] = toApp[y]
    BY <1>1, <1>4, <1>5, <1>7
  <2>2. (IF got[x].inOrder THEN Head(toApp[x]) ELSE 0) \in 0 .. Segments + 1
    BY <1>6, <1>7
  <2>3. /\ read' \in [Slots -> 0 .. Segments + 1]
        /\ read'[x] = IF got[x].inOrder THEN Head(toApp[x]) ELSE 0
        /\ \A y \in Slots \ {x} : read'[y] = read[y]
    BY <1>1, <1>4, <1>5, <2>2
  <2>4. QED
    BY <2>1, <2>3
<1>9. TypeOK'
  BY <1>1, <1>3, <1>8 DEF IInv, TypeOK, output, Ids, Places
<1>10. SentInSequence'
  BY <1>1, SameSent DEF IInv
<1>11. UnusedSlots'
  BY <1>1, <1>4, <1>8 DEF IInv, UnusedSlots, output, Ids
<1>12. got[x].inOrder =>
         /\ Range(toApp'[x]) \subseteq read'[x] + 1 .. got[x].n
         /\ \A j, k \in DOMAIN toApp'[x] : j < k => toApp'[x][j] < toApp'[x][k]
         /\ read'[x] <= got[x].n
  <2>1. SUFFICES ASSUME got[x].inOrder
                 PROVE  /\ Range(toApp'[x]) \subseteq read'[x] + 1 .. got[x].n
                        /\ \A j, k \in DOMAIN toApp'[x] :
                             j < k => toApp'[x][j] < toApp'[x][k]
                        /\ read'[x] <= got[x].n
    OBVIOUS
  <2>2. /\ Range(toApp[x]) \subseteq read[x] + 1 .. got[x].n
        /\ \A j, k \in DOMAIN toApp[x] : j < k => toApp[x][j] < toApp[x][k]
    BY <1>4, <2>1 DEF IInv, InOrderStream
  <2>3. /\ Head(toApp[x]) \in Range(toApp[x])
        /\ \A j, k \in DOMAIN Tail(toApp[x]) :
             j < k => Tail(toApp[x])[j] < Tail(toApp[x])[k]
        /\ Range(Tail(toApp[x])) \subseteq
             {n \in Range(toApp[x]) : n > Head(toApp[x])}
    <3>1. (1 .. Segments + 1) \in SUBSET Int
      BY <1>6
    <3>2. ASSUME NEW s \in Seqs, s # <<>>,
                 \A j, k \in DOMAIN s : j < k => s[j] < s[k]
          PROVE  /\ Head(s) \in Range(s)
                 /\ \A j, k \in DOMAIN Tail(s) :
                      j < k => Tail(s)[j] < Tail(s)[k]
                 /\ Range(Tail(s)) \subseteq {n \in Range(s) : n > Head(s)}
      BY <3>1, <3>2, RestIncreases
    <3>3. QED
      BY <1>1, <1>6, <2>2, <3>2, Zenon
  <2>4. read'[x] = Head(toApp[x]) /\ toApp'[x] = Tail(toApp[x])
    BY <1>8, <2>1
  <2>5. got[x].n \in Nat /\ read[x] \in Nat
    BY <1>4, <1>5 DEF IInv, TypeOK
  <2>6. read'[x] \in read[x] + 1 .. got[x].n /\ read'[x] \in Nat
    BY <2>2, <2>3, <2>4, <1>7
  <2>7. ASSUME NEW n \in Range(toApp'[x])
        PROVE  n \in read'[x] + 1 .. got[x].n
    BY <2>2, <2>3, <2>4, <2>5, <2>6, <2>7
  <2>8. QED
    BY <2>3, <2>4, <2>5, <2>6, <2>7
<1>13. InOrderStream' /\ ReadBehind'
  <2>1. ASSUME NEW y \in Ids, got[y].inOrder
        PROVE  /\ Range(toApp'[y]) \subseteq read'[y] + 1 .. got[y].n
               /\ \A j, k \in DOMAIN toApp'[y] :
                    j < k => toApp'[y][j] < toApp'[y][k]
               /\ read'[y] <= got[y].n
    <3>1. CASE y = x
      BY <1>12, <2>1, <3>1
    <3>2. CASE y # x
      <4>1. toApp'[y] = toApp[y] /\ read'[y] = read[y]
        BY <1>4, <1>8, <3>2
      <4>2. QED
        BY <2>1, <4>1 DEF IInv, InOrderStream, ReadBehind
    <3>3. QED
      BY <3>1, <3>2
  <2>2. InOrderStream'
    BY <1>1, <2>1 DEF IInv, InOrderStream, Ids, output
  <2>3. ReadBehind'
    BY <1>1, <2>1 DEF IInv, ReadBehind, Ids
  <2>4. QED
    BY <2>2, <2>3
<1>14. QED
  BY <1>3, <1>9, <1>10, <1>11, <1>13 DEF IInv

-----------------------------------------------------------------------------
(* The packets, and the messages of the threads.                           *)

(* A connection that stays in its numbers.                                 *)
LEMMA ContinueSent ==
  ASSUME SentInSequence, NEW x \in Ids, Ids' = Ids, gaps' = gaps,
         tcbs'[x].next_seq = wire'[x].end,
         \A y \in Ids \ {x} : tcbs'[y] = tcbs[y] /\ wire'[y] = wire[y],
         \A y \in Ids : sent[y] \subseteq sent'[y]
  PROVE  SentInSequence'
<1>1. \A y \in Ids : tcbs'[y].next_seq = wire'[y].end /\ "synack" \in sent'[y]
  BY DEF SentInSequence
<1>2. QED
  BY <1>1 DEF SentInSequence

(* What has been acknowledged to a connection that receives in order.      *)
Acknowledged(x) ==
  {tcbs[x].ack, wire[x].ack} \subseteq
    IF tcbs[x].state \in {"SYN_RECV", "ESTABLISHED"}
    THEN {1 + got[x].n} ELSE {1 + got[x].n, 2 + got[x].n}

Delivered(x) ==
  /\ Range(toApp[x]) \subseteq read[x] + 1 .. got[x].n
  /\ \A j, k \in DOMAIN toApp[x] : j < k => toApp[x][j] < toApp[x][k]

NothingYet(x) ==
  read[x] <= got[x].n /\ (tcbs[x].state = "SYN_RECV" => got[x].n = 0)

(* The stream of a connection, and the others.                             *)
LEMMA StreamOfEach ==
  (InOrderStream /\ ReadBehind) <=>
     \A x \in Ids : got[x].inOrder =>
       Acknowledged(x) /\ Delivered(x) /\ NothingYet(x)
BY DEF InOrderStream, ReadBehind, Acknowledged, Delivered, NothingYet

LEMMA ContinueStream ==
  ASSUME InOrderStream, ReadBehind, UnusedSlots, TypeOK,
         NEW x \in Ids, Ids' = Ids,
         \A y \in Ids \ {x} : tcbs'[y] = tcbs[y],
         \A y \in Slots \ {x} : /\ wire'[y] = wire[y] /\ toApp'[y] = toApp[y]
                                /\ got'[y] = got[y] /\ read'[y] = read[y],
         got'[x].inOrder =>
           Acknowledged(x)' /\ Delivered(x)' /\ NothingYet(x)'
  PROVE  InOrderStream' /\ ReadBehind' /\ UnusedSlots'
<1>1. Ids \subseteq Slots
  BY TypesOf
<1>2. ASSUME NEW y \in Ids', got'[y].inOrder
      PROVE  Acknowledged(y)' /\ Delivered(y)' /\ NothingYet(y)'
  <2>1. CASE y = x
    BY <1>2, <2>1
  <2>2. CASE y # x
    <3>1. /\ tcbs'[y] = tcbs[y] /\ wire'[y] = wire[y]
          /\ toApp'[y] = toApp[y] /\ got'[y] = got[y] /\ read'[y] = read[y]
      BY <1>1, <2>2
    <3>2. Acknowledged(y) /\ Delivered(y) /\ NothingYet(y)
      BY <1>2, <3>1, StreamOfEach
    <3>3. QED
      BY <3>1, <3>2 DEF Acknowledged, Delivered, NothingYet
  <2>3. QED
    BY <2>1, <2>2
<1>3. InOrderStream' /\ ReadBehind'
  BY <1>2
     DEF InOrderStream, ReadBehind, Acknowledged, Delivered, NothingYet
<1>4. UnusedSlots'
  BY <1>1 DEF UnusedSlots
<1>5. QED
  BY <1>3, <1>4

(* Whatever is sent for a connection, the state it is in and the data that *)
(* has come stay as they are.                                              *)
LEMMA SendIInv ==
  ASSUME IInv, NEW x \in Ids, ~Removed(x), NEW kind \in Kinds, NEW u \in Tcb,
         u.client = tcbs[x].client, u.next_seq = tcbs[x].next_seq,
         Send(x, kind, u), UNCHANGED <<accept, toApp, fault, read>>,
         toTcb' \in [Slots -> Seq({"SEND_DATA", "SOCKET_CLOSE"})],
         packets' \in [Clients -> Nat],
         got' \in [Slots -> [n : Nat, inOrder : BOOLEAN]],
         \A y \in Slots \ {x} : got'[y] = got[y],
         got'[x].inOrder =>
           /\ got[x].inOrder /\ got'[x].n = got[x].n
           /\ u.state = "SYN_RECV" => tcbs[x].state = "SYN_RECV"
           /\ u.ack \in IF u.state \in {"SYN_RECV", "ESTABLISHED"}
                        THEN {1 + got[x].n} ELSE {1 + got[x].n, 2 + got[x].n}
  PROVE  IInv'
<1> DEFINE v == [u EXCEPT !.next_seq = u.next_seq + Length(kind)]
<1>1. TypeOK /\ AcceptedOnce /\ NextToAccept /\ SentInSequence
  BY DEF IInv
<1>2. x \in Slots /\ Ids \subseteq Slots /\ u.next_seq \in Nat /\ u.ack \in Nat
  BY <1>1, TypesOf DEF Tcb
<1>3. OnWire(x, kind, u.next_seq, u.ack) /\ tcbs' = [tcbs EXCEPT ![x] = v]
  BY DEF Send, Advance
<1>4. u.next_seq = wire[x].end
  BY <1>1 DEF SentInSequence
<1>5. /\ Length(kind) \in Nat
      /\ wire' \in [Slots -> [end : Nat, ack : Nat]]
      /\ wire'[x].end = u.next_seq + Length(kind) /\ wire'[x].ack = u.ack
      /\ \A y \in Slots \ {x} : wire'[y] = wire[y]
      /\ sent' \in [Slots -> SUBSET Kinds]
      /\ \A y \in Slots : sent[y] \subseteq sent'[y]
      /\ gaps' = gaps
  BY <1>1, <1>2, <1>3, <1>4, SendOne
<1>6. /\ v \in Tcb /\ v.client = u.client /\ v.ack = u.ack
      /\ v.state = u.state /\ v.next_seq = u.next_seq + Length(kind)
  BY <1>2, <1>5 DEF Tcb
<1> HIDE DEF v
<1>7. /\ tcbs' \in Seq(Tcb) /\ Len(tcbs') = Len(tcbs) /\ Ids' = Ids
      /\ tcbs'[x] = v /\ \A y \in Ids \ {x} : tcbs'[y] = tcbs[y]
      /\ AcceptedOnce' /\ NextToAccept'
  BY <1>1, <1>3, <1>6, ChangeTcb
<1>8. TypeOK'
  BY <1>1, <1>5, <1>7 DEF TypeOK, Tcb, Kinds, accept
<1>9. SentInSequence'
  BY <1>1, <1>2, <1>5, <1>6, <1>7, ContinueSent
<1>10. got'[x].inOrder =>
         Acknowledged(x)' /\ Delivered(x)' /\ NothingYet(x)'
  <2>1. SUFFICES ASSUME got'[x].inOrder
                 PROVE  Acknowledged(x)' /\ Delivered(x)' /\ NothingYet(x)'
    OBVIOUS
  <2>2. Acknowledged(x) /\ Delivered(x) /\ NothingYet(x)
    BY <2>1, StreamOfEach DEF IInv
  <2>3. Acknowledged(x)'
    BY <1>5, <1>6, <1>7, <2>1 DEF Acknowledged
  <2>4. Delivered(x)'
    BY <2>1, <2>2 DEF Delivered
  <2>5. NothingYet(x)'
    BY <1>6, <1>7, <2>1, <2>2 DEF NothingYet
  <2>6. QED
    BY <2>3, <2>4, <2>5
<1>11. InOrderStream' /\ ReadBehind' /\ UnusedSlots'
  BY <1>5, <1>7, <1>10, ContinueStream DEF IInv
<1>12. QED
  BY <1>7, <1>8, <1>9, <1>11 DEF IInv

(* A step of one connection that sends nothing.                            *)
LEMMA SilentIInv ==
  ASSUME IInv, NEW x \in Ids, ~Removed(x), NEW u \in Tcb,
         u.client = tcbs[x].client, u.next_seq = tcbs[x].next_seq,
         tcbs' = [tcbs EXCEPT ![x] = u],
         UNCHANGED <<accept, output, toApp, toTcb, fault, read>>,
         packets' \in [Clients -> Nat],
         got' \in [Slots -> [n : Nat, inOrder : BOOLEAN]],
         \A y \in Slots \ {x} : got'[y] = got[y],
         got'[x].inOrder =>
           /\ got[x].inOrder /\ got'[x].n = got[x].n
           /\ u.state = "SYN_RECV" => tcbs[x].state = "SYN_RECV"
           /\ {u.ack, wire[x].ack} \subseteq
                IF u.state \in {"SYN_RECV", "ESTABLISHED"}
                THEN {1 + got[x].n} ELSE {1 + got[x].n, 2 + got[x].n}
  PROVE  IInv'
<1>1. TypeOK /\ AcceptedOnce /\ NextToAccept /\ SentInSequence
  BY DEF IInv
<1>2. /\ tcbs' \in Seq(Tcb) /\ Len(tcbs') = Len(tcbs) /\ Ids' = Ids
      /\ tcbs'[x] = u /\ \A y \in Ids \ {x} : tcbs'[y] = tcbs[y]
      /\ AcceptedOnce' /\ NextToAccept'
  BY <1>1, ChangeTcb
<1>3. TypeOK'
  BY <1>1, <1>2 DEF TypeOK, Tcb, accept, output
<1>4. SentInSequence'
  <2>1. tcbs'[x].next_seq = wire'[x].end
    BY <1>1, <1>2 DEF SentInSequence, output
  <2>2. QED
    BY <1>1, <1>2, <2>1, ContinueSent DEF output
<1>5. got'[x].inOrder =>
         Acknowledged(x)' /\ Delivered(x)' /\ NothingYet(x)'
  <2>1. SUFFICES ASSUME got'[x].inOrder
                 PROVE  Acknowledged(x)' /\ Delivered(x)' /\ NothingYet(x)'
    OBVIOUS
  <2>2. Acknowledged(x) /\ Delivered(x) /\ NothingYet(x)
    BY <2>1, StreamOfEach DEF IInv
  <2>3. Acknowledged(x)'
    BY <1>2, <2>1 DEF Acknowledged, output
  <2>4. Delivered(x)'
    BY <2>1, <2>2 DEF Delivered
  <2>5. NothingYet(x)'
    BY <1>2, <2>1, <2>2 DEF NothingYet
  <2>6. QED
    BY <2>3, <2>4, <2>5
<1>6. InOrderStream' /\ ReadBehind' /\ UnusedSlots'
  BY <1>2, <1>5, ContinueStream DEF IInv, output
<1>7. QED
  BY <1>2, <1>3, <1>4, <1>6 DEF IInv

(* A message of a thread: data, or a FIN in whatever state.                *)
LEMMA OutQueueIInv ==
  ASSUME IInv, NEW x \in Ids, check_socket_out_queue(x)
  PROVE  IInv'
<1> DEFINE Messages == {"SEND_DATA", "SOCKET_CLOSE"}
<1>1. /\ ~Removed(x) /\ toTcb[x] # <<>>
      /\ toTcb' = [toTcb EXCEPT ![x] = Tail(@)]
      /\ UNCHANGED <<accept, toApp, packets, fault, history>>
  BY DEF check_socket_out_queue, Visited
<1>2. PICK kind \in Kinds : Send(x, kind, tcbs[x])
  BY DEF check_socket_out_queue, sendfin, sendtcpdata, Kinds
<1>3. tcbs[x] \in Tcb /\ x \in Slots
  BY TypesOf DEF IInv
<1>4. /\ toTcb \in [Slots -> Seq(Messages)] /\ packets \in [Clients -> Nat]
      /\ got \in [Slots -> [n : Nat, inOrder : BOOLEAN]]
  BY DEF IInv, TypeOK
<1>5. toTcb' \in [Slots -> Seq(Messages)]
  <2> HIDE DEF Messages
  <2>1. Tail(toTcb[x]) \in Seq(Messages)
    BY <1>1, <1>3, <1>4, HeadTailProperties
  <2>2. QED
    BY <1>1, <1>3, <1>4, <2>1
<1>6. got[x].inOrder =>
        tcbs[x].ack \in IF tcbs[x].state \in {"SYN_RECV", "ESTABLISHED"}
                        THEN {1 + got[x].n} ELSE {1 + got[x].n, 2 + got[x].n}
  BY DEF IInv, InOrderStream
<1>7. UNCHANGED <<accept, toApp, fault, read, got, packets>>
  BY <1>1 DEF history
<1>8. QED
  BY <1>1, <1>2, <1>3, <1>4, <1>5, <1>6, <1>7, SendIInv

(* The first packet after the SYN.                                         *)
LEMMA SynRcvIInv ==
  ASSUME IInv, NEW x \in Ids, NEW p \in Packets,
         tcbs[x].state = "SYN_RECV", tcp_syn_rcv(x, p),
         UNCHANGED <<accept, read, toTcb>>, packets' \in [Clients -> Nat]
  PROVE  IInv'
<1> DEFINE a == IF p.syn \/ p.fin THEN p.seq + 1 ELSE tcbs[x].ack
           u == [tcbs[x] EXCEPT !.state = "ESTABLISHED", !.ack = a]
<1>1. tcbs[x] \in Tcb /\ x \in Slots /\ tcbs \in Seq(Tcb)
  BY TypesOf DEF IInv
<1>2. /\ u \in Tcb /\ u.client = tcbs[x].client /\ u.state = "ESTABLISHED"
      /\ u.next_seq = tcbs[x].next_seq
      /\ u.ack = a
  <2>1. p.seq + 1 \in Nat
    BY PacketsMeaning, BoundsMeaning
  <2>2. a \in Nat
    BY <1>1, <2>1 DEF Tcb
  <2> HIDE DEF a
  <2>3. QED
    BY <1>1, <2>2 DEF Tcb
<1>3. tcbs' = [tcbs EXCEPT ![x] = u]
  BY <1>1 DEF tcp_syn_rcv
<1> HIDE DEF u
<1>4. got \in [Slots -> [n : Nat, inOrder : BOOLEAN]]
  BY DEF IInv, TypeOK
<1>5. /\ got' \in [Slots -> [n : Nat, inOrder : BOOLEAN]]
      /\ \A y \in Slots \ {x} : got'[y] = got[y]
      /\ got'[x].inOrder => got[x].inOrder /\ got'[x] = got[x]
                              /\ p \in {SYN, ACK, PAD}
  BY <1>1, <1>4 DEF tcp_syn_rcv, OutOfOrder
<1>6. got[x].inOrder =>
        got[x].n = 0 /\ tcbs[x].ack = 1 + got[x].n
          /\ wire[x].ack = 1 + got[x].n
  BY DEF IInv, InOrderStream, ReadBehind
<1>7. p \in {SYN, ACK, PAD} => ~p.fin /\ (p.syn => p.seq = 0)
  BY PacketsMeaning
<1>8. got'[x].inOrder => {u.ack, wire[x].ack} \subseteq {1 + got[x].n}
  BY <1>2, <1>5, <1>6, <1>7
<1>9. ~Removed(x) /\ UNCHANGED <<output, toApp, fault>>
  BY DEF Removed, tcp_syn_rcv
<1>10. packets' \in [Clients -> Nat] /\ UNCHANGED <<accept, read, toTcb>>
  OBVIOUS
<1>11. QED
  BY <1>2, <1>3, <1>5, <1>8, <1>9, <1>10, SilentIInv

(* A packet for a connection its peer has closed: the FIN.                 *)
LEMMA Fin2IInv ==
  ASSUME IInv, NEW x \in Ids, tcbs[x].state = "FIN_2", tcp_fin2(x),
         UNCHANGED <<accept, read, toTcb>>, packets' \in [Clients -> Nat]
  PROVE  IInv'
<1> DEFINE u == [tcbs[x] EXCEPT !.state = "CLOSED"]
<1>1. tcbs[x] \in Tcb
  BY TypesOf DEF IInv
<1>2. /\ u \in Tcb /\ u.client = tcbs[x].client /\ u.state = "CLOSED"
      /\ u.next_seq = tcbs[x].next_seq /\ u.ack = tcbs[x].ack
  BY <1>1 DEF Tcb
<1>3. Send(x, "fin", u) /\ UNCHANGED <<toApp, fault, got>>
  BY DEF tcp_fin2, sendfin
<1> HIDE DEF u
<1>4. got[x].inOrder => u.ack \in {1 + got[x].n, 2 + got[x].n}
  BY <1>2 DEF IInv, InOrderStream
<1>5. /\ toTcb \in [Slots -> Seq({"SEND_DATA", "SOCKET_CLOSE"})]
      /\ got \in [Slots -> [n : Nat, inOrder : BOOLEAN]]
  BY DEF IInv, TypeOK
<1>6. ~Removed(x) /\ "fin" \in Kinds
  BY DEF Removed, Kinds
<1>7. QED
  BY <1>2, <1>3, <1>4, <1>5, <1>6, SendIInv

(* A packet for a connection that has sent its FIN: it is removed.         *)
LEMMA ClosedIInv ==
  ASSUME IInv, NEW x \in Ids, tcbs[x].state = "CLOSED", tcp_closed(x),
         UNCHANGED <<accept, read, toTcb>>, packets' \in [Clients -> Nat]
  PROVE  IInv'
<1> DEFINE u == [tcbs[x] EXCEPT !.state = "removed"]
<1>1. tcbs[x] \in Tcb /\ tcbs \in Seq(Tcb)
  BY TypesOf DEF IInv
<1>2. /\ u \in Tcb /\ u.client = tcbs[x].client /\ u.state = "removed"
      /\ u.next_seq = tcbs[x].next_seq /\ u.ack = tcbs[x].ack
  BY <1>1 DEF Tcb
<1>3. tcbs' = [tcbs EXCEPT ![x] = u]
      /\ UNCHANGED <<output, toApp, fault, got>>
  BY <1>1 DEF tcp_closed
<1> HIDE DEF u
<1>4. got[x].inOrder => {u.ack, wire[x].ack} \subseteq
                          {1 + got[x].n, 2 + got[x].n}
  BY <1>2 DEF IInv, InOrderStream
<1>5. got \in [Slots -> [n : Nat, inOrder : BOOLEAN]]
  BY DEF IInv, TypeOK
<1>6. ~Removed(x)
  BY DEF Removed
<1>7. QED
  BY <1>2, <1>3, <1>4, <1>5, <1>6, SilentIInv

(* Data: it is acknowledged, and handed to the thread, or the process dies *)
(* of its length.                                                          *)
LEMMA PushIInv ==
  ASSUME IInv, NEW x \in Ids, NEW p \in Packets, p.len > 0,
         NEW t \in Tcb, t.client = tcbs[x].client,
         t.next_seq = tcbs[x].next_seq,
         tcbs[x].state = "ESTABLISHED",
         t.state = IF p.fin THEN "FIN_2" ELSE "ESTABLISHED",
         PushData(x, t, p),
         got' = IF p = ACK \/ ~got[x].inOrder THEN got
                ELSE [got EXCEPT ![x] =
                        IF p # PAD /\ p.seq = @.n + 1
                        THEN [n |-> @.n + p.len, inOrder |-> TRUE]
                        ELSE OutOfOrder],
         UNCHANGED <<accept, read, toTcb>>, packets' \in [Clients -> Nat]
  PROVE  IInv'
<1> DEFINE acked == End(p) + (IF p.fin \/ p.syn THEN 1 ELSE 0)
           start == IF t.start = 0 THEN p.seq ELSE t.start
           u == [t EXCEPT !.ack = End(p), !.pairs = <<>>, !.start = start]
           Seqs == Seq(1 .. Segments + 1)
<1>1. TypeOK /\ AcceptedOnce /\ NextToAccept /\ SentInSequence
  BY DEF IInv
<1>2. /\ p.seq \in 1 .. Segments + 1 /\ p.seq \in Nat /\ p.len \in Nat
      /\ p # ACK /\ ~p.syn /\ Segments \in Nat
      /\ p # PAD => p.len = 1
  BY PacketsMeaning, BoundsMeaning
<1>3. x \in Slots /\ Ids \subseteq Slots /\ tcbs[x] \in Tcb /\ ~Removed(x)
  BY <1>1, TypesOf DEF Removed
<1>4. t.pairs = <<>> /\ t.start \in Nat /\ t.next_seq \in Nat
  BY DEF Tcb
<1>5. End(p) \in Nat /\ End(p) = p.seq + p.len /\ acked \in Nat
      /\ acked = p.seq + p.len + (IF p.fin THEN 1 ELSE 0)
  BY <1>2 DEF End
<1>6. start \in Nat
  BY <1>2, <1>4
<1>7. /\ u \in Tcb /\ u.client = tcbs[x].client
      /\ u.next_seq = tcbs[x].next_seq
      /\ u.ack = End(p) /\ u.state = t.state
  <2> HIDE DEF start, acked
  <2>1. QED
    BY <1>5, <1>6 DEF Tcb
<1>8. /\ OnWire(x, "ack", t.next_seq, acked) /\ tcbs' = [tcbs EXCEPT ![x] = u]
      /\ \/ /\ toApp' = [toApp EXCEPT ![x] = Append(@, p.seq)]
            /\ UNCHANGED fault
         \/ UNCHANGED <<toApp, fault>>
         \/ fault' = "length" /\ UNCHANGED toApp
         \/ fault' = "window" /\ UNCHANGED toApp
  <2> DEFINE pairs == AdjustPair(t.pairs, p.seq, p.len)
  <2>1. pairs[1] = [seq |-> p.seq, len |-> p.len] /\ GetData(pairs) = <<>>
    <3>1. /\ AdjustPair(<<>>, p.seq, p.len)[1] = [seq |-> p.seq, len |-> p.len]
          /\ GetData(AdjustPair(<<>>, p.seq, p.len)) = <<>>
      BY PairTaken, Zenon
    <3>2. QED
      BY <1>4, <3>1, Zenon
  <2>2. End(pairs[1]) = End(p)
    BY <2>1 DEF End
  <2> HIDE DEF pairs
  <2>3. /\ OnWire(x, "ack", t.next_seq, acked)
        /\ tcbs' = [tcbs EXCEPT ![x] = [t EXCEPT !.ack = End(pairs[1]),
                      !.pairs = GetData(pairs), !.start = start]]
        /\ IF Overruns(start, p) THEN fault' = "window" /\ UNCHANGED toApp
                                 ELSE PushDataInQueue(x, p)
    BY <1>4, Zenon DEF PushData, pairs
  <2>4. tcbs' = [tcbs EXCEPT ![x] = u]
    BY <2>1, <2>2, <2>3, Zenon
  <2>5. QED
    BY <2>3, <2>4, Zenon DEF PushDataInQueue
<1> HIDE DEF u, acked, start
<1>9. t.next_seq = wire[x].end /\ "ack" \in Kinds /\ Length("ack") = 0
  BY <1>1 DEF SentInSequence, Kinds, Length
<1>10. /\ wire' \in [Slots -> [end : Nat, ack : Nat]]
       /\ wire'[x].end = t.next_seq + Length("ack") /\ wire'[x].ack = acked
       /\ \A y \in Slots \ {x} : wire'[y] = wire[y]
       /\ sent' \in [Slots -> SUBSET Kinds]
       /\ \A y \in Slots : sent[y] \subseteq sent'[y]
       /\ gaps' = gaps
  BY <1>1, <1>3, <1>5, <1>8, <1>9, SendOne
<1>11. /\ tcbs' \in Seq(Tcb) /\ Len(tcbs') = Len(tcbs) /\ Ids' = Ids
       /\ tcbs'[x] = u /\ \A y \in Ids \ {x} : tcbs'[y] = tcbs[y]
       /\ AcceptedOnce' /\ NextToAccept'
  BY <1>1, <1>3, <1>7, <1>8, ChangeTcb
<1>12. /\ toApp \in [Slots -> Seqs] /\ toApp[x] \in Seqs
       /\ got \in [Slots -> [n : Nat, inOrder : BOOLEAN]]
       /\ got[x].n \in Nat /\ got[x].inOrder \in BOOLEAN
       /\ fault \in {"none", "length", "window", "slots", "null", "garbage"}
  BY <1>1, <1>3 DEF TypeOK
<1>13. Append(toApp[x], p.seq) \in Seqs
  BY <1>2, <1>12, AppendProperties
<1>14. /\ toApp' \in [Slots -> Seqs]
       /\ toApp'[x] = toApp[x] \/ toApp'[x] = Append(toApp[x], p.seq)
       /\ \A y \in Slots \ {x} : toApp'[y] = toApp[y]
       /\ fault' \in {"none", "length", "window", "slots", "null", "garbage"}
  <2> HIDE DEF Seqs
  <2>1. QED
    BY <1>3, <1>8, <1>12, <1>13
<1>15. /\ got' \in [Slots -> [n : Nat, inOrder : BOOLEAN]]
       /\ \A y \in Slots \ {x} : got'[y] = got[y]
       /\ got'[x].inOrder =>
            /\ got[x].inOrder /\ p.seq = got[x].n + 1 /\ p.len = 1
            /\ got'[x].n = got[x].n + 1
  <2>1. CASE ~got[x].inOrder
    <3>1. got' = got
      BY <2>1
    <3>2. QED
      BY <1>12, <2>1, <3>1
  <2>2. CASE got[x].inOrder /\ p # PAD /\ p.seq = got[x].n + 1
    <3> DEFINE more == [n |-> got[x].n + p.len, inOrder |-> TRUE]
    <3>1. got' = [got EXCEPT ![x] = more]
      BY <1>2, <2>2, Zenon
    <3>2. got[x] \in [n : Nat, inOrder : BOOLEAN]
      BY <1>3, <1>12
    <3>3. p.len = 1 /\ got[x].n + 1 \in Nat
      BY <1>2, <1>12, <2>2
    <3>4. more \in [n : Nat, inOrder : BOOLEAN] /\ more.n = got[x].n + 1
      BY <3>2, <3>3
    <3> HIDE DEF more
    <3>5. /\ got' \in [Slots -> [n : Nat, inOrder : BOOLEAN]]
          /\ \A y \in Slots \ {x} : got'[y] = got[y]
          /\ got'[x] = more
      BY <1>3, <1>12, <3>1, <3>4
    <3>6. QED
      BY <2>2, <3>3, <3>4, <3>5
  <2>3. CASE got[x].inOrder /\ ~(p # PAD /\ p.seq = got[x].n + 1)
    <3>1. got' = [got EXCEPT ![x] = OutOfOrder]
      BY <1>2, <2>3
    <3>2. QED
      BY <1>3, <1>12, <3>1 DEF OutOfOrder
  <2>4. QED
    BY <2>1, <2>2, <2>3
<1>16. TypeOK'
  BY <1>1, <1>10, <1>11, <1>14, <1>15 DEF TypeOK, Tcb, Kinds, accept
<1>17. SentInSequence'
  <2>1. tcbs'[x].next_seq = wire'[x].end
    BY <1>1, <1>4, <1>7, <1>9, <1>10, <1>11
  <2>2. QED
    BY <1>1, <1>3, <1>10, <1>11, <2>1, ContinueSent
<1>18. got'[x].inOrder =>
         Acknowledged(x)' /\ Delivered(x)' /\ NothingYet(x)'
  <2>1. SUFFICES ASSUME got'[x].inOrder
                 PROVE  Acknowledged(x)' /\ Delivered(x)' /\ NothingYet(x)'
    OBVIOUS
  <2>2. /\ got[x].inOrder /\ p.seq = got[x].n + 1 /\ p.len = 1
        /\ got'[x].n = got[x].n + 1
    BY <1>15, <2>1
  <2>3. Delivered(x) /\ NothingYet(x)
    BY <2>2, StreamOfEach DEF IInv
  <2>4. read'[x] = read[x] /\ read[x] \in Nat
    BY <1>1, <1>3 DEF TypeOK
  <2>5. Acknowledged(x)'
    <3>1. tcbs'[x].ack = 1 + got'[x].n
      BY <1>5, <1>7, <1>11, <1>12, <2>2
    <3>2. wire'[x].ack = 1 + got'[x].n + (IF p.fin THEN 1 ELSE 0)
      BY <1>5, <1>10, <1>12, <2>2
    <3>3. tcbs'[x].state = IF p.fin THEN "FIN_2" ELSE "ESTABLISHED"
      BY <1>7, <1>11
    <3>4. QED
      BY <1>12, <2>2, <3>1, <3>2, <3>3 DEF Acknowledged
  <2>6. Delivered(x)'
    <3>1. CASE toApp'[x] = toApp[x]
      <4>1. ASSUME NEW n \in read[x] + 1 .. got[x].n
            PROVE  n \in read'[x] + 1 .. got'[x].n
        BY <1>12, <2>2, <2>4
      <4>2. QED
        BY <2>3, <3>1, <4>1 DEF Delivered
    <3>2. CASE toApp'[x] = Append(toApp[x], p.seq)
      <4>1. /\ Len(toApp[x]) \in Nat /\ DOMAIN toApp[x] = 1 .. Len(toApp[x])
            /\ DOMAIN toApp'[x] = 1 .. Len(toApp[x]) + 1
            /\ \A j \in 1 .. Len(toApp[x]) : toApp'[x][j] = toApp[x][j]
            /\ toApp'[x][Len(toApp[x]) + 1] = p.seq
        BY <1>2, <1>12, <3>2, AppendProperties, LenProperties
      <4>2. \A j \in DOMAIN toApp[x] : toApp[x][j] \in read[x] + 1 .. got[x].n
        BY <2>3 DEF Delivered, Range
      <4>3. ASSUME NEW j \in DOMAIN toApp'[x]
            PROVE  /\ toApp'[x][j] \in read'[x] + 1 .. got'[x].n
                   /\ j = Len(toApp[x]) + 1 =>
                        toApp'[x][j] = got[x].n + 1
                   /\ j # Len(toApp[x]) + 1 =>
                        /\ j \in DOMAIN toApp[x]
                        /\ toApp'[x][j] = toApp[x][j]
        BY <1>12, <2>2, <2>3, <2>4, <4>1, <4>2 DEF NothingYet
      <4>4. ASSUME NEW j \in DOMAIN toApp'[x], NEW k \in DOMAIN toApp'[x],
                   j < k
            PROVE  toApp'[x][j] < toApp'[x][k]
        <5>1. j # Len(toApp[x]) + 1 /\ j \in DOMAIN toApp[x]
              /\ toApp'[x][j] = toApp[x][j]
          BY <4>1, <4>3, <4>4
        <5>2. CASE k = Len(toApp[x]) + 1
          BY <1>12, <2>4, <4>2, <4>3, <5>1, <5>2
        <5>3. CASE k # Len(toApp[x]) + 1
          BY <2>3, <4>3, <4>4, <5>1, <5>3 DEF Delivered
        <5>4. QED
          BY <5>2, <5>3
      <4>5. QED
        BY <4>3, <4>4 DEF Delivered, Range
    <3>3. QED
      BY <1>14, <3>1, <3>2
  <2>7. NothingYet(x)'
    BY <1>7, <1>11, <1>12, <2>2, <2>3, <2>4 DEF NothingYet
  <2>8. QED
    BY <2>5, <2>6, <2>7
<1>19. InOrderStream' /\ ReadBehind' /\ UnusedSlots'
  BY <1>1, <1>10, <1>11, <1>14, <1>15, <1>18, ContinueStream DEF IInv
<1>20. QED
  BY <1>11, <1>16, <1>17, <1>19 DEF IInv

(* A packet for an established connection.                                 *)
LEMMA EstablishedIInv ==
  ASSUME IInv, NEW x \in Ids, NEW p \in Packets,
         tcbs[x].state = "ESTABLISHED", tcp_established(x, p),
         UNCHANGED <<accept, read, toTcb>>, packets' \in [Clients -> Nat]
  PROVE  IInv'
<1> DEFINE t == IF p.fin THEN [tcbs[x] EXCEPT !.state = "FIN_2"] ELSE tcbs[x]
<1>1. tcbs[x] \in Tcb /\ x \in Slots /\ tcbs \in Seq(Tcb) /\ ~Removed(x)
  BY TypesOf DEF IInv, Removed
<1>2. /\ t \in Tcb /\ t.client = tcbs[x].client
      /\ t.next_seq = tcbs[x].next_seq /\ t.ack = tcbs[x].ack
      /\ t.state = IF p.fin THEN "FIN_2" ELSE "ESTABLISHED"
  <2>1. CASE p.fin
    BY <1>1, <2>1 DEF Tcb
  <2>2. CASE ~p.fin
    BY <1>1, <2>2
  <2>3. QED
    BY <2>1, <2>2
<1>3. /\ IF p.len > 0
         THEN PushData(x, t, p)
         ELSE /\ IF p.syn \/ p.fin
                 THEN sendtcpack(x, [t EXCEPT !.ack = p.seq + 1])
                 ELSE UNCHANGED <<tcbs, output>>
              /\ UNCHANGED <<toApp, fault>>
      /\ got' = IF p = ACK \/ ~got[x].inOrder THEN got
                ELSE [got EXCEPT ![x] =
                        IF p # PAD /\ p.seq = @.n + 1
                        THEN [n |-> @.n + p.len, inOrder |-> TRUE]
                        ELSE OutOfOrder]
  BY Zenon DEF tcp_established
<1> HIDE DEF t
<1>4. UNCHANGED <<accept, read, toTcb>> /\ packets' \in [Clients -> Nat]
  OBVIOUS
<1>5. CASE p.len > 0
  BY <1>2, <1>3, <1>4, <1>5, PushIInv
<1>6. /\ got \in [Slots -> [n : Nat, inOrder : BOOLEAN]]
      /\ got[x] \in [n : Nat, inOrder : BOOLEAN]
      /\ toTcb \in [Slots -> Seq({"SEND_DATA", "SOCKET_CLOSE"})]
  BY <1>1 DEF IInv, TypeOK
<1>7. CASE ~(p.len > 0)
  <2>1. p.len = 0
    BY <1>7, PacketsMeaning
  <2>2. /\ got' \in [Slots -> [n : Nat, inOrder : BOOLEAN]]
        /\ \A y \in Slots \ {x} : got'[y] = got[y]
        /\ got'[x].inOrder => got[x].inOrder /\ got'[x].n = got[x].n
        /\ got'[x].inOrder /\ p # ACK => p.seq = got[x].n + 1
    <3>1. CASE p = ACK \/ ~got[x].inOrder
      <4>1. got' = got
        BY <1>3, <3>1, Zenon
      <4>2. QED
        BY <1>6, <3>1, <4>1
    <3>2. CASE /\ ~(p = ACK \/ ~got[x].inOrder)
               /\ p # PAD /\ p.seq = got[x].n + 1
      <4> DEFINE more == [n |-> got[x].n + p.len, inOrder |-> TRUE]
      <4>1. got' = [got EXCEPT ![x] = more]
        BY <1>3, <3>2, Zenon
      <4>2. more \in [n : Nat, inOrder : BOOLEAN] /\ more.n = got[x].n
        BY <1>6, <2>1
      <4> HIDE DEF more
      <4>3. /\ got' \in [Slots -> [n : Nat, inOrder : BOOLEAN]]
            /\ \A y \in Slots \ {x} : got'[y] = got[y]
            /\ got'[x] = more
        BY <1>1, <1>6, <4>1, <4>2
      <4>4. QED
        BY <3>2, <4>2, <4>3
    <3>3. CASE /\ ~(p = ACK \/ ~got[x].inOrder)
               /\ ~(p # PAD /\ p.seq = got[x].n + 1)
      <4>1. got' = [got EXCEPT ![x] = OutOfOrder]
        BY <1>3, <3>3, Zenon
      <4>2. QED
        BY <1>1, <1>6, <4>1 DEF OutOfOrder
    <3>4. QED
      BY <3>1, <3>2, <3>3
  <2>3. CASE p.syn \/ p.fin
    <3> DEFINE u == [t EXCEPT !.ack = p.seq + 1]
    <3>1. Send(x, "ack", u) /\ UNCHANGED <<toApp, fault>>
      BY <1>3, <1>7, <2>3, Zenon DEF sendtcpack
    <3>2. p.seq \in Nat /\ p # ACK /\ (p.syn => p.seq = 0)
      BY <2>3, PacketsMeaning, BoundsMeaning
    <3>3. /\ u \in Tcb /\ u.client = tcbs[x].client /\ u.state = t.state
          /\ u.next_seq = tcbs[x].next_seq /\ u.ack = p.seq + 1
      BY <1>2, <3>2 DEF Tcb
    <3> HIDE DEF u
    <3>4. got'[x].inOrder => u.state = "FIN_2" /\ u.ack = 2 + got[x].n
      BY <1>2, <1>6, <2>2, <2>3, <3>2, <3>3
    <3>5. got'[x].inOrder =>
            /\ got[x].inOrder /\ got'[x].n = got[x].n
            /\ u.state = "SYN_RECV" => tcbs[x].state = "SYN_RECV"
            /\ u.ack \in IF u.state \in {"SYN_RECV", "ESTABLISHED"}
                         THEN {1 + got[x].n} ELSE {1 + got[x].n, 2 + got[x].n}
      BY <2>2, <3>4
    <3>6. /\ "ack" \in Kinds /\ UNCHANGED <<accept, toApp, fault, read>>
          /\ toTcb' \in [Slots -> Seq({"SEND_DATA", "SOCKET_CLOSE"})]
      BY <1>4, <1>6, <3>1 DEF Kinds
    <3>7. QED
      BY <1>1, <1>4, <2>2, <3>1, <3>3, <3>5, <3>6, SendIInv
  <2>4. CASE ~(p.syn \/ p.fin)
    <3>1. UNCHANGED <<tcbs, output>> /\ UNCHANGED <<toApp, fault>>
      BY <1>3, <1>7, <2>4, Zenon
    <3>2. p = ACK
      BY <2>1, <2>4, PacketsMeaning
    <3>3. got' = got
      BY <1>3, <3>2, Zenon
    <3>4. tcbs' = [tcbs EXCEPT ![x] = tcbs[x]]
      BY <1>1, <3>1
    <3>5. got[x].inOrder =>
            {tcbs[x].ack, wire[x].ack} \subseteq {1 + got[x].n}
      BY DEF IInv, InOrderStream
    <3>6. QED
      BY <1>1, <1>4, <1>6, <3>1, <3>3, <3>4, <3>5, SilentIInv
  <2>5. QED
    BY <2>3, <2>4
<1>8. QED
  BY <1>5, <1>7

(* A SYN nobody has a connection for: the next slot is the connection's,   *)
(* and it is the next to be accepted, in the place of one that was not.    *)
LEMMA ListenIInv ==
  ASSUME IInv, NEW c \in Clients, findtcb(c) = {}, tcp_listen(c),
         UNCHANGED toTcb, packets' \in [Clients -> Nat]
  PROVE  IInv'
<1> DEFINE x == Len(tcbs) + 1
           States == {"SYN_RECV", "ESTABLISHED", "FIN_2", "CLOSED", "removed"}
<1>1. TypeOK /\ AcceptedOnce /\ NextToAccept /\ SentInSequence
  BY DEF IInv
<1>2. /\ tcbs \in Seq(Tcb) /\ Ids = 1 .. Len(tcbs) /\ Len(tcbs) \in Nat
      /\ Ids \subseteq Slots
  BY <1>1, TypesOf
<1>3. CASE x \notin Slots
  <2>1. /\ fault' = "slots"
        /\ UNCHANGED <<tcbs, accept, toApp, output, history>>
    BY <1>3 DEF tcp_listen
  <2>2. TypeOK'
    BY <1>1, <2>1 DEF TypeOK, accept, output, history, Ids
  <2>3. AcceptedOnce' /\ NextToAccept'
    BY <1>1, <2>1, SameAccept
  <2>4. SentInSequence' /\ InOrderStream' /\ UnusedSlots' /\ ReadBehind'
    BY <2>1, SameSent, SameStream DEF IInv
  <2>5. QED
    BY <2>2, <2>3, <2>4 DEF IInv
<1>4. CASE x \in Slots
  <2> DEFINE new == Advance(NewTcb(c), "synack")
  <2>1. /\ tcbs' = Append(tcbs, new) /\ OnWire(x, "synack", 1, 1)
        /\ newpTcbOnAccept' = x
        /\ accepting' = IF accepting = "waiting" THEN "woken" ELSE accepting
        /\ missed' = CASE accepting = "out"   -> missed \union {x}
                       [] accepting = "woken" ->
                            missed \union ({newpTcbOnAccept} \ {0})
                       [] OTHER               -> missed
        /\ UNCHANGED <<threads, spurious, toApp, fault, history>>
    BY <1>4 DEF tcp_listen, SetNewTcb, NewTcb, SYN
  <2>2. /\ new \in Tcb /\ new.client = c /\ new.state = "SYN_RECV"
        /\ new.ack = 1 /\ new.next_seq = 2
    BY DEF Tcb, NewTcb, Advance, Length, SYN
  <2> HIDE DEF new
  <2>3. x \notin Ids
    BY <1>2
  <2>4. /\ wire[x].end = 1 /\ got[x] = InOrder /\ toApp[x] = <<>>
        /\ read[x] = 0
    BY <1>4, <2>3 DEF IInv, UnusedSlots
  <2>5. /\ tcbs' \in Seq(Tcb) /\ Len(tcbs') = x /\ Ids' = Ids \union {x}
        /\ tcbs'[x] = new /\ \A y \in Ids : tcbs'[y] = tcbs[y]
    <3>1. /\ tcbs' \in Seq(Tcb) /\ Len(tcbs') = x
          /\ \A y \in 1 .. Len(tcbs) : tcbs'[y] = tcbs[y]
          /\ tcbs'[x] = new
      BY <1>2, <2>1, <2>2, AppendProperties
    <3>2. DOMAIN tcbs' = 1 .. x
      BY <3>1, LenProperties
    <3>3. QED
      BY <1>2, <3>1, <3>2 DEF Ids
  <2>6. "synack" \in Kinds /\ Length("synack") = 1
    BY DEF Kinds, Length
  <2>7. /\ wire' \in [Slots -> [end : Nat, ack : Nat]]
        /\ wire'[x].end = 2 /\ wire'[x].ack = 1
        /\ \A y \in Slots \ {x} : wire'[y] = wire[y]
        /\ sent' \in [Slots -> SUBSET Kinds]
        /\ "synack" \in sent'[x] /\ \A y \in Slots : sent[y] \subseteq sent'[y]
        /\ gaps' = gaps
    <3> HIDE DEF x
    <3>1. 1 \in Nat /\ 1 = wire[x].end
      BY <2>4
    <3>2. /\ wire' \in [Slots -> [end : Nat, ack : Nat]]
          /\ wire'[x].end = 1 + Length("synack") /\ wire'[x].ack = 1
          /\ \A y \in Slots \ {x} : wire'[y] = wire[y]
          /\ sent' \in [Slots -> SUBSET Kinds]
          /\ "synack" \in sent'[x]
          /\ \A y \in Slots : sent[y] \subseteq sent'[y]
          /\ gaps' = gaps
      <4>1. \A kind \in Kinds, ack \in Nat : \A seq :
              seq = wire[x].end /\ OnWire(x, kind, seq, ack) =>
                /\ wire' \in [Slots -> [end : Nat, ack : Nat]]
                /\ wire'[x].end = seq + Length(kind) /\ wire'[x].ack = ack
                /\ \A y \in Slots \ {x} : wire'[y] = wire[y]
                /\ sent' \in [Slots -> SUBSET Kinds]
                /\ kind \in sent'[x]
                /\ \A y \in Slots : sent[y] \subseteq sent'[y]
                /\ gaps' = gaps
        BY <1>1, <1>4, SendOne
      <4>2. OnWire(x, "synack", 1, 1)
        BY <2>1
      <4>3. QED
        BY <2>6, <3>1, <4>1, <4>2, Zenon
    <3>3. QED
      BY <2>6, <3>2
  <2>8. TypeOK'
    <3>1. threads' \in Seq([conn : Ids', at : Places])
      <4>1. [conn : Ids, at : Places] \subseteq [conn : Ids', at : Places]
        BY <2>5
      <4>2. threads \in Seq([conn : Ids, at : Places])
        BY <1>1 DEF TypeOK, Places
      <4>3. threads \in Seq([conn : Ids', at : Places])
        BY <4>1, <4>2, LargerSeq
      <4>4. QED
        BY <2>1, <4>3
    <3>2. Len(tcbs') < TOTAL_TCBS /\ newpTcbOnAccept' \in 0 .. Len(tcbs')
      BY <1>2, <1>4, <2>1, <2>5, BoundsMeaning DEF Slots
    <3>3. missed' \subseteq Slots
      <4>1. {newpTcbOnAccept} \ {0} \subseteq Slots
        <5>1. newpTcbOnAccept \in 0 .. Len(tcbs)
          BY <1>1 DEF TypeOK
        <5>2. newpTcbOnAccept # 0 => newpTcbOnAccept \in Ids
          BY <1>2, <5>1
        <5>3. QED
          BY <1>2, <5>2
      <4>2. missed' \subseteq
              missed \union {x} \union ({newpTcbOnAccept} \ {0})
        <5>1. CASE accepting = "out"
          BY <2>1, <5>1
        <5>2. CASE accepting = "woken"
          BY <2>1, <5>2
        <5>3. CASE accepting = "waiting"
          BY <2>1, <5>3
        <5>4. QED
          BY <1>1, <5>1, <5>2, <5>3 DEF TypeOK
      <4>3. QED
        BY <1>1, <1>4, <4>1, <4>2 DEF TypeOK
    <3>4. accepting' \in {"out", "waiting", "woken"}
      BY <1>1, <2>1 DEF TypeOK
    <3>5. gaps' \subseteq Slots
      BY <1>1, <2>7 DEF TypeOK
    <3> HIDE DEF x
    <3>6. QED
      BY <1>1, <2>1, <2>5, <2>7, <3>1, <3>2, <3>3, <3>4, <3>5
         DEF TypeOK, Tcb, Kinds, Places, history
  <2>9. SentInSequence'
    <3>1. \A y \in Ids : tcbs'[y].next_seq = wire'[y].end /\ "synack" \in sent'[y]
      BY <1>1, <1>2, <2>3, <2>5, <2>7 DEF SentInSequence
    <3>2. QED
      BY <1>1, <2>2, <2>5, <2>7, <3>1 DEF SentInSequence
  <2>10. Accepted' = Accepted /\ Accepted \subseteq Ids
    BY <1>1, <2>1, AcceptedAreIds DEF Accepted
  <2>11. NextToAccept'
    BY <1>1, <2>1, <2>3, <2>5, <2>10 DEF NextToAccept
  <2>12. AcceptedOnce'
    <3>1. Ids' \ (Accepted' \union missed') \subseteq
            (IF accepting' = "woken" THEN {newpTcbOnAccept'} ELSE {})
      <4>1. Ids \ (Accepted \union missed) \subseteq
              (IF accepting = "woken" THEN {newpTcbOnAccept} ELSE {})
        BY <1>1 DEF AcceptedOnce, Accepted
      <4>2. CASE accepting = "out"
        BY <2>1, <2>5, <2>10, <4>1, <4>2
      <4>3. CASE accepting = "waiting"
        BY <2>1, <2>5, <2>10, <4>1, <4>3
      <4>4. CASE accepting = "woken"
        <5>1. 0 \notin Ids
          BY <1>2
        <5>2. missed' = missed \union ({newpTcbOnAccept} \ {0})
          BY <2>1, <4>4
        <5>3. Ids \ (Accepted \union missed) \subseteq {newpTcbOnAccept}
          BY <4>1, <4>4
        <5>4. Ids' \ (Accepted' \union missed') \subseteq {x}
          BY <2>5, <2>10, <5>1, <5>2, <5>3
        <5>5. accepting' = "woken" /\ newpTcbOnAccept' = x
          BY <2>1, <4>4
        <5>6. QED
          BY <5>4, <5>5
      <4>5. QED
        BY <1>1, <4>2, <4>3, <4>4 DEF TypeOK
    <3>2. spurious' = 0 => Cardinality(Accepted') = Len(threads')
      BY <1>1, <2>1, <2>10 DEF AcceptedOnce, Accepted
    <3>3. ASSUME NEW y \in Ids', NEW z \in Ids',
                 ~Removed(y)', ~Removed(z)', y # z
          PROVE  tcbs'[y].client # tcbs'[z].client
      <4>1. ASSUME NEW w \in Ids, ~Removed(w)'
            PROVE  tcbs'[w].client # c /\ ~Removed(w)
        BY <2>5, <4>1 DEF findtcb, Removed
      <4>2. CASE y = x
        BY <2>2, <2>3, <2>5, <3>3, <4>1, <4>2
      <4>3. CASE z = x
        BY <2>2, <2>3, <2>5, <3>3, <4>1, <4>3
      <4>4. CASE y # x /\ z # x
        <5>1. y \in Ids /\ z \in Ids
          BY <2>5, <4>4
        <5>2. tcbs[y].client # tcbs[z].client
          BY <1>1, <3>3, <4>1, <5>1 DEF AcceptedOnce
        <5>3. QED
          BY <2>5, <5>1, <5>2
      <4>5. QED
        BY <4>2, <4>3, <4>4
    <3>4. QED
      BY <3>1, <3>2, <3>3 DEF AcceptedOnce, Accepted
  <2>13. \A y \in Slots \ {x} : /\ wire'[y] = wire[y] /\ toApp'[y] = toApp[y]
                                /\ got'[y] = got[y] /\ read'[y] = read[y]
    BY <2>1, <2>7 DEF history
  <2>14. ASSUME NEW y \in Ids', got'[y].inOrder
         PROVE  Acknowledged(y)' /\ Delivered(y)' /\ NothingYet(y)'
    <3>1. CASE y = x
      <4>1. /\ got'[x].n = 0 /\ read'[x] = 0 /\ toApp'[x] = <<>>
        BY <2>1, <2>4 DEF history, InOrder
      <4>2. /\ tcbs'[x].ack = 1 /\ wire'[x].ack = 1
            /\ tcbs'[x].state = "SYN_RECV"
        BY <2>2, <2>5, <2>7
      <4>3. QED
        BY <3>1, <4>1, <4>2 DEF Acknowledged, Delivered, NothingYet, Range
    <3>2. CASE y # x
      <4>1. y \in Ids /\ y \in Slots
        BY <1>2, <2>5, <3>2
      <4>2. /\ tcbs'[y] = tcbs[y] /\ wire'[y] = wire[y]
            /\ toApp'[y] = toApp[y] /\ got'[y] = got[y] /\ read'[y] = read[y]
        BY <2>5, <2>13, <3>2, <4>1
      <4>3. Acknowledged(y) /\ Delivered(y) /\ NothingYet(y)
        BY <2>14, <4>1, <4>2, StreamOfEach DEF IInv
      <4>4. QED
        BY <4>2, <4>3 DEF Acknowledged, Delivered, NothingYet
    <3>3. QED
      BY <3>1, <3>2
  <2>15. InOrderStream' /\ ReadBehind'
    BY <2>14
       DEF InOrderStream, ReadBehind, Acknowledged, Delivered, NothingYet
  <2>16. UnusedSlots'
    BY <2>5, <2>13 DEF IInv, UnusedSlots
  <2>17. QED
    BY <2>8, <2>9, <2>11, <2>12, <2>15, <2>16 DEF IInv
<1>5. QED
  BY <1>3, <1>4

(* A packet for the listening port.                                        *)
LEMMA TcpInIInv ==
  ASSUME IInv, NEW c \in Clients, NEW p \in Packets, tcp_in(c, p)
  PROVE  IInv'
<1>1. packets' \in [Clients -> Nat]
  <2>1. packets \in [Clients -> Nat] /\ packets[c] + 1 \in Nat
    BY DEF IInv, TypeOK
  <2>2. UNCHANGED packets \/ packets' = [packets EXCEPT ![c] = packets[c] + 1]
    BY DEF tcp_in, Counted
  <2>3. QED
    BY <2>1, <2>2
<1>2. UNCHANGED toTcb
  BY DEF tcp_in
<1>3. CASE findtcb(c) = {} /\ tcp_listen(c)
  BY <1>1, <1>2, <1>3, ListenIInv
<1>4. CASE \E x \in findtcb(c) :
             /\ CASE tcbs[x].state = "SYN_RECV"    -> tcp_syn_rcv(x, p)
                  [] tcbs[x].state = "ESTABLISHED" -> tcp_established(x, p)
                  [] tcbs[x].state = "FIN_2"       -> tcp_fin2(x)
                  [] OTHER                         -> tcp_closed(x)
             /\ UNCHANGED <<accept, read>>
  <2>1. PICK x \in findtcb(c) :
             /\ CASE tcbs[x].state = "SYN_RECV"    -> tcp_syn_rcv(x, p)
                  [] tcbs[x].state = "ESTABLISHED" -> tcp_established(x, p)
                  [] tcbs[x].state = "FIN_2"       -> tcp_fin2(x)
                  [] OTHER                         -> tcp_closed(x)
             /\ UNCHANGED <<accept, read>>
    BY <1>4, Zenon
  <2>2. x \in Ids /\ tcbs[x].state # "removed"
    BY DEF findtcb, Removed
  <2>3. tcbs[x].state \in {"SYN_RECV", "ESTABLISHED", "FIN_2", "CLOSED"}
    BY <2>2, TypesOf DEF IInv, Tcb
  <2>4. UNCHANGED <<accept, read, toTcb>>
    BY <1>2, <2>1
  <2>5. CASE tcbs[x].state = "SYN_RECV"
    <3>1. tcp_syn_rcv(x, p)
      BY <2>1, <2>5
    <3>2. QED
      BY <1>1, <2>2, <2>4, <2>5, <3>1, SynRcvIInv
  <2>6. CASE tcbs[x].state = "ESTABLISHED"
    <3>1. tcp_established(x, p)
      BY <2>1, <2>6
    <3>2. QED
      BY <1>1, <2>2, <2>4, <2>6, <3>1, EstablishedIInv
  <2>7. CASE tcbs[x].state = "FIN_2"
    <3>1. tcp_fin2(x)
      BY <2>1, <2>7
    <3>2. QED
      BY <1>1, <2>2, <2>4, <2>7, <3>1, Fin2IInv
  <2>8. CASE tcbs[x].state = "CLOSED"
    <3>1. tcp_closed(x)
      BY <2>1, <2>8
    <3>2. QED
      BY <1>1, <2>2, <2>4, <2>8, <3>1, ClosedIInv
  <2>9. QED
    BY <2>3, <2>5, <2>6, <2>7, <2>8
<1>5. QED
  BY <1>3, <1>4, Zenon DEF tcp_in

(* A packet for another port.                                              *)
LEMMA OtherPortIInv ==
  ASSUME IInv, OtherPort
  PROVE  IInv'
<1>1. /\ fault' = "null"
      /\ UNCHANGED <<tcbs, accept, toTcb, toApp, output, packets, history>>
  BY DEF OtherPort
<1>2. TypeOK'
  BY <1>1 DEF IInv, TypeOK, accept, output, history, Ids
<1>3. AcceptedOnce' /\ NextToAccept'
  BY <1>1, SameAccept DEF IInv
<1>4. SentInSequence' /\ InOrderStream' /\ UnusedSlots' /\ ReadBehind'
  BY <1>1, SameSent, SameStream DEF IInv
<1>5. QED
  BY <1>2, <1>3, <1>4 DEF IInv

(* A step of a thread.                                                     *)
LEMMA DoWorkIInv ==
  ASSUME IInv, NEW i \in DOMAIN threads, DoWork(i)
  PROVE  IInv'
<1>1. "send" \in Places /\ "read" \in Places /\ "poll" \in Places
      /\ "close" \in Places /\ "done" \in Places
  BY DEF Places
<1>2. CASE socket_send(i)
  BY <1>1, <1>2, LooksUpIInv DEF socket_send
<1>3. CASE socket_read_nonblock(i)
  BY <1>1, <1>3, LooksUpIInv DEF socket_read_nonblock
<1>4. CASE socket_close(i)
  BY <1>1, <1>4, LooksUpIInv DEF socket_close
<1>5. CASE ReadReturns(i)
  BY <1>5, ReadReturnsIInv
<1>6. QED
  BY <1>2, <1>3, <1>4, <1>5 DEF DoWork

-----------------------------------------------------------------------------
(* The specification.                                                      *)

(* Every step, of whichever actor, preserves the inductive invariant.      *)
LEMMA NextIInv ==
  ASSUME IInv, [Next]_vars
  PROVE  IInv'
<1>1. CASE \E c \in Clients, p \in Packets : tcp_in(c, p)
  BY <1>1, TcpInIInv
<1>2. CASE OtherPort
  BY <1>2, OtherPortIInv
<1>3. CASE Lcore
  BY <1>3, OutQueueIInv DEF Lcore
<1>4. CASE socket_accept
  BY <1>4, AcceptIInv
<1>5. CASE SpuriousWakeup
  BY <1>5, SpuriousIInv
<1>6. CASE AcceptReturns
  BY <1>6, AcceptReturnsIInv
<1>7. CASE Threads
  BY <1>7, DoWorkIInv DEF Threads
<1>8. CASE UNCHANGED vars
  BY <1>8, StutterIInv
<1>9. QED
  BY <1>1, <1>2, <1>3, <1>4, <1>5, <1>6, <1>7, <1>8 DEF Next

(* The inductive invariant holds always.                                   *)
LEMMA Invariance == Spec => []IInv
<1>1. Init => IInv
  BY InitIInv
<1>2. IInv /\ [Next]_vars => IInv'
  BY NextIInv
<1>3. QED
  BY <1>1, <1>2, PTL DEF Spec

(* Every variable keeps its type: the table never holds more connections   *)
(* than it has slots, and no segment waits in a receive window.            *)
THEOREM TypeCorrect == Spec => []TypeOK
<1>1. IInv => TypeOK
  BY DEF IInv
<1>2. QED
  BY <1>1, Invariance, PTL

(* However the SYNs, the wakeups and socket_accept follow each other, each *)
(* connection is handed to a thread, is the next to be, or was missed by   *)
(* the one slot; without spurious wakeups no connection has two threads;   *)
(* and a peer has one connection at a time.                                *)
THEOREM OneThreadEach == Spec => []AcceptedOnce
<1>1. IInv => AcceptedOnce
  BY DEF IInv
<1>2. QED
  BY <1>1, Invariance, PTL

(* Whatever the threads and the peer make a connection send, and in        *)
(* whatever state, its numbers have no hole and no overlap.                *)
THEOREM NumbersInSequence == Spec => []SentInSequence
<1>1. IInv => SentInSequence
  BY DEF IInv
<1>2. QED
  BY <1>1, Invariance, PTL

(* A peer whose packets come in order and unpadded is acknowledged what it *)
(* sent, and the threads get its data in order, no segment twice.          *)
THEOREM DeliveredInOrder == Spec => []InOrderStream
<1>1. IInv => InOrderStream
  BY DEF IInv
<1>2. QED
  BY <1>1, Invariance, PTL
=============================================================================
