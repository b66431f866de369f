--------------------------- MODULE EtherOutProofs ---------------------------
(***************************************************************************)
(* Proofs about the way of a packet out (EtherOut) and about the list of   *)
(* addresses that it looks its destination up in (Neighbours), for every   *)
(* pool, size of the rings, number of retransmissions, of neighbours and   *)
(* of commands: the bounds on them limit only the runs.                    *)
(*                                                                         *)
(* The two share no variable: EtherOut keeps of the list only whether the  *)
(* peer is known.  The second half of the module, on Neighbours, ends with *)
(* the theorem that this is sound.                                         *)
(***************************************************************************)
EXTENDS EtherOut, Neighbours, SequenceTheorems, FunctionTheorems,
        FiniteSetTheorems, WellFoundedInduction, TLAPS

Once(seq, m) ==
  \A i, j \in 1 .. Len(seq) : seq[i] = m /\ seq[j] = m => i = j

Distinct(seq) == \A i, j \in 1 .. Len(seq) : seq[i] = seq[j] => i = j

(* A packet is in the send window once, so an acknowledgement releases one *)
(* reference of it; and it got its IP header before it got there.          *)
WindowOnce ==
  /\ Distinct(window)
  /\ \A m \in Mbufs : Contains(window, m) \/ Contains(ring, m) => ip[m]

(* udata64 grows from nothing to the headers a packet has when it is sent  *)
(* again; bit 4 is set for exactly one Ethernet header and stops others.   *)
MarksMeaning ==
  \A m \in Mbufs :
    /\ udata64[m] \in {{}, {1, 2}, {1, 2, 4}}
    /\ 4 \in udata64[m] => ethers[m] = 1

(* A packet that was never sent again is in the ring once at most, without *)
(* an Ethernet header.                                                     *)
FirstTimeOnce ==
  \A m \in Mbufs :
    udata64[m] = {} =>
      /\ ethers[m] <= 1
      /\ Contains(ring, m) => ethers[m] = 0
      /\ Once(ring, m)

(* Unless one was sent again while in the ring, packets are in it once,    *)
(* and those that have their Ethernet header are marked so.                *)
RingOnce ==
  /\ Distinct(ring)
  /\ \A m \in Mbufs :
       /\ ethers[m] <= 1
       /\ Contains(ring, m) => ethers[m] = 0 \/ 4 \in udata64[m]

IInv ==
  /\ TypeOK
  /\ RefsExact
  /\ WindowOnce
  /\ MarksMeaning
  /\ FirstTimeOnce
  /\ ~doubled => RingOnce
  /\ HeadersOnce

-----------------------------------------------------------------------------
(* Counting in sequences.                                                  *)

Places(seq, m) == {i \in DOMAIN seq : seq[i] = m}

(* A count is a number, zero for what a sequence does not contain.         *)
LEMMA CountType ==
  ASSUME NEW S, NEW seq \in Seq(S), NEW m
  PROVE  /\ IsFiniteSet(Places(seq, m))
         /\ Count(seq, m) \in Nat
         /\ Count(seq, m) = 0 <=> ~Contains(seq, m)
<1>1. DOMAIN seq = 1 .. Len(seq) /\ Len(seq) \in Nat
  OBVIOUS
<1>2. IsFiniteSet(DOMAIN seq) /\ Places(seq, m) \in SUBSET DOMAIN seq
  BY <1>1, FS_Interval DEF Places
<1>3. IsFiniteSet(Places(seq, m))
  BY <1>2, FS_Subset
<1>4. Places(seq, m) = {} <=> ~Contains(seq, m)
  BY <1>1 DEF Places, Contains
<1>5. QED
  BY <1>3, <1>4, FS_CardinalityType, FS_EmptySet DEF Count, Places

(* One more at the end.                                                    *)
LEMMA CountAppend ==
  ASSUME NEW S, NEW seq \in Seq(S), NEW e \in S, NEW m
  PROVE  /\ Count(Append(seq, e), m) = Count(seq, m) + (IF e = m THEN 1 ELSE 0)
         /\ Contains(Append(seq, e), m) <=> Contains(seq, m) \/ e = m
<1> DEFINE longer == Append(seq, e)
           last == Len(seq) + 1
<1>1. /\ DOMAIN seq = 1 .. Len(seq) /\ Len(seq) \in Nat
      /\ DOMAIN longer = DOMAIN seq \union {last} /\ last \notin DOMAIN seq
      /\ \A i \in DOMAIN seq : longer[i] = seq[i]
      /\ longer[last] = e /\ Len(longer) = last
  BY AppendProperties
<1> HIDE DEF longer
<1>2. IF e = m THEN Places(longer, m) = Places(seq, m) \union {last}
               ELSE Places(longer, m) = Places(seq, m)
  BY <1>1 DEF Places
<1>3. last \notin Places(seq, m) /\ IsFiniteSet(Places(seq, m))
  BY <1>1, CountType DEF Places
<1>4. Count(longer, m) = Count(seq, m) + (IF e = m THEN 1 ELSE 0)
  <2>1. CASE e = m
    <3>1. Cardinality(Places(longer, m)) = Cardinality(Places(seq, m)) + 1
      BY <2>1, <1>2, <1>3, FS_AddElement
    <3>2. QED
      BY <2>1, <3>1 DEF Count, Places
  <2>2. CASE e # m
    <3>1. Count(longer, m) = Count(seq, m) /\ Count(seq, m) \in Nat
      BY <2>2, <1>2, CountType DEF Count, Places
    <3>2. QED
      BY <2>2, <3>1
  <2>3. QED
    BY <2>1, <2>2
<1>5. Contains(longer, m) <=> Contains(seq, m) \/ e = m
  BY <1>1 DEF Contains
<1>6. QED
  BY <1>4, <1>5 DEF longer

(* One less at the front.                                                  *)
LEMMA CountTail ==
  ASSUME NEW S, NEW seq \in Seq(S), seq # <<>>, NEW m
  PROVE  Count(seq, m) = Count(Tail(seq), m) + (IF Head(seq) = m THEN 1 ELSE 0)
<1> DEFINE rest == Tail(seq)
           T == Places(seq, m) \ {1}
<1>1. /\ DOMAIN seq = 1 .. Len(seq) /\ Len(seq) \in Nat \ {0}
      /\ rest \in Seq(S) /\ DOMAIN rest = 1 .. Len(seq) - 1
      /\ \A i \in DOMAIN rest : rest[i] = seq[i + 1]
      /\ Head(seq) = seq[1]
  BY HeadTailProperties
<1> HIDE DEF rest
<1>2. Cardinality(Places(rest, m)) = Cardinality(T)
  <2> DEFINE f == [i \in Places(rest, m) |-> i + 1]
  <2>1. f \in [Places(rest, m) -> T]
    BY <1>1 DEF Places
  <2>2. \A i, j \in Places(rest, m) : f[i] = f[j] => i = j
    BY <1>1 DEF Places
  <2>3. ASSUME NEW k \in T
        PROVE  \E i \in Places(rest, m) : f[i] = k
    <3>1. k \in 2 .. Len(seq) /\ seq[k] = m
      BY <1>1 DEF Places
    <3>2. k - 1 \in Places(rest, m) /\ f[k - 1] = k
      BY <1>1, <3>1 DEF Places
    <3>3. QED
      BY <3>2
  <2> HIDE DEF f, T
  <2>4. f \in Bijection(Places(rest, m), T)
    BY <2>1, <2>2, <2>3, Fun_IsBij
  <2>5. ExistsBijection(Places(rest, m), T)
    BY <2>4 DEF ExistsBijection
  <2>6. IsFiniteSet(Places(rest, m))
    BY <1>1, CountType
  <2>7. QED
    BY <2>5, <2>6, FS_Bijection
<1>3. /\ IsFiniteSet(Places(seq, m))
      /\ Cardinality(T) = IF 1 \in Places(seq, m)
                          THEN Cardinality(Places(seq, m)) - 1
                          ELSE Cardinality(Places(seq, m))
  BY CountType, FS_RemoveElement
<1>4. 1 \in Places(seq, m) <=> Head(seq) = m
  BY <1>1 DEF Places
<1>5. Count(seq, m) = Cardinality(Places(seq, m)) /\ Count(seq, m) \in Nat
  BY CountType DEF Count, Places
<1>6. Count(rest, m) = Cardinality(Places(rest, m))
  BY DEF Count, Places
<1>7. QED
  BY <1>2, <1>3, <1>4, <1>5, <1>6 DEF rest

(* What a sequence without repetitions contains it contains once.          *)
LEMMA CountDistinct ==
  ASSUME NEW S, NEW seq \in Seq(S), Distinct(seq), NEW m
  PROVE  Count(seq, m) = IF Contains(seq, m) THEN 1 ELSE 0
<1>1. CASE Contains(seq, m)
  <2>1. PICK i \in 1 .. Len(seq) : seq[i] = m
    BY <1>1 DEF Contains
  <2>2. Places(seq, m) = {i}
    BY <2>1 DEF Places, Distinct
  <2>3. QED
    BY <1>1, <2>2, FS_Singleton DEF Count, Places
<1>2. CASE ~Contains(seq, m)
  BY <1>2, CountType
<1>3. QED
  BY <1>1, <1>2

(* A sequence without repetitions gets none from what it does not contain. *)
LEMMA AppendMembers ==
  ASSUME NEW S, NEW seq \in Seq(S), NEW e \in S
  PROVE  /\ Append(seq, e) \in Seq(S) /\ Len(Append(seq, e)) = Len(seq) + 1
         /\ \A m : Once(seq, m) /\ (m # e \/ ~Contains(seq, m)) =>
                     Once(Append(seq, e), m)
         /\ Distinct(seq) /\ ~Contains(seq, e) => Distinct(Append(seq, e))
<1> DEFINE longer == Append(seq, e)
<1>1. /\ longer \in Seq(S) /\ Len(longer) = Len(seq) + 1 /\ Len(seq) \in Nat
      /\ \A i \in 1 .. Len(seq) : longer[i] = seq[i]
      /\ longer[Len(seq) + 1] = e
  BY AppendProperties
<1> HIDE DEF longer
<1>2. \A m : Once(seq, m) /\ (m # e \/ ~Contains(seq, m)) => Once(longer, m)
  BY <1>1 DEF Once, Contains
<1>3. Distinct(seq) /\ ~Contains(seq, e) => Distinct(longer)
  BY <1>1 DEF Distinct, Contains
<1>4. QED
  BY <1>1, <1>2, <1>3 DEF longer

(* The members of a tail are members of the sequence; what a sequence      *)
(* contains once is gone when its head is taken.                           *)
LEMMA TailMembers ==
  ASSUME NEW S, NEW seq \in Seq(S), seq # <<>>
  PROVE  /\ Tail(seq) \in Seq(S) /\ Len(Tail(seq)) = Len(seq) - 1
         /\ Head(seq) \in S /\ Contains(seq, Head(seq))
         /\ \A m : Contains(Tail(seq), m) => Contains(seq, m)
         /\ \A m : Once(seq, m) => Once(Tail(seq), m)
         /\ Once(seq, Head(seq)) => ~Contains(Tail(seq), Head(seq))
         /\ Distinct(seq) => Distinct(Tail(seq))
  BY HeadTailProperties DEF Contains, Distinct, Once

-----------------------------------------------------------------------------
(* The steps.                                                              *)

(* The pool is full, nothing is on its way.                                *)
LEMMA InitIInv ==
  ASSUME Init
  PROVE  IInv
<1>1. <<>> \in Seq(Mbufs) /\ Len(<<>>) = 0
  OBVIOUS
<1>2. TypeOK
  <2>1. RingSize \in Nat /\ NicSize \in Nat
    BY OutputAssumption
  <2>2. /\ window \in Seq(Mbufs)
        /\ ring \in Seq(Mbufs) /\ Len(ring) <= RingSize
        /\ nic \in Seq(Mbufs) /\ Len(nic) <= NicSize
    BY <1>1, <2>1 DEF Init
  <2>3. /\ refcnt \in [Mbufs -> Nat] /\ leaked \in [Mbufs -> Nat]
        /\ ip \in [Mbufs -> BOOLEAN] /\ ethers \in [Mbufs -> Nat]
        /\ udata64 \in [Mbufs -> SUBSET {1, 2, 4}]
    BY DEF Init
  <2>4. QED
    BY <2>2, <2>3 DEF Init, TypeOK
<1>3. ASSUME NEW m
      PROVE  Count(<<>>, m) = 0 /\ ~Contains(<<>>, m)
  <2>1. ~Contains(<<>>, m)
    BY <1>1 DEF Contains
  <2>2. QED
    BY <1>1, <2>1, CountType
<1>4. RefsExact
  BY <1>3 DEF Init, RefsExact
<1>5. WindowOnce /\ MarksMeaning /\ FirstTimeOnce /\ RingOnce /\ HeadersOnce
  BY <1>1, <1>3
  DEF Init, WindowOnce, MarksMeaning, FirstTimeOnce, RingOnce, HeadersOnce,
      Distinct, Once
<1>6. QED
  BY <1>2, <1>4, <1>5 DEF IInv

(* The reference that EnqueueMBuf is given is in the ring or lost.         *)
LEMMA EnqueueOne ==
  ASSUME TypeOK, NEW m \in Mbufs, EnqueueMBuf(m)
  PROVE  /\ ring' \in Seq(Mbufs) /\ Len(ring') <= RingSize
         /\ leaked' \in [Mbufs -> Nat]
         /\ \A n \in Mbufs :
              Count(ring', n) + leaked'[n]
                = Count(ring, n) + leaked[n] + (IF n = m THEN 1 ELSE 0)
         /\ \A n \in Mbufs : Contains(ring', n) => Contains(ring, n) \/ n = m
         /\ \A n \in Mbufs : Once(ring, n) /\ (n # m \/ ~Contains(ring, n)) =>
                               Once(ring', n)
         /\ Distinct(ring) /\ ~Contains(ring, m) => Distinct(ring')
<1>1. \A n \in Mbufs : Count(ring, n) \in Nat /\ leaked[n] \in Nat
  BY CountType DEF TypeOK
<1>2. CASE HasRoom
  <2>1. ring' = Append(ring, m) /\ leaked' = leaked /\ Len(ring) < RingSize
    BY <1>2 DEF EnqueueMBuf, HasRoom
  <2>2. \A n : /\ Count(ring', n) = Count(ring, n) + (IF m = n THEN 1 ELSE 0)
               /\ Contains(ring', n) => Contains(ring, n) \/ n = m
    BY <2>1, CountAppend DEF TypeOK
  <2>3. /\ ring' \in Seq(Mbufs) /\ Len(ring') <= RingSize
        /\ \A n \in Mbufs : Once(ring, n) /\ (n # m \/ ~Contains(ring, n)) =>
                              Once(ring', n)
        /\ Distinct(ring) /\ ~Contains(ring, m) => Distinct(ring')
    BY <2>1, AppendMembers, OutputAssumption DEF TypeOK
  <2>4. ASSUME NEW n \in Mbufs
        PROVE  Count(ring', n) + leaked'[n]
                 = Count(ring, n) + leaked[n] + (IF n = m THEN 1 ELSE 0)
    <3>1. Count(ring', n) = Count(ring, n) + (IF m = n THEN 1 ELSE 0)
      BY <2>2
    <3>2. QED
      BY <1>1, <2>1, <3>1
  <2>5. leaked' \in [Mbufs -> Nat]
    BY <2>1 DEF TypeOK
  <2>6. QED
    BY <2>2, <2>3, <2>4, <2>5
<1>3. CASE ~HasRoom
  <2>1. ring' = ring /\ leaked' = [leaked EXCEPT ![m] = @ + 1]
    BY <1>3 DEF EnqueueMBuf
  <2>2. /\ leaked' \in [Mbufs -> Nat]
        /\ \A n \in Mbufs : leaked'[n] = leaked[n] + (IF n = m THEN 1 ELSE 0)
    BY <1>1, <2>1 DEF TypeOK
  <2>3. ASSUME NEW n \in Mbufs
        PROVE  Count(ring', n) + leaked'[n]
                 = Count(ring, n) + leaked[n] + (IF n = m THEN 1 ELSE 0)
    <3>1. leaked'[n] = leaked[n] + (IF n = m THEN 1 ELSE 0)
      BY <2>2
    <3>2. Count(ring', n) = Count(ring, n)
      BY <2>1
    <3>3. QED
      BY <1>1, <3>1, <3>2
  <2>4. ring' \in Seq(Mbufs) /\ Len(ring') <= RingSize
    BY <2>1 DEF TypeOK
  <2>5. QED
    BY <2>1, <2>2, <2>3, <2>4
<1>4. QED
  BY <1>2, <1>3

(* A new packet starts with the references its places hold.                *)
LEMMA SendIInv ==
  ASSUME IInv, fault = "none", Send
  PROVE  IInv'
<1>1. PICK data \in BOOLEAN : sendtcpdata(data)
  BY DEF Send
<1>2. UNCHANGED <<nic, known, doubled, wellFormed>>
  BY DEF Send
<1>3. CASE fault' = "pool" /\ UNCHANGED <<refcnt, packet, window, ring, leaked>>
  BY <1>2, <1>3
  DEF packet, IInv, TypeOK, RefsExact, WindowOnce, MarksMeaning, FirstTimeOnce,
      RingOnce, HeadersOnce
<1>4. ASSUME NEW m \in FreeMbufs,
             /\ refcnt' = [refcnt EXCEPT ![m] = References(data)]
             /\ ip' = [ip EXCEPT ![m] = TRUE]
             /\ ethers' = [ethers EXCEPT ![m] = 0]
             /\ udata64' = [udata64 EXCEPT ![m] = {}]
             /\ window' = IF data THEN Append(window, m) ELSE window
             /\ EnqueueMBuf(m)
             /\ UNCHANGED fault
      PROVE  IInv'
  <2>1. m \in Mbufs /\ refcnt[m] = 0
    BY <1>4 DEF FreeMbufs
  <2>2. \A n \in Mbufs :
          /\ Count(window, n) \in Nat /\ Count(ring, n) \in Nat
          /\ Count(nic, n) \in Nat /\ leaked[n] \in Nat /\ refcnt[n] \in Nat
    BY CountType DEF IInv, TypeOK
  <2>3. ~Contains(window, m) /\ ~Contains(ring, m)
    BY <2>1, <2>2, CountType DEF IInv, TypeOK, RefsExact
  <2>4. /\ ring' \in Seq(Mbufs) /\ Len(ring') <= RingSize
        /\ leaked' \in [Mbufs -> Nat]
        /\ \A n \in Mbufs :
             Count(ring', n) + leaked'[n]
               = Count(ring, n) + leaked[n] + (IF n = m THEN 1 ELSE 0)
        /\ \A n \in Mbufs : Contains(ring', n) => Contains(ring, n) \/ n = m
        /\ \A n \in Mbufs : Once(ring, n) => Once(ring', n)
        /\ Distinct(ring) => Distinct(ring')
    BY <1>4, <2>1, <2>3, EnqueueOne DEF IInv
  <2>5. /\ window' \in Seq(Mbufs) /\ Distinct(window')
        /\ \A n \in Mbufs :
             /\ Count(window', n) = Count(window, n)
                                      + (IF data /\ n = m THEN 1 ELSE 0)
             /\ Contains(window', n) => Contains(window, n) \/ n = m
    <3>1. CASE data
      BY <1>4, <2>1, <2>3, <3>1, AppendMembers, CountAppend
      DEF IInv, TypeOK, WindowOnce
    <3>2. CASE ~data
      BY <1>4, <2>2, <3>2 DEF IInv, TypeOK, WindowOnce
    <3>3. QED
      BY <3>1, <3>2
  <2>6. TypeOK'
    BY <1>2, <1>4, <2>1, <2>4, <2>5 DEF IInv, TypeOK, References
  <2>7. RefsExact'
    <3>1. ASSUME NEW n \in Mbufs
          PROVE  refcnt'[n] = Count(window', n) + Count(ring', n)
                                + Count(nic, n) + leaked'[n]
      <4>1. refcnt'[n] = refcnt[n] + (IF n = m THEN IF data THEN 2 ELSE 1 ELSE 0)
        BY <1>4, <2>1 DEF References, IInv, TypeOK
      <4>2. refcnt[n] = Count(window, n) + Count(ring, n) + Count(nic, n)
                          + leaked[n]
        BY DEF IInv, RefsExact
      <4>3. /\ Count(ring', n) + leaked'[n]
                 = Count(ring, n) + leaked[n] + (IF n = m THEN 1 ELSE 0)
            /\ Count(ring', n) \in Nat /\ leaked'[n] \in Nat
        BY <2>4, CountType
      <4>4. Count(window', n) = Count(window, n)
                                  + (IF data /\ n = m THEN 1 ELSE 0)
        BY <2>5
      <4>5. QED
        BY <2>2, <4>1, <4>2, <4>3, <4>4
    <3>2. QED
      BY <1>2, <3>1 DEF RefsExact
  <2>8. WindowOnce' /\ MarksMeaning'
    BY <1>4, <2>1, <2>4, <2>5 DEF IInv, TypeOK, WindowOnce, MarksMeaning
  <2>9. FirstTimeOnce'
    <3>1. ethers'[m] = 0 /\ Once(ring, m)
      BY <1>4, <2>1, <2>3 DEF IInv, TypeOK, Once, Contains
    <3>2. \A n \in Mbufs \ {m} : /\ udata64'[n] = udata64[n]
                                 /\ ethers'[n] = ethers[n]
                                 /\ Contains(ring', n) => Contains(ring, n)
      BY <1>4, <2>4 DEF IInv, TypeOK
    <3>3. QED
      BY <2>4, <3>1, <3>2 DEF IInv, FirstTimeOnce
  <2>10. ~doubled' => RingOnce'
    BY <1>2, <1>4, <2>1, <2>4 DEF IInv, TypeOK, RingOnce
  <2>11. HeadersOnce'
    BY <1>2, <1>4 DEF IInv, HeadersOnce
  <2>12. QED
    BY <2>6, <2>7, <2>8, <2>9, <2>10, <2>11 DEF IInv
<1>5. QED
  BY <1>1, <1>3, <1>4 DEF sendtcpdata

(* What an acknowledgement covers is released once.                        *)
LEMMA AdjustSendWindowIInv ==
  ASSUME IInv, AdjustSendWindow
  PROVE  IInv'
<1>1. PICK k \in 1 .. Len(window) :
        /\ window' = SubSeq(window, k + 1, Len(window))
        /\ refcnt' = [m \in Mbufs |->
                        IF Contains(SubSeq(window, 1, k), m)
                        THEN refcnt[m] - 1 ELSE refcnt[m]]
  BY DEF AdjustSendWindow
<1>2. UNCHANGED <<packet, ring, nic, known, fault, leaked, doubled, wellFormed>>
  BY DEF AdjustSendWindow
<1> DEFINE done == SubSeq(window, 1, k)
<1>3. /\ window \in Seq(Mbufs) /\ Len(window) \in Nat /\ k \in Nat
      /\ window' \in Seq(Mbufs) /\ Len(window') = Len(window) - k
      /\ \A i \in 1 .. Len(window) - k : window'[i] = window[i + k]
      /\ done \in Seq(Mbufs) /\ Len(done) = k
      /\ \A i \in 1 .. k : done[i] = window[i]
  <2>1. window \in Seq(Mbufs) /\ Len(window) \in Nat /\ k \in Nat
    BY DEF IInv, TypeOK
  <2>2. /\ window' \in Seq(Mbufs) /\ Len(window') = Len(window) - k
        /\ \A i \in 1 .. Len(window) - k : window'[i] = window[i + k]
    <3>1. /\ window' \in Seq(Mbufs)
          /\ Len(window') = IF k + 1 <= Len(window)
                            THEN Len(window) - (k + 1) + 1 ELSE 0
          /\ \A i \in 1 .. Len(window) - (k + 1) + 1 :
               window'[i] = window[k + 1 + i - 1]
      BY <1>1, <2>1, SubSeqProperties
    <3>2. QED
      BY <2>1, <3>1
  <2>3. /\ done \in Seq(Mbufs) /\ Len(done) = k
        /\ \A i \in 1 .. k : done[i] = window[i]
    BY <1>1, <2>1, SubSeqProperties
  <2>4. QED
    BY <2>1, <2>2, <2>3
<1> HIDE DEF done
<1>4. Distinct(window) /\ Distinct(window')
  <2>1. Distinct(window)
    BY DEF IInv, WindowOnce
  <2>2. ASSUME NEW i \in 1 .. Len(window'), NEW j \in 1 .. Len(window'),
               window'[i] = window'[j]
        PROVE  i = j
    <3>1. window'[i] = window[i + k] /\ window'[j] = window[j + k]
      BY <1>3
    <3>2. i + k \in 1 .. Len(window) /\ j + k \in 1 .. Len(window)
      BY <1>3
    <3>3. i + k = j + k
      BY <2>1, <2>2, <3>1, <3>2 DEF Distinct
    <3>4. QED
      BY <1>3, <3>3
  <2>3. QED
    BY <2>1, <2>2 DEF Distinct
<1>5. \A m : /\ Contains(window, m) <=> Contains(window', m) \/ Contains(done, m)
             /\ ~(Contains(window', m) /\ Contains(done, m))
  <2>1. ASSUME NEW m, NEW i \in 1 .. Len(window), window[i] = m
        PROVE  Contains(window', m) \/ Contains(done, m)
    <3>1. CASE i <= k
      BY <1>3, <2>1, <3>1 DEF Contains
    <3>2. CASE i > k
      <4>1. i - k \in 1 .. Len(window')
        BY <1>3, <2>1, <3>2
      <4>2. window'[i - k] = window[(i - k) + k] /\ (i - k) + k = i
        BY <1>3, <2>1, <4>1
      <4>3. window'[i - k] = m
        BY <2>1, <4>2
      <4>4. QED
        BY <4>1, <4>3 DEF Contains
    <3>3. QED
      BY <1>3, <3>1, <3>2
  <2>2. ASSUME NEW m, Contains(window', m)
        PROVE  \E j \in 1 .. Len(window) : window[j] = m /\ j > k
    <3>1. PICK i \in 1 .. Len(window') : window'[i] = m
      BY <2>2 DEF Contains
    <3>2. i \in 1 .. Len(window) - k /\ i \in Nat \ {0}
      BY <1>3, <3>1
    <3>3. window[i + k] = m
      BY <1>3, <3>1, <3>2
    <3>4. i + k \in 1 .. Len(window) /\ i + k > k
      BY <1>3, <3>2
    <3>5. QED
      BY <3>3, <3>4
  <2>3. ASSUME NEW m, Contains(done, m)
        PROVE  \E j \in 1 .. Len(window) : window[j] = m /\ j <= k
    <3>1. PICK i \in 1 .. k : done[i] = m
      BY <1>3, <2>3 DEF Contains
    <3>2. i \in 1 .. Len(window) /\ i <= k /\ window[i] = m
      BY <1>3, <3>1
    <3>3. QED
      BY <3>2
  <2>4. ASSUME NEW m, Contains(window', m), Contains(done, m)
        PROVE  FALSE
    <3>1. PICK i \in 1 .. Len(window) : window[i] = m /\ i > k
      BY <2>2, <2>4
    <3>2. PICK j \in 1 .. Len(window) : window[j] = m /\ j <= k
      BY <2>3, <2>4
    <3>3. i = j
      BY <3>1, <3>2, <1>4 DEF Distinct
    <3>4. QED
      BY <1>3, <3>1, <3>2, <3>3
  <2>5. QED
    BY <2>1, <2>2, <2>3, <2>4 DEF Contains
<1>6. ASSUME NEW m \in Mbufs
      PROVE  /\ refcnt'[m] \in Nat
             /\ refcnt'[m] = Count(window', m) + Count(ring, m) + Count(nic, m)
                               + leaked[m]
  <2>1. /\ Count(window, m) = IF Contains(window, m) THEN 1 ELSE 0
        /\ Count(window', m) = IF Contains(window', m) THEN 1 ELSE 0
    BY <1>3, <1>4, CountDistinct
  <2>2. Count(ring, m) \in Nat /\ Count(nic, m) \in Nat /\ leaked[m] \in Nat
    BY CountType DEF IInv, TypeOK
  <2>3. refcnt[m] = Count(window, m) + Count(ring, m) + Count(nic, m) + leaked[m]
    BY DEF IInv, RefsExact
  <2>4. refcnt'[m] = IF Contains(done, m) THEN refcnt[m] - 1 ELSE refcnt[m]
    BY <1>1 DEF done
  <2>5. QED
    BY <1>5, <2>1, <2>2, <2>3, <2>4
<1>7. TypeOK'
  BY <1>1, <1>2, <1>3, <1>6 DEF packet, IInv, TypeOK
<1>8. RefsExact'
  BY <1>2, <1>6 DEF RefsExact
<1>9. WindowOnce'
  BY <1>2, <1>4, <1>5 DEF packet, IInv, WindowOnce
<1>10. MarksMeaning' /\ FirstTimeOnce' /\ (~doubled' => RingOnce') /\ HeadersOnce'
  BY <1>2 DEF packet, IInv, MarksMeaning, FirstTimeOnce, RingOnce, HeadersOnce
<1>11. QED
  BY <1>7, <1>8, <1>9, <1>10 DEF IInv

(* The marks of a packet of the send window say what headers it has got,   *)
(* so that the assert of RetransmitPacket holds.                           *)
LEMMA MarksOfWindow ==
  ASSUME IInv, NEW m \in Mbufs, Contains(window, m)
  PROVE  /\ Marks(m) \in {{1, 2}, {1, 2, 4}}
         /\ 4 \in Marks(m) => ethers[m] = 1
         /\ ethers[m] = 1 => 4 \in Marks(m)
<1>1. ip[m] /\ ethers[m] \in Nat
  BY DEF IInv, TypeOK, WindowOnce
<1>2. HeaderSize(m) = 40 + 14 * ethers[m]
  BY <1>1 DEF HeaderSize
<1>3. /\ udata64[m] \in {{}, {1, 2}, {1, 2, 4}}
      /\ 4 \in udata64[m] => ethers[m] = 1
      /\ udata64[m] = {} => ethers[m] <= 1
  BY DEF IInv, MarksMeaning, FirstTimeOnce
<1>4. CASE ethers[m] = 0
  <2>1. HeaderSize(m) = 40 /\ 4 \notin udata64[m]
    BY <1>2, <1>3, <1>4
  <2>2. QED
    BY <1>3, <1>4, <2>1 DEF Marks
<1>5. CASE ethers[m] = 1
  <2>1. HeaderSize(m) = 54
    BY <1>2, <1>5
  <2>2. QED
    BY <1>3, <1>5, <2>1 DEF Marks
<1>6. CASE ethers[m] \notin {0, 1}
  <2>1. HeaderSize(m) # 40 /\ HeaderSize(m) # 54 /\ udata64[m] = {1, 2}
    BY <1>1, <1>2, <1>3, <1>6
  <2>2. QED
    BY <1>3, <1>6, <2>1 DEF Marks
<1>7. QED
  BY <1>4, <1>5, <1>6

(* The oldest packet is sent again, with one more reference.               *)
LEMMA RtoExpiresIInv ==
  ASSUME IInv, fault = "none", RtoExpires
  PROVE  IInv'
<1>1. PICK m \in Mbufs : m = Head(window) /\ Contains(window, m)
  BY TailMembers DEF RtoExpires, IInv, TypeOK
<1>2. /\ udata64' = [udata64 EXCEPT ![m] = Marks(m)]
      /\ refcnt' = [refcnt EXCEPT ![m] = @ + 1]
      /\ RetransmitPacket(m, Marks(m))
      /\ doubled' = (doubled \/ Contains(ring, m))
      /\ UNCHANGED <<ip, ethers, window, nic, known, wellFormed>>
  BY <1>1 DEF RtoExpires, GetFirstUnAckedPacket
<1>3. /\ Marks(m) \in {{1, 2}, {1, 2, 4}}
      /\ 4 \in Marks(m) => ethers[m] = 1
      /\ ethers[m] = 1 => 4 \in Marks(m)
  BY <1>1, MarksOfWindow
<1>4. EnqueueMBuf(m) /\ UNCHANGED fault
  BY <1>2, <1>3 DEF RetransmitPacket
<1>5. /\ ring' \in Seq(Mbufs) /\ Len(ring') <= RingSize
      /\ leaked' \in [Mbufs -> Nat]
      /\ \A n \in Mbufs :
           Count(ring', n) + leaked'[n]
             = Count(ring, n) + leaked[n] + (IF n = m THEN 1 ELSE 0)
      /\ \A n \in Mbufs : Contains(ring', n) => Contains(ring, n) \/ n = m
      /\ \A n \in Mbufs : Once(ring, n) /\ n # m => Once(ring', n)
      /\ Distinct(ring) /\ ~Contains(ring, m) => Distinct(ring')
  BY <1>4, EnqueueOne DEF IInv
<1>6. udata64'[m] = Marks(m) /\ \A n \in Mbufs \ {m} : udata64'[n] = udata64[n]
  BY <1>2 DEF IInv, TypeOK
<1>7. TypeOK'
  <2>1. /\ refcnt' \in [Mbufs -> Nat]
        /\ udata64' \in [Mbufs -> SUBSET {1, 2, 4}]
    BY <1>2, <1>3 DEF IInv, TypeOK
  <2>2. doubled' \in BOOLEAN
    BY <1>2 DEF IInv, TypeOK
  <2>3. QED
    BY <1>2, <1>4, <1>5, <2>1, <2>2 DEF IInv, TypeOK
<1>8. RefsExact'
  <2>1. ASSUME NEW n \in Mbufs
        PROVE  refcnt'[n] = Count(window, n) + Count(ring', n) + Count(nic, n)
                              + leaked'[n]
    <3>1. /\ Count(window, n) \in Nat /\ Count(ring, n) \in Nat
          /\ Count(nic, n) \in Nat /\ Count(ring', n) \in Nat
          /\ leaked[n] \in Nat /\ leaked'[n] \in Nat /\ refcnt[n] \in Nat
      BY <1>5, CountType DEF IInv, TypeOK
    <3>2. refcnt'[n] = refcnt[n] + (IF n = m THEN 1 ELSE 0)
      BY <1>2, <3>1 DEF IInv, TypeOK
    <3>3. Count(ring', n) + leaked'[n]
            = Count(ring, n) + leaked[n] + (IF n = m THEN 1 ELSE 0)
      BY <1>5
    <3>4. refcnt[n] = Count(window, n) + Count(ring, n) + Count(nic, n)
                        + leaked[n]
      BY DEF IInv, RefsExact
    <3>5. QED
      BY <3>1, <3>2, <3>3, <3>4
  <2>2. QED
    BY <1>2, <2>1 DEF RefsExact
<1>9. WindowOnce'
  BY <1>1, <1>2, <1>5 DEF IInv, WindowOnce
<1>10. MarksMeaning' /\ FirstTimeOnce'
  <2>1. MarksMeaning'
    BY <1>2, <1>3, <1>6 DEF IInv, MarksMeaning
  <2>2. udata64'[m] # {}
    BY <1>3, <1>6
  <2>3. QED
    BY <1>2, <1>5, <1>6, <2>1, <2>2 DEF IInv, FirstTimeOnce
<1>11. ~doubled' => RingOnce'
  <2>1. SUFFICES ASSUME ~doubled'
                 PROVE  RingOnce'
    OBVIOUS
  <2>2. ~doubled /\ ~Contains(ring, m) /\ RingOnce
    BY <2>1, <1>2 DEF IInv, TypeOK
  <2>3. \A n \in Mbufs : ethers[n] \in Nat
    BY DEF IInv, TypeOK
  <2>4. Distinct(ring')
    BY <2>2, <1>5, Zenon DEF RingOnce
  <2>5. ASSUME NEW n \in Mbufs
        PROVE  /\ ethers[n] <= 1
               /\ Contains(ring', n) => ethers[n] = 0 \/ 4 \in udata64'[n]
    <3>1. /\ ethers[n] <= 1
          /\ Contains(ring, n) => ethers[n] = 0 \/ 4 \in udata64[n]
      BY <2>2, Zenon DEF RingOnce
    <3>2. CASE n = m
      <4>1. ethers[n] = 0 \/ ethers[n] = 1
        BY <2>3, <3>1
      <4>2. ethers[n] = 1 => 4 \in udata64'[n]
        BY <1>3, <1>6, <3>2, Zenon
      <4>3. QED
        BY <3>1, <4>1, <4>2, Zenon
    <3>3. CASE n # m
      <4>1. Contains(ring', n) => Contains(ring, n)
        BY <1>5, <3>3, Zenon
      <4>2. udata64'[n] = udata64[n]
        BY <1>6, <3>3
      <4>3. QED
        BY <3>1, <4>1, <4>2, Zenon
    <3>4. QED
      BY <3>2, <3>3
  <2>6. ethers' = ethers
    BY <1>2
  <2>7. QED
    BY <2>4, <2>5, <2>6, Zenon DEF RingOnce
<1>12. HeadersOnce'
  BY <1>2, <1>4 DEF IInv, HeadersOnce
<1>13. QED
  BY <1>7, <1>8, <1>9, <1>10, <1>11, <1>12 DEF IInv

(* A packet leaves the ring for the card, or is freed or lost.             *)
LEMMA CheckEtherOutRingIInv ==
  ASSUME IInv, fault = "none", CheckEtherOutRing
  PROVE  IInv'
<1>1. /\ ring # <<>> /\ ring' = Tail(ring)
      /\ UNCHANGED <<ip, udata64, window, known, fault, doubled>>
  BY DEF CheckEtherOutRing
<1>2. PICK m \in Mbufs : m = Head(ring) /\ Contains(ring, m)
  BY <1>1, TailMembers DEF IInv, TypeOK
<1>3. /\ ring' \in Seq(Mbufs) /\ Len(ring') = Len(ring) - 1
      /\ \A n : Contains(ring', n) => Contains(ring, n)
      /\ \A n : Once(ring, n) => Once(ring', n)
      /\ Once(ring, m) => ~Contains(ring', m)
      /\ Distinct(ring) => Distinct(ring')
      /\ \A n : Count(ring, n) = Count(ring', n) + (IF n = m THEN 1 ELSE 0)
  BY <1>1, <1>2, TailMembers, CountTail DEF IInv, TypeOK
<1>4. PICK status \in BOOLEAN : IF status THEN ether_out(m) ELSE DropUnknown(m)
  BY <1>2 DEF CheckEtherOutRing, MacStatus, IInv, TypeOK
<1>5. /\ ethers' \in [Mbufs -> Nat]
      /\ ethers'[m] \in {ethers[m], PrependEther(m)}
      /\ \A n \in Mbufs \ {m} : ethers'[n] = ethers[n]
  <2>1. CASE status
    <3>1. ethers' = [ethers EXCEPT ![m] = PrependEther(m)]
      BY <1>4, <2>1 DEF ether_out
    <3>2. ethers[m] \in Nat /\ PrependEther(m) \in Nat
      BY DEF PrependEther, IInv, TypeOK
    <3>3. QED
      BY <3>1, <3>2 DEF IInv, TypeOK
  <2>2. CASE ~status
    BY <1>4, <2>2 DEF DropUnknown, IInv, TypeOK
  <2>3. QED
    BY <2>1, <2>2
<1>6. \A n \in Mbufs :
        /\ Count(window, n) \in Nat /\ Count(ring, n) \in Nat
        /\ Count(nic, n) \in Nat /\ Count(ring', n) \in Nat
        /\ leaked[n] \in Nat /\ refcnt[n] \in Nat
        /\ refcnt[n] = Count(window, n) + Count(ring, n) + Count(nic, n)
                         + leaked[n]
  BY <1>3, CountType DEF IInv, TypeOK, RefsExact
<1>7. /\ nic' \in Seq(Mbufs) /\ Len(nic') <= NicSize
      /\ refcnt' \in [Mbufs -> Nat] /\ leaked' \in [Mbufs -> Nat]
      /\ \A n \in Mbufs : refcnt'[n] = Count(window, n) + Count(ring', n)
                                         + Count(nic', n) + leaked'[n]
  <2>1. CASE ~status
    <3>1. /\ leaked' = [leaked EXCEPT ![m] = @ + 1]
          /\ UNCHANGED <<refcnt, nic>>
      BY <1>4, <2>1 DEF DropUnknown
    <3>2. /\ leaked' \in [Mbufs -> Nat]
          /\ \A n \in Mbufs : leaked'[n] = leaked[n] + (IF n = m THEN 1 ELSE 0)
      <4>1. /\ leaked \in [Mbufs -> Nat]
            /\ leaked' = [leaked EXCEPT ![m] = leaked[m] + 1]
        BY <3>1 DEF IInv, TypeOK
      <4>2. QED
        BY <4>1
    <3>3. ASSUME NEW n \in Mbufs
          PROVE  refcnt'[n] = Count(window, n) + Count(ring', n)
                                + Count(nic', n) + leaked'[n]
      <4>1. /\ refcnt'[n] = refcnt[n] /\ Count(nic', n) = Count(nic, n)
            /\ leaked'[n] = leaked[n] + (IF n = m THEN 1 ELSE 0)
            /\ Count(ring, n) = Count(ring', n) + (IF n = m THEN 1 ELSE 0)
        BY <3>1, <3>2, <1>3
      <4>2. QED
        BY <4>1, <1>6
    <3>4. nic' \in Seq(Mbufs) /\ Len(nic') <= NicSize
      BY <3>1 DEF IInv, TypeOK
    <3>5. refcnt' \in [Mbufs -> Nat]
      BY <3>1 DEF IInv, TypeOK
    <3>6. QED
      BY <3>2, <3>3, <3>4, <3>5
  <2>2. CASE status /\ Len(nic) < NicSize
    <3>1. nic' = Append(nic, m) /\ UNCHANGED <<refcnt, leaked>>
      BY <1>4, <2>2 DEF ether_out, send_packet_out
    <3>2. \A n : Count(nic', n) = Count(nic, n) + (IF m = n THEN 1 ELSE 0)
      BY <3>1, CountAppend DEF IInv, TypeOK
    <3>3. nic' \in Seq(Mbufs) /\ Len(nic') <= NicSize
      BY <2>2, <3>1, AppendMembers, OutputAssumption DEF IInv, TypeOK
    <3>4. ASSUME NEW n \in Mbufs
          PROVE  refcnt'[n] = Count(window, n) + Count(ring', n)
                                + Count(nic', n) + leaked'[n]
      <4>1. /\ refcnt'[n] = refcnt[n] /\ leaked'[n] = leaked[n]
            /\ Count(nic', n) = Count(nic, n) + (IF m = n THEN 1 ELSE 0)
            /\ Count(ring, n) = Count(ring', n) + (IF n = m THEN 1 ELSE 0)
        BY <3>1, <3>2, <1>3
      <4>2. QED
        BY <4>1, <1>6
    <3>5. refcnt' \in [Mbufs -> Nat] /\ leaked' \in [Mbufs -> Nat]
      BY <3>1 DEF IInv, TypeOK
    <3>6. QED
      BY <3>3, <3>4, <3>5
  <2>3. CASE status /\ ~(Len(nic) < NicSize)
    <3>1. /\ refcnt' = [refcnt EXCEPT ![m] = @ - 1]
          /\ UNCHANGED <<nic, leaked>>
      BY <1>4, <2>3 DEF ether_out, send_packet_out, FreedOnFailure
    <3>2. refcnt[m] >= 1
      <4>1. Count(ring, m) = Count(ring', m) + 1
        BY <1>3
      <4>2. QED
        BY <4>1, <1>6
    <3>3. /\ refcnt' \in [Mbufs -> Nat]
          /\ \A n \in Mbufs : refcnt'[n] = refcnt[n] - (IF n = m THEN 1 ELSE 0)
      <4>1. /\ refcnt \in [Mbufs -> Nat]
            /\ refcnt' = [refcnt EXCEPT ![m] = refcnt[m] - 1]
        BY <3>1 DEF IInv, TypeOK
      <4>2. refcnt[m] - 1 \in Nat
        BY <3>2, <4>1
      <4>3. QED
        BY <4>1, <4>2
    <3>4. ASSUME NEW n \in Mbufs
          PROVE  refcnt'[n] = Count(window, n) + Count(ring', n)
                                + Count(nic', n) + leaked'[n]
      <4>1. /\ leaked'[n] = leaked[n] /\ Count(nic', n) = Count(nic, n)
            /\ refcnt'[n] = refcnt[n] - (IF n = m THEN 1 ELSE 0)
            /\ Count(ring, n) = Count(ring', n) + (IF n = m THEN 1 ELSE 0)
        BY <3>1, <3>3, <1>3
      <4>2. QED
        BY <4>1, <1>6
    <3>5. nic' \in Seq(Mbufs) /\ Len(nic') <= NicSize
      BY <3>1 DEF IInv, TypeOK
    <3>6. leaked' \in [Mbufs -> Nat]
      BY <3>1 DEF IInv, TypeOK
    <3>7. QED
      BY <3>3, <3>4, <3>5, <3>6
  <2>4. QED
    BY <2>1, <2>2, <2>3
<1>8. TypeOK'
  <2>1. wellFormed' \in BOOLEAN
    BY <1>2, <1>4 DEF ether_out, send_packet_out, DropUnknown, IInv, TypeOK
  <2>2. Len(ring') <= RingSize
    <3>1. Len(ring) \in Nat /\ Len(ring) <= RingSize /\ RingSize \in Nat
      BY OutputAssumption DEF IInv, TypeOK
    <3>2. QED
      BY <1>3, <3>1
  <2>3. QED
    BY <1>1, <1>3, <1>5, <1>7, <2>1, <2>2 DEF IInv, TypeOK
<1>9. RefsExact'
  BY <1>1, <1>7 DEF RefsExact
<1>10. WindowOnce'
  BY <1>1, <1>3 DEF IInv, WindowOnce
<1>11. MarksMeaning' /\ FirstTimeOnce'
  <2>1. ethers[m] \in Nat /\ (4 \in udata64[m] => ethers'[m] = 1)
    BY <1>5 DEF IInv, TypeOK, MarksMeaning, PrependEther
  <2>2. MarksMeaning'
    BY <1>1, <1>5, <2>1 DEF IInv, MarksMeaning
  <2>3. udata64[m] = {} => ethers'[m] <= 1 /\ ~Contains(ring', m)
    BY <1>2, <1>3, <1>5, <2>1 DEF IInv, FirstTimeOnce, PrependEther
  <2>4. FirstTimeOnce'
    BY <1>1, <1>3, <1>5, <2>3 DEF IInv, FirstTimeOnce
  <2>5. QED
    BY <2>2, <2>4
<1>12. ~doubled' => RingOnce' /\ ip[m] /\ PrependEther(m) = 1
  <2>1. SUFFICES ASSUME ~doubled'
                 PROVE  RingOnce' /\ ip[m] /\ PrependEther(m) = 1
    OBVIOUS
  <2>2. RingOnce /\ ethers[m] \in Nat
    BY <1>1, <2>1 DEF IInv, TypeOK
  <2>3. PrependEther(m) = 1 /\ ip[m]
    BY <1>2, <2>2 DEF RingOnce, PrependEther, IInv, MarksMeaning, WindowOnce
  <2>4. ~Contains(ring', m)
    BY <1>3, <2>2 DEF RingOnce, Distinct, Once
  <2>5. QED
    BY <1>1, <1>3, <1>5, <2>2, <2>3, <2>4 DEF RingOnce
<1>13. HeadersOnce'
  BY <1>1, <1>4, <1>12
  DEF ether_out, send_packet_out, DropUnknown, IInv, HeadersOnce
<1>14. QED
  BY <1>8, <1>9, <1>10, <1>11, <1>12, <1>13 DEF IInv

(* The card gives back the reference it was given.                         *)
LEMMA TransmitDoneIInv ==
  ASSUME IInv, TransmitDone
  PROVE  IInv'
<1>1. /\ nic # <<>> /\ nic' = Tail(nic)
      /\ refcnt' = [refcnt EXCEPT ![Head(nic)] = @ - 1]
      /\ UNCHANGED <<packet, window, ring, known, fault, leaked, doubled,
                     wellFormed>>
  BY DEF TransmitDone
<1>2. PICK m \in Mbufs : m = Head(nic) /\ Contains(nic, m)
  BY <1>1, TailMembers DEF IInv, TypeOK
<1>3. /\ nic' \in Seq(Mbufs) /\ Len(nic') = Len(nic) - 1
      /\ \A n : Count(nic, n) = Count(nic', n) + (IF n = m THEN 1 ELSE 0)
  BY <1>1, <1>2, TailMembers, CountTail DEF IInv, TypeOK
<1>4. \A n \in Mbufs :
        /\ Count(window, n) \in Nat /\ Count(ring, n) \in Nat
        /\ Count(nic, n) \in Nat /\ Count(nic', n) \in Nat
        /\ leaked[n] \in Nat /\ refcnt[n] \in Nat
        /\ refcnt[n] = Count(window, n) + Count(ring, n) + Count(nic, n)
                         + leaked[n]
  BY <1>3, CountType DEF IInv, TypeOK, RefsExact
<1>5. refcnt[m] >= 1
  <2>1. Count(nic, m) = Count(nic', m) + 1
    BY <1>3
  <2>2. QED
    BY <2>1, <1>4
<1>6. /\ refcnt' \in [Mbufs -> Nat]
      /\ \A n \in Mbufs : refcnt'[n] = refcnt[n] - (IF n = m THEN 1 ELSE 0)
  <2>1. /\ refcnt \in [Mbufs -> Nat]
        /\ refcnt' = [refcnt EXCEPT ![m] = refcnt[m] - 1]
    BY <1>1, <1>2 DEF IInv, TypeOK
  <2>2. refcnt[m] - 1 \in Nat
    BY <2>1, <1>5
  <2>3. QED
    BY <2>1, <2>2
<1>7. RefsExact'
  <2>1. ASSUME NEW n \in Mbufs
        PROVE  refcnt'[n] = Count(window, n) + Count(ring, n)
                              + Count(nic', n) + leaked[n]
    <3>1. /\ Count(nic, n) = Count(nic', n) + (IF n = m THEN 1 ELSE 0)
          /\ refcnt'[n] = refcnt[n] - (IF n = m THEN 1 ELSE 0)
      BY <1>3, <1>6
    <3>2. QED
      BY <3>1, <1>4
  <2>2. QED
    BY <1>1, <2>1 DEF RefsExact
<1>8. TypeOK'
  <2>1. Len(nic') <= NicSize
    <3>1. Len(nic) \in Nat /\ Len(nic) <= NicSize /\ NicSize \in Nat
      BY OutputAssumption DEF IInv, TypeOK
    <3>2. QED
      BY <1>3, <3>1
  <2>2. QED
    BY <1>1, <1>3, <1>6, <2>1 DEF packet, IInv, TypeOK
<1>9. /\ WindowOnce' /\ MarksMeaning' /\ FirstTimeOnce'
      /\ (~doubled' => RingOnce') /\ HeadersOnce'
  BY <1>1
  DEF packet, IInv, WindowOnce, MarksMeaning, FirstTimeOnce, RingOnce,
      HeadersOnce
<1>10. QED
  BY <1>7, <1>8, <1>9 DEF IInv

-----------------------------------------------------------------------------
(* IInv is inductive.                                                      *)
LEMMA NextIInv ==
  ASSUME IInv, [Next]_vars
  PROVE  IInv'
<1>1. CASE LearnMac
  BY <1>1
  DEF LearnMac, packet, IInv, TypeOK, RefsExact, WindowOnce, MarksMeaning,
      FirstTimeOnce, RingOnce, HeadersOnce
<1>2. CASE UNCHANGED vars
  BY <1>2
  DEF vars, packet, IInv, TypeOK, RefsExact, WindowOnce, MarksMeaning,
      FirstTimeOnce, RingOnce, HeadersOnce
<1>3. QED
  BY <1>1, <1>2, SendIInv, AdjustSendWindowIInv, RtoExpiresIInv,
     CheckEtherOutRingIInv, TransmitDoneIInv DEF Next

(* IInv holds in every reachable state.                                    *)
LEMMA Invariance == Spec => []IInv
<1>1. Init => IInv
  BY InitIInv
<1>2. IInv /\ [Next]_vars => IInv'
  BY NextIInv
<1>3. QED
  BY <1>1, <1>2, PTL DEF Spec

(* The variables keep their types; among them, no reference count is ever  *)
(* taken below zero and the rings are never longer than their room.        *)
THEOREM TypeCorrect == Spec => []TypeOK
<1>1. IInv => TypeOK
  BY DEF IInv
<1>2. QED
  BY <1>1, Invariance, PTL

(* The reference count of a packet is what the send window, the ring and   *)
(* the card hold of it and what was lost.                                  *)
THEOREM ExactReferences == Spec => []RefsExact
<1>1. IInv => RefsExact
  BY DEF IInv
<1>2. QED
  BY <1>1, Invariance, PTL

(* Frames have one IP and one Ethernet header, unless a packet was sent    *)
(* again while still in the ring, and no assert on udata64 fails.          *)
THEOREM OneHeaderEach == Spec => []HeadersOnce
<1>1. IInv => HeadersOnce
  BY DEF IInv
<1>2. QED
  BY <1>1, Invariance, PTL
-----------------------------------------------------------------------------
(* What Reached asks of the entries of a list h, and those it takes.       *)
IsPassed(h, p) ==
  p = [x \in DOMAIN h |-> x = 1 \/ \E y \in 1 .. x - 1 : h[y].next = x /\ p[y]]

Passed(h) == CHOOSE p : IsPassed(h, p)

ReachedIn(h) == {x \in DOMAIN h : Passed(h)[x]}

(* A list whose links lead to entries allocated later.                     *)
Upward(h) ==
  /\ h # <<>>
  /\ \A x \in DOMAIN h : h[x].next = 0 \/ h[x].next \in x + 1 .. Len(h)

LEMMA ReachedIsReachedIn ==
  Reached = ReachedIn(heap) /\ Reached' = ReachedIn(heap')
<1>1. Reached = ReachedIn(heap)
  BY DEF Reached, ReachedIn, Passed, IsPassed
<1>2. Reached' = ReachedIn(heap')
  BY DEF Reached, ReachedIn, Passed, IsPassed
<1>3. QED
  BY <1>1, <1>2

(* A set of numbers that is not empty has a least one, and, if it is       *)
(* bounded, a greatest.                                                    *)
LEMMA LeastMember ==
  ASSUME NEW S \in SUBSET Nat, S # {}
  PROVE  \E m \in S : \A n \in S : m <= n
<1> DEFINE less == OpToRel(<, Nat)
<1>1. \A m, n \in Nat : m < n => <<m, n>> \in less
  BY DEF OpToRel
<1>2. PICK m \in S : \A n \in S : ~ (<<n, m>> \in less)
  BY WFMin, NatLessThanWellFounded
<1> HIDE DEF less
<1>3. ASSUME NEW n \in S
      PROVE  m <= n
  <2>1. m \in Nat /\ n \in Nat
    OBVIOUS
  <2>2. ~ (n < m)
    BY <1>1, <1>2, <2>1
  <2>3. QED
    BY <2>1, <2>2
<1>4. QED
  BY <1>3

LEMMA GreatestMember ==
  ASSUME NEW k \in Nat, NEW S \in SUBSET (1 .. k), S # {}
  PROVE  \E m \in S : \A n \in S : n <= m
<1> DEFINE below == {d \in 0 .. k : k - d \in S}
<1>1. \A n \in S : n \in 1 .. k /\ k - n \in 0 .. k /\ k - (k - n) = n
  OBVIOUS
<1>2. \A n \in S : k - n \in below
  BY <1>1
<1>3. below \in SUBSET Nat /\ below # {}
  <2>1. below \in SUBSET Nat
    OBVIOUS
  <2> HIDE DEF below
  <2>2. PICK n \in S : TRUE
    OBVIOUS
  <2>3. QED
    BY <1>2, <2>1, <2>2
<1>4. PICK least \in below : \A d \in below : least <= d
  BY <1>3, LeastMember
<1>5. ASSUME NEW n \in S
      PROVE  n <= k - least
  <2>1. least <= k - n /\ least \in Nat /\ n \in Nat
    <3>1. k - n \in below
      BY <1>2
    <3>2. least \in Nat
      BY <1>3, <1>4
    <3> HIDE DEF below
    <3>3. QED
      BY <1>4, <3>1, <3>2
  <2>2. QED
    BY <2>1
<1>6. k - least \in S
  BY <1>4
<1>7. QED
  BY <1>5, <1>6

(* The recursion of Reached is one on the numbers of the entries, so there *)
(* is a function that satisfies it.                                        *)
LEMMA PassedExists ==
  ASSUME NEW h, NEW k \in Nat, DOMAIN h = 1 .. k
  PROVE  \E p : IsPassed(h, p)
<1> DEFINE Is(n, p) ==
      p = [x \in 1 .. n |->
             x = 1 \/ \E y \in 1 .. x - 1 : h[y].next = x /\ p[y]]
<1> DEFINE Missing == {n \in Nat : ~ \E p : Is(n, p)}
<1>1. SUFFICES ASSUME Missing # {}
               PROVE  FALSE
  <2>1. ASSUME Missing = {}
        PROVE  \E p : IsPassed(h, p)
    <3>1. PICK p : Is(k, p)
      BY <2>1
    <3>2. IsPassed(h, p)
      BY <3>1 DEF IsPassed
    <3>3. QED
      BY <3>2
  <2>2. QED
    BY <2>1
<1>2. PICK n \in Missing : \A m \in Missing : n <= m
  BY <1>1, LeastMember
<1>3. n # 0
  <2>1. Is(0, [x \in 1 .. 0 |-> TRUE])
    OBVIOUS
  <2>2. QED
    BY <2>1
<1>4. n - 1 \in Nat /\ n \in Nat /\ ~ (n <= n - 1)
  BY <1>3
<1>5. PICK q : Is(n - 1, q)
  BY <1>2, <1>4
<1> DEFINE p == [x \in 1 .. n |->
                   x = 1 \/ \E y \in 1 .. x - 1 : h[y].next = x /\ q[y]]
<1>6. ASSUME NEW y \in 1 .. n - 1
      PROVE  p[y] = q[y]
  <2>1. y \in 1 .. n
    BY <1>4
  <2>2. QED
    BY <1>5, <2>1
<1>7. ASSUME NEW x \in 1 .. n
      PROVE  (x = 1 \/ \E y \in 1 .. x - 1 : h[y].next = x /\ q[y])
             = (x = 1 \/ \E y \in 1 .. x - 1 : h[y].next = x /\ p[y])
  <2>1. \A y \in 1 .. x - 1 : y \in 1 .. n - 1
    BY <1>4
  <2> HIDE DEF p
  <2>2. QED
    BY <1>6, <2>1
<1>8. Is(n, p)
  BY <1>7
<1>9. QED
  BY <1>2, <1>8

(* An entry is passed when it is the head or the next of a passed one.     *)
LEMMA ReachedMember ==
  ASSUME NEW T, NEW h \in Seq(T), NEW x \in DOMAIN h
  PROVE  x \in ReachedIn(h)
           <=> x = 1 \/ \E y \in ReachedIn(h) : y < x /\ h[y].next = x
<1>1. DOMAIN h = 1 .. Len(h) /\ Len(h) \in Nat
  OBVIOUS
<1>2. \E p : IsPassed(h, p)
  BY <1>1, PassedExists
<1>3. IsPassed(h, Passed(h))
  BY <1>2, Zenon DEF Passed
<1> DEFINE p == Passed(h)
<1>4. p[x] = (x = 1 \/ \E y \in 1 .. x - 1 : h[y].next = x /\ p[y])
  BY <1>3 DEF IsPassed
<1>5. ReachedIn(h) = {y \in DOMAIN h : p[y]}
  BY DEF ReachedIn
<1> HIDE DEF p
<1>6. \A y : y \in 1 .. x - 1 <=> y \in DOMAIN h /\ y < x
  BY <1>1
<1>7. QED
  BY <1>4, <1>5, <1>6

(* What a walk passes: the head, what follows a passed entry, and no more. *)
LEMMA WalkGoesOn ==
  ASSUME NEW T, NEW h \in Seq(T), Upward(h)
  PROVE  /\ 1 \in ReachedIn(h) /\ ReachedIn(h) \subseteq DOMAIN h
         /\ \A x \in ReachedIn(h) : h[x].next # 0 => h[x].next \in ReachedIn(h)
<1>1. DOMAIN h = 1 .. Len(h) /\ Len(h) \in Nat /\ 1 \in DOMAIN h
  BY DEF Upward
<1>2. 1 \in ReachedIn(h)
  BY <1>1, ReachedMember
<1>3. ReachedIn(h) \subseteq DOMAIN h
  BY DEF ReachedIn
<1>4. ASSUME NEW x \in ReachedIn(h), h[x].next # 0
      PROVE  h[x].next \in ReachedIn(h)
  <2>1. x \in DOMAIN h /\ h[x].next \in x + 1 .. Len(h)
    BY <1>3, <1>4 DEF Upward
  <2>2. h[x].next \in DOMAIN h /\ x < h[x].next
    BY <1>1, <2>1
  <2>3. QED
    BY <2>2, ReachedMember
<1>5. QED
  BY <1>2, <1>3, <1>4

LEMMA WalkIsLeast ==
  ASSUME NEW T, NEW h \in Seq(T), NEW S, 1 \in S,
         \A x \in S \cap DOMAIN h : h[x].next \in S \union {0}
  PROVE  ReachedIn(h) \subseteq S
<1> DEFINE Missed == ReachedIn(h) \ S
<1>1. ReachedIn(h) \subseteq 1 .. Len(h)
  BY DEF ReachedIn
<1>2. SUFFICES ASSUME Missed # {}
               PROVE  FALSE
  OBVIOUS
<1>3. Missed \in SUBSET Nat
  BY <1>1
<1>4. PICK x \in Missed : \A y \in Missed : x <= y
  BY <1>2, <1>3, LeastMember
<1>5. PICK y \in ReachedIn(h) : y < x /\ h[y].next = x
  BY <1>1, <1>4, ReachedMember
<1>6. y \in S /\ y \in DOMAIN h
  BY <1>1, <1>3, <1>4, <1>5
<1>7. x # 0
  BY <1>1
<1>8. QED
  BY <1>4, <1>5, <1>6, <1>7

(* A walk passes entries in the order they were allocated, and skips none  *)
(* of those it passes.                                                     *)
LEMMA WalkInOrder ==
  ASSUME NEW T, NEW h \in Seq(T), Upward(h),
         NEW x \in ReachedIn(h), NEW y \in ReachedIn(h), x < y
  PROVE  h[x].next # 0 /\ h[x].next <= y
<1> DEFINE Passes(v, w) == h[v].next # 0 /\ h[v].next <= w
<1> DEFINE Bad == {w \in ReachedIn(h) :
                     \E v \in ReachedIn(h) : v < w /\ ~ Passes(v, w)}
<1>1. /\ ReachedIn(h) \subseteq 1 .. Len(h) /\ Len(h) \in Nat
      /\ \A v \in ReachedIn(h) : h[v].next \in 0 .. Len(h)
  <2>1. ReachedIn(h) \subseteq 1 .. Len(h) /\ Len(h) \in Nat
    BY DEF ReachedIn
  <2>2. \A v \in 1 .. Len(h) : h[v].next \in 0 .. Len(h)
    BY DEF Upward
  <2>3. QED
    BY <2>1, <2>2
<1>2. SUFFICES ASSUME Bad # {}
               PROVE  FALSE
  OBVIOUS
<1>3. Bad \in SUBSET Nat
  BY <1>1
<1>4. PICK w \in Bad : \A z \in Bad : w <= z
  BY <1>2, <1>3, LeastMember
<1>5. PICK v \in ReachedIn(h) : v < w /\ ~ Passes(v, w)
  BY <1>4
<1>6. w # 1 /\ w \in ReachedIn(h) /\ w \in 1 .. Len(h)
  BY <1>1, <1>4, <1>5
<1>7. PICK u \in ReachedIn(h) : u < w /\ h[u].next = w
  <2>1. w \in DOMAIN h
    BY <1>6
  <2>2. QED
    BY <1>6, <2>1, ReachedMember
<1>8. v # u /\ v \in 1 .. Len(h) /\ u \in 1 .. Len(h)
  BY <1>1, <1>5, <1>6, <1>7
<1>9. u \notin Bad /\ v \notin Bad
  BY <1>1, <1>3, <1>4, <1>5, <1>7, <1>8
<1>10. CASE v < u
  <2>1. Passes(v, u)
    BY <1>9, <1>10
  <2>2. QED
    BY <1>1, <1>5, <1>6, <1>7, <1>8, <2>1
<1>11. CASE u < v
  <2>1. Passes(u, v)
    BY <1>9, <1>11
  <2>2. QED
    BY <1>1, <1>5, <1>6, <1>7, <1>8, <2>1
<1>12. QED
  BY <1>8, <1>10, <1>11

(* The walk has one end, and that is the youngest entry it passes.         *)
LEMMA WalkEnds ==
  ASSUME NEW T, NEW h \in Seq(T), Upward(h),
         NEW e, e = CHOOSE x \in ReachedIn(h) : h[x].next = 0
  PROVE  e \in ReachedIn(h) /\ \A y \in ReachedIn(h) : y <= e
<1>1. ReachedIn(h) \subseteq 1 .. Len(h) /\ ReachedIn(h) # {} /\ Len(h) \in Nat
  BY WalkGoesOn
<1>2. PICK m \in ReachedIn(h) : \A n \in ReachedIn(h) : n <= m
  BY <1>1, GreatestMember
<1>3. h[m].next = 0
  <2>1. SUFFICES ASSUME h[m].next # 0
                 PROVE  FALSE
    OBVIOUS
  <2>2. h[m].next \in ReachedIn(h)
    BY <2>1, WalkGoesOn
  <2>3. h[m].next \in m + 1 .. Len(h)
    BY <1>1, <2>1 DEF Upward
  <2>4. QED
    BY <1>1, <1>2, <2>2, <2>3
<1>4. e \in ReachedIn(h) /\ h[e].next = 0
  BY <1>3
<1>5. ASSUME NEW y \in ReachedIn(h)
      PROVE  y <= e
  <2>1. ~ (e < y)
    BY <1>4, WalkInOrder
  <2>2. QED
    BY <1>1, <1>4, <2>1
<1>6. QED
  BY <1>4, <1>5
-----------------------------------------------------------------------------
(* The two ways the list changes.                                          *)

(* Filling an entry in leaves the links, and so the walk, alone.           *)
LEMMA SameLinksSameWalk ==
  ASSUME NEW T, NEW h \in Seq(T), Upward(h), NEW g \in Seq(T),
         Len(g) = Len(h), \A x \in DOMAIN h : g[x].next = h[x].next
  PROVE  Upward(g) /\ ReachedIn(g) = ReachedIn(h)
<1>1. DOMAIN g = DOMAIN h /\ DOMAIN h = 1 .. Len(h)
  OBVIOUS
<1>2. Upward(g)
  BY <1>1 DEF Upward
<1>3. ReachedIn(g) \subseteq ReachedIn(h)
  <2>1. \A x \in ReachedIn(h) \cap DOMAIN g :
          g[x].next \in ReachedIn(h) \union {0}
    BY <1>1, WalkGoesOn
  <2>2. QED
    BY <2>1, WalkGoesOn, WalkIsLeast
<1>4. ReachedIn(h) \subseteq ReachedIn(g)
  <2>1. \A x \in ReachedIn(g) \cap DOMAIN h :
          h[x].next \in ReachedIn(g) \union {0}
    BY <1>1, <1>2, WalkGoesOn
  <2>2. 1 \in ReachedIn(g)
    BY <1>2, WalkGoesOn
  <2>3. QED
    BY <2>1, <2>2, WalkIsLeast
<1>5. QED
  BY <1>2, <1>3, <1>4

(* A new entry linked behind entry n: the walk still passes what it passed *)
(* up to n, and then the new one; if it did not pass n, nothing changes.   *)
LEMMA LinkedWalk ==
  ASSUME NEW T, NEW h \in Seq(T), Upward(h), NEW g \in Seq(T),
         NEW n \in DOMAIN h, Len(g) = Len(h) + 1, g[n].next = Len(g),
         g[Len(g)].next = 0,
         \A x \in DOMAIN h : x # n => g[x].next = h[x].next
  PROVE  /\ Upward(g)
         /\ ReachedIn(g) \subseteq ReachedIn(h) \union {Len(g)}
         /\ \A x \in ReachedIn(h) :
              x <= n \/ n \notin ReachedIn(h) => x \in ReachedIn(g)
         /\ n \in ReachedIn(h) => Len(g) \in ReachedIn(g)
<1> DEFINE new == Len(g)
<1>1. /\ DOMAIN h = 1 .. Len(h) /\ Len(h) \in Nat /\ new = Len(h) + 1
      /\ DOMAIN g = 1 .. new
  OBVIOUS
<1>2. Upward(g)
  <2>1. g # <<>>
    BY <1>1
  <2>2. ASSUME NEW x \in DOMAIN g
        PROVE  g[x].next = 0 \/ g[x].next \in x + 1 .. new
    <3>1. CASE x = new
      BY <3>1
    <3>2. CASE x = n
      BY <1>1, <3>2
    <3>3. CASE x # new /\ x # n
      <4>1. x \in DOMAIN h
        BY <1>1, <3>3
      <4>2. h[x].next = 0 \/ h[x].next \in x + 1 .. Len(h)
        BY <4>1 DEF Upward
      <4>3. g[x].next = h[x].next
        BY <3>3, <4>1
      <4>4. QED
        BY <1>1, <4>2, <4>3
    <3>4. QED
      BY <3>1, <3>2, <3>3
  <2>3. QED
    BY <2>1, <2>2 DEF Upward
<1> HIDE DEF new
<1>3. ReachedIn(g) \subseteq ReachedIn(h) \union {new}
  <2>1. ASSUME NEW x \in (ReachedIn(h) \union {new}) \cap DOMAIN g
        PROVE  g[x].next \in ReachedIn(h) \union {new} \union {0}
    <3>1. CASE x = new \/ x = n
      BY <3>1 DEF new
    <3>2. CASE x # new /\ x # n
      <4>1. x \in ReachedIn(h) /\ x \in DOMAIN h
        BY <3>2, WalkGoesOn
      <4>2. g[x].next = h[x].next
        BY <3>2, <4>1
      <4>3. QED
        BY <4>1, <4>2, WalkGoesOn
    <3>3. QED
      BY <3>1, <3>2
  <2>2. QED
    BY <2>1, WalkGoesOn, WalkIsLeast
<1>4. ASSUME NEW z \in ReachedIn(h), z <= n \/ n \notin ReachedIn(h)
      PROVE  z \in ReachedIn(g)
  <2> DEFINE S == {x \in ReachedIn(h) :
                     x <= n \/ n \notin ReachedIn(h) => x \in ReachedIn(g)}
  <2>1. 1 \in S
    BY <1>2, WalkGoesOn
  <2>2. ASSUME NEW x \in S \cap DOMAIN h, h[x].next # 0
        PROVE  h[x].next \in S
    <3> DEFINE w == h[x].next
    <3>1. w \in ReachedIn(h) /\ w \in x + 1 .. Len(h) /\ x \in 1 .. Len(h)
      BY <1>1, <2>2, WalkGoesOn DEF Upward
    <3> HIDE DEF w
    <3>2. CASE w <= n \/ n \notin ReachedIn(h)
      <4>1. x # n /\ (x <= n \/ n \notin ReachedIn(h))
        BY <1>1, <3>1, <3>2
      <4>2. x \in ReachedIn(g) /\ g[x].next = w
        BY <4>1 DEF w
      <4>3. w # 0
        BY <3>1
      <4>4. w \in ReachedIn(g)
        BY <1>2, <4>2, <4>3, WalkGoesOn
      <4>5. w \in S
        BY <3>1, <4>4
      <4>6. QED
        BY <4>5 DEF w
    <3>3. CASE ~ (w <= n \/ n \notin ReachedIn(h))
      BY <3>1, <3>3 DEF w
    <3>4. QED
      BY <3>2, <3>3
  <2>3. \A x \in S \cap DOMAIN h : h[x].next \in S \union {0}
    BY <2>2
  <2> HIDE DEF S
  <2>4. ReachedIn(h) \subseteq S
    BY <2>1, <2>3, WalkIsLeast
  <2>5. z \in S
    BY <2>4
  <2>6. QED
    BY <1>4, <2>5 DEF S
<1>5. ASSUME n \in ReachedIn(h)
      PROVE  new \in ReachedIn(g)
  <2>1. n <= n
    BY <1>1
  <2>2. n \in ReachedIn(g)
    BY <1>4, <1>5, <2>1
  <2>3. g[n].next = new /\ new # 0
    BY <1>1 DEF new
  <2>4. QED
    BY <1>2, <2>2, <2>3, WalkGoesOn
<1>6. QED
  BY <1>2, <1>3, <1>4, <1>5 DEF new
-----------------------------------------------------------------------------
(* The invariant of the list of addresses.                                 *)

(* How far a thread is in add_mac, in a list of k entries.                 *)
Additions(k) == [at : {"idle", "link", "fill"},
                 ip : IPs \union {None, JUNK},
                 mac : Macs \union {None, JUNK}, node : 0 .. k]

(* What main, the neighbours and the operator can have put into the list.  *)
ListTypes ==
  /\ heap \in Seq(Entry)
  /\ adding \in [Threads -> Additions(Len(heap))]
  /\ heard \subseteq IPs /\ raced \subseteq DOMAIN heap

(* A thread adds addresses, the lcore those of neighbours.                 *)
AddsAddresses ==
  \A t \in Threads :
    adding[t].at # "idle" =>
      /\ adding[t].ip \in IPs \union {JUNK}
      /\ adding[t].mac \in Macs \union {JUNK}
      /\ t = "lcore" => adding[t].ip \in Peers

(* No entry is dropped from the list but by a race.                        *)
DroppedByRace == \A x \in DOMAIN heap : x \in Reached \/ x \in raced

(* A thread that is to link an entry knows the end of the list, as far as  *)
(* it was not moved on by the other thread, and that is a race.            *)
EndKnown ==
  \A t \in Threads :
    adding[t].at = "link" =>
      /\ adding[t].node \in DOMAIN heap
      /\ \A x \in Reached : x > adding[t].node => x \in raced

(* An entry that a thread is to fill in is its own and empty.              *)
FillsItsOwn ==
  \A t \in Threads :
    adding[t].at = "fill" =>
      /\ adding[t].node \in DOMAIN heap
      /\ heap[adding[t].node].ip = JUNK
      /\ \A u \in Threads \ {t} :
           adding[u].at = "fill" => adding[u].node # adding[t].node

(* Whoever was heard has an entry, in the list or dropped from it.         *)
HeardFiled == \A a \in heard : \E x \in DOMAIN heap : heap[x].ip = a

ListInv ==
  /\ ListTypes /\ Upward(heap)
  /\ AddsAddresses /\ DroppedByRace /\ EndKnown /\ FillsItsOwn /\ HeardFiled
-----------------------------------------------------------------------------
(* The invariant of the interfaces and of the server.                      *)

(* The connection of the server with its client.                           *)
Connections == [at : {"accept", "recv", "read", "adding", "reply", "ended"},
                cmd : Commands \union {NoCommand}, typed : 0 .. MaxCmds]

ServerTypes ==
  /\ interfaces \in Seq(IPs \union {JUNK}) /\ Len(interfaces) \in 1 .. 2
  /\ filled \in 0 .. 4
  /\ cli \in Connections
  /\ overrun \in BOOLEAN /\ garbled \in BOOLEAN
  /\ claims \subseteq IPs \union {JUNK} /\ added \in Seq(IPs)

(* main's interface comes first, and behind it only the address added last.*)
LastAddedHosted ==
  ~garbled =>
    /\ added # <<>> /\ added[1] = Own /\ interfaces[1] = Own
    /\ interfaces = IF Len(added) = 1 THEN <<Own>>
                    ELSE <<Own, added[Len(added)]>>
    /\ claims \subseteq {added[i] : i \in DOMAIN added}
-----------------------------------------------------------------------------
(* What a step does to the list.                                           *)

(* A packet of a neighbour that has an address here adds nothing.          *)
HearsKnown ==
  /\ UNCHANGED <<heap, adding, raced>>
  /\ \/ UNCHANGED heard
     \/ \E a \in Peers : get_mac(a) # None /\ heard' = heard \union {a}

(* A thread walks to the end of the list with what it is to add.           *)
StartsAdding ==
  /\ UNCHANGED <<heap, heard, raced>>
  /\ \E t \in Threads, a \in IPs \union {JUNK}, m \in Macs \union {JUNK} :
       /\ add_mac(t, a, m)
       /\ t = "lcore" => a \in Peers

LEMMA CommandOfAddip ==
  ASSUME ServerTypes, cli.cmd.verb = "addip"
  PROVE  /\ cli.cmd.ip \in IPs
         /\ ParsedIP(cli.cmd, TRUE) = {cli.cmd.ip}
         /\ \A clean : ParsedIP(cli.cmd, clean) \subseteq IPs \union {JUNK}
<1>1. cli.cmd \in Commands \union {NoCommand}
  BY DEF ServerTypes, Connections
<1>2. cli.cmd.ip \in IPs
  BY <1>1 DEF Commands, NoCommand, None
<1>3. QED
  BY <1>2 DEF ParsedIP

LEMMA ListStep ==
  ASSUME ServerTypes, [NeighboursNext]_nvars
  PROVE  \/ HearsKnown
         \/ StartsAdding
         \/ \E t \in Threads : LinkEntry(t) \/ FillEntry(t)
<1>1. CASE UNCHANGED nvars
  BY <1>1 DEF nvars, lists, history, HearsKnown
<1>2. CASE \E a \in IPs : ArpRequest(a)
  BY <1>2 DEF ArpRequest, lists, HearsKnown
<1>3. ASSUME NEW a \in Peers, NEW m \in Macs, ArpReply(a, m)
      PROVE  StartsAdding
  <2>1. a \in IPs \union {JUNK} /\ m \in Macs \union {JUNK}
    BY DEF IPs
  <2>2. "lcore" \in Threads /\ add_mac("lcore", a, m)
    BY <1>3 DEF ArpReply, Threads
  <2>3. UNCHANGED <<heap, heard, raced>>
    BY <1>3 DEF ArpReply, history
  <2>4. QED
    BY <2>1, <2>2, <2>3 DEF StartsAdding
<1>4. ASSUME NEW a \in Peers, NEW m \in Macs, ip_in(a, m)
      PROVE  HearsKnown \/ StartsAdding
  <2>1. a \in IPs \union {JUNK} /\ m \in Macs \union {JUNK}
    BY DEF IPs
  <2>2. UNCHANGED <<heap, raced>>
    BY <1>4 DEF ip_in
  <2>3. CASE get_mac(a) = None
    <3>1. "lcore" \in Threads /\ add_mac("lcore", a, m) /\ UNCHANGED heard
      BY <1>4, <2>3 DEF ip_in, Threads
    <3>2. QED
      BY <2>1, <2>2, <3>1 DEF StartsAdding
  <2>4. CASE get_mac(a) # None
    <3>1. heard' = heard \union {a} /\ UNCHANGED adding
      BY <1>4, <2>4 DEF ip_in
    <3>2. QED
      BY <2>2, <2>4, <3>1 DEF HearsKnown
  <2>5. QED
    BY <2>3, <2>4
<1>5. CASE Client \/ AcceptClient \/ WriteReply
  BY <1>5 DEF Client, ClientLeaves, ClientSends, AcceptClient,
              WriteReply, lists, history, HearsKnown
<1>6. ASSUME NEW clean \in BOOLEAN, perform_command(clean)
      PROVE  HearsKnown \/ StartsAdding
  <2>1. UNCHANGED <<heap, heard, raced>>
    BY <1>6 DEF perform_command
  <2>2. CASE UNCHANGED adding
    BY <2>1, <2>2 DEF HearsKnown
  <2>3. CASE /\ cli.cmd.verb = "addip"
             /\ \E a \in ParsedIP(cli.cmd, clean) : AddInterface(a)
    <3>1. PICK a \in ParsedIP(cli.cmd, clean) : AddInterface(a)
      BY <2>3
    <3>2. a \in IPs \union {JUNK} /\ JUNK \in Macs \union {JUNK}
      BY <2>3, <3>1, CommandOfAddip
    <3>3. "cli" \in Threads /\ add_mac("cli", a, JUNK)
      BY <3>1 DEF AddInterface, Threads
    <3>4. QED
      BY <2>1, <3>2, <3>3 DEF StartsAdding
  <2>4. QED
    BY <1>6, <2>2, <2>3 DEF perform_command
<1>7. CASE \E t \in Threads : AddSteps(t)
  BY <1>7 DEF AddSteps
<1>8. QED
  BY <1>1, <1>2, <1>3, <1>4, <1>5, <1>6, <1>7, Zenon
  DEF NeighboursNext, Network, Server

LEMMA EndOfWalk ==
  ASSUME ListTypes, Upward(heap)
  PROVE  /\ WalkEnd \in Reached /\ WalkEnd \in DOMAIN heap
         /\ \A y \in Reached : y <= WalkEnd
<1>1. WalkEnd = CHOOSE x \in ReachedIn(heap) : heap[x].next = 0
  BY ReachedIsReachedIn DEF WalkEnd, LastReached, NULL
<1>2. heap \in Seq(Entry)
  BY DEF ListTypes
<1>3. WalkEnd \in ReachedIn(heap) /\ \A y \in ReachedIn(heap) : y <= WalkEnd
  BY <1>1, <1>2, WalkEnds
<1>4. QED
  BY <1>2, <1>3, ReachedIsReachedIn, WalkGoesOn

(* The walk as long as the list does not change.                           *)
LEMMA SameHeap ==
  ASSUME UNCHANGED heap
  PROVE  Reached' = Reached
BY ReachedIsReachedIn

LEMMA HearsKnownInv ==
  ASSUME ListInv, HearsKnown
  PROVE  ListInv'
<1> USE DEF ListInv
<1>1. UNCHANGED <<heap, adding, raced, Reached>>
  BY SameHeap DEF HearsKnown
<1>2. /\ Upward(heap)' /\ AddsAddresses' /\ DroppedByRace' /\ EndKnown'
      /\ FillsItsOwn'
  BY <1>1 DEF Upward, AddsAddresses, DroppedByRace, EndKnown, FillsItsOwn
<1>3. CASE UNCHANGED heard
  BY <1>1, <1>2, <1>3 DEF ListTypes, HeardFiled
<1>4. CASE \E a \in Peers : get_mac(a) # None /\ heard' = heard \union {a}
  <2>1. PICK a \in Peers : get_mac(a) # None /\ heard' = heard \union {a}
    BY <1>4
  <2>2. a \in IPs
    BY DEF IPs
  <2>3. ListTypes'
    BY <1>1, <2>1, <2>2 DEF ListTypes
  <2>4. \E x \in DOMAIN heap : heap[x].ip = a
    BY <2>1 DEF get_mac, EntriesOf, Reached
  <2>5. HeardFiled'
    BY <1>1, <2>1, <2>4 DEF HeardFiled
  <2>6. QED
    BY <1>2, <2>3, <2>5
<1>5. QED
  BY <1>3, <1>4 DEF HearsKnown

LEMMA StartsAddingInv ==
  ASSUME ListInv, StartsAdding
  PROVE  ListInv'
<1> USE DEF ListInv
<1>1. PICK t \in Threads, a \in IPs \union {JUNK}, m \in Macs \union {JUNK} :
        add_mac(t, a, m) /\ (t = "lcore" => a \in Peers)
  BY DEF StartsAdding
<1>2. UNCHANGED <<heap, heard, raced, Reached>>
  BY SameHeap DEF StartsAdding
<1> DEFINE new == [at |-> "link", ip |-> a, mac |-> m, node |-> WalkEnd]
<1>3. /\ adding' = [adding EXCEPT ![t] = new] /\ DOMAIN adding = Threads
      /\ adding'[t] = new
      /\ \A u \in Threads : u # t => adding'[u] = adding[u]
  BY <1>1 DEF add_mac, ListTypes
<1>4. WalkEnd \in DOMAIN heap /\ \A y \in Reached : y <= WalkEnd
  BY EndOfWalk
<1>5. ListTypes'
  <2>1. WalkEnd \in 0 .. Len(heap)
    BY <1>4 DEF ListTypes
  <2>2. new \in Additions(Len(heap))
    BY <2>1 DEF Additions
  <2> HIDE DEF new
  <2>3. QED
    BY <1>2, <1>3, <2>2 DEF ListTypes
<1>6. Upward(heap)' /\ DroppedByRace' /\ HeardFiled'
  BY <1>2 DEF Upward, DroppedByRace, HeardFiled
<1>7. AddsAddresses'
  <2>1. ASSUME NEW u \in Threads, u # t
        PROVE  adding'[u] = adding[u]
    BY <1>3, <2>1
  <2>2. /\ adding'[t].ip \in IPs \union {JUNK}
        /\ adding'[t].mac \in Macs \union {JUNK}
        /\ t = "lcore" => adding'[t].ip \in Peers
    BY <1>1, <1>3
  <2>3. QED
    BY <2>1, <2>2 DEF AddsAddresses
<1>8. EndKnown'
  <2>1. adding'[t].node = WalkEnd
    BY <1>3
  <2>2. \A x \in Reached : ~ (x > WalkEnd)
    <3>1. \A x \in Reached : x \in Nat /\ WalkEnd \in Nat
      BY <1>4 DEF Reached, ListTypes
    <3>2. QED
      BY <1>4, <3>1
  <2>3. ASSUME NEW u \in Threads, u # t
        PROVE  adding'[u] = adding[u]
    BY <1>3, <2>3
  <2>4. QED
    BY <1>2, <1>4, <2>1, <2>2, <2>3 DEF EndKnown
<1>9. FillsItsOwn'
  <2>1. adding'[t].at # "fill"
    BY <1>3
  <2>2. QED
    BY <1>2, <1>3, <2>1 DEF FillsItsOwn
<1>10. QED
  BY <1>5, <1>6, <1>7, <1>8, <1>9

(* The list and the thread after a new entry is linked.                    *)
LEMMA LinkEffect ==
  ASSUME ListInv, NEW t \in Threads, LinkEntry(t)
  PROVE  /\ adding[t].at = "link" /\ adding[t].node \in DOMAIN heap
         /\ heap' \in Seq(Entry) /\ Len(heap') = Len(heap) + 1
         /\ \A x \in DOMAIN heap :
              /\ heap'[x].ip = heap[x].ip /\ heap'[x].mac = heap[x].mac
              /\ x # adding[t].node => heap'[x].next = heap[x].next
         /\ heap'[adding[t].node].next = Len(heap')
         /\ heap'[Len(heap')].ip = JUNK /\ heap'[Len(heap')].next = 0
<1> DEFINE n == adding[t].node
<1> DEFINE x == Len(heap) + 1
<1> DEFINE new == [ip |-> JUNK, mac |-> JUNK, next |-> 0]
<1> DEFINE linked == [heap EXCEPT ![n].next = x]
<1>1. adding[t].at = "link" /\ n \in DOMAIN heap
  BY DEF LinkEntry, ListInv, EndKnown
<1>2. heap' = Append(linked, new)
  BY DEF LinkEntry, NULL
<1>3. heap \in Seq(Entry) /\ Len(heap) \in Nat /\ x \in Nat
  BY DEF ListInv, ListTypes
<1>4. heap[n] \in Entry
  BY <1>1, <1>3
<1>5. [heap[n] EXCEPT !.next = x] \in Entry
  BY <1>3, <1>4 DEF Entry
<1>6. linked = [heap EXCEPT ![n] = [heap[n] EXCEPT !.next = x]]
  OBVIOUS
<1>7. new \in Entry
  BY DEF Entry
<1>8. /\ linked \in Seq(Entry) /\ Len(linked) = Len(heap)
      /\ linked[n] = [heap[n] EXCEPT !.next = x]
      /\ \A y \in DOMAIN heap : y # n => linked[y] = heap[y]
  BY <1>1, <1>3, <1>5, <1>6
<1> HIDE DEF linked, new, x
<1>9. /\ heap' \in Seq(Entry) /\ Len(heap') = Len(heap) + 1
      /\ heap'[Len(heap) + 1] = new
      /\ \A y \in 1 .. Len(heap) : heap'[y] = linked[y]
  BY <1>2, <1>3, <1>7, <1>8
<1>10. DOMAIN heap = 1 .. Len(heap)
  BY <1>3
<1>11. heap'[n] = [heap[n] EXCEPT !.next = x]
  BY <1>1, <1>8, <1>9, <1>10
<1>12. /\ heap'[n].ip = heap[n].ip /\ heap'[n].mac = heap[n].mac
       /\ heap'[n].next = x
  BY <1>4, <1>11 DEF Entry
<1>13. \A y \in DOMAIN heap : y # n => heap'[y] = heap[y]
  BY <1>8, <1>9, <1>10
<1>14. heap'[Len(heap')].ip = JUNK /\ heap'[Len(heap')].next = 0
  BY <1>9 DEF new
<1>15. QED
  BY <1>1, <1>9, <1>12, <1>13, <1>14 DEF x

LEMMA LinkAdding ==
  ASSUME ListInv, NEW t \in Threads, LinkEntry(t)
  PROVE  /\ adding'[t].at = "fill" /\ adding'[t].node = Len(heap')
         /\ adding'[t].ip = adding[t].ip /\ adding'[t].mac = adding[t].mac
         /\ \A u \in Threads : u # t => adding'[u] = adding[u]
         /\ ListTypes'
<1> DEFINE n == Len(heap) + 1
<1>1. adding \in [Threads -> Additions(Len(heap))] /\ Len(heap) \in Nat
  BY DEF ListInv, ListTypes
<1>2. adding' = [adding EXCEPT ![t].at = "fill", ![t].node = n]
  BY DEF LinkEntry
<1>3. n \in 0 .. n /\ 0 .. Len(heap) \subseteq 0 .. n
  BY <1>1
<1> HIDE DEF n
<1>4. \A u \in Threads : adding[u] \in Additions(n)
  BY <1>1, <1>3 DEF Additions
<1> DEFINE new == [adding[t] EXCEPT !.at = "fill", !.node = n]
<1>5. /\ new \in Additions(n) /\ new.at = "fill" /\ new.node = n
      /\ new.ip = adding[t].ip /\ new.mac = adding[t].mac
  BY <1>3, <1>4 DEF Additions
<1>6. adding' = [adding EXCEPT ![t] = new] /\ DOMAIN adding = Threads
  BY <1>1, <1>2
<1> HIDE DEF new
<1>7. /\ adding'[t] = new
      /\ \A u \in Threads : u # t => adding'[u] = adding[u]
      /\ adding' \in [Threads -> Additions(n)]
  <2>1. /\ adding'[t] = new
        /\ \A u \in Threads : u # t => adding'[u] = adding[u]
    BY <1>6
  <2>2. QED
    BY <1>4, <1>5, <1>6, <2>1
<1>8. Len(heap') = n /\ heap' \in Seq(Entry)
  BY LinkEffect DEF n
<1>9. heard' \subseteq IPs /\ raced' \subseteq DOMAIN heap'
  <2>1. UNCHANGED heard /\ raced' \subseteq raced \union {n}
    BY DEF LinkEntry, n
  <2>2. n \in DOMAIN heap' /\ DOMAIN heap \subseteq DOMAIN heap'
    BY <1>1, <1>8 DEF n, ListInv, ListTypes
  <2>3. QED
    BY <2>1, <2>2 DEF ListInv, ListTypes
<1>10. ListTypes'
  BY <1>7, <1>8, <1>9 DEF ListTypes
<1>11. QED
  BY <1>5, <1>7, <1>8, <1>10

LEMMA LinkWalk ==
  ASSUME ListInv, NEW t \in Threads, LinkEntry(t)
  PROVE  /\ Upward(heap')
         /\ Reached' \subseteq Reached \union {Len(heap')}
         /\ \A x \in Reached : x \in Reached' \/ x \in raced
         /\ Len(heap') \in Reached' \/ Len(heap') \in raced'
         /\ raced \subseteq raced'
<1> DEFINE n == adding[t].node
<1>1. /\ heap \in Seq(Entry) /\ Upward(heap) /\ heap' \in Seq(Entry)
      /\ n \in DOMAIN heap /\ Len(heap') = Len(heap) + 1
      /\ heap'[n].next = Len(heap') /\ heap'[Len(heap')].next = 0
      /\ \A x \in DOMAIN heap : x # n => heap'[x].next = heap[x].next
  BY LinkEffect DEF ListInv, ListTypes
<1>2. /\ Upward(heap')
      /\ ReachedIn(heap') \subseteq ReachedIn(heap) \union {Len(heap')}
      /\ \A x \in ReachedIn(heap) :
           x <= n \/ n \notin ReachedIn(heap) => x \in ReachedIn(heap')
      /\ n \in ReachedIn(heap) => Len(heap') \in ReachedIn(heap')
  BY <1>1, LinkedWalk
<1>3. ASSUME NEW x \in Reached
      PROVE  x \in Reached' \/ x \in raced
  <2>1. x \in ReachedIn(heap)
    BY ReachedIsReachedIn
  <2>2. x \in Nat /\ n \in Nat
    BY <1>1, <2>1, WalkGoesOn
  <2>3. CASE x <= n
    BY <1>2, <2>1, <2>3, ReachedIsReachedIn
  <2>4. CASE x > n
    BY <1>3, <2>4 DEF ListInv, EndKnown, LinkEntry
  <2>5. QED
    BY <2>2, <2>3, <2>4
<1>4. Len(heap') = Len(heap) + 1
  BY <1>1
<1>5. Len(heap') \in Reached' \/ Len(heap') \in raced'
  <2>1. CASE n \in Reached
    BY <1>2, <2>1, ReachedIsReachedIn
  <2>2. CASE n \notin Reached
    BY <1>4, <2>2 DEF LinkEntry
  <2>3. QED
    BY <2>1, <2>2
<1>6. raced \subseteq raced'
  BY DEF LinkEntry
<1>7. QED
  BY <1>2, <1>3, <1>5, <1>6, ReachedIsReachedIn

LEMMA LinkEntryInv ==
  ASSUME ListInv, NEW t \in Threads, LinkEntry(t)
  PROVE  ListInv'
<1> DEFINE new == Len(heap')
<1>1. ListTypes' /\ Upward(heap')
  BY LinkAdding, LinkWalk
<1>2. /\ adding'[t].at = "fill" /\ adding'[t].node = new
      /\ adding'[t].ip = adding[t].ip /\ adding'[t].mac = adding[t].mac
      /\ \A u \in Threads : u # t => adding'[u] = adding[u]
  BY LinkAdding
<1>3. /\ new = Len(heap) + 1 /\ Len(heap) \in Nat /\ heap'[new].ip = JUNK
      /\ DOMAIN heap = 1 .. Len(heap) /\ DOMAIN heap' = 1 .. new
      /\ \A x \in DOMAIN heap : heap'[x].ip = heap[x].ip
  BY LinkEffect DEF ListInv, ListTypes
<1>4. /\ Reached' \subseteq Reached \union {new}
      /\ \A x \in Reached : x \in Reached' \/ x \in raced
      /\ new \in Reached' \/ new \in raced'
      /\ raced \subseteq raced'
  BY LinkWalk
<1> HIDE DEF new
<1>5. \A x \in DOMAIN heap : x \in DOMAIN heap' /\ x # new
  BY <1>3
<1>6. AddsAddresses'
  BY <1>2, LinkEffect DEF ListInv, AddsAddresses
<1>7. DroppedByRace'
  <2>1. \A x \in DOMAIN heap' : x \in DOMAIN heap \/ x = new
    BY <1>3
  <2>2. QED
    BY <1>4, <2>1 DEF ListInv, DroppedByRace
<1>8. EndKnown'
  <2>1. ASSUME NEW u \in Threads, adding'[u].at = "link"
        PROVE  /\ adding'[u].node \in DOMAIN heap'
               /\ \A x \in Reached' : x > adding'[u].node => x \in raced'
    <3>1. u # t /\ adding[u] = adding'[u] /\ adding[u].at = "link"
      BY <1>2, <2>1
    <3>2. adding[u].node \in DOMAIN heap
      BY <3>1 DEF ListInv, EndKnown
    <3>3. new \in raced'
      BY <1>3, <3>1 DEF LinkEntry
    <3>4. ASSUME NEW x \in Reached', x > adding[u].node
          PROVE  x \in raced'
      <4>1. CASE x = new
        BY <3>3, <4>1
      <4>2. CASE x \in Reached
        BY <1>4, <3>1, <3>4, <4>2 DEF ListInv, EndKnown
      <4>3. QED
        BY <1>4, <4>1, <4>2
    <3>5. QED
      BY <1>5, <3>1, <3>2, <3>4
  <2>2. QED
    BY <2>1 DEF EndKnown
<1>9. FillsItsOwn'
  <2>1. ASSUME NEW u \in Threads, u # t, adding'[u].at = "fill"
        PROVE  /\ adding'[u].node \in DOMAIN heap
               /\ heap'[adding'[u].node].ip = JUNK
    BY <1>2, <1>3, <2>1 DEF ListInv, FillsItsOwn
  <2>2. new \in DOMAIN heap'
    BY <1>3
  <2>3. ASSUME NEW u \in Threads, adding'[u].at = "fill"
        PROVE  /\ adding'[u].node \in DOMAIN heap'
               /\ heap'[adding'[u].node].ip = JUNK
    BY <1>2, <1>3, <1>5, <2>1, <2>2, <2>3
  <2>4. ASSUME NEW u \in Threads, adding'[u].at = "fill",
               NEW v \in Threads \ {u}, adding'[v].at = "fill"
        PROVE  adding'[v].node # adding'[u].node
    <3>1. CASE u = t
      BY <1>2, <1>5, <2>1, <2>4, <3>1
    <3>2. CASE v = t
      BY <1>2, <1>5, <2>1, <2>4, <3>2
    <3>3. CASE u # t /\ v # t
      BY <1>2, <2>4, <3>3 DEF ListInv, FillsItsOwn
    <3>4. QED
      BY <3>1, <3>2, <3>3
  <2>5. QED
    BY <2>3, <2>4 DEF FillsItsOwn
<1>10. HeardFiled'
  <2>1. UNCHANGED heard
    BY DEF LinkEntry
  <2>2. ASSUME NEW a \in heard
        PROVE  \E x \in DOMAIN heap' : heap'[x].ip = a
    <3>1. PICK x \in DOMAIN heap : heap[x].ip = a
      BY DEF ListInv, HeardFiled
    <3>2. QED
      BY <1>3, <1>5, <3>1
  <2>3. QED
    BY <2>1, <2>2 DEF HeardFiled
<1>11. QED
  BY <1>1, <1>6, <1>7, <1>8, <1>9, <1>10 DEF ListInv, Upward

(* The list after an entry is filled in.                                   *)
LEMMA FillEffect ==
  ASSUME ListInv, NEW t \in Threads, FillEntry(t)
  PROVE  /\ adding[t].at = "fill" /\ adding[t].node \in DOMAIN heap
         /\ heap[adding[t].node].ip = JUNK
         /\ heap' \in Seq(Entry) /\ Len(heap') = Len(heap)
         /\ \A x \in DOMAIN heap : heap'[x].next = heap[x].next
         /\ \A x \in DOMAIN heap : x # adding[t].node => heap'[x] = heap[x]
         /\ heap'[adding[t].node].ip = adding[t].ip
         /\ Upward(heap)' /\ Reached' = Reached
<1> DEFINE n == adding[t].node
<1>1. adding[t].at = "fill" /\ n \in DOMAIN heap /\ heap[n].ip = JUNK
  BY DEF FillEntry, ListInv, FillsItsOwn
<1>2. adding[t].ip \in IPs \union {JUNK} /\ adding[t].mac \in Macs \union {JUNK}
  BY <1>1 DEF ListInv, AddsAddresses
<1> DEFINE new == [heap[n] EXCEPT !.ip = adding[t].ip, !.mac = adding[t].mac]
<1>3. heap \in Seq(Entry) /\ heap[n] \in Entry
  BY <1>1 DEF ListInv, ListTypes
<1>4. new \in Entry /\ new.ip = adding[t].ip /\ new.next = heap[n].next
  BY <1>2, <1>3 DEF Entry
<1>5. heap' = [heap EXCEPT ![n] = new]
  BY <1>1, <1>3 DEF FillEntry
<1> HIDE DEF new
<1>6. /\ heap' \in Seq(Entry) /\ Len(heap') = Len(heap) /\ heap'[n] = new
      /\ \A x \in DOMAIN heap : x # n => heap'[x] = heap[x]
  BY <1>1, <1>3, <1>4, <1>5
<1>7. \A x \in DOMAIN heap : heap'[x].next = heap[x].next
  BY <1>4, <1>6
<1>8. Upward(heap') /\ ReachedIn(heap') = ReachedIn(heap)
  BY <1>3, <1>6, <1>7, SameLinksSameWalk DEF ListInv
<1>9. Upward(heap)'
  BY <1>8 DEF Upward
<1>10. QED
  BY <1>1, <1>4, <1>6, <1>7, <1>8, <1>9, ReachedIsReachedIn

LEMMA FillEntryInv ==
  ASSUME ValuesApart, ListInv, NEW t \in Threads, FillEntry(t)
  PROVE  ListInv'
<1> DEFINE n == adding[t].node
<1>1. /\ adding[t].at = "fill" /\ n \in DOMAIN heap /\ heap[n].ip = JUNK
      /\ heap' \in Seq(Entry) /\ Len(heap') = Len(heap)
      /\ \A x \in DOMAIN heap : x # n => heap'[x] = heap[x]
      /\ heap'[n].ip = adding[t].ip
      /\ Upward(heap)' /\ Reached' = Reached
  BY FillEffect
<1>2. UNCHANGED raced /\ DOMAIN heap' = DOMAIN heap
  BY <1>1 DEF FillEntry, ListInv, ListTypes
<1>3. /\ adding' = [adding EXCEPT ![t] = NotAdding]
      /\ DOMAIN adding = Threads
  BY DEF FillEntry, ListInv, ListTypes
<1>4. /\ adding'[t].at = "idle"
      /\ \A u \in Threads : u # t => adding'[u] = adding[u]
  BY <1>3 DEF NotAdding
<1>5. ListTypes'
  <2>1. NotAdding \in Additions(Len(heap))
    BY DEF NotAdding, NULL, ListInv, ListTypes, Additions
  <2>2. adding' \in [Threads -> Additions(Len(heap))]
    BY <1>3, <2>1 DEF ListInv, ListTypes
  <2>3. heard' \subseteq IPs
    <3>1. t = "lcore" => adding[t].ip \in IPs
      BY <1>1 DEF ListInv, AddsAddresses, IPs
    <3>2. heard' = IF t = "lcore" THEN heard \union {adding[t].ip} ELSE heard
      BY DEF FillEntry
    <3>3. QED
      BY <3>1, <3>2 DEF ListInv, ListTypes
  <2>4. QED
    BY <1>1, <1>2, <2>2, <2>3 DEF ListInv, ListTypes
<1>6. AddsAddresses'
  BY <1>4 DEF ListInv, AddsAddresses
<1>7. DroppedByRace'
  BY <1>1, <1>2 DEF ListInv, DroppedByRace
<1>8. EndKnown'
  BY <1>1, <1>2, <1>4 DEF ListInv, EndKnown
<1>9. FillsItsOwn'
  <2>1. ASSUME NEW u \in Threads, adding'[u].at = "fill"
        PROVE  /\ u # t /\ adding'[u] = adding[u]
               /\ adding[u].node \in DOMAIN heap /\ adding[u].node # n
               /\ heap[adding[u].node].ip = JUNK
    BY <1>1, <1>4, <2>1 DEF ListInv, FillsItsOwn
  <2>2. QED
    BY <1>1, <1>2, <2>1 DEF ListInv, FillsItsOwn
<1>10. HeardFiled'
  <2>1. ASSUME NEW a \in heard
        PROVE  \E x \in DOMAIN heap' : heap'[x].ip = a
    <3>1. PICK x \in DOMAIN heap : heap[x].ip = a
      BY DEF ListInv, HeardFiled
    <3>2. CASE x # n
      BY <1>1, <1>2, <3>1, <3>2
    <3>3. CASE x = n
      <4>1. a = JUNK
        BY <1>1, <3>1, <3>3
      <4>2. a \in IPs /\ JUNK \notin IPs
        BY DEF ValuesApart, ListInv, ListTypes
      <4>3. QED
        BY <4>1, <4>2
    <3>4. QED
      BY <3>2, <3>3
  <2>2. heard' \subseteq heard \union {adding[t].ip}
    BY DEF FillEntry
  <2>3. QED
    BY <1>1, <1>2, <2>1, <2>2 DEF HeardFiled
<1>11. QED
  BY <1>1, <1>5, <1>6, <1>7, <1>8, <1>9, <1>10 DEF ListInv

LEMMA ListInvStep ==
  ASSUME ValuesApart, ListInv, ServerTypes, [NeighboursNext]_nvars
  PROVE  ListInv'
BY ListStep, HearsKnownInv, StartsAddingInv, LinkEntryInv, FillEntryInv
-----------------------------------------------------------------------------
(* The interfaces and the server.                                          *)

(* A step of the network or of an addition leaves the server alone.        *)
LEMMA NotServing ==
  ASSUME \/ \E a \in Peers, m \in Macs : ArpReply(a, m) \/ ip_in(a, m)
         \/ \E t \in Threads : AddSteps(t)
         \/ UNCHANGED nvars
  PROVE  UNCHANGED <<interfaces, filled, cli, overrun, claims, added, garbled>>
BY DEF ArpReply, ip_in, AddSteps, LinkEntry, FillEntry, history,
       nvars, lists

(* Neither does one that only moves the connection with the client on.     *)
LEMMA ConnectionStep ==
  ASSUME ValuesApart, ServerTypes, Client \/ AcceptClient \/ WriteReply
  PROVE  /\ UNCHANGED <<interfaces, filled, overrun, claims, added, garbled>>
         /\ cli' \in Connections
<1>1. UNCHANGED <<interfaces, filled, overrun, claims, added, garbled>>
  BY DEF Client, ClientLeaves, ClientSends, AcceptClient,
         WriteReply, lists, history
<1>2. ASSUME NEW label \in {"recv", "ended"}, Serving(label)
      PROVE  cli' \in Connections
  BY <1>2 DEF Serving, ServerTypes, Connections
<1>3. ASSUME NEW c \in Commands, ClientSends(c)
      PROVE  cli' \in Connections
  <2>1. cli.typed \in 0 .. MaxCmds /\ MaxCmds \in Nat /\ cli.typed < MaxCmds
    BY <1>3 DEF ClientSends, ServerTypes, ValuesApart, Connections
  <2>2. cli.typed + 1 \in 0 .. MaxCmds
    BY <2>1
  <2>3. QED
    BY <1>3, <2>2 DEF ClientSends, Connections
<1>4. QED
  BY <1>1, <1>2, <1>3
  DEF Client, ClientLeaves, AcceptClient, WriteReply

LEMMA CommandTypes ==
  ASSUME ServerTypes, NEW clean \in BOOLEAN, perform_command(clean)
  PROVE  ServerTypes'
<1> DEFINE c == cli.cmd
<1>1. c \in Commands \union {NoCommand}
  BY DEF ServerTypes, Connections
<1>2. filled' \in 0 .. 4
  <2>1. c.len \in 0 .. 4
    BY <1>1 DEF Commands, NoCommand
  <2>2. filled' = IF c.len > filled THEN c.len ELSE filled
    BY DEF perform_command, Written
  <2>3. QED
    BY <2>1, <2>2 DEF ServerTypes
<1>3. garbled' \in BOOLEAN /\ UNCHANGED claims
  BY DEF perform_command, ServerTypes
<1>4. ASSUME NEW label \in {"adding", "reply"}, Serving(label)
      PROVE  cli' \in Connections
  BY <1>4 DEF Serving, ServerTypes, Connections
<1>5. CASE /\ c.verb = "addip"
           /\ \E a \in ParsedIP(c, clean) : AddInterface(a)
           /\ added' = Append(added, c.ip)
           /\ Serving("adding") /\ UNCHANGED overrun
  <2>1. PICK a \in IPs \union {JUNK} : interfaces' = <<interfaces[1], a>>
    BY <1>5, CommandOfAddip DEF AddInterface
  <2>2. interfaces[1] \in IPs \union {JUNK}
    BY DEF ServerTypes
  <2>3. interfaces' \in Seq(IPs \union {JUNK}) /\ Len(interfaces') = 2
    BY <2>1, <2>2
  <2>4. added' \in Seq(IPs)
    <3>1. c.ip \in IPs /\ added \in Seq(IPs)
      BY <1>5, CommandOfAddip DEF ServerTypes
    <3>2. QED
      BY <1>5, <3>1
  <2>5. QED
    BY <1>2, <1>3, <1>4, <1>5, <2>3, <2>4 DEF ServerTypes
<1>6. CASE /\ Serving("reply") /\ UNCHANGED <<interfaces, added>>
           /\ overrun' \in BOOLEAN
  BY <1>2, <1>3, <1>4, <1>6 DEF ServerTypes
<1>7. CASE c.verb = "showarp" \/ c.verb = "help"
  <2>1. Serving("reply") /\ UNCHANGED <<interfaces, added>>
    BY <1>7 DEF perform_command
  <2>2. overrun' \in BOOLEAN
    <3>1. overrun' = ShowOverruns \/ UNCHANGED overrun
      BY <1>7 DEF perform_command
    <3>2. ShowOverruns \in BOOLEAN
      BY DEF ShowOverruns
    <3>3. QED
      BY <3>1, <3>2 DEF ServerTypes
  <2>3. QED
    BY <1>6, <2>1, <2>2
<1>8. QED
  BY <1>5, <1>7 DEF perform_command

LEMMA ServerTypesStep ==
  ASSUME ValuesApart, ServerTypes, [NeighboursNext]_nvars
  PROVE  ServerTypes'
<1>1. CASE \/ \E a \in Peers, m \in Macs : ArpReply(a, m) \/ ip_in(a, m)
           \/ \E t \in Threads : AddSteps(t)
           \/ UNCHANGED nvars
  <2>1. UNCHANGED <<interfaces, filled, cli, overrun, claims, added, garbled>>
    BY <1>1, NotServing
  <2>2. QED
    BY <2>1 DEF ServerTypes
<1>2. ASSUME NEW a \in IPs, ArpRequest(a)
      PROVE  ServerTypes'
  BY <1>2 DEF ArpRequest, SendArp, lists, ServerTypes
<1>3. CASE Client \/ AcceptClient \/ WriteReply
  BY <1>3, ConnectionStep DEF ServerTypes
<1>4. ASSUME NEW clean \in BOOLEAN, perform_command(clean)
      PROVE  ServerTypes'
  BY <1>4, CommandTypes
<1>5. QED
  BY <1>1, <1>2, <1>3, <1>4, Zenon DEF NeighboursNext, Network, Server

(* What is added is the address that was typed, unless it was garbled.     *)
LEMMA AddipHosted ==
  ASSUME ServerTypes, LastAddedHosted,
         NEW clean \in BOOLEAN, perform_command(clean), ~ garbled',
         cli.cmd.verb = "addip"
  PROVE  /\ interfaces' = <<Own, cli.cmd.ip>>
         /\ added' = Append(added, cli.cmd.ip)
<1>1. clean = TRUE /\ ~ garbled
  BY DEF perform_command
<1>2. interfaces[1] = Own
  BY <1>1 DEF LastAddedHosted
<1>3. ParsedIP(cli.cmd, clean) = {cli.cmd.ip}
  BY <1>1, CommandOfAddip
<1>4. /\ \E a \in ParsedIP(cli.cmd, clean) : AddInterface(a)
      /\ added' = Append(added, cli.cmd.ip)
  BY <1>1 DEF perform_command
<1>5. QED
  BY <1>2, <1>3, <1>4 DEF AddInterface

LEMMA LastAddedStep ==
  ASSUME ValuesApart, ServerTypes, LastAddedHosted, [NeighboursNext]_nvars
  PROVE  LastAddedHosted'
<1> DEFINE Typed == {added[i] : i \in DOMAIN added}
<1>1. CASE UNCHANGED <<interfaces, claims, added, garbled>>
  BY <1>1 DEF LastAddedHosted
<1>2. CASE \/ \E a \in Peers, m \in Macs : ArpReply(a, m) \/ ip_in(a, m)
           \/ \E t \in Threads : AddSteps(t)
           \/ UNCHANGED nvars
  BY <1>1, <1>2, NotServing
<1>3. CASE Client \/ AcceptClient \/ WriteReply
  BY <1>1, <1>3, ConnectionStep
<1>4. ASSUME NEW a \in IPs, ArpRequest(a)
      PROVE  LastAddedHosted'
  <2>1. UNCHANGED <<interfaces, added, garbled>> /\ claims' = claims \union {a}
    BY <1>4 DEF ArpRequest, SendArp, lists
  <2>2. ASSUME ~ garbled
        PROVE  a \in Typed
    <3>1. PICK i \in DOMAIN interfaces : interfaces[i] = a
      BY <1>4 DEF ArpRequest, IsHosted
    <3>2. /\ added # <<>> /\ added[1] = Own
          /\ interfaces = IF Len(added) = 1 THEN <<Own>>
                          ELSE <<Own, added[Len(added)]>>
      BY <2>2 DEF LastAddedHosted
    <3>3. 1 \in DOMAIN added /\ Len(added) \in DOMAIN added
      BY <3>2 DEF ServerTypes
    <3>4. a = added[1] \/ a = added[Len(added)]
      BY <3>1, <3>2
    <3>5. QED
      BY <3>3, <3>4
  <2>3. QED
    BY <2>1, <2>2 DEF LastAddedHosted
<1>5. ASSUME NEW clean \in BOOLEAN, perform_command(clean)
      PROVE  LastAddedHosted'
  <2>1. CASE UNCHANGED <<interfaces, added>>
    BY <1>5, <2>1 DEF LastAddedHosted, perform_command
  <2>2. CASE cli.cmd.verb = "addip"
    <3>1. SUFFICES ASSUME ~ garbled'
                   PROVE  LastAddedHosted'
      BY DEF LastAddedHosted
    <3>2. /\ interfaces' = <<Own, cli.cmd.ip>>
          /\ added' = Append(added, cli.cmd.ip)
      BY <1>5, <2>2, <3>1, AddipHosted
    <3>3. UNCHANGED claims /\ ~ garbled
      BY <1>5, <3>1 DEF perform_command
    <3>4. added \in Seq(IPs) /\ added # <<>> /\ added[1] = Own
          /\ claims \subseteq Typed
      BY <3>3 DEF LastAddedHosted, ServerTypes
    <3>5. /\ added' # <<>> /\ added'[1] = Own /\ Len(added') # 1
          /\ added'[Len(added')] = cli.cmd.ip
          /\ \A i \in DOMAIN added : i \in DOMAIN added' /\ added'[i] = added[i]
      BY <2>2, <3>2, <3>4, CommandOfAddip
    <3>6. claims' \subseteq {added'[i] : i \in DOMAIN added'}
      BY <3>3, <3>4, <3>5
    <3>7. interfaces'[1] = Own
      BY <3>2
    <3>8. QED
      BY <3>2, <3>5, <3>6, <3>7 DEF LastAddedHosted
  <2>3. QED
    BY <1>5, <2>1, <2>2 DEF perform_command
<1>6. QED
  BY <1>2, <1>3, <1>4, <1>5, Zenon DEF NeighboursNext, Network, Server
-----------------------------------------------------------------------------
(* Init, and the theorems.                                                 *)

LEMMA InitWalk ==
  ASSUME NeighboursInit
  PROVE  Upward(heap) /\ DOMAIN heap = {1} /\ Reached = {1}
<1>1. heap = <<[ip |-> Own, mac |-> JUNK, next |-> 0]>>
  BY DEF NeighboursInit, NULL
<1>2. heap \in Seq([ip : {Own}, mac : {JUNK}, next : {0}])
  BY <1>1
<1>3. Upward(heap) /\ DOMAIN heap = {1}
  BY <1>1 DEF Upward
<1>4. 1 \in ReachedIn(heap) /\ ReachedIn(heap) \subseteq DOMAIN heap
  BY <1>2, <1>3, WalkGoesOn
<1>5. QED
  BY <1>3, <1>4, ReachedIsReachedIn

LEMMA InitNeighbours ==
  ASSUME ValuesApart, NeighboursInit
  PROVE  ListInv /\ ServerTypes /\ LastAddedHosted
<1>1. /\ heap = <<[ip |-> Own, mac |-> JUNK, next |-> 0]>>
      /\ adding = [t \in Threads |-> NotAdding]
      /\ interfaces = <<Own>> /\ filled = 0
      /\ cli = [at |-> "accept", cmd |-> NoCommand, typed |-> 0]
      /\ overrun = FALSE /\ garbled = FALSE
      /\ claims = {} /\ added = <<Own>> /\ heard = {} /\ raced = {}
  BY DEF NeighboursInit, NULL
<1>2. Own \in IPs /\ MaxCmds \in Nat
  BY DEF IPs, ValuesApart
<1>3. ListTypes
  <2>1. heap \in Seq(Entry)
    BY <1>1, <1>2 DEF Entry
  <2>2. NotAdding \in Additions(Len(heap))
    BY <1>1 DEF NotAdding, NULL, Additions
  <2> HIDE DEF ListTypes
  <2>3. QED
    BY <1>1, <2>1, <2>2 DEF ListTypes
<1>4. AddsAddresses /\ EndKnown /\ FillsItsOwn
  BY <1>1 DEF AddsAddresses, EndKnown, FillsItsOwn, NotAdding
<1>5. Upward(heap) /\ DroppedByRace
  BY InitWalk DEF DroppedByRace
<1>6. HeardFiled
  BY <1>1 DEF HeardFiled
<1>7. ServerTypes
  <2>1. /\ interfaces \in Seq(IPs \union {JUNK}) /\ Len(interfaces) \in 1 .. 2
        /\ added \in Seq(IPs)
    BY <1>1, <1>2
  <2>2. cli \in Connections
    BY <1>1, <1>2 DEF Connections
  <2>3. filled \in 0 .. 4 /\ claims \subseteq IPs \union {JUNK}
    BY <1>1
  <2>4. overrun \in BOOLEAN /\ garbled \in BOOLEAN
    BY <1>1, Zenon
  <2>5. QED
    BY <2>1, <2>2, <2>3, <2>4 DEF ServerTypes
<1>8. LastAddedHosted
  BY <1>1 DEF LastAddedHosted
<1>9. QED
  BY <1>3, <1>4, <1>5, <1>6, <1>7, <1>8 DEF ListInv

LEMMA NeighboursInvariance ==
  NeighboursSpec => [](ListInv /\ ServerTypes /\ LastAddedHosted)
<1>1. NeighboursInit => ListInv /\ ServerTypes /\ LastAddedHosted
  BY InitNeighbours, NeighboursAssumption
<1>2. ListInv /\ ServerTypes /\ LastAddedHosted /\ [NeighboursNext]_nvars
        => (ListInv /\ ServerTypes /\ LastAddedHosted)'
  BY ListInvStep, ServerTypesStep, LastAddedStep, NeighboursAssumption
<1>3. QED
  BY <1>1, <1>2, PTL DEF NeighboursSpec

(* Every variable keeps its type.                                          *)
THEOREM NeighboursTypeCorrect == NeighboursSpec => []NeighboursTypeOK
<1>1. ListInv /\ ServerTypes => NeighboursTypeOK
  <2>1. ASSUME ListInv, NEW x \in DOMAIN heap
        PROVE  heap[x].next \in 0 .. Len(heap)
    BY <2>1 DEF ListInv, ListTypes, Upward
  <2>2. QED
    BY NeighboursAssumption, <2>1
    DEF ListInv, ListTypes, ServerTypes, NeighboursTypeOK, Additions, Connections
<1>2. QED
  BY <1>1, NeighboursInvariance, PTL

LEMMA AnswersIfListed ==
  ASSUME ValuesApart, ListInv, NEW a, EntriesOf(a) # {}
  PROVE  /\ FirstOf(a) \in EntriesOf(a)
         /\ \A y \in EntriesOf(a) : FirstOf(a) <= y
         /\ get_mac(a) = heap[FirstOf(a)].mac
         /\ get_mac(a) # None
<1>1. EntriesOf(a) \in SUBSET Nat
  BY DEF EntriesOf, Reached, ListInv, ListTypes
<1>2. \E x \in EntriesOf(a) : \A y \in EntriesOf(a) : x <= y
  BY <1>1, LeastMember
<1>3. /\ FirstOf(a) \in EntriesOf(a)
      /\ \A y \in EntriesOf(a) : FirstOf(a) <= y
  BY <1>2 DEF FirstOf
<1>4. get_mac(a) = heap[FirstOf(a)].mac
  BY DEF get_mac
<1>5. FirstOf(a) \in DOMAIN heap
  BY <1>3 DEF EntriesOf, Reached
<1>6. heap[FirstOf(a)].mac \in Macs \union {JUNK}
  <2>1. heap \in Seq(Entry)
    BY DEF ListInv, ListTypes
  <2>2. heap[FirstOf(a)] \in Entry
    BY <1>5, <2>1
  <2>3. QED
    BY <2>2 DEF Entry
<1>7. None \notin Macs \union {JUNK}
  BY DEF ValuesApart, None, JUNK
<1>8. QED
  BY <1>3, <1>4, <1>6, <1>7

(* Whoever the stack has learned from it can answer, unless a race has     *)
(* dropped the entry: add_mac, ip_in and ether_in (arp.c, ip.c).           *)
THEOREM LearnedIsRemembered == NeighboursSpec => []Remembered
<1>1. ListInv => Remembered
  <2>1. SUFFICES ASSUME ListInv, NEW a \in heard
                 PROVE  \/ get_mac(a) # None
                        \/ \E x \in raced : heap[x].ip = a
    BY DEF Remembered
  <2>2. PICK x \in DOMAIN heap : heap[x].ip = a
    BY <2>1 DEF ListInv, HeardFiled
  <2>3. CASE x \in raced
    BY <2>2, <2>3
  <2>4. CASE x \in Reached
    <3>1. x \in EntriesOf(a)
      BY <2>2, <2>4 DEF EntriesOf
    <3>2. QED
      BY <2>1, <3>1, AnswersIfListed, NeighboursAssumption
  <2>5. QED
    BY <2>1, <2>3, <2>4 DEF ListInv, DroppedByRace
<1>2. QED
  BY <1>1, NeighboursInvariance, PTL

(* The addresses the operator typed are those hosted and answered for, as  *)
(* long as they are two at most and none was garbled: add_ip and           *)
(* AddInterface.                                                           *)
THEOREM TypedIsAnswered == NeighboursSpec => []AddedAnswered
<1>1. ServerTypes /\ LastAddedHosted => AddedAnswered
  <2>1. SUFFICES ASSUME ServerTypes, LastAddedHosted, ~ garbled
                 PROVE  /\ claims \subseteq {added[i] : i \in DOMAIN added}
                        /\ Len(added) <= 2 =>
                             \A i \in DOMAIN added : IsHosted(added[i])
    BY DEF AddedAnswered
  <2>2. /\ added # <<>> /\ added[1] = Own
        /\ interfaces = IF Len(added) = 1 THEN <<Own>>
                        ELSE <<Own, added[Len(added)]>>
        /\ claims \subseteq {added[i] : i \in DOMAIN added}
    BY <2>1 DEF LastAddedHosted
  <2>3. ASSUME Len(added) <= 2, NEW i \in DOMAIN added
        PROVE  IsHosted(added[i])
    <3>1. i = 1 \/ (i = 2 /\ Len(added) = 2)
      <4>1. DOMAIN added = 1 .. Len(added) /\ Len(added) \in Nat
        BY <2>1 DEF ServerTypes
      <4>2. QED
        BY <2>3, <4>1
    <3>2. CASE i = 1
      <4>1. 1 \in DOMAIN interfaces /\ interfaces[1] = Own
        BY <2>2
      <4>2. QED
        BY <2>2, <3>2, <4>1 DEF IsHosted
    <3>3. CASE i = 2 /\ Len(added) = 2
      <4>1. 2 \in DOMAIN interfaces /\ interfaces[2] = added[2]
        BY <2>2, <3>3
      <4>2. QED
        BY <3>3, <4>1 DEF IsHosted
    <3>4. QED
      BY <3>1, <3>2, <3>3
  <2>4. QED
    BY <2>2, <2>3
<1>2. QED
  BY <1>1, NeighboursInvariance, PTL

(* What an address is answered with, as long as its first entry, the walk  *)
(* and the entries of other addresses do not change.                       *)
LEMMA SameAnswer ==
  ASSUME ValuesApart, ListInv, ListInv', NEW a, EntriesOf(a) # {},
         FirstOf(a) \in EntriesOf(a)',
         heap'[FirstOf(a)].mac = heap[FirstOf(a)].mac,
         \A y \in EntriesOf(a)' : FirstOf(a) <= y
  PROVE  get_mac(a)' = get_mac(a)
<1> DEFINE x == FirstOf(a)
<1>1. \A y \in EntriesOf(a)' : y \in Nat
  BY DEF EntriesOf, Reached, ListInv, ListTypes
<1>2. \A y \in EntriesOf(a)' : (\A z \in EntriesOf(a)' : y <= z) => y = x
  BY <1>1
<1>3. FirstOf(a)' = CHOOSE y \in EntriesOf(a)' :
                        \A z \in EntriesOf(a)' : y <= z
  BY DEF FirstOf
<1>4. FirstOf(a)' = x
  <2> HIDE DEF x
  <2>1. x \in EntriesOf(a)' /\ \A z \in EntriesOf(a)' : x <= z
    BY DEF x
  <2>2. QED
    BY <1>2, <1>3, <2>1
<1>5. get_mac(a)' = heap'[x].mac
  BY <1>4 DEF get_mac
<1>6. get_mac(a) = heap[x].mac
  BY DEF get_mac
<1>7. QED
  BY <1>5, <1>6

(* No step takes an entry of an address off the list, or the address off   *)
(* the entry, but a race.                                                  *)
LEMMA EntryStays ==
  ASSUME ValuesApart, ListInv, ServerTypes, [NeighboursNext]_nvars,
         NEW a \in IPs, NEW x \in EntriesOf(a), x \notin raced
  PROVE  x \in EntriesOf(a)' /\ heap'[x].mac = heap[x].mac
<1>1. x \in Reached /\ x \in DOMAIN heap /\ heap[x].ip = a /\ a # JUNK
  BY DEF EntriesOf, Reached, ValuesApart
<1>2. EntriesOf(a)' = {y \in Reached' : heap'[y].ip = a}
  BY DEF EntriesOf
<1>3. CASE HearsKnown \/ StartsAdding
  <2>1. UNCHANGED heap
    BY <1>3 DEF HearsKnown, StartsAdding
  <2>2. QED
    BY <1>1, <1>2, <2>1, SameHeap
<1>4. ASSUME NEW t \in Threads, LinkEntry(t)
      PROVE  x \in EntriesOf(a)' /\ heap'[x].mac = heap[x].mac
  <2>1. x \in Reached'
    BY <1>1, <1>4, LinkWalk
  <2>2. QED
    BY <1>1, <1>2, <1>4, <2>1, LinkEffect
<1>5. ASSUME NEW t \in Threads, FillEntry(t)
      PROVE  x \in EntriesOf(a)' /\ heap'[x].mac = heap[x].mac
  <2>1. /\ heap[adding[t].node].ip = JUNK /\ Reached' = Reached
        /\ \A y \in DOMAIN heap : y # adding[t].node => heap'[y] = heap[y]
    BY <1>5, FillEffect
  <2>2. x # adding[t].node
    BY <1>1, <2>1
  <2>3. QED
    BY <1>1, <1>2, <2>1, <2>2
<1>6. QED
  BY <1>3, <1>4, <1>5, ListStep

(* The only new entry of an address is the one a thread fills in with it.  *)
LEMMA NewEntries ==
  ASSUME ValuesApart, ListInv, ServerTypes, [NeighboursNext]_nvars,
         NEW a \in IPs, NEW y \in EntriesOf(a)', y \notin EntriesOf(a)
  PROVE  \E t \in Threads :
           adding[t].at = "fill" /\ adding[t].ip = a /\ adding[t].node = y
<1>1. y \in Reached' /\ heap'[y].ip = a /\ a # JUNK
  BY DEF EntriesOf, ValuesApart
<1>2. CASE HearsKnown \/ StartsAdding
  <2>1. UNCHANGED <<heap, Reached>>
    BY <1>2, SameHeap DEF HearsKnown, StartsAdding
  <2>2. QED
    BY <1>1, <2>1 DEF EntriesOf
<1>3. ASSUME NEW t \in Threads, LinkEntry(t)
      PROVE  FALSE
  <2>1. /\ heap'[Len(heap')].ip = JUNK
        /\ \A z \in DOMAIN heap : heap'[z].ip = heap[z].ip
    BY <1>3, LinkEffect
  <2>2. y \in Reached
    BY <1>1, <1>3, <2>1, LinkWalk
  <2>3. y \in DOMAIN heap
    BY <2>2 DEF Reached
  <2>4. QED
    BY <1>1, <2>1, <2>2, <2>3 DEF EntriesOf
<1>4. ASSUME NEW t \in Threads, FillEntry(t)
      PROVE  adding[t].at = "fill" /\ adding[t].ip = a /\ adding[t].node = y
  <2>1. /\ adding[t].at = "fill" /\ heap'[adding[t].node].ip = adding[t].ip
        /\ Reached' = Reached
        /\ \A z \in DOMAIN heap : z # adding[t].node => heap'[z] = heap[z]
    BY <1>4, FillEffect
  <2>2. y \in Reached /\ y \in DOMAIN heap
    BY <1>1, <2>1 DEF Reached
  <2>3. y = adding[t].node
    BY <1>1, <2>1, <2>2 DEF EntriesOf
  <2>4. QED
    BY <1>1, <2>1, <2>3
<1>5. QED
  BY <1>2, <1>3, <1>4, ListStep

LEMMA AnswerStaysStep ==
  ASSUME ValuesApart, ListInv, ServerTypes, ListInv', [NeighboursNext]_nvars,
         NEW a \in IPs, get_mac(a) # None, FirstOf(a) \notin raced,
         \A t \in Threads :
           adding[t].at = "fill" /\ adding[t].ip = a
             => ~ (adding[t].node < FirstOf(a))
  PROVE  get_mac(a)' = get_mac(a)
<1> DEFINE x == FirstOf(a)
<1>1. EntriesOf(a) # {}
  BY DEF get_mac
<1>2. x \in EntriesOf(a) /\ \A y \in EntriesOf(a) : x <= y
  BY <1>1, AnswersIfListed
<1>3. x \in EntriesOf(a)' /\ heap'[x].mac = heap[x].mac
  BY <1>2, EntryStays
<1>4. ASSUME NEW y \in EntriesOf(a)'
      PROVE  x <= y
  <2>1. x \in Nat /\ y \in Nat
    BY <1>3 DEF EntriesOf, Reached, ListInv, ListTypes
  <2>2. CASE y \in EntriesOf(a)
    BY <1>2, <2>2
  <2>3. CASE y \notin EntriesOf(a)
    <3>1. ~ (y < x)
      BY <2>3, NewEntries
    <3>2. QED
      BY <2>1, <3>1
  <2>4. QED
    BY <2>2, <2>3
<1>5. QED
  BY <1>1, <1>3, <1>4, SameAnswer

LEMMA AnsweredAfter ==
  ASSUME ValuesApart, ListInv', NEW a, EntriesOf(a)' # {}
  PROVE  get_mac(a)' # None
<1>1. EntriesOf(a)' \in SUBSET Nat
  BY DEF EntriesOf, Reached, ListInv, ListTypes
<1>2. \E x \in EntriesOf(a)' : \A y \in EntriesOf(a)' : x <= y
  BY <1>1, LeastMember
<1>3. FirstOf(a)' \in EntriesOf(a)'
  BY <1>2 DEF FirstOf
<1>4. get_mac(a)' = heap'[FirstOf(a)'].mac
  BY DEF get_mac
<1>5. FirstOf(a)' \in DOMAIN heap'
  BY <1>3 DEF EntriesOf, Reached
<1>6. heap'[FirstOf(a)'].mac \in Macs \union {JUNK}
  <2>1. heap' \in Seq(Entry)
    BY DEF ListInv, ListTypes
  <2>2. heap'[FirstOf(a)'] \in Entry
    BY <1>5, <2>1
  <2>3. QED
    BY <2>2 DEF Entry
<1>7. None \notin Macs \union {JUNK}
  BY DEF ValuesApart, None, JUNK
<1>8. QED
  BY <1>4, <1>6, <1>7

(* The first entry of an address answers for ever: only an entry that a    *)
(* race drops makes room for another, and only one linked in front of it   *)
(* by the other thread takes its place (add_mac and get_mac, arp.c).       *)
THEOREM OldestEntryAnswers == NeighboursSpec => FirstAnswerStays
<1>1. ListInv /\ ServerTypes /\ ListInv' /\ [NeighboursNext]_nvars
        => [FirstAnswerKept]_nvars
  BY AnswerStaysStep, NeighboursAssumption DEF FirstAnswerKept
<1>2. QED
  BY <1>1, NeighboursInvariance, PTL DEF NeighboursSpec, FirstAnswerStays

(* Once an address is known it stays known.                                *)
StillKnown(a) ==
  get_mac(a) # None /\ FirstOf(a) \notin raced => get_mac(a)' # None

(* What EtherOut takes of the list of addresses: an address that get_mac   *)
(* finds is found from then on, so its variable known never falls back to  *)
(* FALSE.  The list keeps this promise for every address whose first entry *)
(* no race has dropped.                                                    *)
THEOREM KnownStaysKnown ==
  ASSUME NEW a \in IPs
  PROVE  NeighboursSpec => [][StillKnown(a)]_nvars
<1>1. ASSUME ListInv, ServerTypes, ListInv', [NeighboursNext]_nvars,
             get_mac(a) # None, FirstOf(a) \notin raced
      PROVE  get_mac(a)' # None
  <2>1. EntriesOf(a) # {}
    BY <1>1 DEF get_mac
  <2>2. FirstOf(a) \in EntriesOf(a)
    BY <1>1, <2>1, AnswersIfListed, NeighboursAssumption
  <2>3. FirstOf(a) \in EntriesOf(a)'
    BY <1>1, <2>2, EntryStays, NeighboursAssumption
  <2>4. QED
    BY <1>1, <2>3, AnsweredAfter, NeighboursAssumption
<1>2. ListInv /\ ServerTypes /\ ListInv' /\ [NeighboursNext]_nvars
        => [StillKnown(a)]_nvars
  BY <1>1 DEF StillKnown
<1>3. QED
  BY <1>2, NeighboursInvariance, PTL DEF NeighboursSpec
=============================================================================
