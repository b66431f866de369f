-------------------------- MODULE RecvWindowProofs --------------------------
(***************************************************************************)
(* Proofs about RecvWindow for streams, segments, buffers and rings of any *)
(* length, also for a stream that passes the end of the number space.      *)
(***************************************************************************)
EXTENDS RecvWindow, SequenceTheorems, FiniteSetTheorems,
        WellFoundedInduction, TLAPS

(* The first byte of the stream does not have the number 0, with which the *)
(* assert at tcp_windows.c 151 fails at the first segment.                 *)
NotLast == Isn + 1 < SeqSpace

(* Segments as they are queued: the number tells the place in the stream,  *)
(* the peer has sent what they hold, an empty one is a FIN, and they end   *)
(* before the numbers start again.                                         *)
SoundPairs ==
  {p \in Pair :
     /\ p.seq = Isn + p.pos
     /\ Isn + p.pos + p.len < SeqSpace
     /\ p.pos + p.len <= sndNxt
     /\ p.fin => peerClosed /\ p.pos + p.len = sndNxt
     /\ p.len = 0 => p.fin}

(* The window in the stream: nothing is queued, delivered or acknowledged  *)
(* that the peer has not sent.                                             *)
InStream ==
  /\ pairs \in Seq(SoundPairs)
  /\ CurrentSeq \in Isn + 1 .. Isn + sndNxt
  /\ ackPos \in 1 .. sndNxt + 1
  /\ arrived <= sndNxt /\ sndNxt <= StreamBound + 1

(* The position after message i; before the first, where the reader is.    *)
EndOf(r, reader, i) == IF i = 0 THEN reader ELSE r[i].pos + r[i].len

(* The messages of r follow each other from the reader up to position cur, *)
(* without a gap unless some were lost.                                    *)
Follows(r, reader, cur, lost) ==
  /\ \A i \in 1 .. Len(r) :
       /\ EndOf(r, reader, i - 1) <= r[i].pos
       /\ lost \/ EndOf(r, reader, i - 1) = r[i].pos
  /\ \A i \in 1 .. Len(r) : EndOf(r, reader, i) <= cur
  /\ EndOf(r, reader, Len(r)) <= cur
  /\ lost \/ EndOf(r, reader, Len(r)) = cur

(* What StreamIntegrity says of the ring, and that no message reaches      *)
(* beyond what was delivered.                                              *)
RingFollows == Follows(ring, readPos, curPos, discarded)

IInv ==
  /\ TypeOK
  /\ StreamIntegrity
  /\ InOrderService
  /\ InStream
  /\ RingFollows
-----------------------------------------------------------------------------
(* Numbers and positions.                                                  *)

(* A number below the modulus is its own residue.                          *)
LEMMA SmallResidue ==
  ASSUME NEW M \in Nat \ {0}, NEW p \in 0 .. M - 1
  PROVE  p % M = p
OBVIOUS

(* What is beyond the modulus by less than the modulus, and what is below  *)
(* zero by no more than it.                                                *)
LEMMA UpperResidue ==
  ASSUME NEW M \in Nat \ {0}, NEW p \in M .. 2 * M - 1
  PROVE  p % M = p - M
OBVIOUS

LEMMA NegativeResidue ==
  ASSUME NEW M \in Nat \ {0}, NEW p \in 0 - M .. -1
  PROVE  p % M = p + M
OBVIOUS

(* Up to the end of the number space, a number is the initial one plus the *)
(* position; beyond, a number still tells its position.                    *)
LEMMA PlainNumbers ==
  /\ \A p \in 0 .. SeqSpace - 1 - Isn : SeqNumber(p) = Isn + p
  /\ \A n \in Isn .. SeqSpace - 1 : PositionOf(n) = n - Isn
  /\ \A p \in SeqSpace - Isn .. SeqSpace - 1 : SeqNumber(p) = Isn + p - SeqSpace
  /\ \A p \in 0 .. SeqSpace - 1 :
       SeqNumber(p) \in 0 .. SeqSpace - 1 /\ PositionOf(SeqNumber(p)) = p
<1>1. SeqSpace \in Nat \ {0} /\ Isn \in Nat /\ Isn < SeqSpace
  BY RecvAssumption
<1>2. \A M \in Nat \ {0} : \A p \in 0 .. M - 1 : p % M = p
  BY SmallResidue
<1>3. ASSUME NEW p \in 0 .. SeqSpace - 1 - Isn
      PROVE  SeqNumber(p) = Isn + p
  <2>1. Isn + p \in 0 .. SeqSpace - 1
    BY <1>1
  <2>2. QED
    BY <1>1, <1>2, <2>1, Zenon DEF SeqNumber
<1>4. ASSUME NEW n \in Isn .. SeqSpace - 1
      PROVE  PositionOf(n) = n - Isn
  <2>1. n - Isn \in 0 .. SeqSpace - 1
    BY <1>1
  <2>2. QED
    BY <1>1, <1>2, <2>1, Zenon DEF PositionOf
<1>5. ASSUME NEW p \in SeqSpace - Isn .. SeqSpace - 1
      PROVE  SeqNumber(p) = Isn + p - SeqSpace
  <2>1. Isn + p \in SeqSpace .. 2 * SeqSpace - 1
    BY <1>1
  <2>2. (Isn + p) % SeqSpace = (Isn + p) - SeqSpace
    BY <1>1, <2>1, UpperResidue
  <2>3. QED
    BY <1>1, <2>2 DEF SeqNumber
<1>6. ASSUME NEW p \in 0 .. SeqSpace - 1
      PROVE  SeqNumber(p) \in 0 .. SeqSpace - 1 /\ PositionOf(SeqNumber(p)) = p
  <2>1. CASE p \in 0 .. SeqSpace - 1 - Isn
    <3>1. SeqNumber(p) = Isn + p
      BY <1>3, <2>1
    <3>2. Isn + p \in Isn .. SeqSpace - 1 /\ (Isn + p) - Isn = p
      BY <1>1, <2>1
    <3>3. PositionOf(Isn + p) = (Isn + p) - Isn
      BY <1>4, <3>2
    <3>4. QED
      BY <1>1, <3>1, <3>2, <3>3
  <2>2. CASE p \in SeqSpace - Isn .. SeqSpace - 1
    <3>1. SeqNumber(p) = Isn + p - SeqSpace
      BY <1>5, <2>2
    <3>2. SeqNumber(p) - Isn = p - SeqSpace /\ p - SeqSpace \in 0 - SeqSpace .. -1
      BY <1>1, <3>1
    <3>3. (p - SeqSpace) % SeqSpace = (p - SeqSpace) + SeqSpace
      BY <1>1, <3>2, NegativeResidue
    <3>4. PositionOf(SeqNumber(p)) = p
      BY <1>1, <3>2, <3>3 DEF PositionOf
    <3>5. QED
      BY <1>1, <2>2, <3>1, <3>4
  <2>3. QED
    BY <1>1, <2>1, <2>2
<1>7. QED
  BY <1>3, <1>4, <1>5, <1>6

(* The fields of a segment of the stream, and the number after its last    *)
(* byte.                                                                   *)
LEMMA SoundFields ==
  ASSUME sndNxt \in Nat, sndNxt <= StreamBound + 1,
         NEW p \in SoundPairs
  PROVE  /\ p \in Pair /\ p.pos \in Positions /\ p.len \in 0 .. MaxLen
         /\ p.seq = Isn + p.pos
         /\ p.pos + p.len <= sndNxt
         /\ SeqEnd(p) = Isn + p.pos + p.len
         /\ Isn + p.pos + p.len < SeqSpace
         /\ p.fin => peerClosed /\ p.pos + p.len = sndNxt
         /\ p.len = 0 => p.fin
         /\ FinLen(p) \in {0, 1}
         /\ FinLen(p) = 1 => p.fin
<1>1. /\ p \in Pair /\ p.seq = Isn + p.pos /\ p.pos + p.len <= sndNxt
      /\ Isn + p.pos + p.len < SeqSpace
      /\ p.fin => peerClosed /\ p.pos + p.len = sndNxt
      /\ p.len = 0 => p.fin
  BY DEF SoundPairs
<1>2. p.pos \in Positions /\ p.len \in 0 .. MaxLen
  BY <1>1 DEF Pair
<1>3. /\ SeqSpace \in Nat \ {0} /\ StreamBound \in Nat /\ Isn \in Nat
      /\ MaxLen \in Nat
  BY RecvAssumption
<1>4. p.seq + p.len = Isn + p.pos + p.len /\ p.seq + p.len \in 0 .. SeqSpace - 1
  BY <1>1, <1>2, <1>3 DEF Positions
<1>5. SeqEnd(p) = Isn + p.pos + p.len
  <2>1. \A M \in Nat \ {0} : \A r \in 0 .. M - 1 : r % M = r
    BY SmallResidue
  <2>2. (p.seq + p.len) % SeqSpace = p.seq + p.len
    BY <1>3, <1>4, <2>1, Zenon
  <2>3. QED
    BY <1>4, <2>2, Zenon DEF SeqEnd
<1>6. FinLen(p) \in {0, 1} /\ (FinLen(p) = 1 => p.fin)
  BY DEF FinLen
<1>7. QED
  BY <1>1, <1>2, <1>5, <1>6, Zenon
-----------------------------------------------------------------------------
(* AdjustPair.                                                             *)

(* A set of numbers that is not empty has a least member.                  *)
LEMMA LeastMember ==
  ASSUME NEW S \in SUBSET Nat, S # {}
  PROVE  \E m \in S : \A n \in S : m <= n
<1> DEFINE less == OpToRel(<, Nat)
<1>1. \A m, n \in Nat : m < n => <<m, n>> \in less
  BY DEF OpToRel
<1>2. PICK m \in S : \A n \in S : ~ (<<n, m>> \in less)
  BY WFMin, NatLessThanWellFounded
<1> HIDE DEF less
<1>3. ASSUME NEW n \in S
      PROVE  m <= n
  <2>1. m \in Nat /\ n \in Nat
    OBVIOUS
  <2>2. ~ (n < m)
    BY <1>1, <1>2, <2>1
  <2>3. QED
    BY <2>1, <2>2
<1>4. QED
  BY <1>3

(* InsertPair puts the new pair behind those that start no later.          *)
LEMMA InsertPairPlace ==
  ASSUME NEW S \in SUBSET Pair, NEW list \in Seq(S), NEW new \in S
  PROVE  \E k \in 0 .. Len(list) :
           /\ \A i \in 1 .. k : list[i].seq <= new.seq
           /\ k < Len(list) => list[k + 1].seq > new.seq
           /\ InsertPair(list, new) = InsertAt(list, k + 1, new)
<1> DEFINE Place(k) == /\ \A i \in 1 .. k : list[i].seq <= new.seq
                       /\ k < Len(list) => list[k + 1].seq > new.seq
           later == {k \in 1 .. Len(list) : list[k].seq > new.seq}
<1>1. Len(list) \in Nat /\ \A i \in 1 .. Len(list) : list[i] \in S
  BY LenProperties
<1>2. /\ new.seq \in Nat
      /\ \A i \in 1 .. Len(list) : list[i].seq \in Nat
  <2>1. SeqSpace \in Nat
    BY RecvAssumption
  <2>2. \A p \in Pair : p.seq \in Nat
    BY <2>1 DEF Pair
  <2>3. QED
    BY <1>1, <2>2
<1>3. \E k \in 0 .. Len(list) : Place(k)
  <2>1. CASE later = {}
    <3>1. \A i \in 1 .. Len(list) : list[i].seq <= new.seq
      BY <1>2, <2>1
    <3>2. Place(Len(list))
      BY <1>1, <3>1
    <3>3. QED
      BY <1>1, <3>2
  <2>2. CASE later # {}
    <3> later \in SUBSET Nat
      BY <1>1
    <3>1. PICK m \in later : \A n \in later : m <= n
      BY <2>2, LeastMember
    <3>2. m - 1 \in 0 .. Len(list)
      BY <1>1
    <3>3. ASSUME NEW i \in 1 .. m - 1
          PROVE  list[i].seq <= new.seq
      <4>1. i \in 1 .. Len(list) /\ i \notin later
        BY <1>1, <3>1
      <4>2. QED
        BY <1>2, <4>1
    <3>4. list[(m - 1) + 1].seq > new.seq
      <4>1. (m - 1) + 1 = m
        BY <1>1
      <4>2. QED
        BY <4>1
    <3>5. Place(m - 1)
      BY <3>3, <3>4
    <3>6. QED
      BY <3>2, <3>5
  <2>3. QED
    BY <2>1, <2>2
<1> DEFINE k0 == CHOOSE k \in 0 .. Len(list) : Place(k)
<1>4. k0 \in 0 .. Len(list) /\ Place(k0)
  BY <1>3
<1>5. InsertPair(list, new) = InsertAt(list, k0 + 1, new)
  BY DEF InsertPair
<1> HIDE DEF k0
<1>6. QED
  BY <1>4, <1>5

(* The new list: the pairs before the new one, it, and the pairs behind.   *)
LEMMA InsertPairShape ==
  ASSUME NEW S \in SUBSET Pair, NEW list \in Seq(S), NEW new \in S
  PROVE  LET r == InsertPair(list, new)
         IN  /\ r \in Seq(S) /\ Len(r) = Len(list) + 1
             /\ \E k \in 0 .. Len(list) :
                  /\ \A i \in 1 .. k : list[i].seq <= new.seq
                  /\ k < Len(list) => list[k + 1].seq > new.seq
                  /\ \A i \in 1 .. k : r[i] = list[i]
                  /\ r[k + 1] = new
                  /\ \A i \in k + 1 .. Len(list) : r[i + 1] = list[i]
<1> DEFINE r == InsertPair(list, new)
<1>1. PICK k \in 0 .. Len(list) :
        /\ \A i \in 1 .. k : list[i].seq <= new.seq
        /\ k < Len(list) => list[k + 1].seq > new.seq
        /\ r = InsertAt(list, k + 1, new)
  BY InsertPairPlace
<1> HIDE DEF r
<1>2. Len(list) \in Nat /\ k \in Nat /\ \A i \in 1 .. Len(list) : list[i] \in S
  BY LenProperties
<1> DEFINE front == SubSeq(list, 1, (k + 1) - 1)
           back  == SubSeq(list, k + 1, Len(list))
<1>3. r = front \o <<new>> \o back
  BY <1>1 DEF InsertAt
<1>4. /\ front \in Seq(S) /\ Len(front) = k
      /\ \A i \in 1 .. k : front[i] = list[i]
  <2>1. (k + 1) - 1 = k /\ \A i \in 1 .. k : list[i] \in S
    BY <1>2
  <2>2. /\ front \in Seq(S)
        /\ Len(front) = IF 1 <= k THEN k - 1 + 1 ELSE 0
        /\ \A i \in 1 .. k - 1 + 1 : front[i] = list[1 + i - 1]
    BY <1>2, <2>1, SubSeqProperties
  <2>3. QED
    BY <1>2, <2>2
<1>5. /\ back \in Seq(S) /\ Len(back) = Len(list) - k
      /\ \A i \in 1 .. Len(list) - k : back[i] = list[k + i]
  <2>1. \A i \in k + 1 .. Len(list) : list[i] \in S
    BY <1>2
  <2>2. /\ back \in Seq(S)
        /\ Len(back) = IF k + 1 <= Len(list)
                       THEN Len(list) - (k + 1) + 1 ELSE 0
        /\ \A i \in 1 .. Len(list) - (k + 1) + 1 :
             back[i] = list[(k + 1) + i - 1]
    BY <1>2, <2>1, SubSeqProperties
  <2>3. QED
    BY <1>2, <2>2
<1> HIDE DEF front, back
<1>6. /\ front \o <<new>> \in Seq(S) /\ Len(front \o <<new>>) = k + 1
      /\ \A i \in 1 .. k : (front \o <<new>>)[i] = list[i]
      /\ (front \o <<new>>)[k + 1] = new
  BY <1>2, <1>4
<1> DEFINE start == front \o <<new>>
<1> HIDE DEF start
<1>7. /\ start \in Seq(S) /\ Len(start) = k + 1
      /\ \A i \in 1 .. k : start[i] = list[i]
      /\ start[k + 1] = new
  BY <1>6 DEF start
<1>8. r = start \o back
  BY <1>3 DEF start
<1>9. r \in Seq(S) /\ Len(r) = Len(list) + 1
  <2>1. r \in Seq(S) /\ Len(r) = Len(start) + Len(back)
    BY <1>5, <1>7, <1>8, ConcatProperties
  <2>2. QED
    BY <1>2, <1>5, <1>7, <2>1
<1>10. \A i \in 1 .. Len(start) + Len(back) :
         r[i] = IF i <= Len(start) THEN start[i] ELSE back[i - Len(start)]
  BY <1>5, <1>7, <1>8, ConcatProperties
<1>11. /\ \A i \in 1 .. k : r[i] = list[i]
       /\ r[k + 1] = new
  <2>1. ASSUME NEW i \in 1 .. k + 1
        PROVE  r[i] = start[i]
    <3>1. i \in 1 .. Len(start) + Len(back) /\ i <= Len(start)
      BY <1>2, <1>5, <1>7
    <3>2. QED
      BY <1>10, <3>1, Zenon
  <2>2. QED
    BY <1>2, <1>7, <2>1
<1>12. ASSUME NEW i \in k + 1 .. Len(list)
       PROVE  r[i + 1] = list[i]
  <2>1. /\ i + 1 \in 1 .. Len(start) + Len(back) /\ ~ (i + 1 <= Len(start))
        /\ i + 1 - Len(start) = i - k /\ i - k \in 1 .. Len(list) - k
        /\ k + (i - k) = i
    BY <1>2, <1>5, <1>7
  <2>2. r[i + 1] = back[i + 1 - Len(start)]
    <3> DEFINE j == i + 1
    <3>1. j \in 1 .. Len(start) + Len(back) /\ ~ (j <= Len(start))
      BY <2>1
    <3> HIDE DEF j
    <3>2. r[j] = back[j - Len(start)]
      BY <1>10, <3>1
    <3>3. QED
      BY <3>2 DEF j
  <2>3. back[i - k] = list[k + (i - k)]
    BY <1>5, <2>1
  <2>4. QED
    BY <2>1, <2>2, <2>3
<1>13. QED
  BY <1>1, <1>9, <1>11, <1>12 DEF r

(* What is in the list after the insertion.                                *)
LEMMA InsertPairMembers ==
  ASSUME NEW S \in SUBSET Pair, NEW list \in Seq(S), NEW new \in S
  PROVE  LET r == InsertPair(list, new)
         IN  /\ r \in Seq(S) /\ r # <<>>
             /\ list = <<>> => r = <<new>>
             /\ \A i \in 1 .. Len(r) :
                  r[i] = new \/ \E j \in 1 .. Len(list) : r[i] = list[j]
<1> DEFINE r == InsertPair(list, new)
<1>1. r \in Seq(S) /\ Len(r) = Len(list) + 1 /\ Len(list) \in Nat
  BY InsertPairShape, LenProperties
<1>2. PICK k \in 0 .. Len(list) :
        /\ \A i \in 1 .. k : r[i] = list[i]
        /\ r[k + 1] = new
        /\ \A i \in k + 1 .. Len(list) : r[i + 1] = list[i]
  BY InsertPairShape, Zenon
<1> HIDE DEF r
<1>3. r # <<>>
  BY <1>1
<1>4. ASSUME NEW i \in 1 .. Len(r), r[i] # new
      PROVE  \E j \in 1 .. Len(list) : r[i] = list[j]
  <2>1. CASE i <= k
    <3>1. i \in 1 .. k /\ i \in 1 .. Len(list)
      BY <1>1, <2>1
    <3>2. QED
      BY <1>2, <3>1
  <2>2. CASE i > k
    <3>1. i # k + 1
      BY <1>2, <1>4
    <3>2. i - 1 \in k + 1 .. Len(list) /\ i - 1 \in 1 .. Len(list)
          /\ (i - 1) + 1 = i
      BY <1>1, <2>2, <3>1
    <3>3. r[(i - 1) + 1] = list[i - 1]
      BY <1>2, <3>2, Zenon
    <3>4. QED
      BY <3>2, <3>3
  <2>3. QED
    BY <1>1, <2>1, <2>2
<1>5. ASSUME list = <<>>
      PROVE  r = <<new>>
  <2>1. Len(r) = 1 /\ k = 0
    BY <1>1, <1>5
  <2>2. r[1] = new
    BY <1>2, <2>1
  <2>3. QED
    BY <1>1, <2>1, <2>2
<1>6. QED
  BY <1>1, <1>3, <1>4, <1>5, Zenon DEF r

(* The pairs of the list after the insertion start one after the other.    *)
LEMMA InsertPairOrder ==
  ASSUME NEW S \in SUBSET Pair, NEW list \in Seq(S), NEW new \in S,
         \A i, j \in 1 .. Len(list) : i < j => list[i].seq < list[j].seq
  PROVE  LET r == InsertPair(list, new)
         IN  \A i, j \in 1 .. Len(r) : i < j => r[i].seq <= r[j].seq
<1> DEFINE r == InsertPair(list, new)
<1>1. r \in Seq(S) /\ Len(r) = Len(list) + 1 /\ Len(list) \in Nat
  BY InsertPairShape, LenProperties
<1>2. PICK k \in 0 .. Len(list) :
        /\ \A i \in 1 .. k : list[i].seq <= new.seq
        /\ k < Len(list) => list[k + 1].seq > new.seq
        /\ \A i \in 1 .. k : r[i] = list[i]
        /\ r[k + 1] = new
        /\ \A i \in k + 1 .. Len(list) : r[i + 1] = list[i]
  BY InsertPairShape, Zenon
<1>3. new.seq \in Nat /\ \A i \in 1 .. Len(list) : list[i].seq \in Nat
  <2>1. \A p \in S : p.seq \in Nat
    BY RecvAssumption DEF Pair
  <2>2. \A i \in 1 .. Len(list) : list[i] \in S
    BY LenProperties
  <2>3. QED
    BY <2>1, <2>2
<1> HIDE DEF r
(* Where an entry of the new list comes from.                              *)
<1>4. ASSUME NEW i \in 1 .. Len(r)
      PROVE  \/ i \in 1 .. k /\ r[i] = list[i] /\ i \in 1 .. Len(list)
             \/ i = k + 1 /\ r[i] = new
             \/ /\ i > k + 1 /\ i - 1 \in k + 1 .. Len(list)
                /\ r[i] = list[i - 1] /\ i - 1 \in 1 .. Len(list)
  <2>1. CASE i <= k
    <3>1. i \in 1 .. k /\ i \in 1 .. Len(list)
      BY <1>1, <2>1
    <3>2. QED
      BY <1>2, <3>1
  <2>2. CASE i = k + 1
    BY <1>2, <2>2
  <2>3. CASE i > k + 1
    <3>1. i - 1 \in k + 1 .. Len(list) /\ i - 1 \in 1 .. Len(list)
          /\ (i - 1) + 1 = i
      BY <1>1, <2>3
    <3>2. r[(i - 1) + 1] = list[i - 1]
      BY <1>2, <3>1, Zenon
    <3>3. QED
      BY <2>3, <3>1, <3>2
  <2>4. QED
    BY <1>1, <2>1, <2>2, <2>3
(* What is behind the new pair starts later.                               *)
<1>5. \A i \in k + 1 .. Len(list) : list[i].seq > new.seq
  <2>1. ASSUME NEW i \in k + 1 .. Len(list)
        PROVE  list[i].seq > new.seq
    <3>1. k < Len(list) /\ k + 1 \in 1 .. Len(list) /\ i \in 1 .. Len(list)
          /\ (i = k + 1 \/ k + 1 < i)
      BY <1>1
    <3>2. i = k + 1 \/ list[k + 1].seq < list[i].seq
      BY <3>1
    <3>3. QED
      BY <1>2, <1>3, <3>1, <3>2
  <2>2. QED
    BY <2>1
<1>6. ASSUME NEW i \in 1 .. Len(r), NEW j \in 1 .. Len(r), i < j
      PROVE  r[i].seq <= r[j].seq
  <2>1. i \in Nat /\ j \in Nat
    BY <1>1
  <2>2. CASE i \in 1 .. k /\ r[i] = list[i] /\ i \in 1 .. Len(list)
    <3>1. CASE j \in 1 .. k /\ r[j] = list[j] /\ j \in 1 .. Len(list)
      BY <1>3, <1>6, <2>2, <3>1
    <3>2. CASE j = k + 1 /\ r[j] = new
      BY <1>2, <2>2, <3>2
    <3>3. CASE /\ j > k + 1 /\ j - 1 \in k + 1 .. Len(list)
               /\ r[j] = list[j - 1] /\ j - 1 \in 1 .. Len(list)
      <4>1. i < j - 1
        BY <2>1, <2>2, <3>3
      <4>2. list[i].seq < list[j - 1].seq
        BY <2>2, <3>3, <4>1
      <4>3. QED
        BY <1>3, <2>2, <3>3, <4>2
    <3>4. QED
      BY <1>4, <3>1, <3>2, <3>3
  <2>3. CASE i = k + 1 /\ r[i] = new
    <3>1. j > k + 1
      BY <1>6, <2>1, <2>3
    <3>2. j - 1 \in k + 1 .. Len(list) /\ r[j] = list[j - 1]
      BY <1>4, <3>1
    <3>3. QED
      BY <1>3, <1>5, <2>3, <3>2
  <2>4. CASE /\ i > k + 1 /\ i - 1 \in k + 1 .. Len(list)
             /\ r[i] = list[i - 1] /\ i - 1 \in 1 .. Len(list)
    <3>1. j > k + 1 /\ i - 1 < j - 1
      BY <1>6, <2>1, <2>4
    <3>2. r[j] = list[j - 1] /\ j - 1 \in 1 .. Len(list)
      BY <1>4, <3>1
    <3>3. list[i - 1].seq < list[j - 1].seq
      BY <2>4, <3>1, <3>2
    <3>4. QED
      BY <1>3, <2>4, <3>2, <3>3
  <2>5. QED
    BY <1>4, <2>2, <2>3, <2>4
<1>7. QED
  BY <1>6 DEF r

(* The pass takes the pairs it keeps in their order, and all of them.      *)
LEMMA MergeShape ==
  ASSUME NEW S \in SUBSET Pair, NEW list \in Seq(S), list # <<>>,
         ~MergeFails(list)
  PROVE  \E c \in Nat \ {0} :
           \E n \in [1 .. c -> {i \in 1 .. Len(list) : Kept(list)[i]}] :
             /\ Merge(list) = [j \in 1 .. c |-> list[n[j]]]
             /\ \A a, b \in 1 .. c : a < b => n[a] < n[b]
             /\ \A i \in 1 .. Len(list) :
                  Kept(list)[i] => \E j \in 1 .. c : n[j] = i
<1> DEFINE kept == {i \in 1 .. Len(list) : Kept(list)[i]}
           Up(m) == {k \in kept : k <= m}
           nth(j) == CHOOSE i \in kept : Cardinality(Up(i)) = j
           c == Cardinality(kept)
<1>1. Len(list) \in Nat \ {0} /\ \A i \in 1 .. Len(list) : list[i] \in S
  <2>1. Len(list) \in Nat /\ \A i \in 1 .. Len(list) : list[i] \in S
    BY LenProperties
  <2>2. Len(list) # 0
    BY EmptySeq
  <2>3. QED
    BY <2>1, <2>2
<1>2. Len(list) \in kept
  BY <1>1 DEF MergeFails
<1>3. Merge(list) = [j \in 1 .. Cardinality(kept) |-> list[nth(j)]]
  BY DEF Merge
<1>4. kept \subseteq 1 .. Len(list) /\ \A i \in kept : i \in Nat
  BY <1>1
<1> HIDE DEF kept
<1>5. IsFiniteSet(kept) /\ Cardinality(kept) \in Nat \ {0}
  <2>1. IsFiniteSet(1 .. Len(list))
    BY <1>1, FS_Interval
  <2>2. IsFiniteSet(kept)
    BY <1>4, <2>1, FS_Subset
  <2>3. Cardinality(kept) \in Nat
    BY <2>2, FS_CardinalityType
  <2>4. Cardinality(kept) # 0
    BY <1>2, <2>2, FS_EmptySet
  <2>5. QED
    BY <2>2, <2>3, <2>4
<1>6. \A m : /\ IsFiniteSet(Up(m)) /\ Cardinality(Up(m)) \in Nat
             /\ Cardinality(Up(m)) <= Cardinality(kept)
  <2>1. ASSUME NEW m
        PROVE  /\ IsFiniteSet(Up(m)) /\ Cardinality(Up(m)) \in Nat
               /\ Cardinality(Up(m)) <= Cardinality(kept)
    <3>1. Up(m) \in SUBSET kept
      OBVIOUS
    <3>2. IsFiniteSet(Up(m)) /\ Cardinality(Up(m)) <= Cardinality(kept)
      BY <1>5, <3>1, FS_Subset
    <3>3. QED
      BY <3>2, FS_CardinalityType
  <2>2. QED
    BY <2>1
<1>7. ASSUME NEW a \in kept, NEW b \in kept, a < b
      PROVE  Cardinality(Up(a)) < Cardinality(Up(b))
  <2>1. a \in Nat /\ b \in Nat
    BY <1>1, <1>4
  <2>2. Up(a) \union {b} \in SUBSET Up(b) /\ b \notin Up(a)
    <3>1. ASSUME NEW x \in kept, x <= a
          PROVE  x <= b
      <4>1. x \in Nat
        BY <1>1, <1>4
      <4>2. QED
        BY <1>7, <2>1, <3>1, <4>1
    <3>2. ~ (b <= a) /\ b <= b
      BY <1>7, <2>1
    <3>3. QED
      BY <3>1, <3>2
  <2> HIDE DEF Up
  <2>3. Cardinality(Up(a) \union {b}) = Cardinality(Up(a)) + 1
    BY <1>6, <2>2, FS_AddElement
  <2>4. Cardinality(Up(a) \union {b}) <= Cardinality(Up(b))
    BY <1>6, <2>2, FS_Subset
  <2>5. Cardinality(Up(a)) \in Nat /\ Cardinality(Up(b)) \in Nat
    BY <1>6
  <2>6. QED
    BY <2>3, <2>4, <2>5
<1>8. ASSUME NEW j \in 1 .. c
      PROVE  \E i \in kept : Cardinality(Up(i)) = j
  <2> DEFINE enough == {m \in Nat : j <= Cardinality(Up(m))}
  <2>1. Len(list) \in enough
    <3>1. \A k \in kept : k <= Len(list)
      BY <1>1, <1>4
    <3>2. Up(Len(list)) = kept
      BY <3>1, Zenon
    <3>3. Cardinality(Up(Len(list))) = Cardinality(kept)
      BY <3>2, Zenon
    <3>4. j <= Cardinality(Up(Len(list)))
      <4> HIDE DEF Up
      <4>1. QED
        BY <1>5, <3>3
    <3>5. QED
      BY <1>1, <3>4
  <2>2. PICK m \in enough : \A n \in enough : m <= n
    <3>1. enough \in SUBSET Nat /\ enough # {}
      BY <2>1
    <3> HIDE DEF enough
    <3>2. QED
      BY <3>1, LeastMember
  <2>3. m \in Nat /\ j <= Cardinality(Up(m))
    OBVIOUS
  <2>4. m # 0
    <3>1. SUFFICES ASSUME m = 0
                   PROVE  FALSE
      OBVIOUS
    <3>2. \A k \in kept : ~(k <= 0)
      BY <1>1, <1>4
    <3>3. Up(m) = {}
      BY <3>1, <3>2, Zenon
    <3>4. Cardinality(Up(m)) = 0
      BY <3>3, FS_EmptySet
    <3>5. QED
      BY <2>3, <3>4
  <2>5. m - 1 \in Nat
    BY <2>3, <2>4
  <2>6. Cardinality(Up(m - 1)) < j
    <3>1. m - 1 \notin enough
      BY <2>2, <2>3
    <3>2. Cardinality(Up(m - 1)) \in Nat
      BY <1>6
    <3>3. QED
      BY <2>5, <3>1, <3>2
  <2>7. m \in kept
    <3>1. SUFFICES ASSUME m \notin kept
                   PROVE  FALSE
      OBVIOUS
    <3>2. \A k \in kept : k <= m <=> k <= m - 1
      BY <1>1, <1>4, <2>3, <3>1
    <3>3. Up(m) = Up(m - 1)
      BY <3>2
    <3>4. Cardinality(Up(m)) = Cardinality(Up(m - 1))
      BY <3>3
    <3>5. Cardinality(Up(m)) \in Nat
      BY <1>6
    <3>6. QED
      BY <2>3, <2>6, <3>4, <3>5
  <2>8. Cardinality(Up(m)) = Cardinality(Up(m - 1)) + 1
    <3>1. \A k \in kept : k <= m <=> k <= m - 1 \/ k = m
      BY <1>1, <1>4, <2>3
    <3>2. Up(m) = Up(m - 1) \union {m}
      BY <2>7, <3>1, <2>3
    <3>3. m \notin Up(m - 1)
      BY <2>3
    <3>4. IsFiniteSet(Up(m - 1))
      BY <1>6
    <3>5. Cardinality(Up(m - 1) \union {m}) = Cardinality(Up(m - 1)) + 1
      <4> HIDE DEF Up
      <4>1. QED
        BY <3>3, <3>4, FS_AddElement
    <3>6. QED
      BY <3>2, <3>5
  <2>9. Cardinality(Up(m)) = j
    <3>1. Cardinality(Up(m - 1)) \in Nat
      BY <1>6
    <3> HIDE DEF Up
    <3>2. QED
      BY <2>3, <2>6, <2>8, <3>1
  <2>10. QED
    BY <2>7, <2>9
<1>9. ASSUME NEW j \in 1 .. c
      PROVE  nth(j) \in kept /\ Cardinality(Up(nth(j))) = j
  BY <1>8
<1>10. \A i \in kept : Cardinality(Up(i)) \in 1 .. c
  <2>1. ASSUME NEW i \in kept
        PROVE  Cardinality(Up(i)) \in 1 .. c
    <3>1. i \in Up(i)
      BY <1>1, <1>4
    <3>2. Cardinality(Up(i)) # 0
      <4> HIDE DEF Up
      <4>1. QED
        BY <1>6, <3>1, FS_EmptySet
    <3> HIDE DEF Up
    <3>3. QED
      BY <1>5, <1>6, <3>2
  <2>2. QED
    BY <2>1
<1> HIDE DEF Up, nth
<1> DEFINE n == [j \in 1 .. c |-> nth(j)]
<1>11. c \in Nat \ {0} /\ n \in [1 .. c -> kept]
  BY <1>5, <1>9
<1>12. Merge(list) = [j \in 1 .. c |-> list[n[j]]]
  BY <1>3
<1>13. ASSUME NEW a \in 1 .. c, NEW b \in 1 .. c, a < b
       PROVE  n[a] < n[b]
  <2>1. a \in Nat /\ b \in Nat
    BY <1>11
  <2> HIDE DEF c
  <2>2. /\ nth(a) \in kept /\ Cardinality(Up(nth(a))) = a
        /\ nth(b) \in kept /\ Cardinality(Up(nth(b))) = b
    BY <1>9
  <2>3. nth(a) \in Nat /\ nth(b) \in Nat
    BY <1>4, <2>2, Zenon
  <2>4. nth(a) # nth(b)
    BY <1>13, <2>1, <2>2
  <2>5. ~ (nth(b) < nth(a))
    <3>1. nth(b) < nth(a) => b < a
      BY <1>7, <2>2
    <3>2. QED
      BY <1>13, <2>1, <3>1
  <2>6. n[a] = nth(a) /\ n[b] = nth(b)
    OBVIOUS
  <2>7. QED
    BY <2>3, <2>4, <2>5, <2>6
<1>14. ASSUME NEW i \in kept
       PROVE  \E j \in 1 .. c : n[j] = i
  <2> DEFINE j == Cardinality(Up(i))
  <2>1. j \in 1 .. c
    BY <1>10
  <2>2. nth(j) \in kept /\ Cardinality(Up(nth(j))) = j
    BY <1>9, <2>1
  <2>3. i \in Nat /\ nth(j) \in Nat /\ j \in Nat
    <3>1. i \in Nat
      BY <1>1, <1>4
    <3>2. nth(j) \in Nat
      BY <1>4, <2>2, Zenon
    <3>3. QED
      BY <1>6, <3>1, <3>2
  <2>4. ~ (nth(j) < i)
    <3>1. nth(j) < i => j < j
      BY <1>7, <2>2
    <3>2. QED
      BY <2>3, <3>1
  <2>5. ~ (i < nth(j))
    <3>1. i < nth(j) => j < j
      BY <1>7, <2>2
    <3>2. QED
      BY <2>3, <3>1
  <2>6. nth(j) = i
    BY <2>3, <2>4, <2>5
  <2> HIDE DEF j
  <2>7. QED
    BY <2>1, <2>6
<1>15. \A i \in 1 .. Len(list) : Kept(list)[i] => \E j \in 1 .. c : n[j] = i
  BY <1>14 DEF kept
<1> HIDE DEF c, n
<1>16. n \in [1 .. c -> {i \in 1 .. Len(list) : Kept(list)[i]}]
  BY <1>11 DEF kept
<1>17. QED
  BY <1>11, <1>12, <1>13, <1>15, <1>16

(* What the pass returns is a part of the list.                            *)
LEMMA MergeMembers ==
  ASSUME NEW S \in SUBSET Pair, NEW list \in Seq(S), list # <<>>,
         ~MergeFails(list)
  PROVE  LET m == Merge(list)
         IN  /\ m \in Seq(S) /\ m # <<>>
             /\ \A j \in 1 .. Len(m) : \E i \in 1 .. Len(list) : m[j] = list[i]
<1> DEFINE m == Merge(list)
<1>1. PICK c \in Nat \ {0} :
        \E n \in [1 .. c -> {i \in 1 .. Len(list) : Kept(list)[i]}] :
          /\ m = [j \in 1 .. c |-> list[n[j]]]
          /\ \A a, b \in 1 .. c : a < b => n[a] < n[b]
  BY MergeShape, Zenon
<1>2. PICK n \in [1 .. c -> {i \in 1 .. Len(list) : Kept(list)[i]}] :
        m = [j \in 1 .. c |-> list[n[j]]]
  BY <1>1
<1> HIDE DEF m
<1>3. \A i \in 1 .. Len(list) : list[i] \in S
  BY LenProperties
<1>4. \A j \in 1 .. c : n[j] \in 1 .. Len(list) /\ list[n[j]] \in S
  BY <1>3
<1>5. m \in Seq(S) /\ Len(m) = c
  BY <1>2, <1>4
<1>6. m # <<>>
  BY <1>5
<1>7. \A j \in 1 .. Len(m) : \E i \in 1 .. Len(list) : m[j] = list[i]
  BY <1>2, <1>4, <1>5
<1>8. QED
  BY <1>5, <1>6, <1>7, Zenon DEF m

(* A pair that the pass keeps is in what it returns.                       *)
LEMMA MergeKeeps ==
  ASSUME NEW S \in SUBSET Pair, NEW list \in Seq(S), list # <<>>,
         ~MergeFails(list), NEW i \in 1 .. Len(list), Kept(list)[i]
  PROVE  \E a \in 1 .. Len(Merge(list)) : Merge(list)[a] = list[i]
<1> DEFINE m == Merge(list)
<1>1. PICK c \in Nat \ {0} :
        \E n \in [1 .. c -> {x \in 1 .. Len(list) : Kept(list)[x]}] :
          /\ m = [j \in 1 .. c |-> list[n[j]]]
          /\ \A a, b \in 1 .. c : a < b => n[a] < n[b]
          /\ \A x \in 1 .. Len(list) :
               Kept(list)[x] => \E j \in 1 .. c : n[j] = x
  BY MergeShape, Zenon
<1>2. PICK n \in [1 .. c -> {x \in 1 .. Len(list) : Kept(list)[x]}] :
        /\ m = [j \in 1 .. c |-> list[n[j]]]
        /\ \A x \in 1 .. Len(list) : Kept(list)[x] => \E j \in 1 .. c : n[j] = x
  BY <1>1
<1> HIDE DEF m
<1>3. PICK j \in 1 .. c : n[j] = i
  BY <1>2
<1>4. j \in 1 .. Len(m) /\ m[j] = list[i]
  BY <1>2, <1>3
<1>5. QED
  BY <1>4 DEF m

(* When no assert fails, what the pass returns is in ascending order.      *)
LEMMA MergeOrder ==
  ASSUME NEW S \in SUBSET Pair, NEW list \in Seq(S), list # <<>>,
         ~MergeFails(list),
         \A i, j \in 1 .. Len(list) : i < j => list[i].seq <= list[j].seq
  PROVE  LET m == Merge(list)
         IN  \A a, b \in 1 .. Len(m) : a < b => m[a].seq < m[b].seq
<1> DEFINE m == Merge(list)
<1>1. PICK c \in Nat \ {0} :
        \E n \in [1 .. c -> {i \in 1 .. Len(list) : Kept(list)[i]}] :
          /\ m = [j \in 1 .. c |-> list[n[j]]]
          /\ \A a, b \in 1 .. c : a < b => n[a] < n[b]
  BY MergeShape, Zenon
<1>2. PICK n \in [1 .. c -> {i \in 1 .. Len(list) : Kept(list)[i]}] :
        /\ m = [j \in 1 .. c |-> list[n[j]]]
        /\ \A a, b \in 1 .. c : a < b => n[a] < n[b]
  BY <1>1
<1> HIDE DEF m
<1>3. /\ Len(list) \in Nat
      /\ \A i \in 1 .. Len(list) : list[i].seq \in Nat
  <2>1. \A p \in S : p.seq \in Nat
    BY RecvAssumption DEF Pair
  <2>2. Len(list) \in Nat /\ \A i \in 1 .. Len(list) : list[i] \in S
    BY LenProperties
  <2>3. QED
    BY <2>1, <2>2
<1>4. Len(m) = c
  BY <1>2
<1>5. ASSUME NEW a \in 1 .. c, NEW b \in 1 .. c, a < b
      PROVE  m[a].seq < m[b].seq
  <2>1. m[a] = list[n[a]] /\ m[b] = list[n[b]]
    BY <1>2
  <2>2. /\ n[a] \in 1 .. Len(list) /\ n[b] \in 1 .. Len(list)
        /\ Kept(list)[n[a]]
    OBVIOUS
  <2>3. n[a] < n[b]
    BY <1>2, <1>5
  <2>4. n[a] \in 1 .. Len(list) - 1 /\ n[a] + 1 \in 1 .. Len(list)
    BY <1>3, <2>2, <2>3
  <2>5. list[n[a]].seq < list[n[a] + 1].seq
    BY <2>2, <2>4, Zenon DEF MergeFails
  <2>6. n[a] + 1 = n[b] \/ n[a] + 1 < n[b]
    BY <1>3, <2>2, <2>3
  <2>7. n[a] + 1 = n[b] \/ list[n[a] + 1].seq <= list[n[b]].seq
    BY <2>2, <2>4, <2>6
  <2>8. /\ list[n[a]].seq \in Nat /\ list[n[a] + 1].seq \in Nat
        /\ list[n[b]].seq \in Nat
    BY <1>3, <2>2, <2>4
  <2>9. list[n[a]].seq < list[n[b]].seq
    <3>1. CASE n[a] + 1 = n[b]
      BY <2>5, <3>1
    <3>2. CASE list[n[a] + 1].seq <= list[n[b]].seq
      <4>1. \A x, y, z \in Nat : x < y /\ y <= z => x < z
        OBVIOUS
      <4>2. QED
        BY <2>5, <2>8, <3>2, <4>1, Zenon
    <3>3. QED
      BY <2>7, <3>1, <3>2
  <2>10. QED
    BY <2>1, <2>9, Zenon
<1>6. QED
  BY <1>4, <1>5 DEF m

(* The pass keeps the first pair, and every other that the one before it   *)
(* does not cover.  The recursion of Kept has a solution: at the least     *)
(* length without one, the solution for the length below extends to it.    *)
LEMMA KeptRule ==
  ASSUME NEW S \in SUBSET Pair, NEW list \in Seq(S), list # <<>>
  PROVE  /\ Kept(list)[1]
         /\ \A i \in 2 .. Len(list) :
              ~Covers(list[i - 1], list[i]) => Kept(list)[i]
<1> DEFINE Is(n, f) ==
      f = [i \in 1 .. n |-> i = 1 \/ ~(f[i - 1] /\ Covers(list[i - 1], list[i]))]
<1> DEFINE Missing == {n \in Nat : ~ \E f : Is(n, f)}
<1>1. Len(list) \in Nat /\ Len(list) # 0
  BY LenProperties, EmptySeq
<1>2. \E f : Is(Len(list), f)
  <2>1. SUFFICES ASSUME Missing # {}
                 PROVE  FALSE
    BY <1>1
  <2>2. PICK n \in Missing : \A m \in Missing : n <= m
    <3>1. Missing \in SUBSET Nat
      OBVIOUS
    <3> HIDE DEF Missing
    <3>2. QED
      BY <2>1, <3>1, LeastMember
  <2>3. n # 0
    <3>1. Is(0, [i \in 1 .. 0 |-> TRUE])
      OBVIOUS
    <3>2. QED
      BY <3>1
  <2>4. n - 1 \in Nat /\ n \in Nat /\ ~ (n <= n - 1)
    BY <2>3
  <2>5. PICK g : Is(n - 1, g)
    BY <2>2, <2>4
  <2> DEFINE f == [i \in 1 .. n |->
                     i = 1 \/ ~(g[i - 1] /\ Covers(list[i - 1], list[i]))]
  <2>6. ASSUME NEW i \in 1 .. n - 1
        PROVE  f[i] = g[i]
    <3>1. i \in 1 .. n
      BY <2>4
    <3>2. QED
      BY <2>5, <3>1
  <2>7. ASSUME NEW i \in 1 .. n
        PROVE  (i = 1 \/ ~(g[i - 1] /\ Covers(list[i - 1], list[i])))
               = (i = 1 \/ ~(f[i - 1] /\ Covers(list[i - 1], list[i])))
    <3>1. i = 1 \/ i - 1 \in 1 .. n - 1
      BY <2>4
    <3> HIDE DEF f
    <3>2. QED
      BY <2>6, <3>1
  <2>8. Is(n, f)
    BY <2>7
  <2>9. QED
    BY <2>2, <2>8
<1>3. Is(Len(list), Kept(list))
  <2>1. Kept(list) = CHOOSE f : Is(Len(list), f)
    BY Zenon DEF Kept
  <2> HIDE DEF Is
  <2>2. QED
    BY <1>2, <2>1
<1>4. 1 \in 1 .. Len(list)
  BY <1>1
<1>5. Kept(list)[1]
  BY <1>3, <1>4
<1>6. ASSUME NEW i \in 2 .. Len(list), ~Covers(list[i - 1], list[i])
      PROVE  Kept(list)[i]
  <2>1. i \in 1 .. Len(list)
    BY <1>1
  <2>2. Kept(list)[i]
        = (i = 1 \/ ~(Kept(list)[i - 1] /\ Covers(list[i - 1], list[i])))
    BY <1>3, <2>1
  <2>3. QED
    BY <1>6, <2>2
<1>7. QED
  BY <1>5, <1>6

(* A single pair is kept, and nothing fails.                               *)
LEMMA MergeOfOne ==
  ASSUME NEW pair \in Pair
  PROVE  ~MergeFails(<<pair>>) /\ Merge(<<pair>>) = <<pair>>
<1> DEFINE list == <<pair>>
           Rule(f) == [i \in 1 .. Len(list) |->
                         i = 1 \/ ~(f[i - 1] /\ Covers(list[i - 1], list[i]))]
           kept == {i \in 1 .. Len(list) : Kept(list)[i]}
           nth(j) == CHOOSE i \in kept : Cardinality({k \in kept : k <= i}) = j
<1>1. Len(list) = 1 /\ list[1] = pair /\ 1 .. Len(list) = {1}
  OBVIOUS
<1>2. \A f : Rule(f) = [i \in {1} |-> TRUE]
  BY <1>1
<1>3. Kept(list) = CHOOSE f : f = Rule(f)
  BY DEF Kept
<1>4. Kept(list)[1]
  <2>1. \A f : f = Rule(f) <=> f = [i \in {1} |-> TRUE]
    BY <1>2
  <2>2. Kept(list) = [i \in {1} |-> TRUE]
    BY <1>3, <2>1
  <2>3. QED
    BY <2>2
<1>5. ~MergeFails(list)
  <2>1. 1 .. Len(list) - 1 = {}
    BY <1>1
  <2>2. QED
    BY <1>1, <1>4, <2>1 DEF MergeFails
<1>6. kept = {1}
  BY <1>1, <1>4
<1>7. Merge(list) = [j \in 1 .. Cardinality(kept) |-> list[nth(j)]]
  BY DEF Merge
<1>8. Cardinality({1}) = 1
  BY FS_Singleton
<1> HIDE DEF kept
<1>9. nth(1) = 1
  <2>1. \A i \in kept : i = 1
    BY <1>6
  <2>2. {k \in kept : k <= 1} = {1}
    BY <1>6
  <2>3. 1 \in kept /\ Cardinality({k \in kept : k <= 1}) = 1
    BY <1>6, <1>8, <2>2
  <2>4. QED
    BY <2>1, <2>3
<1> HIDE DEF nth
<1>10. Merge(list) = [j \in 1 .. 1 |-> list[nth(j)]]
  BY <1>6, <1>7, <1>8
<1>11. Merge(list) = [j \in 1 .. 1 |-> pair]
  BY <1>1, <1>9, <1>10
<1>12. [j \in 1 .. 1 |-> pair] = <<pair>>
  OBVIOUS
<1>13. QED
  BY <1>5, <1>11, <1>12
-----------------------------------------------------------------------------
(* The ring and the stream.                                                *)

Messages == [pos : Positions, len : 1 .. MaxLen]

(* The window's numbers as positions.                                      *)
LEMMA WindowPositions ==
  ASSUME TypeOK, InStream
  PROVE  /\ Isn \in Nat /\ StreamBound \in Nat /\ SeqSpace \in Nat
         /\ MaxLen \in Nat /\ StreamBound + 2 < SeqSpace /\ Isn < SeqSpace
         /\ sndNxt \in 1 .. StreamBound + 1
         /\ readPos \in Nat
         /\ CurrentSeq = Isn + curPos /\ curPos \in 1 .. sndNxt
         /\ Isn + curPos < SeqSpace
         /\ ackPos \in 1 .. sndNxt + 1
<1>1. /\ SeqSpace \in Nat /\ StreamBound \in Nat /\ Isn \in Nat
      /\ MaxLen \in Nat /\ StreamBound + 2 < SeqSpace /\ Isn < SeqSpace
  BY RecvAssumption
<1>2. sndNxt \in 1 .. StreamBound + 1 /\ readPos \in Nat
  BY <1>1 DEF TypeOK, InStream, Positions
<1>3. \A n \in Isn .. SeqSpace - 1 : PositionOf(n) = n - Isn
  BY PlainNumbers
<1>4. /\ CurrentSeq \in Isn + 1 .. Isn + sndNxt /\ ackPos \in 1 .. sndNxt + 1
      /\ CurrentSeq \in 0 .. SeqSpace - 1
  BY DEF InStream, TypeOK
<1>5. CurrentSeq \in Isn .. SeqSpace - 1
  BY <1>1, <1>2, <1>4
<1>6. curPos = CurrentSeq - Isn
  BY <1>3, <1>5, Zenon DEF curPos
<1> HIDE DEF ackPos
<1>7. QED
  BY <1>1, <1>2, <1>4, <1>6

(* The ends of messages are positions.                                     *)
LEMMA EndsArePositions ==
  ASSUME NEW r \in Seq(Messages), NEW reader \in Nat
  PROVE  /\ Len(r) \in Nat
         /\ \A i \in 1 .. Len(r) :
              /\ r[i] \in Messages
              /\ r[i].pos \in Nat /\ r[i].len \in Nat \ {0}
              /\ EndOf(r, reader, i) = r[i].pos + r[i].len
         /\ \A i \in 0 .. Len(r) : EndOf(r, reader, i) \in Nat
         /\ EndOf(r, reader, 0) = reader
<1>1. Len(r) \in Nat /\ \A i \in 1 .. Len(r) : r[i] \in Messages
  BY LenProperties
<1>2. StreamBound \in Nat /\ MaxLen \in Nat
  BY RecvAssumption
<1>3. \A m \in Messages : m.pos \in Nat /\ m.len \in Nat \ {0}
  BY <1>2 DEF Messages, Positions
<1>4. \A i \in 1 .. Len(r) : r[i].pos \in Nat /\ r[i].len \in Nat \ {0}
  BY <1>1, <1>3
<1>5. /\ \A i \in 1 .. Len(r) : EndOf(r, reader, i) = r[i].pos + r[i].len
      /\ \A i \in 0 .. Len(r) : EndOf(r, reader, i) \in Nat
      /\ EndOf(r, reader, 0) = reader
  BY <1>1, <1>4 DEF EndOf
<1>6. QED
  BY <1>1, <1>4, <1>5

(* Delivering nothing new, or something that the full ring loses.          *)
LEMMA RingKept ==
  ASSUME NEW r \in Seq(Messages), NEW reader \in Nat,
         NEW cur \in Nat, NEW new \in Nat, NEW lost, NEW lostNow,
         Follows(r, reader, cur, lost), cur <= new,
         lost => lostNow, lostNow \/ new = cur
  PROVE  Follows(r, reader, new, lostNow)
<1>1. /\ Len(r) \in Nat
      /\ \A i \in 0 .. Len(r) : EndOf(r, reader, i) \in Nat
  BY EndsArePositions
<1>2. /\ \A i \in 1 .. Len(r) :
           /\ EndOf(r, reader, i - 1) <= r[i].pos
           /\ lost \/ EndOf(r, reader, i - 1) = r[i].pos
      /\ \A i \in 1 .. Len(r) : EndOf(r, reader, i) <= cur
      /\ EndOf(r, reader, Len(r)) <= cur
      /\ lost \/ EndOf(r, reader, Len(r)) = cur
  BY Zenon DEF Follows
<1>3. /\ \A i \in 1 .. Len(r) : EndOf(r, reader, i) <= new
      /\ EndOf(r, reader, Len(r)) <= new
  <2>1. \A e \in Nat : e <= cur => e <= new
    OBVIOUS
  <2>2. /\ \A i \in 1 .. Len(r) : i \in 0 .. Len(r)
        /\ Len(r) \in 0 .. Len(r)
    BY <1>1
  <2>3. QED
    BY <1>1, <1>2, <2>1, <2>2, Zenon
<1>4. lostNow \/ EndOf(r, reader, Len(r)) = new
  BY <1>2, Zenon
<1>5. \A i \in 1 .. Len(r) :
        /\ EndOf(r, reader, i - 1) <= r[i].pos
        /\ lostNow \/ EndOf(r, reader, i - 1) = r[i].pos
  BY <1>2, Zenon
<1>6. QED
  BY <1>3, <1>4, <1>5, Zenon DEF Follows

(* Delivering the bytes from the current position on.                      *)
LEMMA RingGrown ==
  ASSUME NEW r \in Seq(Messages), NEW reader \in Nat,
         NEW cur \in Nat, NEW new \in Nat, NEW lost,
         NEW msg \in Messages, msg.pos = cur, msg.pos + msg.len = new,
         Follows(r, reader, cur, lost)
  PROVE  Follows(Append(r, msg), reader, new, lost)
<1> DEFINE s == Append(r, msg)
<1>1. /\ Len(r) \in Nat
      /\ \A i \in 0 .. Len(r) : EndOf(r, reader, i) \in Nat
      /\ msg.pos \in Nat /\ msg.len \in Nat
  <2>1. StreamBound \in Nat /\ MaxLen \in Nat
    BY RecvAssumption
  <2>2. msg.pos \in Nat /\ msg.len \in Nat
    BY <2>1 DEF Messages, Positions
  <2>3. QED
    BY <2>2, EndsArePositions
<1>2. /\ \A i \in 1 .. Len(r) :
           /\ EndOf(r, reader, i - 1) <= r[i].pos
           /\ lost \/ EndOf(r, reader, i - 1) = r[i].pos
      /\ \A i \in 1 .. Len(r) : EndOf(r, reader, i) <= cur
      /\ EndOf(r, reader, Len(r)) <= cur
      /\ lost \/ EndOf(r, reader, Len(r)) = cur
  BY Zenon DEF Follows
<1>3. /\ s \in Seq(Messages) /\ Len(s) = Len(r) + 1
      /\ \A i \in 1 .. Len(r) : s[i] = r[i]
      /\ s[Len(r) + 1] = msg
  BY AppendProperties
<1> HIDE DEF s
<1>4. \A i \in 0 .. Len(r) : EndOf(s, reader, i) = EndOf(r, reader, i)
  BY <1>1, <1>3 DEF EndOf
<1>5. EndOf(s, reader, Len(r) + 1) = new
  BY <1>1, <1>3 DEF EndOf
<1>6. ASSUME NEW i \in 1 .. Len(s)
      PROVE  /\ EndOf(s, reader, i - 1) <= s[i].pos
             /\ lost \/ EndOf(s, reader, i - 1) = s[i].pos
             /\ EndOf(s, reader, i) <= new
  <2>1. CASE i \in 1 .. Len(r)
    <3>1. i \in 0 .. Len(r) /\ i - 1 \in 0 .. Len(r)
      BY <1>1, <2>1
    <3>2. /\ EndOf(s, reader, i - 1) = EndOf(r, reader, i - 1)
          /\ EndOf(s, reader, i) = EndOf(r, reader, i)
          /\ s[i] = r[i]
      BY <1>3, <1>4, <2>1, <3>1, Zenon
    <3>3. EndOf(r, reader, i) <= new
      <4>1. EndOf(r, reader, i) <= cur /\ EndOf(r, reader, i) \in Nat
        BY <1>1, <1>2, <2>1, <3>1, Zenon
      <4>2. QED
        BY <1>1, <4>1
    <3>4. QED
      BY <1>2, <2>1, <3>2, <3>3, Zenon
  <2>2. CASE i = Len(r) + 1
    <3>1. i - 1 = Len(r) /\ Len(r) \in 0 .. Len(r)
      BY <1>1, <2>2
    <3>2. EndOf(s, reader, i - 1) = EndOf(r, reader, Len(r))
      BY <1>4, <3>1, Zenon
    <3>3. s[i].pos = cur
      BY <1>3, <2>2
    <3>4. EndOf(s, reader, i) <= new
      BY <1>5, <2>2
    <3>5. QED
      BY <1>2, <3>2, <3>3, <3>4, Zenon
  <2>3. QED
    BY <1>1, <1>3, <2>1, <2>2
<1>7. Len(s) \in 1 .. Len(s) /\ EndOf(s, reader, Len(s)) = new /\ new <= new
  BY <1>1, <1>3, <1>5
<1>8. Follows(s, reader, new, lost)
  BY <1>6, <1>7, Zenon DEF Follows
<1>9. QED
  BY <1>8 DEF s

(* Reading the first message.                                              *)
LEMMA RingRead ==
  ASSUME NEW r \in Seq(Messages), r # <<>>, NEW reader \in Nat,
         NEW cur \in Nat, NEW lost, Follows(r, reader, cur, lost)
  PROVE  Follows(Tail(r), Head(r).pos + Head(r).len, cur, lost)
<1> DEFINE s == Tail(r)
           next == Head(r).pos + Head(r).len
<1>1. /\ Len(r) \in Nat
      /\ \A i \in 1 .. Len(r) : EndOf(r, reader, i) = r[i].pos + r[i].len
      /\ \A i \in 0 .. Len(r) : EndOf(r, reader, i) \in Nat
  BY EndsArePositions
<1>2. /\ \A i \in 1 .. Len(r) :
           /\ EndOf(r, reader, i - 1) <= r[i].pos
           /\ lost \/ EndOf(r, reader, i - 1) = r[i].pos
      /\ \A i \in 1 .. Len(r) : EndOf(r, reader, i) <= cur
      /\ EndOf(r, reader, Len(r)) <= cur
      /\ lost \/ EndOf(r, reader, Len(r)) = cur
  BY Zenon DEF Follows
<1>3. /\ s \in Seq(Messages) /\ Len(s) = Len(r) - 1
      /\ \A i \in 1 .. Len(s) : s[i] = r[i + 1]
  BY HeadTailProperties
<1>4. Len(r) # 0 /\ Head(r) = r[1]
  BY EmptySeq
<1> HIDE DEF s
<1>5. next = EndOf(r, reader, 1)
  BY <1>1, <1>4
<1> HIDE DEF next
<1>6. \A i \in 0 .. Len(s) : EndOf(s, next, i) = EndOf(r, reader, i + 1)
  BY <1>1, <1>3, <1>4, <1>5 DEF EndOf
<1>7. ASSUME NEW i \in 1 .. Len(s)
      PROVE  /\ EndOf(s, next, i - 1) <= s[i].pos
             /\ lost \/ EndOf(s, next, i - 1) = s[i].pos
             /\ EndOf(s, next, i) <= cur
  <2>1. /\ i - 1 \in 0 .. Len(s) /\ i \in 0 .. Len(s)
        /\ (i - 1) + 1 = i /\ (i + 1) - 1 = i /\ i + 1 \in 1 .. Len(r)
    BY <1>1, <1>3, <1>4
  <2>2. /\ EndOf(s, next, i - 1) = EndOf(r, reader, i)
        /\ EndOf(s, next, i) = EndOf(r, reader, i + 1)
    BY <1>6, <2>1, Zenon
  <2>3. s[i] = r[i + 1]
    BY <1>3
  <2>4. /\ EndOf(r, reader, i) <= r[i + 1].pos
        /\ lost \/ EndOf(r, reader, i) = r[i + 1].pos
        /\ EndOf(r, reader, i + 1) <= cur
    BY <1>2, <2>1, Zenon
  <2>5. QED
    BY <2>2, <2>3, <2>4, Zenon
<1>8. EndOf(s, next, Len(s)) = EndOf(r, reader, Len(r))
  <2>1. Len(s) \in 0 .. Len(s) /\ Len(s) + 1 = Len(r)
    BY <1>1, <1>3, <1>4
  <2>2. QED
    BY <1>6, <2>1, Zenon
<1>9. Follows(s, next, cur, lost)
  BY <1>2, <1>7, <1>8, Zenon DEF Follows
<1>10. QED
  BY <1>9 DEF s, next
-----------------------------------------------------------------------------
(* GetData and PushDataInQueue.                                            *)

(* The bytes of a segment that starts no later than the current position   *)
(* and ends no earlier.                                                    *)
LEMMA NewBytesFollow ==
  ASSUME TypeOK, InStream, NEW h \in SoundPairs,
         h.pos <= curPos, curPos <= h.pos + h.len
  PROVE  /\ NewBytes(h).pos = curPos
         /\ NewBytes(h).len = (h.pos + h.len) - curPos
         /\ NewBytes(h).len # 0 => NewBytes(h) \in Messages
<1>1. /\ Isn \in Nat /\ StreamBound \in Nat /\ SeqSpace \in Nat /\ MaxLen \in Nat
      /\ StreamBound + 2 < SeqSpace /\ Isn < SeqSpace
      /\ sndNxt \in 1 .. StreamBound + 1
      /\ CurrentSeq = Isn + curPos /\ curPos \in 1 .. sndNxt
  BY WindowPositions
<1>2. /\ h.pos \in Positions /\ h.len \in 0 .. MaxLen /\ h.seq = Isn + h.pos
  BY <1>1, SoundFields
<1>3. h.pos \in Nat /\ h.len \in Nat
  BY <1>1, <1>2 DEF Positions
<1> DEFINE offset == (CurrentSeq - h.seq) % SeqSpace
<1>4. offset = curPos - h.pos
  <2>1. /\ CurrentSeq - h.seq = curPos - h.pos
        /\ CurrentSeq - h.seq \in 0 .. SeqSpace - 1
    BY <1>1, <1>2, <1>3
  <2>2. SeqSpace \in Nat \ {0}
    BY <1>1
  <2>3. \A M \in Nat \ {0} : \A r \in 0 .. M - 1 : r % M = r
    BY SmallResidue
  <2>4. QED
    BY <2>1, <2>2, <2>3, Zenon
<1>5. NewBytes(h) = [pos |-> h.pos + offset, len |-> h.len - offset]
  BY Zenon DEF NewBytes
<1> HIDE DEF offset
<1>6. NewBytes(h).pos = h.pos + offset /\ NewBytes(h).len = h.len - offset
  BY <1>5
<1>7. h.pos + offset = curPos /\ h.len - offset = (h.pos + h.len) - curPos
  <2>1. curPos \in Int
    BY <1>1
  <2> HIDE DEF curPos
  <2>2. QED
    BY <1>3, <1>4, <2>1
<1>8. ASSUME h.len - offset # 0
      PROVE  [pos |-> h.pos + offset, len |-> h.len - offset] \in Messages
  <2>1. h.pos + offset \in Positions
    BY <1>1, <1>7 DEF Positions
  <2>2. h.len - offset \in 1 .. MaxLen
    <3>1. curPos \in Int
      BY <1>1
    <3> HIDE DEF curPos
    <3>2. QED
      BY <1>1, <1>2, <1>3, <1>4, <1>8, <3>1
  <2>3. QED
    BY <2>1, <2>2 DEF Messages
<1>9. QED
  BY <1>5, <1>6, <1>7, <1>8, Zenon

(* What a call of GetData that does not fail makes of the window: the      *)
(* current position never moves back, and what it passes is in the ring    *)
(* or lost, and acknowledged.                                              *)
LEMMA Delivered ==
  ASSUME TypeOK, InStream, RingFollows,
         NEW list \in Seq(SoundPairs), list # <<>>,
         ~GetDataFails(Head(list)), ack' = AckAfter(list),
         PushDataInQueue(list), readPos' = readPos
  PROVE  /\ pairs' \in Seq(SoundPairs)
         /\ CurrentSeq' \in Isn + 1 .. Isn + sndNxt
         /\ CurrentSeq' \in 0 .. SeqSpace - 1
         /\ ack' \in 0 .. SeqSpace - 1 /\ ackPos' \in 1 .. sndNxt + 1
         /\ ring' \in Seq(Messages) /\ discarded' \in BOOLEAN
         /\ RingFollows' /\ curPos' <= ackPos'
<1> DEFINE h == Head(list)
           end == h.pos + h.len
<1>1. /\ Isn \in Nat /\ StreamBound \in Nat /\ SeqSpace \in Nat /\ MaxLen \in Nat
      /\ StreamBound + 2 < SeqSpace /\ Isn < SeqSpace
      /\ sndNxt \in 1 .. StreamBound + 1 /\ readPos \in Nat
      /\ CurrentSeq = Isn + curPos /\ curPos \in 1 .. sndNxt
  BY WindowPositions
<1>2. sndNxt \in Nat /\ sndNxt <= StreamBound + 1
  BY <1>1
<1>3. h \in SoundPairs /\ Tail(list) \in Seq(SoundPairs)
  BY HeadTailProperties
<1> HIDE DEF h
<1>4. /\ h.pos \in Positions /\ h.len \in 0 .. MaxLen
      /\ h.seq = Isn + h.pos /\ end <= sndNxt
      /\ SeqEnd(h) = Isn + h.pos + h.len /\ Isn + h.pos + h.len < SeqSpace
      /\ h.fin => end = sndNxt
      /\ h.len = 0 => h.fin
      /\ FinLen(h) \in {0, 1}
  BY <1>2, <1>3, SoundFields
<1>5. h.pos \in 1 .. sndNxt /\ h.len \in Nat /\ end \in 1 .. sndNxt
  <2>1. h.pos \in Nat \ {0} /\ h.len \in Nat
    BY <1>1, <1>4 DEF Positions
  <2>2. QED
    BY <1>1, <1>4, <2>1
<1>6. ack' = SeqNumber(end + FinLen(h)) /\ end + FinLen(h) \in 0 .. SeqSpace - 1
  <2>1. SeqEnd(h) + FinLen(h) = Isn + (end + FinLen(h))
    BY <1>1, <1>4, <1>5
  <2>2. ack' = (SeqEnd(h) + FinLen(h)) % SeqSpace
    BY Zenon DEF AckAfter, h
  <2>3. end + FinLen(h) \in 0 .. SeqSpace - 1
    BY <1>1, <1>4, <1>5
  <2>4. QED
    BY <2>1, <2>2, <2>3, Zenon DEF SeqNumber
<1>7. ack' \in 0 .. SeqSpace - 1 /\ ackPos' = end + FinLen(h)
  <2>1. ackPos' = PositionOf(ack')
    BY Zenon DEF ackPos, PositionOf
  <2>2. QED
    BY <1>6, <2>1, PlainNumbers, Zenon
<1>8. ackPos' = end + FinLen(h) /\ ackPos' \in 1 .. sndNxt + 1
  BY <1>1, <1>4, <1>5, <1>7
<1>9. Ready(h) <=> h.pos <= curPos
  <2>1. Ready(h) <=> Isn + h.pos <= Isn + curPos
    BY <1>1, <1>4, Zenon DEF Ready
  <2>2. Isn \in Int /\ h.pos \in Int /\ curPos \in Int
    BY <1>1, <1>5
  <2> HIDE DEF curPos
  <2>3. QED
    BY <2>1, <2>2
<1>10. ring \in Seq(Messages) /\ discarded \in BOOLEAN
  BY DEF TypeOK, Messages
<1>11. Follows(ring, readPos, curPos, discarded)
  BY DEF RingFollows
<1>12. CASE Ready(h)
  <2>1. h.pos <= curPos
    BY <1>9, <1>12
  <2>2. curPos <= end
    <3>1. CASE h.len = 0
      <4>1. end = sndNxt
        BY <1>4, <3>1
      <4>2. QED
        BY <1>1, <4>1
    <3>2. CASE h.len # 0
      <4>1. ~(SeqEnd(h) < CurrentSeq)
        BY <1>12, <3>2, Zenon DEF GetDataFails, h
      <4>2. ~(Isn + end < Isn + curPos)
        <5>1. Isn + h.pos + h.len = Isn + end
          BY <1>1, <1>5
        <5>2. QED
          BY <1>1, <1>4, <4>1, <5>1, Zenon
      <4>3. Isn \in Int /\ end \in Int /\ curPos \in Int
        BY <1>1, <1>5
      <4> HIDE DEF curPos, end
      <4>4. QED
        BY <4>2, <4>3
    <3>3. QED
      BY <3>1, <3>2
  <2> DEFINE msg == IF h.len = 0 THEN [pos |-> h.pos, len |-> 0]
                                 ELSE NewBytes(h)
  <2>3. /\ Enqueue(msg) /\ pairs' = Tail(list) /\ CurrentSeq' = SeqEnd(h)
    BY <1>12, Zenon DEF PushDataInQueue, h
  <2>4. /\ CurrentSeq' = Isn + end
        /\ CurrentSeq' \in Isn + 1 .. Isn + sndNxt
        /\ CurrentSeq' \in 0 .. SeqSpace - 1
    <3>1. Isn + h.pos + h.len = Isn + end
      BY <1>1, <1>5
    <3>2. Isn + end \in Isn + 1 .. Isn + sndNxt /\ Isn + end \in 0 .. SeqSpace - 1
      BY <1>1, <1>4, <1>5, <3>1
    <3>3. QED
      BY <1>4, <2>3, <3>1, <3>2, Zenon
  <2>5. curPos' = end
    <3>1. \A n \in Isn .. SeqSpace - 1 : PositionOf(n) = n - Isn
      BY PlainNumbers
    <3>2. CurrentSeq' \in Isn .. SeqSpace - 1
      BY <1>1, <2>4
    <3>3. PositionOf(CurrentSeq') = CurrentSeq' - Isn
      BY <3>1, <3>2, Zenon
    <3>4. curPos' = PositionOf(CurrentSeq')
      BY Zenon DEF curPos, PositionOf
    <3>5. CurrentSeq' - Isn = end
      BY <1>1, <1>5, <2>4
    <3>6. QED
      BY <3>3, <3>4, <3>5, Zenon
  <2>6. curPos' <= ackPos'
    BY <1>4, <1>5, <1>8, <2>5
  <2>7. /\ msg.len = 0 => curPos = end
        /\ msg.len # 0 =>
             msg \in Messages /\ msg.pos = curPos /\ msg.pos + msg.len = end
    <3>1. CASE h.len = 0
      <4>1. msg.len = 0
        BY <3>1
      <4>2. end = h.pos
        BY <1>5, <3>1
      <4>3. curPos = end
        <5>1. curPos \in Int
          BY <1>1
        <5> HIDE DEF curPos
        <5>2. QED
          BY <1>5, <2>1, <2>2, <4>2, <5>1
      <4>4. QED
        BY <4>1, <4>3
    <3>2. CASE h.len # 0
      <4>1. msg = NewBytes(h)
        BY <3>2
      <4>2. /\ msg.pos = curPos /\ msg.len = end - curPos
            /\ msg.len # 0 => msg \in Messages
        BY <1>3, <2>1, <2>2, <4>1, NewBytesFollow
      <4>3. curPos \in Int /\ end \in Int
        BY <1>1, <1>5
      <4> HIDE DEF curPos, msg, end
      <4>4. QED
        BY <4>2, <4>3
    <3>3. QED
      BY <3>1, <3>2
  <2> HIDE DEF msg
  <2>8. curPos \in Nat /\ end \in Nat
    BY <1>1, <1>5
  <2>9. CASE msg.len = 0
    <3>1. ring' = ring /\ discarded' = discarded
      BY <2>3, <2>9, Zenon DEF Enqueue
    <3>2. curPos' = curPos
      BY <2>5, <2>7, <2>9
    <3>3. RingFollows'
      BY <1>11, <3>1, <3>2, Zenon DEF RingFollows
    <3>4. QED
      BY <1>3, <1>7, <1>8, <1>10, <2>3, <2>4, <2>6, <3>1, <3>3, Zenon
  <2>10. CASE msg.len # 0 /\ Len(ring) < RingSize
    <3>1. ring' = Append(ring, msg) /\ discarded' = discarded
      BY <2>3, <2>10, Zenon DEF Enqueue
    <3>2. Follows(Append(ring, msg), readPos, end, discarded)
      BY <1>1, <1>10, <1>11, <2>7, <2>8, <2>10, RingGrown
    <3>3. RingFollows'
      BY <2>5, <3>1, <3>2, Zenon DEF RingFollows
    <3>4. ring' \in Seq(Messages)
      BY <1>10, <2>7, <2>10, <3>1, AppendProperties
    <3>5. QED
      BY <1>3, <1>7, <1>8, <1>10, <2>3, <2>4, <2>6, <3>1, <3>3, <3>4, Zenon
  <2>11. CASE msg.len # 0 /\ ~(Len(ring) < RingSize)
    <3>1. ring' = ring /\ discarded' = TRUE
      BY <2>3, <2>11, Zenon DEF Enqueue
    <3>2. Follows(ring, readPos, end, TRUE)
      BY <1>1, <1>10, <1>11, <2>2, <2>8, RingKept
    <3>3. RingFollows'
      BY <2>5, <3>1, <3>2, Zenon DEF RingFollows
    <3>4. QED
      BY <1>3, <1>7, <1>8, <1>10, <2>3, <2>4, <2>6, <3>1, <3>3, Zenon
  <2>12. QED
    BY <2>9, <2>10, <2>11, Zenon
<1>13. CASE ~Ready(h)
  <2>1. /\ pairs' = list /\ CurrentSeq' = CurrentSeq
        /\ ring' = ring /\ discarded' = discarded
    BY <1>13, Zenon DEF PushDataInQueue, h
  <2>2. curPos' = curPos
    BY <2>1, Zenon DEF curPos, PositionOf
  <2>3. RingFollows'
    BY <1>11, <2>1, <2>2, Zenon DEF RingFollows
  <2>4. curPos' <= ackPos'
    <3>1. ~(h.pos <= curPos)
      BY <1>9, <1>13
    <3>2. curPos \in Nat
      BY <1>1
    <3> HIDE DEF curPos
    <3>3. QED
      BY <1>4, <1>5, <1>8, <2>2, <3>1, <3>2
  <2>5. CurrentSeq \in Isn + 1 .. Isn + sndNxt /\ CurrentSeq \in 0 .. SeqSpace - 1
    BY DEF InStream, TypeOK
  <2>6. QED
    BY <1>7, <1>8, <1>10, <2>1, <2>3, <2>4, <2>5, Zenon
<1>14. QED
  BY <1>12, <1>13
-----------------------------------------------------------------------------
(* PushData.                                                               *)

(* A sequence over a set is one over every larger set.                     *)
LEMMA SeqOfLarger ==
  ASSUME NEW S, NEW T, S \subseteq T, NEW s \in Seq(S)
  PROVE  s \in Seq(T)
<1>1. /\ Len(s) \in Nat /\ s \in [1 .. Len(s) -> S]
  BY LenProperties
<1>2. s \in [1 .. Len(s) -> T]
  BY <1>1
<1>3. QED
  BY <1>1, <1>2

(* The parts of the invariant that PushData has a hand in.                 *)
WindowSound ==
  /\ pairs \in Seq(SoundPairs)
  /\ CurrentSeq \in Isn + 1 .. Isn + sndNxt /\ CurrentSeq \in 0 .. SeqSpace - 1
  /\ ack \in 0 .. SeqSpace - 1 /\ ackPos \in 1 .. sndNxt + 1
  /\ ring \in Seq(Messages) /\ discarded \in BOOLEAN
  /\ aborted \in BOOLEAN /\ poolEmpty \in BOOLEAN
  /\ RingFollows /\ curPos <= ackPos

LEMMA WindowIsSound ==
  ASSUME IInv
  PROVE  WindowSound
<1>1. TypeOK /\ StreamIntegrity /\ InStream /\ RingFollows
  BY DEF IInv
<1>2. curPos <= ackPos
  BY <1>1, Zenon DEF StreamIntegrity
<1>3. QED
  BY <1>1, <1>2, Zenon DEF TypeOK, InStream, WindowSound, Messages

(* The window keeps its meaning in a step that does not touch it, whatever *)
(* the peer sends.                                                         *)
LEMMA WindowKept ==
  ASSUME WindowSound, readPos' = readPos,
         UNCHANGED <<pairs, CurrentSeq, ack, ring, discarded>>,
         aborted' \in BOOLEAN, poolEmpty' \in BOOLEAN,
         SoundPairs \subseteq SoundPairs', sndNxt' \in Nat, sndNxt \in Nat,
         sndNxt <= sndNxt'
  PROVE  WindowSound'
<1>1. /\ pairs' = pairs /\ CurrentSeq' = CurrentSeq /\ ack' = ack /\ ring' = ring
      /\ discarded' = discarded /\ readPos' = readPos
  OBVIOUS
<1>2. pairs \in Seq(SoundPairs')
  <2>1. pairs \in Seq(SoundPairs)
    BY DEF WindowSound
  <2>2. QED
    BY <2>1, SeqOfLarger
<1>3. Isn \in Nat
  BY RecvAssumption
<1>4. curPos' = curPos /\ ackPos' = ackPos
  BY <1>1, Zenon DEF curPos, ackPos, PositionOf
<1>5. /\ CurrentSeq \in Isn + 1 .. Isn + sndNxt'
      /\ ackPos \in 1 .. sndNxt' + 1
  <2>1. /\ CurrentSeq \in Isn + 1 .. Isn + sndNxt
        /\ ackPos \in 1 .. sndNxt + 1
    BY Zenon DEF WindowSound
  <2>2. \A a, b \in Nat :
          a <= b => /\ Isn + 1 .. Isn + a \subseteq Isn + 1 .. Isn + b
                    /\ 1 .. a + 1 \subseteq 1 .. b + 1
    BY <1>3
  <2>3. /\ Isn + 1 .. Isn + sndNxt \subseteq Isn + 1 .. Isn + sndNxt'
        /\ 1 .. sndNxt + 1 \subseteq 1 .. sndNxt' + 1
    BY <2>2, Zenon
  <2>4. QED
    BY <2>1, <2>3, Zenon
<1>6. RingFollows' /\ curPos' <= ackPos'
  BY <1>1, <1>4, Zenon DEF RingFollows, WindowSound
<1>7. CurrentSeq \in 0 .. SeqSpace - 1 /\ ack \in 0 .. SeqSpace - 1
  BY Zenon DEF WindowSound
<1>8. QED
  BY <1>1, <1>2, <1>4, <1>5, <1>6, <1>7, Zenon DEF WindowSound

(* What a step of PushData does: nothing, the end of the process, or a     *)
(* call of GetData that does not fail.                                     *)
LEMMA PushDataCases ==
  ASSUME NEW seg, PushData(seg)
  PROVE  \/ UNCHANGED window
         \/ /\ ~OutOfWindow(seg) /\ ~Duplicate(seg) /\ aborted' = TRUE
            /\ UNCHANGED <<pairs, CurrentSeq, ack, ring, discarded>>
            /\ \/ /\ poolEmpty' = poolEmpty
                  /\ \/ MergeFails(InsertPair(pairs, seg))
                     \/ GetDataFails(Head(Merge(InsertPair(pairs, seg))))
               \/ poolEmpty' = TRUE
         \/ /\ ~OutOfWindow(seg) /\ ~Duplicate(seg)
            /\ ~MergeFails(InsertPair(pairs, seg))
            /\ ~GetDataFails(Head(Merge(InsertPair(pairs, seg))))
            /\ ack' = AckAfter(Merge(InsertPair(pairs, seg)))
            /\ PushDataInQueue(Merge(InsertPair(pairs, seg)))
            /\ aborted' = aborted /\ poolEmpty' = poolEmpty
<1> DEFINE list == InsertPair(pairs, seg)
           fails == MergeFails(list) \/ GetDataFails(Head(Merge(list)))
<1>1. CASE OutOfWindow(seg) \/ Duplicate(seg)
  BY <1>1, Zenon DEF PushData
<1>2. CASE ~(OutOfWindow(seg) \/ Duplicate(seg)) /\ fails
  <2>1. /\ aborted' = TRUE
        /\ UNCHANGED <<pairs, CurrentSeq, ack, ring, discarded, poolEmpty>>
    BY <1>2, Zenon DEF PushData
  <2>2. /\ UNCHANGED <<pairs, CurrentSeq, ack, ring, discarded>>
        /\ poolEmpty' = poolEmpty
    BY <2>1
  <2>3. QED
    BY <1>2, <2>1, <2>2, Zenon
<1>3. CASE ~(OutOfWindow(seg) \/ Duplicate(seg)) /\ ~fails
  <2>1. \/ /\ ack' = AckAfter(Merge(list)) /\ PushDataInQueue(Merge(list))
           /\ UNCHANGED <<aborted, poolEmpty>>
        \/ /\ aborted' = TRUE /\ poolEmpty' = TRUE
           /\ UNCHANGED <<pairs, CurrentSeq, ack, ring, discarded>>
    BY <1>3, Zenon DEF PushData
  <2>2. UNCHANGED <<aborted, poolEmpty>> =>
          aborted' = aborted /\ poolEmpty' = poolEmpty
    OBVIOUS
  <2>3. QED
    BY <1>3, <2>1, <2>2, Zenon
<1>4. QED
  BY <1>1, <1>2, <1>3, Zenon

(* PushData of a part of the stream keeps the meaning of the window.       *)
LEMMA PushDataSound ==
  ASSUME IInv, NEW seg \in SoundPairs, PushData(seg),
         UNCHANGED <<readPos, sndNxt, peerClosed>>
  PROVE  WindowSound'
<1> DEFINE list == InsertPair(pairs, seg)
           merged == Merge(list)
<1>1. TypeOK /\ InStream /\ RingFollows /\ WindowSound
  BY WindowIsSound, Zenon DEF IInv
<1>2. readPos' = readPos /\ sndNxt' = sndNxt /\ peerClosed' = peerClosed
  OBVIOUS
<1>3. SoundPairs' = SoundPairs
  BY <1>2 DEF SoundPairs
<1>4. sndNxt \in Nat /\ sndNxt <= sndNxt
  <2>1. sndNxt \in 1 .. StreamBound + 1 /\ StreamBound \in Nat
    BY <1>1, WindowPositions
  <2>2. QED
    BY <2>1
<1>5. aborted \in BOOLEAN /\ poolEmpty \in BOOLEAN
  BY <1>1, Zenon DEF WindowSound
<1>6. CASE UNCHANGED window
  <2>1. /\ UNCHANGED <<pairs, CurrentSeq, ack, ring, discarded>>
        /\ aborted' = aborted /\ poolEmpty' = poolEmpty
    BY <1>6 DEF window
  <2>2. QED
    BY <1>1, <1>2, <1>3, <1>4, <1>5, <2>1, WindowKept
<1>7. CASE /\ aborted' = TRUE /\ (poolEmpty' = poolEmpty \/ poolEmpty' = TRUE)
           /\ UNCHANGED <<pairs, CurrentSeq, ack, ring, discarded>>
  BY <1>1, <1>2, <1>3, <1>4, <1>5, <1>7, WindowKept
<1>8. CASE /\ ~MergeFails(list) /\ ~GetDataFails(Head(merged))
           /\ ack' = AckAfter(merged) /\ PushDataInQueue(merged)
           /\ aborted' = aborted /\ poolEmpty' = poolEmpty
  <2>1. SoundPairs \subseteq Pair /\ pairs \in Seq(SoundPairs)
    BY <1>1 DEF SoundPairs, InStream
  <2>2. list \in Seq(SoundPairs) /\ list # <<>>
    BY <2>1, InsertPairMembers
  <2> HIDE DEF list
  <2>3. merged \in Seq(SoundPairs) /\ merged # <<>>
    BY <1>8, <2>1, <2>2, MergeMembers
  <2> HIDE DEF merged
  <2>4. /\ pairs' \in Seq(SoundPairs)
        /\ CurrentSeq' \in Isn + 1 .. Isn + sndNxt
        /\ CurrentSeq' \in 0 .. SeqSpace - 1
        /\ ack' \in 0 .. SeqSpace - 1 /\ ackPos' \in 1 .. sndNxt + 1
        /\ ring' \in Seq(Messages) /\ discarded' \in BOOLEAN
        /\ RingFollows' /\ curPos' <= ackPos'
    BY <1>1, <1>2, <1>8, <2>3, Delivered
  <2>5. QED
    BY <1>2, <1>3, <1>5, <1>8, <2>4, Zenon DEF WindowSound
<1>9. QED
  BY <1>6, <1>7, <1>8, PushDataCases, Zenon

(* GetData fails on a segment that is not a duplicate exactly when it      *)
(* brings more of what is missing than the buffer takes.                   *)
LEMMA FailsIfTooLong ==
  ASSUME TypeOK, InStream, NEW seg \in SoundPairs, ~Duplicate(seg)
  PROVE  GetDataFails(seg) <=> Overflows(seg)
<1> DEFINE end == seg.pos + seg.len
<1>1. /\ Isn \in Nat /\ StreamBound \in Nat /\ SeqSpace \in Nat /\ MaxLen \in Nat
      /\ sndNxt \in 1 .. StreamBound + 1
      /\ CurrentSeq = Isn + curPos /\ curPos \in 1 .. sndNxt
  BY WindowPositions
<1>2. /\ seg.pos \in Positions /\ seg.len \in 0 .. MaxLen
      /\ seg.seq = Isn + seg.pos /\ SeqEnd(seg) = Isn + seg.pos + seg.len
      /\ seg.len = 0 => seg.fin
  BY <1>1, SoundFields
<1>3. /\ seg.pos \in Nat /\ seg.len \in Nat /\ curPos \in Nat
      /\ BufferSize \in Nat \ {0}
  BY <1>1, <1>2, RecvAssumption DEF Positions
<1>4. /\ CurrentSeq # 0 /\ ~(SeqEnd(seg) < CurrentSeq) /\ curPos <= end
  <2>1. ~(CurrentSeq > SeqEnd(seg))
    BY Zenon DEF Duplicate
  <2>2. 1 <= curPos
    BY <1>1
  <2> HIDE DEF curPos
  <2>3. QED
    BY <1>1, <1>2, <1>3, <2>1, <2>2
<1>5. Ready(seg) <=> seg.pos <= curPos
  <2>1. Ready(seg) <=> Isn + seg.pos <= Isn + curPos
    BY <1>1, <1>2, Zenon DEF Ready
  <2> HIDE DEF curPos
  <2>2. QED
    BY <1>1, <1>3, <2>1
<1>6. ASSUME seg.pos <= curPos
      PROVE  TooLong(seg) <=> end >= curPos + BufferSize
  <2>1. NewBytes(seg).len = end - curPos
    BY <1>4, <1>6, NewBytesFollow
  <2>2. TooLong(seg) <=> end - curPos >= BufferSize
    BY <2>1, Zenon DEF TooLong
  <2> HIDE DEF curPos
  <2>3. QED
    BY <1>3, <2>2
<1>7. seg.pos <= curPos /\ end >= curPos + BufferSize => seg.len # 0
  <2> HIDE DEF curPos
  <2>1. QED
    BY <1>3
<1>8. GetDataFails(seg) <=> Ready(seg) /\ seg.len # 0 /\ TooLong(seg)
  BY <1>2, <1>4, Zenon DEF GetDataFails
<1>9. QED
  BY <1>5, <1>6, <1>7, <1>8, Zenon DEF Overflows

(* What is acknowledged stays received when more arrives.                  *)
LEMMA AckStays ==
  ASSUME AckOnlyReceived, ackPos' = ackPos, ackPos \in Nat,
         arrived \in Nat, arrived' \in Nat, arrived <= arrived',
         peerClosed => peerClosed'
  PROVE  AckOnlyReceived'
<1>1. ackPos <= arrived + 1 /\ (ackPos = arrived + 1 => peerClosed)
  BY Zenon DEF AckOnlyReceived
<1>2. ackPos <= arrived' + 1 /\ (ackPos = arrived' + 1 => ackPos = arrived + 1)
  <2>1. \A a, b, n \in Nat :
          a <= b /\ n <= a + 1 => n <= b + 1 /\ (n = b + 1 => n = a + 1)
    OBVIOUS
  <2>2. QED
    BY <1>1, <2>1, Zenon
<1>3. ackPos' <= arrived' + 1 /\ (ackPos' = arrived' + 1 => peerClosed')
  BY <1>1, <1>2, Zenon
<1>4. QED
  BY <1>3, Zenon DEF AckOnlyReceived

(* A segment that starts no later than the end of what arrived, when       *)
(* nothing is queued, is delivered or was delivered before, or it ends the *)
(* process: it is too long for the buffer, or the pool is empty.           *)
LEMMA PushDataInOrder ==
  ASSUME TypeOK, InStream, NEW seg \in SoundPairs, PushData(seg),
         pairs = <<>>, curPos = arrived, seg.pos <= arrived,
         AckOnlyReceived, ~aborted, ~poolEmpty,
         arrived' = IF seg.pos <= arrived /\ arrived < seg.pos + seg.len
                    THEN seg.pos + seg.len ELSE arrived,
         UNCHANGED <<sndNxt, peerClosed>>
  PROVE  /\ AckOnlyReceived'
         /\ aborted' <=> Overflows(seg) \/ poolEmpty'
         /\ ~aborted' => pairs' = <<>> /\ curPos' = arrived'
<1> DEFINE list == InsertPair(pairs, seg)
           end == seg.pos + seg.len
<1>1. /\ Isn \in Nat /\ StreamBound \in Nat /\ SeqSpace \in Nat /\ MaxLen \in Nat
      /\ StreamBound + 2 < SeqSpace /\ Isn < SeqSpace
      /\ sndNxt \in 1 .. StreamBound + 1
      /\ CurrentSeq = Isn + curPos /\ curPos \in 1 .. sndNxt
      /\ ackPos \in Nat
  BY WindowPositions
<1>2. sndNxt \in Nat /\ sndNxt <= StreamBound + 1
  BY <1>1
<1>3. /\ seg \in Pair /\ seg.pos \in Positions /\ seg.len \in 0 .. MaxLen
      /\ seg.seq = Isn + seg.pos /\ end <= sndNxt
      /\ SeqEnd(seg) = Isn + seg.pos + seg.len
      /\ Isn + seg.pos + seg.len < SeqSpace
      /\ seg.fin => peerClosed /\ end = sndNxt
      /\ FinLen(seg) \in {0, 1} /\ (FinLen(seg) = 1 => seg.fin)
  BY <1>2, SoundFields, Zenon
<1>4. seg.pos \in Nat /\ seg.len \in Nat /\ end \in Nat /\ arrived \in Nat
  BY <1>1, <1>3 DEF Positions
<1>5. SeqEnd(seg) = Isn + end
  BY <1>1, <1>3, <1>4
<1> HIDE DEF end
<1>6. ~OutOfWindow(seg)
  BY Zenon DEF OutOfWindow
<1>7. Duplicate(seg) <=> arrived > end
  <2>1. Duplicate(seg) <=> Isn + arrived > Isn + end
    BY <1>1, <1>5, Zenon DEF Duplicate
  <2>2. QED
    BY <1>1, <1>4, <2>1
<1>8. /\ arrived' \in Nat /\ arrived <= arrived' /\ peerClosed' = peerClosed
      /\ arrived <= end => arrived' = end
      /\ ~(arrived < end) => arrived' = arrived
  BY <1>4 DEF end
<1>9. ASSUME UNCHANGED <<pairs, CurrentSeq, ack>>
      PROVE  /\ AckOnlyReceived' /\ pairs' = <<>> /\ curPos' = curPos
  <2>1. pairs' = pairs /\ CurrentSeq' = CurrentSeq /\ ack' = ack
    BY <1>9
  <2>2. curPos' = curPos /\ ackPos' = ackPos
    BY <2>1, Zenon DEF curPos, ackPos, PositionOf
  <2>3. AckOnlyReceived'
    BY <1>1, <1>4, <1>8, <2>2, AckStays
  <2>4. QED
    BY <2>1, <2>2, <2>3, Zenon
<1>10. BufferSize \in Nat \ {0}
  BY RecvAssumption
<1>11. CASE Duplicate(seg)
  <2>1. UNCHANGED window
    BY <1>11, Zenon DEF PushData
  <2>2. /\ UNCHANGED <<pairs, CurrentSeq, ack>>
        /\ aborted' = aborted /\ poolEmpty' = poolEmpty
    BY <2>1 DEF window
  <2>3. ~(arrived < end) /\ ~(end >= arrived + BufferSize)
    BY <1>4, <1>7, <1>10, <1>11
  <2>4. ~Overflows(seg)
    BY <2>3, Zenon DEF Overflows, end
  <2>5. QED
    BY <1>8, <1>9, <2>2, <2>3, <2>4, Zenon
<1>12. CASE ~Duplicate(seg)
  <2>1. list = <<seg>>
    <3>1. SoundPairs \subseteq Pair /\ pairs \in Seq(SoundPairs)
      BY DEF SoundPairs, InStream
    <3>2. QED
      BY <3>1, InsertPairMembers
  <2>2. ~MergeFails(list) /\ Merge(list) = <<seg>>
    BY <1>3, <2>1, MergeOfOne
  <2>3. Head(<<seg>>) = seg /\ Tail(<<seg>>) = <<>>
    OBVIOUS
  <2>4. arrived <= end
    BY <1>4, <1>7, <1>12
  <2>5. GetDataFails(seg) <=> Overflows(seg)
    BY <1>12, FailsIfTooLong
  <2>6. Ready(seg)
    <3>1. Isn + seg.pos <= Isn + arrived
      BY <1>1, <1>4
    <3>2. QED
      BY <1>1, <1>3, <3>1, Zenon DEF Ready
  <2> HIDE DEF list
  <2>7. CASE GetDataFails(seg)
    <3>1. /\ aborted' = TRUE
          /\ UNCHANGED <<pairs, CurrentSeq, ack, ring, discarded, poolEmpty>>
      BY <1>6, <1>12, <2>2, <2>3, <2>7, Zenon DEF PushData, list
    <3>2. UNCHANGED <<pairs, CurrentSeq, ack>>
      BY <3>1
    <3>3. QED
      BY <1>9, <2>5, <2>7, <3>1, <3>2, Zenon
  <2>8. CASE ~GetDataFails(seg)
    <3>1. \/ /\ ack' = AckAfter(<<seg>>) /\ PushDataInQueue(<<seg>>)
             /\ UNCHANGED <<aborted, poolEmpty>>
          \/ /\ aborted' = TRUE /\ poolEmpty' = TRUE
             /\ UNCHANGED <<pairs, CurrentSeq, ack, ring, discarded>>
      BY <1>6, <1>12, <2>2, <2>3, <2>8, Zenon DEF PushData, list
    <3>2. CASE /\ aborted' = TRUE /\ poolEmpty' = TRUE
               /\ UNCHANGED <<pairs, CurrentSeq, ack, ring, discarded>>
      <4>1. UNCHANGED <<pairs, CurrentSeq, ack>>
        BY <3>2
      <4>2. QED
        BY <1>9, <3>2, <4>1, Zenon
    <3>3. CASE /\ ack' = AckAfter(<<seg>>) /\ PushDataInQueue(<<seg>>)
               /\ UNCHANGED <<aborted, poolEmpty>>
      <4>1. aborted' = aborted /\ poolEmpty' = poolEmpty
        BY <3>3
      <4>2. pairs' = <<>> /\ CurrentSeq' = Isn + end
        BY <1>5, <2>3, <2>6, <3>3, Zenon DEF PushDataInQueue
      <4>3. ack' = (Isn + end + FinLen(seg)) % SeqSpace
        BY <1>5, <2>3, <3>3, Zenon DEF AckAfter
      <4>4. ack' = SeqNumber(end + FinLen(seg))
            /\ end + FinLen(seg) \in 0 .. SeqSpace - 1
        <5>1. FinLen(seg) \in Nat /\ FinLen(seg) <= 1 /\ end <= StreamBound + 1
          BY <1>1, <1>3, <1>4
        <5>2. Isn + end + FinLen(seg) = Isn + (end + FinLen(seg))
          BY <1>1, <1>4, <5>1
        <5>3. end + FinLen(seg) \in 0 .. SeqSpace - 1
          BY <1>1, <1>4, <5>1
        <5>4. QED
          BY <4>3, <5>2, <5>3, Zenon DEF SeqNumber
      <4>5. ackPos' = end + FinLen(seg)
        <5>1. ackPos' = PositionOf(ack')
          BY Zenon DEF ackPos, PositionOf
        <5>2. QED
          BY <4>4, <5>1, PlainNumbers, Zenon
      <4>6. curPos' = end
        <5>1. \A n \in Isn .. SeqSpace - 1 : PositionOf(n) = n - Isn
          BY PlainNumbers
        <5>2. CurrentSeq' \in Isn .. SeqSpace - 1 /\ CurrentSeq' - Isn = end
          BY <1>1, <1>3, <1>4, <1>5, <4>2
        <5>3. PositionOf(CurrentSeq') = CurrentSeq' - Isn
          BY <5>1, <5>2, Zenon
        <5>4. curPos' = PositionOf(CurrentSeq')
          BY Zenon DEF curPos, PositionOf
        <5>5. QED
          BY <5>2, <5>3, <5>4, Zenon
      <4>7. arrived' = end
        BY <1>8, <2>4
      <4>8. AckOnlyReceived'
        <5>1. ackPos' <= arrived' + 1
          BY <1>3, <1>4, <4>5, <4>7
        <5>2. ackPos' = arrived' + 1 => FinLen(seg) = 1
          BY <1>3, <1>4, <4>5, <4>7
        <5>3. QED
          BY <1>3, <1>8, <5>1, <5>2 DEF AckOnlyReceived
      <4>9. QED
        BY <2>5, <2>8, <4>1, <4>2, <4>6, <4>7, <4>8, Zenon
    <3>4. QED
      BY <3>1, <3>2, <3>3
  <2>9. QED
    BY <2>7, <2>8
<1>13. QED
  BY <1>11, <1>12
-----------------------------------------------------------------------------
(* The steps.                                                              *)

(* The invariant, put together again after a step.                         *)
LEMMA Reassembled ==
  ASSUME WindowSound', InOrderService',
         state' \in States, need_ack_now' \in BOOLEAN, inOrder' \in BOOLEAN,
         oversized' \in BOOLEAN, beyond' \in BOOLEAN,
         readPos' \in Positions, sndNxt' \in Positions,
         arrived' \in Positions, una' \in Positions, peerClosed' \in BOOLEAN,
         arrived' <= sndNxt', sndNxt' <= StreamBound + 1
  PROVE  IInv'
<1>1. /\ pairs' \in Seq(SoundPairs')
      /\ CurrentSeq' \in Isn + 1 .. Isn + sndNxt'
      /\ CurrentSeq' \in 0 .. SeqSpace - 1
      /\ ack' \in 0 .. SeqSpace - 1 /\ ackPos' \in 1 .. sndNxt' + 1
      /\ ring' \in Seq(Messages)
      /\ discarded' \in BOOLEAN /\ aborted' \in BOOLEAN
      /\ poolEmpty' \in BOOLEAN
      /\ RingFollows' /\ curPos' <= ackPos'
  BY Zenon DEF WindowSound, Messages, Positions
<1>2. pairs' \in Seq(Pair)
  <2>1. SoundPairs' \subseteq Pair
    BY DEF SoundPairs, Pair
  <2>2. QED
    BY <1>1, <2>1, SeqOfLarger
<1>3. TypeOK'
  <2>1. {readPos', sndNxt', arrived', una'} \subseteq Positions
    OBVIOUS
  <2>2. ring' \in Seq([pos : Positions, len : 1 .. MaxLen])
    BY <1>1, Zenon DEF Messages
  <2>3. QED
    BY <1>1, <1>2, <2>1, <2>2, Zenon DEF TypeOK, Positions, Pair, States
<1>4. InStream'
  BY <1>1, Zenon DEF InStream
<1>5. StreamIntegrity'
  BY <1>1, Zenon DEF StreamIntegrity, RingFollows, Follows, EndOf
<1>6. QED
  BY <1>1, <1>3, <1>4, <1>5, Zenon DEF IInv

(* What the type invariant and InStream say of the variables outside the   *)
(* window.                                                                 *)
LEMMA Outside ==
  ASSUME IInv
  PROVE  /\ TypeOK /\ InStream /\ RingFollows /\ WindowSound /\ InOrderService
         /\ state \in States /\ need_ack_now \in BOOLEAN /\ inOrder \in BOOLEAN
         /\ oversized \in BOOLEAN /\ aborted \in BOOLEAN /\ poolEmpty \in BOOLEAN
         /\ beyond \in BOOLEAN
         /\ readPos \in Positions /\ sndNxt \in Positions
         /\ arrived \in Positions /\ una \in Positions
         /\ peerClosed \in BOOLEAN
         /\ arrived <= sndNxt /\ sndNxt <= StreamBound + 1
         /\ sndNxt \in Nat /\ arrived \in Nat
<1>1. TypeOK /\ InStream /\ RingFollows /\ WindowSound /\ InOrderService
  BY WindowIsSound, Zenon DEF IInv
<1>2. /\ state \in States /\ need_ack_now \in BOOLEAN /\ inOrder \in BOOLEAN
      /\ oversized \in BOOLEAN /\ aborted \in BOOLEAN /\ poolEmpty \in BOOLEAN
      /\ beyond \in BOOLEAN
      /\ readPos \in Positions /\ sndNxt \in Positions
      /\ arrived \in Positions /\ una \in Positions
      /\ peerClosed \in BOOLEAN
  BY <1>1 DEF TypeOK
<1>3. arrived <= sndNxt /\ sndNxt <= StreamBound + 1
  BY <1>1 DEF InStream
<1>4. sndNxt \in Nat /\ arrived \in Nat
  BY <1>2, RecvAssumption DEF Positions
<1>5. QED
  BY <1>1, <1>2, <1>3, <1>4, Zenon

LEMMA InitIInv ==
  ASSUME NotLast, Init
  PROVE  IInv
<1>1. /\ Isn \in Nat /\ StreamBound \in Nat /\ SeqSpace \in Nat
      /\ StreamBound + 2 < SeqSpace /\ Isn + 1 < SeqSpace
  BY RecvAssumption DEF NotLast
<1>2. /\ \A p \in 0 .. SeqSpace - 1 - Isn : SeqNumber(p) = Isn + p
      /\ \A n \in Isn .. SeqSpace - 1 : PositionOf(n) = n - Isn
  BY PlainNumbers
<1>3. 1 \in 0 .. SeqSpace - 1 - Isn /\ Isn + 1 \in Isn .. SeqSpace - 1
  BY <1>1
<1>4. /\ state = "ESTABLISHED" /\ pairs = <<>>
      /\ CurrentSeq = SeqNumber(1) /\ ack = SeqNumber(1) /\ need_ack_now = FALSE
      /\ ring = <<>> /\ aborted = FALSE
      /\ readPos = 1 /\ discarded = FALSE /\ inOrder = TRUE
      /\ oversized = FALSE /\ poolEmpty = FALSE /\ beyond = FALSE
      /\ sndNxt = 1 /\ arrived = 1 /\ peerClosed = FALSE /\ una = 1
  BY Zenon DEF Init
<1>5. CurrentSeq = Isn + 1 /\ ack = Isn + 1
  BY <1>2, <1>3, <1>4, Zenon
<1>6. curPos = 1 /\ ackPos = 1
  <2>1. PositionOf(Isn + 1) = (Isn + 1) - Isn
    BY <1>2, <1>3, Zenon
  <2>2. (Isn + 1) - Isn = 1
    BY <1>1
  <2>3. QED
    BY <1>5, <2>1, <2>2, Zenon DEF curPos, ackPos
<1>7. \A S : <<>> \in Seq(S)
  BY EmptySeq, Zenon
<1>8. TypeOK
  <2>1. 1 \in Positions
    BY <1>1 DEF Positions
  <2>2. Isn + 1 \in 0 .. SeqSpace - 1
    BY <1>1
  <2>3. "ESTABLISHED" \in States
    BY DEF States
  <2>4. {readPos, sndNxt, arrived, una} \subseteq Positions
    BY <1>4, <2>1
  <2>5. QED
    BY <1>4, <1>5, <1>7, <2>2, <2>3, <2>4, Zenon DEF TypeOK
<1>9. InStream
  <2>1. /\ Isn + 1 \in Isn + 1 .. Isn + 1 /\ 1 \in 1 .. 1 + 1
        /\ 1 <= 1 /\ 1 <= StreamBound + 1
    BY <1>1
  <2>2. QED
    BY <1>4, <1>5, <1>6, <1>7, <2>1, Zenon DEF InStream
<1>10. RingFollows /\ StreamIntegrity
  <2>1. Len(ring) = 0 /\ 1 .. Len(ring) = {}
    BY <1>4
  <2>2. EndOf(ring, readPos, Len(ring)) = 1
    BY <1>4, <2>1 DEF EndOf
  <2>3. 1 <= 1
    OBVIOUS
  <2>4. Follows(ring, readPos, curPos, discarded)
    BY <1>6, <2>1, <2>2, <2>3, Zenon DEF Follows
  <2>5. StreamIntegrity
    BY <1>6, <2>3, <2>4, Zenon DEF StreamIntegrity, Follows, EndOf
  <2>6. QED
    BY <2>4, <2>5, Zenon DEF RingFollows
<1>11. InOrderService
  <2>1. AckOnlyReceived
    BY <1>4, <1>6 DEF AckOnlyReceived
  <2>2. QED
    BY <1>4, <1>6, <2>1, Zenon DEF InOrderService
<1>12. QED
  BY <1>8, <1>9, <1>10, <1>11, Zenon DEF IInv

(* A segment of the network is a part of the stream; one that reaches the  *)
(* end of the number space is a duplicate to PushData.                     *)
LEMMA SegmentSound ==
  ASSUME IInv, NEW seg \in Segments
  PROVE  LET s == [seg EXCEPT !.seq = SeqNumber(seg.pos)]
         IN  /\ s.pos = seg.pos /\ s.len = seg.len /\ s.fin = seg.fin
             /\ seg.pos \in Nat /\ seg.len \in Nat /\ seg.fin \in BOOLEAN
             /\ seg.pos + seg.len <= sndNxt
             /\ seg.len > 0 \/ seg.fin =>
                  s \in SoundPairs \/ ~(Isn + seg.pos + seg.len < SeqSpace)
             /\ ~(Isn + seg.pos + seg.len < SeqSpace) => Duplicate(s)
<1> DEFINE s == [seg EXCEPT !.seq = SeqNumber(seg.pos)]
           Raw == [seq : {0}, len : 0 .. MaxLen, fin : BOOLEAN, pos : Positions]
<1>1. /\ seg \in Raw /\ seg.pos + seg.len <= sndNxt
      /\ seg.fin => peerClosed /\ seg.pos + seg.len = sndNxt
  BY DEF Segments
<1>2. /\ Isn \in Nat /\ StreamBound \in Nat /\ SeqSpace \in Nat /\ MaxLen \in Nat
      /\ StreamBound + 2 < SeqSpace /\ Isn < SeqSpace
      /\ sndNxt \in 1 .. StreamBound + 1
      /\ CurrentSeq \in Nat /\ Isn < CurrentSeq
  <2>1. TypeOK /\ InStream
    BY DEF IInv
  <2>2. CurrentSeq \in Isn + 1 .. Isn + sndNxt
    BY <2>1 DEF InStream
  <2>3. /\ Isn \in Nat /\ StreamBound \in Nat /\ SeqSpace \in Nat
        /\ MaxLen \in Nat /\ StreamBound + 2 < SeqSpace /\ Isn < SeqSpace
        /\ sndNxt \in 1 .. StreamBound + 1
    BY <2>1, WindowPositions
  <2>4. QED
    BY <2>2, <2>3
<1>3. /\ seg.pos \in Positions /\ seg.len \in 0 .. MaxLen /\ seg.fin \in BOOLEAN
  BY <1>1
<1>4. seg.pos \in Nat /\ seg.len \in Nat
  BY <1>2, <1>3 DEF Positions
<1>5. seg.pos \in 0 .. SeqSpace - 1
  BY <1>2, <1>3 DEF Positions
<1>6. SeqNumber(seg.pos) \in 0 .. SeqSpace - 1
  BY <1>5, PlainNumbers, Zenon
<1> HIDE DEF s
<1>7. /\ s.pos = seg.pos /\ s.len = seg.len /\ s.fin = seg.fin
      /\ s.seq = SeqNumber(seg.pos) /\ s \in Pair
  BY <1>1, <1>6 DEF Pair, s
<1>8. ASSUME seg.len > 0 \/ seg.fin, Isn + seg.pos + seg.len < SeqSpace
      PROVE  s \in SoundPairs
  <2>1. s.len = 0 => s.fin
    <3>1. seg.len = 0 => ~(seg.len > 0)
      BY <1>4
    <3>2. QED
      BY <1>7, <1>8, <3>1, Zenon
  <2>2. seg.pos \in 0 .. SeqSpace - 1 - Isn
    BY <1>2, <1>4, <1>8
  <2>3. s.seq = Isn + seg.pos
    BY <1>7, <2>2, PlainNumbers, Zenon
  <2>4. QED
    BY <1>1, <1>7, <1>8, <2>1, <2>3, Zenon DEF SoundPairs
<1>9. ASSUME ~(Isn + seg.pos + seg.len < SeqSpace)
      PROVE  Duplicate(s)
  <2> DEFINE end == seg.pos + seg.len
  <2>1. end \in Nat /\ end <= StreamBound + 1 /\ Isn + end >= SeqSpace
    BY <1>1, <1>2, <1>4, <1>9
  <2>2. SeqEnd(s) = (SeqNumber(seg.pos) + seg.len) % SeqSpace
    BY <1>7, Zenon DEF SeqEnd
  <2>3. SeqEnd(s) = Isn + end - SeqSpace
    <3>1. CASE seg.pos \in 0 .. SeqSpace - 1 - Isn
      <4>1. SeqNumber(seg.pos) = Isn + seg.pos
        BY <3>1, PlainNumbers, Zenon
      <4>2. Isn + seg.pos + seg.len \in SeqSpace .. 2 * SeqSpace - 1
        BY <1>2, <1>4, <2>1
      <4>3. (Isn + seg.pos + seg.len) % SeqSpace
            = (Isn + seg.pos + seg.len) - SeqSpace
        BY <1>2, <4>2, UpperResidue
      <4>4. (Isn + seg.pos + seg.len) - SeqSpace = Isn + end - SeqSpace
        BY <1>2, <1>4
      <4>5. QED
        BY <2>2, <4>1, <4>3, <4>4, Zenon
    <3>2. CASE seg.pos \in SeqSpace - Isn .. SeqSpace - 1
      <4>1. SeqNumber(seg.pos) = Isn + seg.pos - SeqSpace
        BY <3>2, PlainNumbers, Zenon
      <4>2. /\ SeqNumber(seg.pos) + seg.len = Isn + end - SeqSpace
            /\ SeqNumber(seg.pos) + seg.len \in 0 .. SeqSpace - 1
        BY <1>2, <1>4, <2>1, <4>1
      <4>3. (SeqNumber(seg.pos) + seg.len) % SeqSpace
            = SeqNumber(seg.pos) + seg.len
        BY <1>2, <4>2, SmallResidue
      <4>4. QED
        BY <2>2, <4>2, <4>3, Zenon
    <3>3. QED
      BY <1>2, <1>5, <3>1, <3>2
  <2>4. CurrentSeq > SeqEnd(s)
    BY <1>2, <2>1, <2>3
  <2>5. QED
    BY <2>4 DEF Duplicate
<1>10. QED
  BY <1>1, <1>3, <1>4, <1>7, <1>8, <1>9, Zenon DEF s

LEMMA ArriveIInv ==
  ASSUME IInv, NEW seg \in Segments, Arrive(seg)
  PROVE  IInv'
<1> DEFINE s == [seg EXCEPT !.seq = SeqNumber(seg.pos)]
<1>1. /\ TypeOK /\ InStream /\ RingFollows /\ WindowSound /\ InOrderService
      /\ state \in States /\ need_ack_now \in BOOLEAN /\ inOrder \in BOOLEAN
      /\ oversized \in BOOLEAN /\ aborted \in BOOLEAN /\ poolEmpty \in BOOLEAN
      /\ beyond \in BOOLEAN
      /\ readPos \in Positions /\ sndNxt \in Positions
      /\ arrived \in Positions /\ una \in Positions
      /\ peerClosed \in BOOLEAN
      /\ arrived <= sndNxt /\ sndNxt <= StreamBound + 1
      /\ sndNxt \in Nat /\ arrived \in Nat
  BY Outside
<1>2. /\ s.pos = seg.pos /\ s.len = seg.len /\ s.fin = seg.fin
      /\ seg.pos \in Nat /\ seg.len \in Nat /\ seg.fin \in BOOLEAN
      /\ seg.pos + seg.len <= sndNxt
      /\ seg.len > 0 \/ seg.fin =>
           s \in SoundPairs \/ ~(Isn + seg.pos + seg.len < SeqSpace)
      /\ ~(Isn + seg.pos + seg.len < SeqSpace) => Duplicate(s)
  BY SegmentSound, Zenon
<1>3. /\ ~aborted
      /\ tcp_established(s) \/ tcp_fin2 \/ tcp_closed
      /\ arrived' = IF seg.pos <= arrived /\ arrived < seg.pos + seg.len
                    THEN seg.pos + seg.len ELSE arrived
      /\ inOrder' = (inOrder /\ seg.pos <= arrived)
      /\ oversized' = (oversized \/ (state = "ESTABLISHED" /\ Overflows(seg)))
      /\ beyond' = (beyond \/ (state = "ESTABLISHED" /\ FarBeyond(seg)))
      /\ readPos' = readPos /\ UNCHANGED peer
  BY Zenon DEF Arrive
<1> HIDE DEF s
<1>4. sndNxt' = sndNxt /\ peerClosed' = peerClosed /\ una' = una
  BY <1>3 DEF peer
<1>5. /\ arrived' \in Positions /\ arrived' <= sndNxt'
      /\ arrived' \in Nat /\ arrived <= arrived'
  <2>1. CASE seg.pos <= arrived /\ arrived < seg.pos + seg.len
    <3>1. arrived' = seg.pos + seg.len
      BY <1>3, <2>1
    <3>2. seg.pos + seg.len \in Positions
      <4>1. StreamBound \in Nat /\ 1 <= arrived
        BY <1>1, RecvAssumption DEF Positions
      <4>2. QED
        BY <1>1, <1>2, <2>1, <4>1 DEF Positions
    <3>3. QED
      BY <1>1, <1>2, <1>4, <2>1, <3>1, <3>2
  <2>2. CASE ~(seg.pos <= arrived /\ arrived < seg.pos + seg.len)
    <3>1. arrived' = arrived
      BY <1>3, <2>2, Zenon
    <3>2. QED
      BY <1>1, <1>4, <3>1
  <2>3. QED
    BY <2>1, <2>2
<1>6. inOrder' \in BOOLEAN /\ oversized' \in BOOLEAN /\ beyond' \in BOOLEAN
  BY <1>1, <1>3, Zenon
<1>7. SoundPairs' = SoundPairs
  BY <1>4 DEF SoundPairs
<1>8. /\ Isn \in Nat /\ SeqSpace \in Nat /\ ackPos \in Nat
      /\ curPos \in Nat /\ BufferSize \in Nat \ {0}
  <2>1. /\ Isn \in Nat /\ SeqSpace \in Nat /\ ackPos \in 1 .. sndNxt + 1
        /\ curPos \in 1 .. sndNxt
    BY <1>1, WindowPositions
  <2> HIDE DEF ackPos, curPos
  <2>2. QED
    BY <1>1, <2>1, RecvAssumption
<1>9. ~AtWrap' => ~AtWrap
  <2>1. /\ arrived \in Nat /\ arrived' \in Nat /\ arrived <= arrived'
        /\ Isn \in Nat /\ SeqSpace \in Nat
    BY <1>1, <1>5, <1>8, Zenon
  <2>2. Isn + arrived >= SeqSpace => Isn + arrived' >= SeqSpace
    <3>1. \A a, b, n, m \in Nat : a <= b /\ n + a >= m => n + b >= m
      OBVIOUS
    <3>2. QED
      BY <2>1, <3>1, Zenon
  <2>3. QED
    BY <2>2, Zenon DEF AtWrap
(* What a step that leaves the window alone keeps.                         *)
<1>10. ASSUME UNCHANGED window
       PROVE  /\ WindowSound'
              /\ aborted' = aborted /\ poolEmpty' = poolEmpty
              /\ pairs' = pairs /\ curPos' = curPos
              /\ AckOnlyReceived => AckOnlyReceived'
  <2>1. /\ UNCHANGED <<pairs, CurrentSeq, ack, ring, discarded>>
        /\ aborted' = aborted /\ poolEmpty' = poolEmpty
        /\ pairs' = pairs /\ CurrentSeq' = CurrentSeq /\ ack' = ack
    BY <1>10 DEF window
  <2>2. WindowSound'
    <3>1. SoundPairs \subseteq SoundPairs' /\ sndNxt <= sndNxt'
      BY <1>1, <1>4, <1>7
    <3>2. aborted' \in BOOLEAN /\ poolEmpty' \in BOOLEAN
      BY <1>1, <2>1, Zenon
    <3>3. QED
      BY <1>1, <1>3, <1>4, <2>1, <3>1, <3>2, WindowKept
  <2>3. curPos' = curPos /\ ackPos' = ackPos
    BY <2>1, Zenon DEF curPos, ackPos, PositionOf
  <2>4. AckOnlyReceived => AckOnlyReceived'
    BY <1>1, <1>4, <1>5, <1>8, <2>3, AckStays
  <2>5. QED
    BY <2>1, <2>2, <2>3, <2>4, Zenon
<1>11. ASSUME inOrder, ~AtWrap
       PROVE  AckOnlyReceived /\ ~oversized /\ ~poolEmpty
  BY <1>1, <1>3, <1>11, Zenon DEF InOrderService
<1>12. CASE /\ tcp_established(s) /\ (s.len > 0 \/ s.fin)
            /\ Isn + seg.pos + seg.len < SeqSpace
  <2>1. /\ state = "ESTABLISHED" /\ state' = IF s.fin THEN "FIN_2" ELSE state
        /\ need_ack_now' = TRUE /\ PushData(s)
    BY <1>12, Zenon DEF tcp_established
  <2>2. s \in SoundPairs
    BY <1>2, <1>12, Zenon
  <2>3. UNCHANGED <<readPos, sndNxt, peerClosed>>
    BY <1>3, <1>4
  <2>4. WindowSound'
    BY <2>1, <2>2, <2>3, PushDataSound
  <2>5. state' \in States /\ need_ack_now' \in BOOLEAN
    BY <1>1, <2>1 DEF States
  <2>6. ASSUME inOrder', ~AtWrap'
        PROVE  /\ AckOnlyReceived'
               /\ aborted' <=> oversized' \/ poolEmpty'
               /\ ~aborted' => pairs' = <<>> /\ curPos' = arrived'
    <3>1. inOrder /\ seg.pos <= arrived /\ ~AtWrap
      BY <1>3, <1>9, <2>6, Zenon
    <3>2. /\ pairs = <<>> /\ curPos = arrived /\ AckOnlyReceived
          /\ ~oversized /\ ~poolEmpty
      BY <1>1, <1>3, <1>11, <2>1, <3>1, Zenon DEF InOrderService
    <3>3. /\ s.pos <= arrived
          /\ arrived' = IF s.pos <= arrived /\ arrived < s.pos + s.len
                        THEN s.pos + s.len ELSE arrived
      BY <1>2, <1>3, <3>1, Zenon
    <3>4. /\ AckOnlyReceived'
          /\ aborted' <=> Overflows(s) \/ poolEmpty'
          /\ ~aborted' => pairs' = <<>> /\ curPos' = arrived'
      BY <1>1, <1>3, <2>1, <2>2, <2>3, <3>2, <3>3, PushDataInOrder
    <3>5. Overflows(s) <=> Overflows(seg)
      BY <1>2, Zenon DEF Overflows
    <3>6. QED
      BY <1>3, <2>1, <3>2, <3>4, <3>5, Zenon
  <2>7. InOrderService'
    BY <2>6, Zenon DEF InOrderService
  <2>8. QED
    BY <1>1, <1>3, <1>4, <1>5, <1>6, <2>4, <2>5, <2>7, Reassembled
(* A segment that reaches the end of the number space is dropped; in order *)
(* it takes the stream there.                                              *)
<1>13. CASE /\ tcp_established(s) /\ (s.len > 0 \/ s.fin)
            /\ ~(Isn + seg.pos + seg.len < SeqSpace)
  <2>1. /\ state = "ESTABLISHED" /\ state' = IF s.fin THEN "FIN_2" ELSE state
        /\ need_ack_now' = TRUE /\ PushData(s)
    BY <1>13, Zenon DEF tcp_established
  <2>2. UNCHANGED window
    BY <1>2, <1>13, <2>1, Zenon DEF PushData
  <2>3. state' \in States /\ need_ack_now' \in BOOLEAN
    BY <1>1, <2>1 DEF States
  <2>4. inOrder' => AtWrap'
    <3>1. SUFFICES ASSUME inOrder'
                   PROVE  AtWrap'
      OBVIOUS
    <3>2. seg.pos <= arrived
      BY <1>3, <3>1, Zenon
    <3>3. arrived' >= seg.pos + seg.len
      BY <1>1, <1>2, <1>3, <3>2
    <3>4. Isn + arrived' >= SeqSpace
      <4>1. /\ seg.pos \in Nat /\ seg.len \in Nat /\ arrived' \in Nat
            /\ Isn \in Nat /\ SeqSpace \in Nat
            /\ ~(Isn + seg.pos + seg.len < SeqSpace)
        BY <1>2, <1>5, <1>8, <1>13, Zenon
      <4>2. \A a, b, c, n, m \in Nat :
              a >= b + c /\ ~(n + b + c < m) => n + a >= m
        OBVIOUS
      <4>3. QED
        BY <3>3, <4>1, <4>2, Zenon
    <3>5. QED
      BY <3>4 DEF AtWrap
  <2>5. InOrderService'
    BY <2>4, Zenon DEF InOrderService
  <2>6. WindowSound'
    BY <1>10, <2>2, Zenon
  <2>7. QED
    BY <1>1, <1>3, <1>4, <1>5, <1>6, <2>3, <2>5, <2>6, Reassembled
<1>14. CASE tcp_established(s) /\ ~(s.len > 0 \/ s.fin)
  <2>1. /\ state = "ESTABLISHED" /\ state' = state
        /\ need_ack_now' = need_ack_now /\ UNCHANGED window
    <3>1. /\ state = "ESTABLISHED" /\ state' = IF s.fin THEN "FIN_2" ELSE state
          /\ UNCHANGED <<need_ack_now, window>>
      BY <1>14, Zenon DEF tcp_established
    <3>2. UNCHANGED window /\ need_ack_now' = need_ack_now
      BY <3>1
    <3>3. ~s.fin
      BY <1>14, Zenon
    <3>4. QED
      BY <3>1, <3>2, <3>3, Zenon
  <2>2. seg.len = 0
    <3>1. ~(seg.len > 0)
      BY <1>2, <1>14, Zenon
    <3>2. QED
      BY <1>2, <3>1
  <2>3. arrived' = arrived
    <3>1. ~(seg.pos <= arrived /\ arrived < seg.pos + seg.len)
      BY <1>1, <1>2, <2>2
    <3>2. QED
      BY <1>3, <3>1, Zenon
  <2>4. oversized' = oversized
    <3>1. ~(seg.pos <= curPos /\ seg.pos + seg.len >= curPos + BufferSize)
      <4> HIDE DEF curPos
      <4>1. QED
        BY <1>2, <1>8, <2>2
    <3>2. ~Overflows(seg)
      BY <3>1, Zenon DEF Overflows
    <3>3. QED
      BY <1>1, <1>3, <3>2, Zenon
  <2>5. InOrderService'
    <3>1. SUFFICES ASSUME inOrder', ~AtWrap'
                   PROVE  /\ AckOnlyReceived'
                          /\ ~aborted' /\ ~oversized' /\ ~poolEmpty'
                          /\ pairs' = <<>> /\ curPos' = arrived'
      BY Zenon DEF InOrderService
    <3>2. inOrder /\ ~AtWrap
      BY <1>3, <1>9, <3>1, Zenon
    <3>3. pairs = <<>> /\ curPos = arrived
      BY <1>1, <1>3, <2>1, <3>2, Zenon DEF InOrderService
    <3>4. ~aborted /\ ~oversized /\ ~poolEmpty /\ AckOnlyReceived
      BY <1>3, <1>11, <3>2, Zenon
    <3>5. /\ aborted' = aborted /\ poolEmpty' = poolEmpty
          /\ pairs' = pairs /\ curPos' = curPos /\ AckOnlyReceived'
      BY <1>10, <2>1, <3>4, Zenon
    <3>6. QED
      BY <2>3, <2>4, <3>3, <3>4, <3>5, Zenon
  <2>6. WindowSound'
    BY <1>10, <2>1, Zenon
  <2>7. QED
    BY <1>1, <1>3, <1>4, <1>5, <1>6, <2>1, <2>5, <2>6, Reassembled
<1>15. CASE tcp_fin2 \/ tcp_closed
  <2>1. /\ state # "ESTABLISHED" /\ state' \in {"CLOSED", "REMOVED"}
        /\ need_ack_now' = need_ack_now /\ UNCHANGED window
    BY <1>15 DEF tcp_fin2, tcp_closed
  <2>2. state' \in States /\ state' # "ESTABLISHED"
    BY <2>1 DEF States
  <2>3. oversized' = oversized
    BY <1>1, <1>3, <2>1, Zenon
  <2>4. InOrderService'
    <3>1. SUFFICES ASSUME inOrder', ~AtWrap'
                   PROVE  /\ AckOnlyReceived'
                          /\ ~aborted' /\ ~oversized' /\ ~poolEmpty'
      BY <2>2, Zenon DEF InOrderService
    <3>2. inOrder /\ ~AtWrap
      BY <1>3, <1>9, <3>1, Zenon
    <3>3. ~aborted /\ ~oversized /\ ~poolEmpty /\ AckOnlyReceived
      BY <1>3, <1>11, <3>2, Zenon
    <3>4. aborted' = aborted /\ poolEmpty' = poolEmpty /\ AckOnlyReceived'
      BY <1>10, <2>1, <3>3, Zenon
    <3>5. QED
      BY <2>3, <3>3, <3>4, Zenon
  <2>5. WindowSound'
    BY <1>10, <2>1, Zenon
  <2>6. QED
    BY <1>1, <1>3, <1>4, <1>5, <1>6, <2>1, <2>2, <2>4, <2>5, Reassembled
<1>16. QED
  BY <1>3, <1>12, <1>13, <1>14, <1>15, Zenon

LEMMA SocketReadIInv ==
  ASSUME IInv, SocketRead
  PROVE  IInv'
<1>1. /\ TypeOK /\ InStream /\ RingFollows /\ WindowSound /\ InOrderService
      /\ state \in States /\ need_ack_now \in BOOLEAN /\ inOrder \in BOOLEAN
      /\ oversized \in BOOLEAN /\ aborted \in BOOLEAN /\ poolEmpty \in BOOLEAN
      /\ beyond \in BOOLEAN
      /\ readPos \in Positions /\ sndNxt \in Positions
      /\ arrived \in Positions /\ una \in Positions
      /\ peerClosed \in BOOLEAN
      /\ arrived <= sndNxt /\ sndNxt <= StreamBound + 1
      /\ sndNxt \in Nat /\ arrived \in Nat
  BY Outside
<1>2. /\ ring # <<>> /\ ring' = Tail(ring)
      /\ readPos' = Head(ring).pos + Head(ring).len
      /\ UNCHANGED <<state, pairs, CurrentSeq, ack, need_ack_now, aborted,
                     discarded, inOrder, oversized, poolEmpty, beyond,
                     arrived, peer>>
  BY Zenon DEF SocketRead
<1>3. /\ state' = state /\ pairs' = pairs /\ CurrentSeq' = CurrentSeq
      /\ ack' = ack /\ need_ack_now' = need_ack_now /\ aborted' = aborted
      /\ discarded' = discarded /\ inOrder' = inOrder /\ arrived' = arrived
      /\ oversized' = oversized /\ poolEmpty' = poolEmpty /\ beyond' = beyond
      /\ sndNxt' = sndNxt /\ peerClosed' = peerClosed /\ una' = una
  BY <1>2 DEF peer
<1>4. curPos' = curPos /\ ackPos' = ackPos
  BY <1>3, Zenon DEF curPos, ackPos, PositionOf
<1>5. /\ curPos \in 1 .. sndNxt /\ StreamBound \in Nat
      /\ sndNxt \in 1 .. StreamBound + 1 /\ readPos \in Nat
  BY <1>1, WindowPositions
<1>6. ring \in Seq(Messages)
  BY <1>1, Zenon DEF WindowSound
<1>7. Follows(ring, readPos, curPos, discarded)
  BY <1>1, Zenon DEF RingFollows
<1>8. RingFollows' /\ ring' \in Seq(Messages)
  <2>1. curPos \in Nat
    BY <1>5
  <2>2. Follows(Tail(ring), Head(ring).pos + Head(ring).len, curPos, discarded)
    BY <1>2, <1>5, <1>6, <1>7, <2>1, RingRead
  <2>3. ring' \in Seq(Messages)
    BY <1>2, <1>6, HeadTailProperties
  <2>4. QED
    BY <1>2, <1>3, <1>4, <2>2, <2>3, Zenon DEF RingFollows
<1>9. readPos' \in Positions
  <2>1. Len(ring) \in Nat /\ Len(ring) # 0 /\ Head(ring) = ring[1]
    BY <1>2, <1>6, EmptySeq, LenProperties
  <2>2. 1 \in 1 .. Len(ring)
    BY <2>1
  <2>3. /\ EndOf(ring, readPos, 1) = ring[1].pos + ring[1].len
        /\ ring[1].pos \in Nat /\ ring[1].len \in Nat \ {0}
    BY <1>5, <1>6, <2>2, EndsArePositions
  <2>4. EndOf(ring, readPos, 1) <= curPos
    BY <1>7, <2>2, Zenon DEF Follows
  <2>5. readPos' = ring[1].pos + ring[1].len
    BY <1>2, <2>1
  <2>6. readPos' <= curPos /\ readPos' \in Nat \ {0}
    <3>1. readPos' <= curPos
      BY <2>3, <2>4, <2>5, Zenon
    <3>2. readPos' \in Nat \ {0}
      BY <2>3, <2>5
    <3>3. QED
      BY <3>1, <3>2
  <2>7. curPos \in Nat /\ curPos <= StreamBound + 1
    BY <1>5
  <2> HIDE DEF curPos
  <2>8. QED
    BY <1>5, <2>6, <2>7 DEF Positions
<1>10. WindowSound'
  <2>1. SoundPairs' = SoundPairs
    BY <1>3 DEF SoundPairs
  <2>2. QED
    BY <1>1, <1>3, <1>4, <1>8, <2>1, Zenon DEF WindowSound
<1>11. InOrderService'
  <2>1. AckOnlyReceived => AckOnlyReceived'
    BY <1>3, <1>4 DEF AckOnlyReceived
  <2>2. AtWrap' <=> AtWrap
    BY <1>3, Zenon DEF AtWrap
  <2>3. QED
    BY <1>1, <1>3, <1>4, <2>1, <2>2, Zenon DEF InOrderService
<1>12. QED
  BY <1>1, <1>3, <1>9, <1>10, <1>11, Reassembled

LEMMA SendAckNowIInv ==
  ASSUME IInv, SendAckNow
  PROVE  IInv'
<1>1. /\ TypeOK /\ InStream /\ RingFollows /\ WindowSound /\ InOrderService
      /\ state \in States /\ need_ack_now \in BOOLEAN /\ inOrder \in BOOLEAN
      /\ oversized \in BOOLEAN /\ aborted \in BOOLEAN /\ poolEmpty \in BOOLEAN
      /\ beyond \in BOOLEAN
      /\ readPos \in Positions /\ sndNxt \in Positions
      /\ arrived \in Positions /\ una \in Positions
      /\ peerClosed \in BOOLEAN
      /\ arrived <= sndNxt /\ sndNxt <= StreamBound + 1
      /\ sndNxt \in Nat /\ arrived \in Nat
  BY Outside
<1>2. /\ need_ack_now' = FALSE
      /\ una' \in {una} \union {p \in Positions : p = ackPos /\ p > una}
      /\ UNCHANGED <<state, window, readPos, inOrder, oversized, beyond,
                     arrived, sndNxt, peerClosed>>
  BY Zenon DEF SendAckNow
<1>3. /\ state' = state /\ UNCHANGED window /\ readPos' = readPos
      /\ inOrder' = inOrder /\ arrived' = arrived /\ sndNxt' = sndNxt
      /\ oversized' = oversized /\ beyond' = beyond
      /\ peerClosed' = peerClosed
  BY <1>2
<1>4. una' \in Positions
  BY <1>1, <1>2
<1>5. WindowSound' /\ InOrderService'
  <2>1. SoundPairs \subseteq SoundPairs' /\ sndNxt <= sndNxt' /\ sndNxt' \in Nat
    BY <1>1, <1>3 DEF SoundPairs
  <2>2. /\ pairs' = pairs /\ CurrentSeq' = CurrentSeq /\ ack' = ack
        /\ aborted' = aborted /\ poolEmpty' = poolEmpty
        /\ UNCHANGED <<pairs, CurrentSeq, ack, ring, discarded>>
    BY <1>3 DEF window
  <2>3. aborted' \in BOOLEAN /\ poolEmpty' \in BOOLEAN
    BY <1>1, <2>2, Zenon
  <2>4. WindowSound'
    BY <1>1, <1>3, <2>1, <2>2, <2>3, WindowKept
  <2>5. curPos' = curPos /\ ackPos' = ackPos
    BY <2>2, Zenon DEF curPos, ackPos, PositionOf
  <2>6. AckOnlyReceived => AckOnlyReceived'
    BY <1>3, <2>5 DEF AckOnlyReceived
  <2>7. AtWrap' <=> AtWrap
    BY <1>3, Zenon DEF AtWrap
  <2>8. InOrderService'
    BY <1>1, <1>3, <2>2, <2>5, <2>6, <2>7, Zenon DEF InOrderService
  <2>9. QED
    BY <2>4, <2>8
<1>6. need_ack_now' \in BOOLEAN
  BY <1>2
<1>7. QED
  BY <1>1, <1>3, <1>4, <1>5, <1>6, Reassembled

(* The peer only sends before its FIN, so no queued segment holds the FIN  *)
(* when the stream grows.                                                  *)
LEMMA PeerIInv ==
  ASSUME IInv, PeerSends \/ PeerCloses
  PROVE  IInv'
<1>1. /\ TypeOK /\ InStream /\ RingFollows /\ WindowSound /\ InOrderService
      /\ state \in States /\ need_ack_now \in BOOLEAN /\ inOrder \in BOOLEAN
      /\ oversized \in BOOLEAN /\ aborted \in BOOLEAN /\ poolEmpty \in BOOLEAN
      /\ beyond \in BOOLEAN
      /\ readPos \in Positions /\ sndNxt \in Positions
      /\ arrived \in Positions /\ una \in Positions
      /\ peerClosed \in BOOLEAN
      /\ arrived <= sndNxt /\ sndNxt <= StreamBound + 1
      /\ sndNxt \in Nat /\ arrived \in Nat
  BY Outside
<1>2. /\ UNCHANGED <<state, window, need_ack_now, readPos, inOrder, oversized,
                     beyond, arrived, una>>
      /\ ~peerClosed
  BY Zenon DEF PeerSends, PeerCloses
<1>3. /\ state' = state /\ UNCHANGED window /\ need_ack_now' = need_ack_now
      /\ readPos' = readPos /\ inOrder' = inOrder /\ arrived' = arrived
      /\ una' = una /\ oversized' = oversized /\ beyond' = beyond
  BY <1>2
<1>4. /\ sndNxt' \in Positions /\ sndNxt' \in Nat /\ sndNxt <= sndNxt'
      /\ sndNxt' <= StreamBound + 1
      /\ peerClosed' \in BOOLEAN
  <2>1. CASE PeerSends
    <3>1. PICK len \in 1 .. MaxLen : /\ sndNxt + len <= StreamBound + 1
                                     /\ sndNxt' = sndNxt + len
      BY <2>1 DEF PeerSends
    <3>2. peerClosed' = peerClosed
      BY <2>1 DEF PeerSends
    <3>3. StreamBound \in Nat /\ MaxLen \in Nat
      BY RecvAssumption
    <3>4. QED
      BY <1>1, <3>1, <3>2, <3>3 DEF Positions
  <2>2. CASE PeerCloses
    <3>1. sndNxt' = sndNxt /\ peerClosed' = TRUE
      BY <2>2 DEF PeerCloses
    <3>2. QED
      BY <1>1, <3>1
  <2>3. QED
    BY <2>1, <2>2
<1>5. ASSUME NEW p \in SoundPairs
      PROVE  p \in SoundPairs'
  <2>1. /\ p \in Pair /\ p.seq = Isn + p.pos /\ p.pos + p.len <= sndNxt
        /\ Isn + p.pos + p.len < SeqSpace
        /\ p.fin => peerClosed
        /\ p.len = 0 => p.fin
    BY DEF SoundPairs
  <2>2. p.pos + p.len <= sndNxt'
    <3>1. p.pos \in Nat /\ p.len \in Nat
      BY <2>1, RecvAssumption DEF Pair, Positions
    <3>2. QED
      BY <1>1, <1>4, <2>1, <3>1
  <2>3. ~p.fin
    BY <1>2, <2>1, Zenon
  <2>4. QED
    BY <2>1, <2>2, <2>3, Zenon DEF SoundPairs, Pair, Positions
<1>6. /\ pairs' = pairs /\ CurrentSeq' = CurrentSeq /\ ack' = ack
      /\ aborted' = aborted /\ poolEmpty' = poolEmpty
      /\ UNCHANGED <<pairs, CurrentSeq, ack, ring, discarded>>
  BY <1>3 DEF window
<1>7. WindowSound' /\ InOrderService'
  <2>1. SoundPairs \subseteq SoundPairs'
    BY <1>5
  <2>2. aborted' \in BOOLEAN /\ poolEmpty' \in BOOLEAN
    BY <1>1, <1>6, Zenon
  <2>3. WindowSound'
    BY <1>1, <1>3, <1>4, <1>6, <2>1, <2>2, WindowKept
  <2>4. curPos' = curPos /\ ackPos' = ackPos
    BY <1>6, Zenon DEF curPos, ackPos, PositionOf
  <2>5. AckOnlyReceived => AckOnlyReceived'
    BY <1>2, <1>3, <2>4 DEF AckOnlyReceived
  <2>6. AtWrap' <=> AtWrap
    BY <1>3, Zenon DEF AtWrap
  <2>7. InOrderService'
    BY <1>1, <1>3, <1>6, <2>4, <2>5, <2>6, Zenon DEF InOrderService
  <2>8. QED
    BY <2>3, <2>7
<1>8. arrived' <= sndNxt'
  BY <1>1, <1>3, <1>4
<1>9. QED
  BY <1>1, <1>3, <1>4, <1>7, <1>8, Reassembled

LEMMA StutterIInv ==
  ASSUME IInv, UNCHANGED vars
  PROVE  IInv'
<1>1. UNCHANGED <<state, window, need_ack_now, readPos, inOrder, oversized,
                  beyond, arrived, peer>>
  BY DEF vars
<1>2. /\ state' = state /\ need_ack_now' = need_ack_now /\ readPos' = readPos
      /\ inOrder' = inOrder /\ arrived' = arrived
      /\ pairs' = pairs /\ CurrentSeq' = CurrentSeq /\ ack' = ack /\ ring' = ring
      /\ aborted' = aborted /\ discarded' = discarded
      /\ oversized' = oversized /\ poolEmpty' = poolEmpty /\ beyond' = beyond
      /\ sndNxt' = sndNxt /\ peerClosed' = peerClosed /\ una' = una
  BY <1>1 DEF window, peer
<1>3. TypeOK'
  BY <1>2 DEF IInv, TypeOK
<1>4. curPos' = curPos /\ ackPos' = ackPos
  BY <1>2, Zenon DEF curPos, ackPos, PositionOf
<1>5. InStream'
  <2>1. SoundPairs' = SoundPairs
    BY <1>2 DEF SoundPairs
  <2>2. QED
    BY <1>2, <1>4, <2>1 DEF IInv, InStream
<1>6. StreamIntegrity' /\ RingFollows'
  BY <1>2, <1>4 DEF IInv, StreamIntegrity, RingFollows
<1>7. InOrderService'
  BY <1>2, <1>4 DEF IInv, InOrderService, AckOnlyReceived, AtWrap
<1>8. QED
  BY <1>3, <1>5, <1>6, <1>7, Zenon DEF IInv

LEMMA IInvHolds ==
  ASSUME NotLast
  PROVE  Spec => []IInv
<1>1. Init => IInv
  BY InitIInv
<1>2. ASSUME IInv, [Next]_vars
      PROVE  IInv'
  <2>1. ASSUME NEW seg \in Segments, Arrive(seg)
        PROVE  IInv'
    BY <1>2, <2>1, ArriveIInv
  <2>2. CASE SendAckNow
    BY <1>2, <2>2, SendAckNowIInv
  <2>3. CASE SocketRead
    BY <1>2, <2>3, SocketReadIInv
  <2>4. CASE PeerSends \/ PeerCloses
    BY <1>2, <2>4, PeerIInv
  <2>5. CASE UNCHANGED vars
    BY <1>2, <2>5, StutterIInv
  <2>6. QED
    BY <1>2, <2>1, <2>2, <2>3, <2>4, <2>5, Zenon DEF Next
<1>3. QED
  BY <1>1, <1>2, PTL DEF Spec
-----------------------------------------------------------------------------
(* The queue, in whatever order segments come.                             *)

(* The first test of PushData lets through what ends before the queue or   *)
(* starts behind its first pair, and then it ends far beyond that.         *)
LEMMA PassesTheTest ==
  ASSUME TypeOK, InStream, pairs # <<>>,
         NEW seg \in SoundPairs, ~OutOfWindow(seg)
  PROVE  \/ SeqEnd(seg) < Head(pairs).seq
         \/ Head(pairs).seq < seg.seq /\ FarBeyond(seg)
<1> DEFINE first == Head(pairs)
<1>1. /\ Isn \in Nat /\ StreamBound \in Nat /\ SeqSpace \in Nat /\ MaxLen \in Nat
      /\ StreamBound + 2 < SeqSpace /\ Isn < SeqSpace
      /\ sndNxt \in 1 .. StreamBound + 1
  BY WindowPositions
<1>2. sndNxt \in Nat /\ sndNxt <= StreamBound + 1
  BY <1>1
<1>3. /\ seg.pos \in Positions /\ seg.len \in 0 .. MaxLen
      /\ seg.seq = Isn + seg.pos /\ SeqEnd(seg) = Isn + seg.pos + seg.len
      /\ seg.pos + seg.len <= sndNxt
  BY <1>2, SoundFields
<1>4. first \in SoundPairs
  BY HeadTailProperties DEF InStream
<1> HIDE DEF first
<1>5. first.pos \in Positions /\ first.seq = Isn + first.pos
  BY <1>2, <1>4, SoundFields
<1>6. /\ seg.pos \in Nat /\ seg.len \in Nat /\ first.pos \in Nat
      /\ CurrentSize \in Nat /\ MaxLen < CurrentSize
  BY <1>1, <1>3, <1>5, RecvAssumption DEF Positions
<1>7. SUFFICES ASSUME ~(SeqEnd(seg) < first.seq)
               PROVE  first.seq < seg.seq /\ FarBeyond(seg)
  BY DEF first
<1>8. /\ seg.seq - first.seq + seg.len \in 0 .. SeqSpace - 1
      /\ seg.seq - first.seq + seg.len = (seg.pos - first.pos) + seg.len
  <2>1. seg.seq - first.seq = seg.pos - first.pos
    BY <1>1, <1>3, <1>5, <1>6
  <2>2. ~(seg.pos + seg.len < first.pos)
    <3>1. ~(Isn + seg.pos + seg.len < Isn + first.pos)
      BY <1>3, <1>5, <1>7
    <3>2. QED
      BY <1>1, <1>6, <3>1
  <2>3. (seg.pos - first.pos) + seg.len \in 0 .. SeqSpace - 1
    <3>1. seg.pos + seg.len <= StreamBound + 1 /\ first.pos \in Nat \ {0}
      BY <1>1, <1>2, <1>3, <1>5, <1>6 DEF Positions
    <3>2. QED
      BY <1>1, <1>6, <2>2, <3>1
  <2>4. QED
    BY <2>1, <2>3
<1>9. ~ ((seg.seq - first.seq + seg.len) % SeqSpace < CurrentSize)
  BY Zenon DEF OutOfWindow, first
<1>10. ~ ((seg.pos - first.pos) + seg.len < CurrentSize)
  <2>1. \A M \in Nat \ {0} : \A r \in 0 .. M - 1 : r % M = r
    BY SmallResidue
  <2>2. SeqSpace \in Nat \ {0}
    BY <1>1
  <2>3. (seg.seq - first.seq + seg.len) % SeqSpace
        = seg.seq - first.seq + seg.len
    BY <1>8, <2>1, <2>2, Zenon
  <2>4. QED
    BY <1>8, <1>9, <2>3, Zenon
<1>11. first.pos < seg.pos /\ seg.pos + seg.len >= first.pos + CurrentSize
  BY <1>1, <1>3, <1>6, <1>10
<1>12. FarBeyond(seg)
  BY <1>11, Zenon DEF FarBeyond, first
<1>13. QED
  BY <1>1, <1>3, <1>5, <1>6, <1>11, <1>12

(* After AdjustPair the list ascends, and only the new segment can be      *)
(* ready: if it is, it is the first, and ends before all the others start. *)
LEMMA OnlyTheNewIsReady ==
  ASSUME TypeOK, InStream, QueueWaits,
         NEW seg \in SoundPairs, ~OutOfWindow(seg),
         ~MergeFails(InsertPair(pairs, seg))
  PROVE  LET m == Merge(InsertPair(pairs, seg))
         IN  /\ m \in Seq(SoundPairs) /\ m # <<>>
             /\ \A a, b \in 1 .. Len(m) : a < b => m[a].seq < m[b].seq
             /\ \A a \in 1 .. Len(m) : m[a] = seg \/ CurrentSeq < m[a].seq
             /\ Ready(m[1]) =>
                  m[1] = seg /\ \A a \in 2 .. Len(m) : SeqEnd(seg) < m[a].seq
<1> DEFINE list == InsertPair(pairs, seg)
           m == Merge(list)
<1>1. SoundPairs \subseteq Pair /\ pairs \in Seq(SoundPairs) /\ seg \in SoundPairs
  BY DEF SoundPairs, InStream
<1>2. /\ \A i, j \in 1 .. Len(pairs) : i < j => pairs[i].seq < pairs[j].seq
      /\ \A i \in 1 .. Len(pairs) : CurrentSeq < pairs[i].seq
  BY Zenon DEF QueueWaits
<1>3. /\ list \in Seq(SoundPairs) /\ list # <<>>
      /\ \A i \in 1 .. Len(list) :
           list[i] = seg \/ \E j \in 1 .. Len(pairs) : list[i] = pairs[j]
  BY <1>1, InsertPairMembers
<1>4. \A i, j \in 1 .. Len(list) : i < j => list[i].seq <= list[j].seq
  BY <1>1, <1>2, InsertPairOrder
<1> HIDE DEF list
<1>5. ~MergeFails(list)
  BY DEF list
<1>6. /\ m \in Seq(SoundPairs) /\ m # <<>>
      /\ \A j \in 1 .. Len(m) : \E i \in 1 .. Len(list) : m[j] = list[i]
  BY <1>1, <1>3, <1>5, MergeMembers
<1>7. \A a, b \in 1 .. Len(m) : a < b => m[a].seq < m[b].seq
  BY <1>1, <1>3, <1>4, <1>5, MergeOrder
<1> HIDE DEF m
<1>8. \A a \in 1 .. Len(m) :
        m[a] = seg \/ \E j \in 1 .. Len(pairs) : m[a] = pairs[j]
  BY <1>3, <1>6, Zenon
<1>9. \A a \in 1 .. Len(m) : m[a] = seg \/ CurrentSeq < m[a].seq
  BY <1>2, <1>8
<1>10. /\ Isn \in Nat /\ StreamBound \in Nat /\ SeqSpace \in Nat
       /\ sndNxt \in Nat /\ sndNxt <= StreamBound + 1
       /\ CurrentSeq \in Nat
  <2>1. /\ Isn \in Nat /\ StreamBound \in Nat /\ SeqSpace \in Nat
        /\ sndNxt \in 1 .. StreamBound + 1
    BY WindowPositions
  <2>2. CurrentSeq \in 0 .. SeqSpace - 1
    BY DEF TypeOK
  <2>3. QED
    BY <2>1, <2>2
<1>11. \A p \in SoundPairs : p.seq \in Nat /\ SeqEnd(p) \in Nat
  <2>1. ASSUME NEW p \in SoundPairs
        PROVE  p.seq \in Nat /\ SeqEnd(p) \in Nat
    <3>1. /\ p.pos \in Positions /\ p.len \in 0 .. MaxLen
          /\ p.seq = Isn + p.pos /\ SeqEnd(p) = Isn + p.pos + p.len
      BY <1>10, SoundFields
    <3>2. p.pos \in Nat /\ p.len \in Nat
      BY <1>10, <3>1, RecvAssumption DEF Positions
    <3>3. QED
      BY <1>10, <3>1, <3>2
  <2>2. QED
    BY <2>1
<1>12. /\ Len(m) \in Nat \ {0} /\ \A a \in 1 .. Len(m) : m[a] \in SoundPairs
       /\ Len(pairs) \in Nat
       /\ \A j \in 1 .. Len(pairs) : pairs[j] \in SoundPairs
  <2>1. /\ Len(m) \in Nat /\ \A a \in 1 .. Len(m) : m[a] \in SoundPairs
        /\ Len(pairs) \in Nat
        /\ \A j \in 1 .. Len(pairs) : pairs[j] \in SoundPairs
    BY <1>1, <1>6, LenProperties
  <2>2. Len(m) # 0
    BY <1>6, EmptySeq
  <2>3. QED
    BY <2>1, <2>2
<1>13. ASSUME Ready(m[1])
       PROVE  m[1] = seg /\ \A a \in 2 .. Len(m) : SeqEnd(seg) < m[a].seq
  <2>1. 1 \in 1 .. Len(m)
    BY <1>12
  <2>2. m[1].seq <= CurrentSeq
    BY <1>13 DEF Ready
  <2>3. m[1].seq \in Nat
    BY <1>11, <1>12, <2>1
  <2>4. m[1] = seg
    <3>1. ~(CurrentSeq < m[1].seq)
      BY <1>10, <2>2, <2>3
    <3>2. QED
      BY <1>9, <2>1, <3>1
  <2>5. ASSUME NEW a \in 2 .. Len(m)
        PROVE  SeqEnd(seg) < m[a].seq
    <3>1. a \in 1 .. Len(m) /\ 1 < a
      BY <1>12
    <3>2. m[1].seq < m[a].seq /\ m[a].seq \in Nat
      BY <1>7, <1>11, <1>12, <2>1, <3>1
    <3>3. m[a] # seg
      BY <2>3, <2>4, <3>2
    <3>4. PICK j \in 1 .. Len(pairs) : m[a] = pairs[j]
      BY <1>8, <3>1, <3>3
    <3>5. pairs # <<>> /\ Head(pairs) = pairs[1] /\ 1 \in 1 .. Len(pairs)
      <4>1. Len(pairs) # 0
        BY <3>4
      <4>2. pairs # <<>>
        BY <4>1
      <4>3. Head(pairs) = pairs[1]
        BY <1>1, <4>2, HeadTailProperties
      <4>4. QED
        BY <1>12, <4>1, <4>2, <4>3
    <3>6. pairs[1].seq \in Nat /\ CurrentSeq < pairs[1].seq
      BY <1>2, <1>11, <1>12, <3>5
    <3>7. SeqEnd(seg) < pairs[1].seq
      <4>1. SeqEnd(seg) < pairs[1].seq \/ pairs[1].seq < seg.seq
        BY <3>5, PassesTheTest
      <4>2. ~(pairs[1].seq < seg.seq)
        <5>1. seg.seq <= CurrentSeq /\ seg.seq \in Nat
          BY <2>2, <2>3, <2>4
        <5>2. QED
          BY <1>10, <3>6, <5>1
      <4>3. QED
        BY <4>1, <4>2
    <3>8. pairs[1].seq <= m[a].seq
      <4>1. j = 1 \/ 1 < j
        BY <1>12
      <4>2. j = 1 \/ pairs[1].seq < pairs[j].seq
        BY <1>2, <3>5, <4>1
      <4>3. QED
        BY <3>2, <3>4, <3>6, <4>2
    <3>9. SeqEnd(seg) \in Nat
      BY <1>11
    <3>10. QED
      BY <3>2, <3>6, <3>7, <3>8, <3>9
  <2>6. QED
    BY <2>4, <2>5
<1>14. QED
  BY <1>6, <1>7, <1>9, <1>13, Zenon DEF m, list

(* Of what PushData lets through, GetData fails on a segment that brings   *)
(* more of what is missing than the buffer takes, and on no other.         *)
LEMMA GetDataHolds ==
  ASSUME TypeOK, InStream, QueueWaits,
         NEW seg \in SoundPairs, ~OutOfWindow(seg), ~Duplicate(seg),
         ~MergeFails(InsertPair(pairs, seg))
  PROVE  GetDataFails(Head(Merge(InsertPair(pairs, seg)))) <=> Overflows(seg)
<1> DEFINE r == InsertPair(pairs, seg)
           m == Merge(r)
<1>1. /\ m \in Seq(SoundPairs) /\ m # <<>>
      /\ \A a, b \in 1 .. Len(m) : a < b => m[a].seq < m[b].seq
      /\ \A a \in 1 .. Len(m) : m[a] = seg \/ CurrentSeq < m[a].seq
      /\ Ready(m[1]) => m[1] = seg
  BY OnlyTheNewIsReady
<1>2. Head(m) = m[1]
  BY <1>1, HeadTailProperties
<1>3. /\ SoundPairs \in SUBSET Pair /\ pairs \in Seq(SoundPairs)
      /\ seg \in SoundPairs
  BY DEF SoundPairs, InStream
<1>4. r \in Seq(SoundPairs) /\ Len(r) = Len(pairs) + 1 /\ Len(pairs) \in Nat
  BY <1>3, InsertPairShape, LenProperties
<1>5. PICK k \in 0 .. Len(pairs) :
        /\ \A i \in 1 .. k : pairs[i].seq <= seg.seq
        /\ r[k + 1] = seg
  BY <1>3, InsertPairShape, Zenon
<1>6. ~MergeFails(r)
  OBVIOUS
<1>7. GetDataFails(seg) <=> Overflows(seg)
  BY FailsIfTooLong
<1>8. /\ CurrentSeq \in Nat \ {0} /\ \A p \in SoundPairs : p.seq \in Nat
      /\ Overflows(seg) => seg.seq <= CurrentSeq
  <2>1. /\ Isn \in Nat /\ CurrentSeq = Isn + curPos /\ curPos \in 1 .. sndNxt
        /\ sndNxt \in Nat /\ sndNxt <= StreamBound + 1
    <3>1. /\ Isn \in Nat /\ CurrentSeq = Isn + curPos /\ curPos \in 1 .. sndNxt
          /\ sndNxt \in 1 .. StreamBound + 1 /\ StreamBound \in Nat
      BY WindowPositions
    <3>2. QED
      BY <3>1
  <2>2. seg.seq = Isn + seg.pos /\ seg.pos \in Nat
    BY <2>1, SoundFields, RecvAssumption DEF Positions
  <2>3. Overflows(seg) => seg.pos <= curPos
    BY Zenon DEF Overflows
  <2>4. \A p \in SoundPairs : p.seq \in Nat
    BY RecvAssumption DEF SoundPairs, Pair
  <2>5. curPos \in Nat \ {0}
    BY <2>1
  <2> HIDE DEF curPos
  <2>6. QED
    BY <2>1, <2>2, <2>3, <2>4, <2>5
<1> HIDE DEF r
(* A segment that is ready is the first of what the pass returns.          *)
<1>9. ASSUME Overflows(seg)
      PROVE  m[1] = seg
  <2>1. seg.seq <= CurrentSeq
    BY <1>8, <1>9, Zenon
  <2>2. k = 0
    <3>1. SUFFICES ASSUME k # 0
                   PROVE  FALSE
      OBVIOUS
    <3>2. 1 \in 1 .. k /\ 1 \in 1 .. Len(pairs)
      BY <1>4, <3>1
    <3>3. pairs[1].seq <= seg.seq /\ CurrentSeq < pairs[1].seq
      BY <1>5, <3>2 DEF QueueWaits
    <3>4. pairs[1].seq \in Nat /\ seg.seq \in Nat
      <4>1. pairs[1] \in SoundPairs
        BY <1>3, <3>2, LenProperties
      <4>2. QED
        BY <1>3, <1>8, <4>1
    <3>5. QED
      BY <1>8, <2>1, <3>3, <3>4
  <2>3. r[1] = seg /\ 1 \in 1 .. Len(r) /\ r # <<>>
    BY <1>4, <1>5, <2>2
  <2>4. Kept(r)[1]
    BY <1>3, <1>4, <2>3, KeptRule
  <2>5. PICK a \in 1 .. Len(m) : m[a] = seg
    <3>1. \E a \in 1 .. Len(m) : m[a] = r[1]
      BY <1>3, <1>4, <1>6, <2>3, <2>4, MergeKeeps
    <3>2. QED
      BY <2>3, <3>1
  <2> HIDE DEF m
  <2>6. Len(m) \in Nat /\ 1 \in 1 .. Len(m) /\ m[1] \in SoundPairs
    BY <1>1, <2>5, LenProperties
  <2>7. m[1] = seg \/ CurrentSeq < m[1].seq
    BY <1>1, <2>6
  <2>8. a = 1 \/ m[1].seq < seg.seq
    BY <1>1, <2>5, <2>6
  <2>9. m[1].seq \in Nat /\ seg.seq \in Nat
    BY <1>3, <1>8, <2>6
  <2>10. QED
    BY <1>8, <2>1, <2>5, <2>7, <2>8, <2>9
<1> HIDE DEF m
<1>10. GetDataFails(m[1]) => Ready(m[1])
  BY <1>8, Zenon DEF GetDataFails
<1>11. GetDataFails(Head(m)) <=> Overflows(seg)
  BY <1>1, <1>2, <1>7, <1>9, <1>10, Zenon
<1>12. QED
  BY <1>11 DEF m, r

(* A step of PushData keeps the queue waiting.                             *)
LEMMA PushDataQueueWaits ==
  ASSUME TypeOK, InStream, QueueWaits,
         NEW seg \in SoundPairs, PushData(seg)
  PROVE  QueueWaits'
<1> DEFINE list == InsertPair(pairs, seg)
           m == Merge(list)
<1>1. CASE UNCHANGED <<pairs, CurrentSeq>>
  BY <1>1, Zenon DEF QueueWaits
<1>2. CASE ~OutOfWindow(seg) /\ ~MergeFails(list) /\ PushDataInQueue(m)
  <2>1. PushDataInQueue(m)
    BY <1>2
  <2>2. /\ m \in Seq(SoundPairs) /\ m # <<>>
        /\ \A a, b \in 1 .. Len(m) : a < b => m[a].seq < m[b].seq
        /\ \A a \in 1 .. Len(m) : m[a] = seg \/ CurrentSeq < m[a].seq
        /\ Ready(m[1]) =>
             m[1] = seg /\ \A a \in 2 .. Len(m) : SeqEnd(seg) < m[a].seq
    <3>1. ~OutOfWindow(seg) /\ ~MergeFails(InsertPair(pairs, seg))
      BY <1>2
    <3>2. QED
      BY <3>1, OnlyTheNewIsReady
  <2> HIDE DEF list, m
  <2>3. Head(m) = m[1]
    BY <2>2, HeadTailProperties
  <2>4. CASE Ready(m[1])
    <3>1. pairs' = Tail(m) /\ CurrentSeq' = SeqEnd(seg)
      BY <2>1, <2>2, <2>3, <2>4, Zenon DEF PushDataInQueue
    <3>2. /\ Len(pairs') = Len(m) - 1 /\ Len(m) \in Nat
          /\ \A i \in 1 .. Len(pairs') : pairs'[i] = m[i + 1]
      BY <2>2, <3>1, HeadTailProperties, LenProperties
    <3>3. ASSUME NEW i \in 1 .. Len(pairs')
          PROVE  CurrentSeq' < pairs'[i].seq
      <4>1. i + 1 \in 2 .. Len(m)
        BY <3>2
      <4>2. SeqEnd(seg) < m[i + 1].seq
        BY <2>2, <2>4, <4>1
      <4>3. QED
        BY <3>1, <3>2, <4>2
    <3>4. ASSUME NEW i \in 1 .. Len(pairs'), NEW j \in 1 .. Len(pairs'), i < j
          PROVE  pairs'[i].seq < pairs'[j].seq
      <4>1. i + 1 \in 1 .. Len(m) /\ j + 1 \in 1 .. Len(m) /\ i + 1 < j + 1
        BY <3>2, <3>4
      <4>2. m[i + 1].seq < m[j + 1].seq
        BY <2>2, <4>1
      <4>3. QED
        BY <3>2, <4>2
    <3>5. QED
      BY <3>3, <3>4 DEF QueueWaits
  <2>5. CASE ~Ready(m[1])
    <3>1. pairs' = m /\ CurrentSeq' = CurrentSeq
      BY <2>1, <2>3, <2>5, Zenon DEF PushDataInQueue
    <3>2. /\ Len(m) \in Nat
          /\ \A a \in 1 .. Len(m) : m[a].seq \in Nat
          /\ CurrentSeq \in Nat
      <4>1. Len(m) \in Nat /\ \A a \in 1 .. Len(m) : m[a] \in SoundPairs
        BY <2>2, LenProperties
      <4>2. /\ \A p \in SoundPairs : p.seq \in Nat
            /\ CurrentSeq \in Nat
        BY RecvAssumption DEF SoundPairs, Pair, TypeOK
      <4>3. QED
        BY <4>1, <4>2
    <3>3. ASSUME NEW i \in 1 .. Len(m)
          PROVE  CurrentSeq < m[i].seq
      <4>1. 1 \in 1 .. Len(m) /\ (i = 1 \/ 1 < i)
        BY <3>2
      <4>2. CurrentSeq < m[1].seq
        <5>1. ~(m[1].seq <= CurrentSeq)
          BY <2>5 DEF Ready
        <5>2. QED
          BY <3>2, <4>1, <5>1
      <4>3. i = 1 \/ m[1].seq < m[i].seq
        BY <2>2, <4>1
      <4>4. QED
        BY <3>2, <4>1, <4>2, <4>3
    <3>4. QED
      BY <2>2, <3>1, <3>3, Zenon DEF QueueWaits
  <2>6. QED
    BY <2>4, <2>5
<1>3. UNCHANGED window \/ UNCHANGED <<pairs, CurrentSeq, ack, ring, discarded>>
        => UNCHANGED <<pairs, CurrentSeq>>
  BY DEF window
<1>4. QED
  BY <1>1, <1>2, <1>3, PushDataCases, Zenon

(* AdjustPair keeps the pair that was the first of the queue.              *)
LEMMA FirstPairKept ==
  ASSUME TypeOK, InStream, pairs # <<>>,
         NEW seg \in SoundPairs, ~OutOfWindow(seg),
         ~MergeFails(InsertPair(pairs, seg))
  PROVE  LET m == Merge(InsertPair(pairs, seg))
         IN  \E a \in 1 .. Len(m) : m[a] = Head(pairs)
<1> DEFINE r == InsertPair(pairs, seg)
           m == Merge(r)
           first == Head(pairs)
<1>1. /\ SoundPairs \in SUBSET Pair /\ pairs \in Seq(SoundPairs)
      /\ seg \in SoundPairs
  BY DEF SoundPairs, InStream
<1>2. /\ r \in Seq(SoundPairs) /\ Len(r) = Len(pairs) + 1
  BY <1>1, InsertPairShape
<1>3. /\ Len(pairs) \in Nat \ {0} /\ first = pairs[1]
      /\ first \in SoundPairs
  <2>1. Len(pairs) \in Nat /\ Len(pairs) # 0
    BY <1>1, LenProperties, EmptySeq
  <2>2. first = pairs[1] /\ first \in SoundPairs
    BY <1>1, HeadTailProperties
  <2>3. QED
    BY <2>1, <2>2
<1>4. PICK k \in 0 .. Len(pairs) :
        /\ \A i \in 1 .. k : pairs[i].seq <= seg.seq
        /\ k < Len(pairs) => pairs[k + 1].seq > seg.seq
        /\ \A i \in 1 .. k : r[i] = pairs[i]
        /\ r[k + 1] = seg
        /\ \A i \in k + 1 .. Len(pairs) : r[i + 1] = pairs[i]
  BY <1>1, InsertPairShape, Zenon
<1>5. SeqEnd(seg) < first.seq \/ first.seq < seg.seq
  BY PassesTheTest
<1>6. ~MergeFails(r)
  OBVIOUS
<1> HIDE DEF r, first
<1>7. r # <<>>
  BY <1>2, <1>3
<1>8. /\ seg.seq \in Nat /\ SeqEnd(seg) \in Nat /\ seg.seq <= SeqEnd(seg)
      /\ first.seq \in Nat /\ SeqEnd(first) \in Nat /\ first.seq <= SeqEnd(first)
  <2>1. /\ Isn \in Nat /\ StreamBound \in Nat
        /\ sndNxt \in Nat /\ sndNxt <= StreamBound + 1
    BY WindowPositions
  <2>2. ASSUME NEW p \in SoundPairs
        PROVE  p.seq \in Nat /\ SeqEnd(p) \in Nat /\ p.seq <= SeqEnd(p)
    <3>1. /\ p.pos \in Positions /\ p.len \in 0 .. MaxLen
          /\ p.seq = Isn + p.pos /\ SeqEnd(p) = Isn + p.pos + p.len
      BY <2>1, SoundFields
    <3>2. p.pos \in Nat /\ p.len \in Nat
      BY <2>1, <3>1, RecvAssumption DEF Positions
    <3>3. QED
      BY <2>1, <3>1, <3>2
  <2>3. QED
    BY <1>1, <1>3, <2>2
<1>9. \E i \in 1 .. Len(r) : Kept(r)[i] /\ r[i] = first
  <2>1. CASE first.seq < seg.seq
    <3>1. k # 0
      <4>1. SUFFICES ASSUME k = 0
                     PROVE  FALSE
        OBVIOUS
      <4>2. pairs[1].seq > seg.seq
        BY <1>3, <1>4, <4>1
      <4>3. QED
        BY <1>3, <1>8, <2>1, <4>2
    <3>2. 1 \in 1 .. k /\ 1 \in 1 .. Len(r)
      BY <1>2, <1>3, <3>1
    <3>3. r[1] = first
      BY <1>3, <1>4, <3>2
    <3>4. Kept(r)[1]
      BY <1>1, <1>2, <1>7, KeptRule
    <3>5. QED
      BY <3>2, <3>3, <3>4
  <2>2. CASE SeqEnd(seg) < first.seq
    <3>1. k = 0
      <4>1. SUFFICES ASSUME k # 0
                     PROVE  FALSE
        OBVIOUS
      <4>2. 1 \in 1 .. k
        BY <1>3, <4>1
      <4>3. pairs[1].seq <= seg.seq
        BY <1>4, <4>2
      <4>4. QED
        BY <1>3, <1>8, <2>2, <4>3
    <3>2. r[1] = seg
      <4>1. r[k + 1] = seg /\ k + 1 = 1
        BY <1>4, <3>1
      <4>2. QED
        BY <4>1
    <3>3. r[2] = first
      <4>1. 1 \in k + 1 .. Len(pairs) /\ 1 + 1 = 2
        BY <1>3, <3>1
      <4>2. r[1 + 1] = pairs[1]
        BY <1>4, <4>1
      <4>3. QED
        BY <1>3, <4>1, <4>2
    <3>4. 2 \in 2 .. Len(r) /\ 2 \in 1 .. Len(r) /\ 2 - 1 = 1
      BY <1>2, <1>3
    <3>5. ~Covers(r[2 - 1], r[2])
      <4>1. ~(SeqEnd(seg) >= SeqEnd(first))
        BY <1>8, <2>2
      <4>2. QED
        BY <3>2, <3>3, <3>4, <4>1 DEF Covers
    <3>6. Kept(r)[2]
      BY <1>1, <1>2, <1>7, <3>4, <3>5, KeptRule
    <3>7. QED
      BY <3>3, <3>4, <3>6
  <2>3. QED
    BY <1>5, <2>1, <2>2
<1>10. PICK i \in 1 .. Len(r) : Kept(r)[i] /\ r[i] = first
  BY <1>9
<1>11. \E a \in 1 .. Len(m) : m[a] = r[i]
  BY <1>1, <1>2, <1>6, <1>7, <1>10, MergeKeeps
<1>12. QED
  BY <1>10, <1>11 DEF m, r, first

(* A step of PushData keeps the first pair of the queue.                   *)
LEMMA PushDataKeepsFirst ==
  ASSUME TypeOK, InStream, QueueWaits, pairs # <<>>,
         NEW seg \in SoundPairs, PushData(seg)
  PROVE  \E i \in 1 .. Len(pairs') : pairs'[i] = Head(pairs)
<1> DEFINE list == InsertPair(pairs, seg)
           m == Merge(list)
           first == Head(pairs)
<1>1. /\ pairs \in Seq(SoundPairs) /\ first = pairs[1]
      /\ 1 \in 1 .. Len(pairs)
  <2>1. pairs \in Seq(SoundPairs)
    BY DEF InStream
  <2>2. Len(pairs) \in Nat /\ Len(pairs) # 0
    BY <2>1, LenProperties, EmptySeq
  <2>3. first = pairs[1]
    BY <2>1, HeadTailProperties
  <2>4. QED
    BY <2>1, <2>2, <2>3
<1> HIDE DEF first
<1>2. CASE UNCHANGED <<pairs, CurrentSeq>>
  BY <1>1, <1>2 DEF first
<1>3. CASE ~OutOfWindow(seg) /\ ~MergeFails(list) /\ PushDataInQueue(m)
  <2>1. PushDataInQueue(m)
    BY <1>3
  <2>2. ~OutOfWindow(seg) /\ ~MergeFails(InsertPair(pairs, seg))
    BY <1>3
  <2>3. /\ m \in Seq(SoundPairs) /\ m # <<>>
        /\ Ready(m[1]) => m[1] = seg
    BY <2>2, OnlyTheNewIsReady
  <2>4. PICK a \in 1 .. Len(m) : m[a] = first
    BY <2>2, FirstPairKept DEF first
  <2> HIDE DEF list, m
  <2>5. Head(m) = m[1]
    BY <2>3, HeadTailProperties
  <2>6. CASE Ready(m[1])
    <3>1. pairs' = Tail(m)
      BY <2>1, <2>5, <2>6, Zenon DEF PushDataInQueue
    <3>2. /\ Len(pairs') = Len(m) - 1 /\ Len(m) \in Nat
          /\ \A i \in 1 .. Len(pairs') : pairs'[i] = m[i + 1]
      BY <2>3, <3>1, HeadTailProperties, LenProperties
    <3>3. a # 1
      <4>1. m[1].seq <= CurrentSeq
        BY <2>6 DEF Ready
      <4>2. CurrentSeq < first.seq
        BY <1>1 DEF QueueWaits
      <4>3. CurrentSeq \in Nat /\ first.seq \in Nat
        <5>1. first \in Pair
          BY <1>1 DEF TypeOK
        <5>2. QED
          BY <5>1, RecvAssumption DEF TypeOK, Pair
      <4>4. QED
        BY <2>4, <4>1, <4>2, <4>3
    <3>4. a - 1 \in 1 .. Len(pairs') /\ (a - 1) + 1 = a
      BY <3>2, <3>3
    <3>5. pairs'[a - 1] = m[(a - 1) + 1]
      BY <3>2, <3>4, Zenon
    <3>6. pairs'[a - 1] = first
      BY <2>4, <3>4, <3>5
    <3>7. QED
      BY <3>4, <3>6 DEF first
  <2>7. CASE ~Ready(m[1])
    <3>1. pairs' = m
      BY <2>1, <2>5, <2>7, Zenon DEF PushDataInQueue
    <3>2. QED
      BY <2>4, <3>1 DEF first
  <2>8. QED
    BY <2>6, <2>7
<1>4. UNCHANGED window \/ UNCHANGED <<pairs, CurrentSeq, ack, ring, discarded>>
        => UNCHANGED <<pairs, CurrentSeq>>
  BY DEF window
<1>5. QED
  BY <1>2, <1>3, <1>4, PushDataCases, Zenon

LEMMA QueueWaitsStep ==
  ASSUME IInv, QueueWaits, [Next]_vars
  PROVE  QueueWaits'
<1>1. TypeOK /\ InStream
  BY DEF IInv
<1>2. ASSUME UNCHANGED <<pairs, CurrentSeq>>
      PROVE  QueueWaits'
  BY <1>2, Zenon DEF QueueWaits
<1>3. ASSUME NEW seg \in Segments, Arrive(seg)
      PROVE  QueueWaits'
  <2> DEFINE s == [seg EXCEPT !.seq = SeqNumber(seg.pos)]
  <2>1. tcp_established(s) \/ tcp_fin2 \/ tcp_closed
    BY <1>3, Zenon DEF Arrive
  <2>2. seg.len > 0 \/ seg.fin => s \in SoundPairs \/ Duplicate(s)
    BY SegmentSound, Zenon
  <2>3. s.len = seg.len /\ s.fin = seg.fin
    BY SegmentSound, Zenon
  <2> HIDE DEF s
  <2>4. CASE tcp_established(s) /\ (s.len > 0 \/ s.fin) /\ ~Duplicate(s)
    <3>1. PushData(s)
      BY <2>4, Zenon DEF tcp_established
    <3>2. QED
      BY <1>1, <2>2, <2>3, <2>4, <3>1, PushDataQueueWaits
  <2>5. CASE ~(tcp_established(s) /\ (s.len > 0 \/ s.fin) /\ ~Duplicate(s))
    <3>1. UNCHANGED window
      BY <2>1, <2>5 DEF tcp_established, tcp_fin2, tcp_closed, PushData
    <3>2. UNCHANGED <<pairs, CurrentSeq>>
      BY <3>1 DEF window
    <3>3. QED
      BY <1>2, <3>2
  <2>6. QED
    BY <2>4, <2>5
<1>4. CASE SendAckNow \/ SocketRead \/ PeerSends \/ PeerCloses
  <2>1. UNCHANGED <<pairs, CurrentSeq>>
    BY <1>4 DEF SendAckNow, SocketRead, PeerSends, PeerCloses, window
  <2>2. QED
    BY <1>2, <2>1
<1>5. CASE UNCHANGED vars
  <2>1. UNCHANGED <<pairs, CurrentSeq>>
    BY <1>5 DEF vars, window
  <2>2. QED
    BY <1>2, <2>1
<1>6. QED
  BY <1>3, <1>4, <1>5, Zenon DEF Next

(* The pairs of a list leave a gap between them.                           *)
Apart(list) ==
  \A i, j \in 1 .. Len(list) : i < j => SeqEnd(list[i]) < list[j].seq

(* The queue has gaps only, as long as no segment ended far beyond it.     *)
PairsApart == ~beyond => Apart(pairs)

LEMMA PairNumbers ==
  ASSUME TypeOK, InStream, NEW p \in SoundPairs
  PROVE  p.seq \in Nat /\ SeqEnd(p) \in Nat /\ p.seq <= SeqEnd(p)
<1>1. /\ Isn \in Nat /\ StreamBound \in Nat
      /\ sndNxt \in Nat /\ sndNxt <= StreamBound + 1
  BY WindowPositions
<1>2. /\ p.pos \in Positions /\ p.len \in 0 .. MaxLen
      /\ p.seq = Isn + p.pos /\ SeqEnd(p) = Isn + p.pos + p.len
  BY <1>1, SoundFields
<1>3. p.pos \in Nat /\ p.len \in Nat
  BY <1>1, <1>2, RecvAssumption DEF Positions
<1>4. QED
  BY <1>1, <1>2, <1>3

(* Where the pairs leave gaps, the pass deletes none, and no assert fails. *)
LEMMA ApartMerges ==
  ASSUME TypeOK, InStream, NEW list \in Seq(SoundPairs), list # <<>>,
         Apart(list)
  PROVE  ~MergeFails(list)
<1>1. /\ Len(list) \in Nat \ {0} /\ SoundPairs \in SUBSET Pair
      /\ \A i \in 1 .. Len(list) : list[i] \in SoundPairs
  BY LenProperties, EmptySeq DEF SoundPairs
<1>2. \A i \in 1 .. Len(list) :
        /\ list[i].seq \in Nat /\ SeqEnd(list[i]) \in Nat
        /\ list[i].seq <= SeqEnd(list[i])
  BY <1>1, PairNumbers
<1>3. ASSUME NEW i \in 2 .. Len(list)
      PROVE  /\ list[i - 1].seq < list[i].seq
             /\ ~Covers(list[i - 1], list[i])
  <2>1. i - 1 \in 1 .. Len(list) /\ i \in 1 .. Len(list) /\ i - 1 < i
    BY <1>1
  <2>2. SeqEnd(list[i - 1]) < list[i].seq
    BY <2>1, Zenon DEF Apart
  <2>3. \A a, b, c, d \in Nat : a <= b /\ b < c /\ c <= d => a < c /\ ~(b >= d)
    OBVIOUS
  <2>4. list[i - 1].seq < list[i].seq /\ ~(SeqEnd(list[i - 1]) >= SeqEnd(list[i]))
    BY <1>2, <2>1, <2>2, <2>3, Zenon
  <2>5. QED
    BY <2>4, Zenon DEF Covers
<1>4. Kept(list)[Len(list)]
  <2>1. /\ Kept(list)[1]
        /\ \A i \in 2 .. Len(list) :
             ~Covers(list[i - 1], list[i]) => Kept(list)[i]
    BY <1>1, KeptRule
  <2>2. Len(list) = 1 \/ Len(list) \in 2 .. Len(list)
    <3>1. \A n \in Nat \ {0} : n = 1 \/ n \in 2 .. n
      OBVIOUS
    <3>2. QED
      BY <1>1, <3>1, Zenon
  <2>3. QED
    BY <1>3, <2>1, <2>2, Zenon
<1>5. ASSUME NEW i \in 1 .. Len(list) - 1
      PROVE  list[i].seq < list[i + 1].seq
  <2>1. i + 1 \in 2 .. Len(list) /\ (i + 1) - 1 = i
    BY <1>1
  <2>2. list[(i + 1) - 1].seq < list[i + 1].seq
    BY <1>3, <2>1, Zenon
  <2>3. QED
    BY <2>1, <2>2
<1>6. QED
  BY <1>4, <1>5, Zenon DEF MergeFails

(* What the pass returns has gaps between its pairs if the list has.       *)
LEMMA MergeApart ==
  ASSUME NEW list \in Seq(SoundPairs), list # <<>>, ~MergeFails(list),
         Apart(list)
  PROVE  Apart(Merge(list))
<1> DEFINE m == Merge(list)
<1>1. SoundPairs \in SUBSET Pair
  BY DEF SoundPairs
<1>2. PICK c \in Nat \ {0} :
        \E n \in [1 .. c -> {i \in 1 .. Len(list) : Kept(list)[i]}] :
          /\ m = [j \in 1 .. c |-> list[n[j]]]
          /\ \A a, b \in 1 .. c : a < b => n[a] < n[b]
  BY <1>1, MergeShape, Zenon
<1>3. PICK n \in [1 .. c -> {i \in 1 .. Len(list) : Kept(list)[i]}] :
        /\ m = [j \in 1 .. c |-> list[n[j]]]
        /\ \A a, b \in 1 .. c : a < b => n[a] < n[b]
  BY <1>2
<1> HIDE DEF m
<1>4. Len(m) = c
  BY <1>3
<1>5. ASSUME NEW a \in 1 .. c, NEW b \in 1 .. c, a < b
      PROVE  SeqEnd(m[a]) < m[b].seq
  <2>1. m[a] = list[n[a]] /\ m[b] = list[n[b]] /\ n[a] < n[b]
    BY <1>3, <1>5
  <2>2. n[a] \in 1 .. Len(list) /\ n[b] \in 1 .. Len(list)
    OBVIOUS
  <2>3. SeqEnd(list[n[a]]) < list[n[b]].seq
    BY <2>1, <2>2, Zenon DEF Apart
  <2>4. QED
    BY <2>1, <2>3, Zenon
<1>6. QED
  BY <1>4, <1>5, Zenon DEF Apart, m

(* A segment that PushData lets through and that does not end far beyond   *)
(* the queue goes in front of it, with a gap.                              *)
LEMMA InsertedApart ==
  ASSUME TypeOK, InStream, Apart(pairs), NEW seg \in SoundPairs,
         ~OutOfWindow(seg), ~FarBeyond(seg)
  PROVE  LET r == InsertPair(pairs, seg)
         IN  r \in Seq(SoundPairs) /\ r # <<>> /\ Apart(r)
<1> DEFINE r == InsertPair(pairs, seg)
<1>1. /\ SoundPairs \in SUBSET Pair /\ pairs \in Seq(SoundPairs)
      /\ seg \in SoundPairs
  BY DEF SoundPairs, InStream
<1>2. /\ r \in Seq(SoundPairs) /\ Len(r) = Len(pairs) + 1
      /\ Len(pairs) \in Nat
      /\ \A i \in 1 .. Len(pairs) : pairs[i] \in SoundPairs
  BY <1>1, InsertPairShape, LenProperties
<1>3. PICK k \in 0 .. Len(pairs) :
        /\ \A i \in 1 .. k : pairs[i].seq <= seg.seq
        /\ r[k + 1] = seg
        /\ \A i \in k + 1 .. Len(pairs) : r[i + 1] = pairs[i]
  BY <1>1, InsertPairShape, Zenon
<1> HIDE DEF r
<1>4. /\ \A p \in SoundPairs : /\ p.seq \in Nat /\ SeqEnd(p) \in Nat
                               /\ p.seq <= SeqEnd(p)
  BY PairNumbers
<1>5. ASSUME NEW i \in 1 .. Len(pairs)
      PROVE  SeqEnd(seg) < pairs[i].seq
  <2>1. pairs # <<>> /\ Head(pairs) = pairs[1] /\ 1 \in 1 .. Len(pairs)
    <3>1. Len(pairs) # 0 /\ 1 \in 1 .. Len(pairs)
      BY <1>2
    <3>2. pairs # <<>>
      BY <3>1
    <3>3. QED
      BY <1>1, <3>1, <3>2, HeadTailProperties
  <2>2. SeqEnd(seg) < pairs[1].seq
    BY <2>1, PassesTheTest
  <2>3. i = 1 \/ SeqEnd(pairs[1]) < pairs[i].seq
    <3>1. i = 1 \/ 1 < i
      BY <1>2
    <3>2. QED
      BY <2>1, <3>1 DEF Apart
  <2>4. \A a, b, c, d \in Nat : a < b /\ b <= c /\ c < d => a < d
    OBVIOUS
  <2>5. /\ SeqEnd(seg) \in Nat /\ pairs[1].seq \in Nat /\ pairs[i].seq \in Nat
        /\ SeqEnd(pairs[1]) \in Nat /\ pairs[1].seq <= SeqEnd(pairs[1])
    BY <1>1, <1>2, <1>4, <2>1
  <2>6. QED
    BY <2>2, <2>3, <2>4, <2>5, Zenon
<1>6. k = 0
  <2>1. SUFFICES ASSUME k # 0
                 PROVE  FALSE
    OBVIOUS
  <2>2. 1 \in 1 .. k /\ 1 \in 1 .. Len(pairs)
    BY <1>2, <2>1
  <2>3. pairs[1].seq <= seg.seq /\ SeqEnd(seg) < pairs[1].seq
    BY <1>3, <1>5, <2>2
  <2>4. /\ pairs[1].seq \in Nat /\ seg.seq \in Nat /\ SeqEnd(seg) \in Nat
        /\ seg.seq <= SeqEnd(seg)
    BY <1>1, <1>2, <1>4, <2>2
  <2>5. QED
    BY <2>3, <2>4
<1>7. r[1] = seg /\ \A i \in 1 .. Len(pairs) : r[i + 1] = pairs[i]
  <2>1. 0 + 1 = 1
    OBVIOUS
  <2>2. QED
    BY <1>3, <1>6, <2>1, Zenon
<1>8. ASSUME NEW i \in 1 .. Len(r), NEW j \in 1 .. Len(r), i < j
      PROVE  SeqEnd(r[i]) < r[j].seq
  <2>1. /\ j - 1 \in 1 .. Len(pairs) /\ (j - 1) + 1 = j
        /\ i = 1 \/ (i - 1 \in 1 .. Len(pairs) /\ (i - 1) + 1 = i)
        /\ i - 1 < j - 1
    BY <1>2, <1>8
  <2>2. r[j] = pairs[j - 1]
    <3>1. r[(j - 1) + 1] = pairs[j - 1]
      BY <1>7, <2>1, Zenon
    <3>2. QED
      BY <2>1, <3>1
  <2>3. CASE i = 1
    BY <1>5, <1>7, <2>1, <2>2, <2>3, Zenon
  <2>4. CASE i - 1 \in 1 .. Len(pairs) /\ (i - 1) + 1 = i
    <3>1. r[(i - 1) + 1] = pairs[i - 1]
      BY <1>7, <2>4, Zenon
    <3>2. r[i] = pairs[i - 1]
      BY <2>4, <3>1
    <3>3. SeqEnd(pairs[i - 1]) < pairs[j - 1].seq
      BY <2>1, <2>4, Zenon DEF Apart
    <3>4. QED
      BY <2>2, <3>2, <3>3, Zenon
  <2>5. QED
    BY <2>1, <2>3, <2>4, Zenon
<1>9. r # <<>>
  BY <1>2
<1>10. QED
  BY <1>2, <1>8, <1>9, Zenon DEF Apart, r

(* Without its first pair a list with gaps still has them.                 *)
LEMMA TailApart ==
  ASSUME NEW m \in Seq(SoundPairs), m # <<>>, Apart(m)
  PROVE  Apart(Tail(m))
<1>1. /\ Len(Tail(m)) = Len(m) - 1 /\ Len(m) \in Nat
      /\ \A i \in 1 .. Len(Tail(m)) : Tail(m)[i] = m[i + 1]
  BY HeadTailProperties, LenProperties
<1>2. ASSUME NEW i \in 1 .. Len(Tail(m)), NEW j \in 1 .. Len(Tail(m)), i < j
      PROVE  SeqEnd(Tail(m)[i]) < Tail(m)[j].seq
  <2>1. i + 1 \in 1 .. Len(m) /\ j + 1 \in 1 .. Len(m) /\ i + 1 < j + 1
    BY <1>1, <1>2
  <2>2. SeqEnd(m[i + 1]) < m[j + 1].seq
    BY <2>1, Zenon DEF Apart
  <2>3. Tail(m)[i] = m[i + 1] /\ Tail(m)[j] = m[j + 1]
    BY <1>1
  <2>4. QED
    BY <2>2, <2>3, Zenon
<1>3. QED
  BY <1>2, Zenon DEF Apart

(* A step of PushData on a segment that does not end far beyond the queue  *)
(* leaves gaps only, and if it ends the process, then because the segment  *)
(* is too long for the buffer or the pool is empty.                        *)
LEMMA PushDataApart ==
  ASSUME TypeOK, InStream, QueueWaits, Apart(pairs), ~aborted,
         NEW seg \in SoundPairs, PushData(seg), ~FarBeyond(seg)
  PROVE  Apart(pairs') /\ (aborted' => Overflows(seg) \/ poolEmpty')
<1> DEFINE list == InsertPair(pairs, seg)
           m == Merge(list)
<1>1. ASSUME ~OutOfWindow(seg)
      PROVE  /\ list \in Seq(SoundPairs) /\ list # <<>>
             /\ Apart(list) /\ ~MergeFails(list)
  <2>1. list \in Seq(SoundPairs) /\ list # <<>> /\ Apart(list)
    BY <1>1, InsertedApart
  <2> HIDE DEF list
  <2>2. ~MergeFails(list)
    BY <2>1, ApartMerges
  <2>3. QED
    BY <2>1, <2>2
<1>2. CASE UNCHANGED window
  <2>1. pairs' = pairs /\ aborted' = aborted
    BY <1>2 DEF window
  <2>2. QED
    BY <2>1
<1>3. CASE /\ ~OutOfWindow(seg) /\ ~Duplicate(seg) /\ aborted' = TRUE
           /\ UNCHANGED <<pairs, CurrentSeq, ack, ring, discarded>>
           /\ \/ MergeFails(list) \/ GetDataFails(Head(m))
              \/ poolEmpty' = TRUE
  <2>1. pairs' = pairs
    BY <1>3
  <2>2. ~OutOfWindow(seg) /\ ~Duplicate(seg) /\ ~MergeFails(list)
    BY <1>1, <1>3, Zenon
  <2>3. GetDataFails(Head(m)) => Overflows(seg)
    BY <2>2, GetDataHolds
  <2>4. poolEmpty' \/ Overflows(seg)
    BY <1>3, <2>2, <2>3, Zenon
  <2>5. QED
    BY <2>1, <2>4
<1>4. CASE /\ ~OutOfWindow(seg) /\ ~MergeFails(list)
           /\ PushDataInQueue(m) /\ aborted' = aborted
  <2>1. list \in Seq(SoundPairs) /\ list # <<>> /\ Apart(list)
    BY <1>1, <1>4, Zenon
  <2>2. ~MergeFails(list) /\ PushDataInQueue(m) /\ ~aborted'
    BY <1>4
  <2> HIDE DEF list
  <2>3. m \in Seq(SoundPairs) /\ m # <<>>
    <3>1. SoundPairs \in SUBSET Pair
      BY DEF SoundPairs
    <3>2. QED
      BY <2>1, <2>2, <3>1, MergeMembers
  <2>4. Apart(m)
    BY <2>1, <2>2, MergeApart
  <2> HIDE DEF m
  <2>5. pairs' = Tail(m) \/ pairs' = m
    BY <2>2, Zenon DEF PushDataInQueue
  <2>6. Apart(Tail(m))
    BY <2>3, <2>4, TailApart
  <2>7. Apart(pairs')
    BY <2>4, <2>5, <2>6
  <2>8. QED
    BY <2>2, <2>7, Zenon
<1>5. QED
  BY <1>2, <1>3, <1>4, PushDataCases, Zenon

LEMMA AbortsNamedStep ==
  ASSUME IInv, QueueWaits, PairsApart, AbortsNamed, [Next]_vars
  PROVE  PairsApart' /\ AbortsNamed'
<1>1. TypeOK /\ InStream
  BY DEF IInv
<1>2. ASSUME pairs' = pairs, aborted' = aborted, beyond => beyond',
             oversized => oversized', poolEmpty => poolEmpty'
      PROVE  PairsApart' /\ AbortsNamed'
  <2>1. Apart(pairs) => Apart(pairs')
    BY <1>2
  <2>2. PairsApart'
    BY <1>2, <2>1, Zenon DEF PairsApart, Apart
  <2>3. QED
    BY <1>2, <2>2, Zenon DEF AbortsNamed
<1>3. ASSUME NEW seg \in Segments, Arrive(seg)
      PROVE  PairsApart' /\ AbortsNamed'
  <2> DEFINE s == [seg EXCEPT !.seq = SeqNumber(seg.pos)]
  <2>1. /\ tcp_established(s) \/ tcp_fin2 \/ tcp_closed
        /\ ~aborted
        /\ oversized' = (oversized \/ (state = "ESTABLISHED" /\ Overflows(seg)))
        /\ beyond' = (beyond \/ (state = "ESTABLISHED" /\ FarBeyond(seg)))
    BY <1>3, Zenon DEF Arrive
  <2>2. seg.len > 0 \/ seg.fin => s \in SoundPairs \/ Duplicate(s)
    BY SegmentSound, Zenon
  <2>3. s.len = seg.len /\ s.fin = seg.fin /\ s.pos = seg.pos
    BY SegmentSound, Zenon
  <2>4. (Overflows(s) <=> Overflows(seg)) /\ (FarBeyond(s) <=> FarBeyond(seg))
    BY <2>3, Zenon DEF Overflows, FarBeyond
  <2> HIDE DEF s
  <2>5. CASE tcp_established(s) /\ (s.len > 0 \/ s.fin) /\ ~Duplicate(s)
    <3>1. PushData(s) /\ state = "ESTABLISHED"
      BY <2>5, Zenon DEF tcp_established
    <3>2. CASE beyond'
      BY <3>2, Zenon DEF PairsApart, AbortsNamed
    <3>3. CASE ~beyond'
      <4>1. ~beyond /\ ~FarBeyond(s)
        BY <2>1, <2>4, <3>1, <3>3, Zenon
      <4>2. s \in SoundPairs /\ Apart(pairs)
        BY <2>2, <2>3, <2>5, <4>1, Zenon DEF PairsApart
      <4>3. Apart(pairs') /\ (aborted' => Overflows(s) \/ poolEmpty')
        BY <1>1, <2>1, <3>1, <4>1, <4>2, PushDataApart
      <4>4. aborted' => oversized' \/ poolEmpty'
        BY <2>1, <2>4, <3>1, <4>3, Zenon
      <4>5. PairsApart'
        BY <4>3, Zenon DEF PairsApart, Apart
      <4>6. QED
        BY <4>4, <4>5, Zenon DEF AbortsNamed
    <3>4. QED
      BY <3>2, <3>3
  <2>6. CASE ~(tcp_established(s) /\ (s.len > 0 \/ s.fin) /\ ~Duplicate(s))
    <3>1. UNCHANGED window
      BY <2>1, <2>6 DEF tcp_established, tcp_fin2, tcp_closed, PushData
    <3>2. pairs' = pairs /\ aborted' = aborted /\ poolEmpty' = poolEmpty
      BY <3>1 DEF window
    <3>3. (oversized => oversized') /\ (beyond => beyond')
      BY <2>1, Zenon
    <3>4. QED
      BY <1>2, <3>2, <3>3, Zenon
  <2>7. QED
    BY <2>5, <2>6
<1>4. CASE SendAckNow \/ SocketRead \/ PeerSends \/ PeerCloses
  <2>1. /\ pairs' = pairs /\ aborted' = aborted /\ poolEmpty' = poolEmpty
        /\ beyond' = beyond /\ oversized' = oversized
    BY <1>4 DEF SendAckNow, SocketRead, PeerSends, PeerCloses, window
  <2>2. QED
    BY <1>2, <2>1, Zenon
<1>5. CASE UNCHANGED vars
  <2>1. /\ pairs' = pairs /\ aborted' = aborted /\ poolEmpty' = poolEmpty
        /\ beyond' = beyond /\ oversized' = oversized
    BY <1>5 DEF vars, window
  <2>2. QED
    BY <1>2, <2>1, Zenon
<1>6. QED
  BY <1>3, <1>4, <1>5, Zenon DEF Next

LEMMA WaitingHolds ==
  ASSUME NotLast
  PROVE  Spec => [](IInv /\ QueueWaits /\ PairsApart /\ AbortsNamed)
<1>1. Init => QueueWaits /\ PairsApart /\ AbortsNamed
  <2>1. SUFFICES ASSUME Init
                 PROVE  QueueWaits /\ PairsApart /\ AbortsNamed
    OBVIOUS
  <2>2. pairs = <<>> /\ aborted = FALSE
    BY <2>1, Zenon DEF Init
  <2>3. 1 .. Len(pairs) = {}
    BY <2>2
  <2>4. QED
    BY <2>2, <2>3, Zenon DEF QueueWaits, PairsApart, Apart, AbortsNamed
<1>2. IInv /\ QueueWaits /\ [Next]_vars => QueueWaits'
  BY QueueWaitsStep
<1>3. IInv /\ QueueWaits /\ PairsApart /\ AbortsNamed /\ [Next]_vars
        => PairsApart' /\ AbortsNamed'
  BY AbortsNamedStep
<1>4. QED
  BY <1>1, <1>2, <1>3, IInvHolds, PTL DEF Spec

LEMMA FirstPairStaysStep ==
  ASSUME IInv, QueueWaits, [Next]_vars
  PROVE  FirstPairStays
<1>1. TypeOK /\ InStream
  BY DEF IInv
<1>2. ASSUME pairs' = pairs
      PROVE  FirstPairStays
  <2>1. pairs \in Seq(Pair)
    BY <1>1 DEF TypeOK
  <2>2. pairs # <<>> => 1 \in 1 .. Len(pairs) /\ Head(pairs) = pairs[1]
    BY <2>1, LenProperties, EmptySeq, HeadTailProperties
  <2>3. QED
    BY <1>2, <2>2 DEF FirstPairStays
<1>3. ASSUME NEW seg \in Segments, Arrive(seg)
      PROVE  FirstPairStays
  <2> DEFINE s == [seg EXCEPT !.seq = SeqNumber(seg.pos)]
  <2>1. tcp_established(s) \/ tcp_fin2 \/ tcp_closed
    BY <1>3, Zenon DEF Arrive
  <2>2. seg.len > 0 \/ seg.fin => s \in SoundPairs \/ Duplicate(s)
    BY SegmentSound, Zenon
  <2>3. s.len = seg.len /\ s.fin = seg.fin
    BY SegmentSound, Zenon
  <2> HIDE DEF s
  <2>4. CASE tcp_established(s) /\ (s.len > 0 \/ s.fin) /\ ~Duplicate(s)
    <3>1. PushData(s)
      BY <2>4, Zenon DEF tcp_established
    <3>2. pairs # <<>> => \E i \in 1 .. Len(pairs') : pairs'[i] = Head(pairs)
      BY <1>1, <2>2, <2>3, <2>4, <3>1, PushDataKeepsFirst
    <3>3. QED
      BY <3>2 DEF FirstPairStays
  <2>5. CASE ~(tcp_established(s) /\ (s.len > 0 \/ s.fin) /\ ~Duplicate(s))
    <3>1. UNCHANGED window
      BY <2>1, <2>5 DEF tcp_established, tcp_fin2, tcp_closed, PushData
    <3>2. pairs' = pairs
      BY <3>1 DEF window
    <3>3. QED
      BY <1>2, <3>2
  <2>6. QED
    BY <2>4, <2>5
<1>4. CASE SendAckNow \/ SocketRead \/ PeerSends \/ PeerCloses
  <2>1. pairs' = pairs
    BY <1>4 DEF SendAckNow, SocketRead, PeerSends, PeerCloses, window
  <2>2. QED
    BY <1>2, <2>1
<1>5. CASE UNCHANGED vars
  <2>1. pairs' = pairs
    BY <1>5 DEF vars, window
  <2>2. QED
    BY <1>2, <2>1
<1>6. QED
  BY <1>3, <1>4, <1>5, Zenon DEF Next

(* A read moves the reader on, never beyond what the peer has sent.        *)
LEMMA ReadDelivers ==
  ASSUME IInv, SocketRead
  PROVE  readPos' \in readPos + 1 .. sndNxt /\ sndNxt' = sndNxt
<1>1. /\ TypeOK /\ InStream /\ RingFollows /\ WindowSound
  BY Outside
<1>2. /\ ring # <<>> /\ readPos' = Head(ring).pos + Head(ring).len
      /\ UNCHANGED peer
  BY DEF SocketRead
<1>3. sndNxt' = sndNxt
  BY <1>2 DEF peer
<1>4. ring \in Seq(Messages)
  BY <1>1, Zenon DEF WindowSound
<1>5. Follows(ring, readPos, curPos, discarded)
  BY <1>1, Zenon DEF RingFollows
<1>6. /\ curPos \in 1 .. sndNxt /\ sndNxt \in Nat /\ readPos \in Nat
  BY <1>1, WindowPositions
<1>7. /\ 1 \in 1 .. Len(ring) /\ Head(ring) = ring[1]
      /\ ring[1].pos \in Nat /\ ring[1].len \in Nat \ {0}
      /\ EndOf(ring, readPos, 1) = ring[1].pos + ring[1].len
      /\ EndOf(ring, readPos, 0) = readPos
  <2>1. Len(ring) \in Nat /\ Len(ring) # 0 /\ Head(ring) = ring[1]
    BY <1>2, <1>4, EmptySeq, LenProperties, HeadTailProperties
  <2>2. 1 \in 1 .. Len(ring)
    BY <2>1
  <2>3. QED
    BY <1>4, <1>6, <2>1, <2>2, EndsArePositions
<1>8. /\ EndOf(ring, readPos, 1 - 1) <= ring[1].pos
      /\ EndOf(ring, readPos, 1) <= curPos
  BY <1>5, <1>7, Zenon DEF Follows
<1>9. 1 - 1 = 0
  OBVIOUS
<1>10. readPos <= ring[1].pos /\ readPos' = ring[1].pos + ring[1].len
       /\ readPos' <= curPos
  BY <1>2, <1>7, <1>8, <1>9
<1>11. curPos \in Nat /\ curPos <= sndNxt
  BY <1>6
<1> HIDE DEF curPos
<1>12. QED
  BY <1>3, <1>6, <1>7, <1>10, <1>11
-----------------------------------------------------------------------------
(* Every variable keeps its type: the numbers stay numbers of 32 bits, and *)
(* what is queued or handed to the application are parts of the stream.    *)
THEOREM TypeCorrect ==
  ASSUME NotLast
  PROVE  Spec => []TypeOK
<1>1. IInv => TypeOK
  BY DEF IInv
<1>2. QED
  BY <1>1, IInvHolds, PTL

(* The application reads the peer's stream: without overlap, without a gap *)
(* unless the ring was full, and never beyond what is acknowledged, however *)
(* segments are cut, repeated and reordered (tcp_windows.c).               *)
THEOREM StreamRead ==
  ASSUME NotLast
  PROVE  Spec => []StreamIntegrity
<1>1. IInv => StreamIntegrity
  BY DEF IInv
<1>2. QED
  BY <1>1, IInvHolds, PTL

(* As long as no segment overtakes a missing one, and up to the end of the *)
(* number space: what PushData, AdjustPair and GetData acknowledge has     *)
(* arrived, nothing is queued and all that arrived is delivered, unless    *)
(* the process ends; and it ends exactly with a segment as long as the     *)
(* buffer (tcp_windows.c 171) or an empty message pool (121).              *)
THEOREM InOrderServed ==
  ASSUME NotLast
  PROVE  Spec => []InOrderService
<1>1. IInv => InOrderService
  BY DEF IInv
<1>2. QED
  BY <1>1, IInvHolds, PTL

(* In whatever order segments come, what is queued waits for something     *)
(* that is missing, so that one pass of GetData (tcp_windows.c 118) misses *)
(* no pair that is ready; its asserts at 151, 163 and 177 hold, and that   *)
(* at 171 fails exactly for a segment too long for the buffer; AdjustPair  *)
(* only fails (75, 102) after a segment that ended far beyond the queue;   *)
(* nothing is delivered that reaches the end of the number space.          *)
THEOREM AnyOrderServed ==
  ASSUME NotLast
  PROVE  Spec => []AnyOrderService
<1>1. IInv /\ QueueWaits => GetDataServes
  <2>1. SUFFICES ASSUME IInv, QueueWaits, NEW seg \in Segments,
                        seg.len > 0 \/ seg.fin,
                        ~OutOfWindow([seg EXCEPT !.seq = SeqNumber(seg.pos)]),
                        ~Duplicate([seg EXCEPT !.seq = SeqNumber(seg.pos)]),
                        ~MergeFails(InsertPair(pairs,
                            [seg EXCEPT !.seq = SeqNumber(seg.pos)]))
                 PROVE  GetDataFails(Head(Merge(InsertPair(pairs,
                            [seg EXCEPT !.seq = SeqNumber(seg.pos)]))))
                        <=> Overflows(seg)
    BY Zenon DEF GetDataServes
  <2> DEFINE s == [seg EXCEPT !.seq = SeqNumber(seg.pos)]
  <2>2. TypeOK /\ InStream
    BY <2>1 DEF IInv
  <2>3. s \in SoundPairs /\ s.pos = seg.pos /\ s.len = seg.len
    BY <2>1, SegmentSound, Zenon
  <2>4. ~OutOfWindow(s) /\ ~Duplicate(s) /\ ~MergeFails(InsertPair(pairs, s))
    BY <2>1
  <2>5. Overflows(s) <=> Overflows(seg)
    BY <2>3, Zenon DEF Overflows
  <2> HIDE DEF s
  <2>6. GetDataFails(Head(Merge(InsertPair(pairs, s)))) <=> Overflows(s)
    BY <2>1, <2>2, <2>3, <2>4, GetDataHolds
  <2>7. QED
    BY <2>5, <2>6, Zenon DEF s
<1>2. IInv => StopsAtWrap
  <2>1. IInv => TypeOK /\ InStream
    BY DEF IInv
  <2>2. QED
    BY <2>1, WindowPositions, Zenon DEF StopsAtWrap
<1>3. IInv /\ QueueWaits /\ AbortsNamed => AnyOrderService
  BY <1>1, <1>2, Zenon DEF AnyOrderService
<1>4. QED
  BY <1>3, WaitingHolds, PTL

(* A gap is never closed: once a segment is queued ahead of a missing one, *)
(* the first pair of the queue is never delivered (tcp_windows.c 346).     *)
THEOREM GapNeverCloses ==
  ASSUME NotLast
  PROVE  Spec => GapStaysOpen
<1>1. IInv /\ QueueWaits /\ [Next]_vars => FirstPairStays
  BY FirstPairStaysStep
<1>2. QED
  BY <1>1, WaitingHolds, PTL DEF Spec, GapStaysOpen

(* The reader and the peer are the ends of a byte channel: every byte that *)
(* is read was sent, none is read twice, and reading never goes back,      *)
(* however segments are lost, repeated, cut and reordered.                 *)
THEOREM ReaderIsChannelEnd ==
  ASSUME NotLast
  PROVE  Spec => ReadsChannel
<1>1. Init => Channel!Init
  BY Zenon DEF Init, Channel!Init
<1>2. IInv /\ [Next]_vars => [Channel!Next]_(Channel!vars)
  <2>1. SUFFICES ASSUME IInv, [Next]_vars
                 PROVE  Channel!Write \/ Channel!Deliver
                        \/ (sndNxt' = sndNxt /\ readPos' = readPos)
    BY DEF Channel!Next, Channel!vars
  <2>2. CASE SocketRead
    BY <2>1, <2>2, ReadDelivers DEF Channel!Deliver
  <2>3. CASE PeerSends
    <3>1. PICK len \in 1 .. MaxLen : /\ sndNxt + len <= StreamBound + 1
                                     /\ sndNxt' = sndNxt + len
      BY <2>3 DEF PeerSends
    <3>2. readPos' = readPos
      BY <2>3 DEF PeerSends
    <3>3. StreamBound \in Nat /\ MaxLen \in Nat /\ sndNxt \in Nat
      BY <2>1, Outside, RecvAssumption
    <3>4. sndNxt' \in (sndNxt + 1) .. (StreamBound + 1)
      BY <3>1, <3>3
    <3>5. QED
      BY <3>2, <3>4 DEF Channel!Write
  <2>4. CASE SendAckNow \/ PeerCloses \/ UNCHANGED vars
    BY <2>4 DEF SendAckNow, PeerCloses, vars, peer
  <2>5. ASSUME NEW seg \in Segments, Arrive(seg)
        PROVE  sndNxt' = sndNxt /\ readPos' = readPos
    BY <2>5 DEF Arrive, peer
  <2>6. QED
    BY <2>1, <2>2, <2>3, <2>4, <2>5, Zenon DEF Next
<1>3. QED
  BY <1>1, <1>2, IInvHolds, PTL DEF Spec, ReadsChannel, Channel!Safety
=============================================================================
