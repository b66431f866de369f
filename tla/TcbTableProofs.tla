--------------------------- MODULE TcbTableProofs ---------------------------
(***************************************************************************)
(* Proofs about TcbTable for all sets of threads and clients and all sizes *)
(* of the table, the listen queues and the identifiers.                    *)
(***************************************************************************)
EXTENDS TcbTable, SequenceTheorems, FiniteSetTheorems, WellFoundedInduction,
        TLAPS

LinkedTcbs == {tcbs[i] : i \in Linked}

(* The tcbs that are or were in the table: LinkedTcbs and freed only       *)
(* exchange members.                                                       *)
InTable == LinkedTcbs \union freed

Allocating == {t \in Threads : pc[t] \in {"rings", "link"}}
Allocated  == {t \in Threads : pc[t] \in {"rings", "link", "linked"}}

(* The tcbs whose rings have been created.                                 *)
WithRings == InTable \union {ptr[t] : t \in {u \in Threads : pc[u] = "link"}}

(* No tcb is in two slots, or freed and in a slot; a hole means that one   *)
(* was freed.                                                              *)
SlotsApart ==
  /\ \A i, j \in Linked : tcbs[i] = tcbs[j] => i = j
  /\ LinkedTcbs \intersect freed = {}
  /\ (\E i \in DOMAIN tcbs : tcbs[i] = NULL) => freed # {}

(* A ring name belongs to one tcb, whoever read IdentifierCount when.      *)
NamesApart ==
  /\ \A x \in WithRings : heap[x].identifier \in ringNames
  /\ \A x, y \in WithRings :
       heap[x].identifier = heap[y].identifier => x = y

(* A thread in alloc_tcb works on a tcb of its own, which has no ports and *)
(* addresses yet and enters the table at the end.                          *)
AllocationApart ==
  /\ \A t \in Allocated :
       LET x == ptr[t] IN
         /\ x \in DOMAIN heap /\ heap[x].identifier = reg[t]
         /\ heap[x].port = None /\ heap[x].client = None
         /\ heap[x].state = "CLOSED"
         /\ t \in Allocating => x \notin InTable
         /\ t \notin Allocating => x \in LinkedTcbs
  /\ \A t, u \in Allocated : ptr[t] = ptr[u] => t = u

(* What the state of a tcb says about its other fields and its past.       *)
StatesMeaning ==
  \A x \in DOMAIN heap :
    LET t == heap[x] IN
      /\ t.state = "LISTENING" => t.client = None /\ t.port # None
      /\ t.client # None => t.port # None
      /\ t.client = None => t.state \in {"CLOSED", "LISTENING"}
      /\ t.client # None /\ t.state \in {"FIN_2", "CLOSED"} => x \in finished

(* While tcp_listen has a SYN in hand, its connection has no tcb.          *)
SynInHand ==
  /\ pc[Lcore] \in {"idle", "alloc", "read", "rings", "link", "linked"}
  /\ pc[Lcore] = "idle" <=> syn = NoSyn
  /\ \A x \in LinkedTcbs :
       heap[x].client # None =>
         heap[x].client # syn.client \/ heap[x].port # syn.port

(* One tcb for each connection.                                            *)
ConnectionsApart ==
  \A x, y \in LinkedTcbs :
    heap[x].client # None /\ heap[x].client = heap[y].client
      /\ heap[x].port = heap[y].port => x = y

(* What the application was given, or will be, was put in the table.       *)
HandedOut ==
  /\ \A a \in Apps : \A k \in DOMAIN queue[a] : queue[a][k] \in InTable
  /\ \A a \in Apps : \A id \in held[a] :
       \E x \in InTable : heap[x].identifier = id
  /\ \A a \in Apps : pc[a] = "using" /\ ptr[a] = NULL => freed # {}

(* The connections of a socket that have not been acknowledged.            *)
HalfOpen(a) ==
  {x \in DOMAIN heap : heap[x].port = a /\ heap[x].state = "SYN_RECV"}

(* Every half-open connection, and the signal a woken thread has not       *)
(* answered yet, has a place in the queue, though not always its own.      *)
QueueCovers ==
  \A a \in Apps :
    Cardinality(HalfOpen(a)) + (IF pc[a] = "woken" THEN 1 ELSE 0)
      <= Len(queue[a])

IInv ==
  /\ TypeOK
  /\ SlotsApart
  /\ NamesApart
  /\ AllocationApart
  /\ StatesMeaning
  /\ SynInHand
  /\ ConnectionsApart
  /\ HandedOut
  /\ QueueCovers
  /\ RemovalsJustified

-----------------------------------------------------------------------------
(* Look-ups and removals.                                                  *)

(* A set of slots that is not empty has a first one.                       *)
LEMMA FirstSlotExists ==
  ASSUME NEW slots \in SUBSET Nat, slots # {}
  PROVE  FirstSlot(slots) \in slots
<1> DEFINE less == OpToRel(<, Nat)
<1>1. \A m, n \in Nat : m < n => <<m, n>> \in less
  BY DEF OpToRel
<1>2. PICK i \in slots : \A j \in slots : ~ (<<j, i>> \in less)
  BY WFMin, NatLessThanWellFounded
<1> HIDE DEF less
<1>3. ASSUME NEW j \in slots
      PROVE  i <= j
  <2>1. i \in Nat /\ j \in Nat
    OBVIOUS
  <2>2. ~ (j < i)
    BY <1>1, <1>2, <2>1
  <2>3. QED
    BY <2>1, <2>2
<1>4. QED
  BY <1>3 DEF FirstSlot

(* A look-up returns a tcb from one of the slots it may choose, or NULL    *)
(* when there is none.                                                     *)
LEMMA LookUpResult ==
  ASSUME TypeOK, NEW slots \in SUBSET Linked
  PROVE  /\ slots = {} => TcbAtFirst(slots) = NULL
         /\ slots # {} => \E i \in slots : TcbAtFirst(slots) = tcbs[i]
<1>1. slots \subseteq Nat
  BY DEF Linked, TypeOK
<1>2. slots # {} => FirstSlot(slots) \in slots
  BY <1>1, FirstSlotExists
<1>3. QED
  BY <1>2 DEF TcbAtFirst

(* The tcbs of the table are addresses of the heap, none of them NULL.     *)
LEMMA TcbsOfHeap ==
  ASSUME TypeOK
  PROVE  /\ LinkedTcbs \subseteq DOMAIN heap /\ InTable \subseteq DOMAIN heap
         /\ NULL \notin DOMAIN heap
         /\ \A i \in Linked : tcbs[i] \in LinkedTcbs
         /\ \A x \in DOMAIN heap : heap[x] \in Tcb
  BY DEF TypeOK, LinkedTcbs, InTable, Linked, NULL

(* get_tcb_by_identifier finds the one tcb with the identifier.            *)
LEMMA LookUpIdentifier ==
  ASSUME TypeOK, SlotsApart, NamesApart, NEW id
  PROVE  LET x == get_tcb_by_identifier(id) IN
         /\ x # NULL => x \in LinkedTcbs /\ heap[x].identifier = id
         /\ \A y \in LinkedTcbs : heap[y].identifier = id => x = y
<1> DEFINE x == get_tcb_by_identifier(id)
<1>1. SlotsOf(id) \subseteq Linked
  BY DEF SlotsOf
<1>2. SlotsOf(id) = {} => x = NULL
  BY <1>1, LookUpResult DEF get_tcb_by_identifier
<1>3. SlotsOf(id) # {} => x \in LinkedTcbs /\ heap[x].identifier = id
  BY <1>1, LookUpResult DEF get_tcb_by_identifier, SlotsOf, LinkedTcbs
<1>4. ASSUME NEW y \in LinkedTcbs, heap[y].identifier = id
      PROVE  x = y
  <2>1. SlotsOf(id) # {}
    BY <1>4 DEF SlotsOf, LinkedTcbs
  <2>2. x \in WithRings /\ y \in WithRings
    BY <1>3, <1>4, <2>1 DEF WithRings, InTable
  <2>3. QED
    BY <1>3, <1>4, <2>1, <2>2 DEF NamesApart
<1>5. QED
  BY <1>2, <1>3, <1>4

(* remove_tcb of a tcb of the table leaves one hole and frees that tcb.    *)
LEMMA RemoveTcb ==
  ASSUME TypeOK, SlotsApart, NamesApart, NEW x \in LinkedTcbs,
         remove_tcb(heap[x].identifier)
  PROVE  /\ tcbs' \in Seq(DOMAIN heap \union {NULL}) /\ Len(tcbs') = Len(tcbs)
         /\ freed' = freed \union {x}
         /\ Linked' \subseteq Linked /\ \A i \in Linked' : tcbs'[i] = tcbs[i]
         /\ LinkedTcbs' = LinkedTcbs \ {x}
         /\ InTable' = InTable
<1>1. get_tcb_by_identifier(heap[x].identifier) = x
  BY LookUpIdentifier
<1>2. x \in DOMAIN heap /\ x # NULL /\ NULL \notin DOMAIN heap
  BY TcbsOfHeap
<1>3. /\ tcbs' = [i \in DOMAIN tcbs |-> IF tcbs[i] = x THEN NULL ELSE tcbs[i]]
      /\ freed' = freed \union {x}
  BY <1>1 DEF remove_tcb
<1>4. tcbs' \in Seq(DOMAIN heap \union {NULL}) /\ DOMAIN tcbs' = DOMAIN tcbs
      /\ Len(tcbs') = Len(tcbs)
  BY <1>3 DEF TypeOK
<1>5. Linked' = {i \in Linked : tcbs[i] # x}
  BY <1>2, <1>3, <1>4 DEF Linked
<1>6. \A i \in Linked' : tcbs'[i] = tcbs[i]
  BY <1>3, <1>5 DEF Linked
<1>7. LinkedTcbs' = LinkedTcbs \ {x}
  BY <1>5, <1>6 DEF LinkedTcbs
<1>8. QED
  BY <1>3, <1>4, <1>5, <1>6, <1>7 DEF InTable

(* A change of one tcb in the heap leaves the others where they are.       *)
LEMMA ChangeTcb ==
  ASSUME TypeOK, NEW x \in DOMAIN heap, NEW t \in Tcb,
         heap' = [heap EXCEPT ![x] = t]
  PROVE  /\ heap' \in Seq(Tcb) /\ DOMAIN heap' = DOMAIN heap
         /\ heap'[x] = t
         /\ \A y \in DOMAIN heap \ {x} : heap'[y] = heap[y]
<1>1. x \in 1 .. Len(heap) /\ DOMAIN heap = 1 .. Len(heap)
  BY DEF TypeOK
<1>2. heap' \in Seq(Tcb) /\ Len(heap') = Len(heap)
  BY <1>1, ExceptSeq DEF TypeOK
<1>3. QED
  BY <1>1, <1>2

(* What an action keeps when it leaves the table alone.                    *)
LEMMA SameTable ==
  ASSUME UNCHANGED table
  PROVE  /\ Linked' = Linked /\ LinkedTcbs' = LinkedTcbs /\ InTable' = InTable
         /\ \A a \in Apps : HalfOpen(a)' = HalfOpen(a)
  BY DEF table, Linked, LinkedTcbs, InTable, HalfOpen

(* An application is not the lcore.                                        *)
LEMMA AppsAndLcore ==
  Lcore \in Threads /\ \A a \in Apps : a \in Threads /\ a # Lcore
  BY TableAssumption DEF Threads

(* A step that changes nothing, or only how the process ended.             *)
LEMMA StutterIInv ==
  ASSUME IInv, fault' \in {fault, "ring", "slots"},
         UNCHANGED <<IdentifierCount, table, ringNames, queue, held, threads,
                     syn, finished>>
  PROVE  IInv'
<1>1. /\ Linked' = Linked /\ LinkedTcbs' = LinkedTcbs /\ InTable' = InTable
      /\ \A a \in Apps : HalfOpen(a)' = HalfOpen(a)
  BY SameTable
<1>2. /\ Allocated' = Allocated /\ Allocating' = Allocating
      /\ WithRings' = WithRings
  BY <1>1 DEF threads, Allocated, Allocating, WithRings
<1>3. TypeOK'
  BY DEF table, threads, IInv, TypeOK
<1>4. SlotsApart' /\ NamesApart' /\ AllocationApart'
  BY <1>1, <1>2
  DEF table, threads, IInv, SlotsApart, NamesApart, AllocationApart
<1>5. StatesMeaning' /\ SynInHand' /\ ConnectionsApart' /\ RemovalsJustified'
  BY <1>1
  DEF table, threads, IInv, StatesMeaning, SynInHand, ConnectionsApart,
      RemovalsJustified
<1>6. HandedOut' /\ QueueCovers'
  BY <1>1 DEF table, threads, IInv, HandedOut, QueueCovers
<1>7. QED
  BY <1>3, <1>4, <1>5, <1>6 DEF IInv
-----------------------------------------------------------------------------
(* The initial state and the steps of alloc_tcb.                           *)

(* The table is empty and no thread has begun.                             *)
LEMMA InitIInv ==
  ASSUME Init
  PROVE  IInv
<1>1. TypeOK
  <2>1. heap \in Seq(Tcb) /\ tcbs \in Seq(DOMAIN heap \union {NULL})
    BY DEF Init
  <2>2. Len(tcbs) <= TOTAL_TCBS /\ 0 \in Ids
    BY TableAssumption, FS_CardinalityType DEF Init, Ids
  <2>3. queue \in [Apps -> Seq(DOMAIN heap)] /\ held \in [Apps -> SUBSET Ids]
    BY DEF Init
  <2>4. /\ reg \in [Threads -> Ids] /\ IdentifierCount \in Ids
        /\ ptr \in [Threads -> DOMAIN heap \union {NULL}]
    BY <2>2 DEF Init
  <2>5. QED
    BY <2>1, <2>2, <2>3, <2>4 DEF Init, TypeOK, None
<1>2. Linked = {} /\ LinkedTcbs = {} /\ InTable = {} /\ WithRings = {}
  BY DEF Init, Linked, LinkedTcbs, InTable, WithRings
<1>3. Allocated = {} /\ Allocating = {}
  BY DEF Init, Allocated, Allocating
<1>4. SlotsApart /\ NamesApart /\ AllocationApart /\ StatesMeaning
  BY <1>2, <1>3
  DEF Init, SlotsApart, NamesApart, AllocationApart, StatesMeaning
<1>5. SynInHand /\ ConnectionsApart /\ HandedOut
  BY <1>2, AppsAndLcore DEF Init, SynInHand, ConnectionsApart, HandedOut
<1>6. QueueCovers
  <2>1. \A a \in Apps : HalfOpen(a) = {}
    BY DEF Init, HalfOpen
  <2>2. \A a \in Apps : pc[a] = "idle" /\ Len(queue[a]) = 0
    BY AppsAndLcore DEF Init
  <2>3. \A a \in Apps : Cardinality(HalfOpen(a)) = 0
    BY <2>1, FS_EmptySet
  <2>4. QED
    BY <2>2, <2>3 DEF QueueCovers
<1>7. RemovalsJustified
  BY DEF Init, RemovalsJustified, None
<1>8. QED
  BY <1>1, <1>4, <1>5, <1>6, <1>7 DEF IInv

(* Two threads may read one number here.                                   *)
LEMMA ReadCountIInv ==
  ASSUME IInv, fault = None, NEW t \in Threads, ReadCount(t), UNCHANGED syn
  PROVE  IInv'
<1>1. TypeOK'
  <2>1. 1 \in Ids
    BY TableAssumption, FS_CardinalityType DEF Ids
  <2>2. QED
    BY <2>1 DEF ReadCount, Goto, table, IInv, TypeOK
<1>2. /\ Linked' = Linked /\ LinkedTcbs' = LinkedTcbs /\ InTable' = InTable
      /\ \A a \in Apps : HalfOpen(a)' = HalfOpen(a)
  BY SameTable DEF ReadCount
<1>3. /\ Allocated' = Allocated /\ Allocating' = Allocating
      /\ t \notin Allocated /\ WithRings' = WithRings
  BY <1>2 DEF ReadCount, Goto, IInv, TypeOK, Allocated, Allocating, WithRings
<1>4. SlotsApart' /\ NamesApart'
  BY <1>2, <1>3 DEF ReadCount, table, IInv, SlotsApart, NamesApart
<1>5. AllocationApart'
  BY <1>2, <1>3 DEF ReadCount, table, IInv, TypeOK, AllocationApart, Allocated
<1>6. StatesMeaning' /\ ConnectionsApart' /\ RemovalsJustified'
  BY <1>2
  DEF ReadCount, table, IInv, StatesMeaning, ConnectionsApart,
      RemovalsJustified
<1>7. SynInHand'
  BY <1>2, AppsAndLcore DEF ReadCount, Goto, table, IInv, TypeOK, SynInHand
<1>8. HandedOut' /\ QueueCovers'
  BY <1>2, AppsAndLcore
  DEF ReadCount, Goto, table, IInv, TypeOK, HandedOut, QueueCovers
<1>9. QED
  BY <1>1, <1>4, <1>5, <1>6, <1>7, <1>8 DEF IInv

(* A new tcb is at an address of its own, and nobody else knows it yet.    *)
LEMMA StoreCountIInv ==
  ASSUME IInv, fault = None, NEW t \in Threads, StoreCount(t), UNCHANGED syn
  PROVE  IInv'
<1> DEFINE new == Len(heap) + 1
<1>1. NewTcb(t) \in Tcb
  BY DEF NewTcb, Tcb, States, IInv, TypeOK
<1>2. /\ heap' \in Seq(Tcb) /\ Len(heap) \in Nat
      /\ DOMAIN heap = 1 .. Len(heap)
      /\ DOMAIN heap' = DOMAIN heap \union {new}
      /\ \A x \in DOMAIN heap : heap'[x] = heap[x]
      /\ heap'[new] = NewTcb(t) /\ new \notin DOMAIN heap
  BY <1>1, AppendProperties DEF StoreCount, IInv, TypeOK
<1>3. /\ pc[t] = "read" /\ pc' = [pc EXCEPT ![t] = "rings"]
      /\ ptr' = [ptr EXCEPT ![t] = new]
      /\ UNCHANGED <<freed, tcbs, ringNames, queue, held, reg, fault,
                     finished>>
  BY DEF StoreCount, Goto
<1>4. TypeOK'
  <2>1. IdentifierCount' \in Ids
    BY TableAssumption, FS_CardinalityType DEF StoreCount, IInv, TypeOK, Ids
  <2>2. tcbs' \in Seq(DOMAIN heap' \union {NULL})
    BY <1>2, <1>3, SeqMonotonic DEF IInv, TypeOK
  <2>3. queue' \in [Apps -> Seq(DOMAIN heap')]
    BY <1>2, <1>3, SeqMonotonic DEF IInv, TypeOK
  <2>4. QED
    BY <2>1, <2>2, <2>3, <1>2, <1>3 DEF IInv, TypeOK
<1>5. Linked' = Linked /\ LinkedTcbs' = LinkedTcbs /\ InTable' = InTable
  BY <1>3 DEF Linked, LinkedTcbs, InTable
<1>6. LinkedTcbs \subseteq DOMAIN heap /\ InTable \subseteq DOMAIN heap
  BY TcbsOfHeap DEF IInv
<1>7. /\ Allocated' = Allocated \union {t}
      /\ Allocating' = Allocating \union {t}
      /\ t \notin Allocated /\ Allocating \subseteq Allocated
      /\ \A u \in Allocated :
           u # t /\ ptr'[u] = ptr[u] /\ ptr[u] \in DOMAIN heap
  <2>1. /\ Allocated' = Allocated \union {t}
        /\ Allocating' = Allocating \union {t}
        /\ t \notin Allocated /\ Allocating \subseteq Allocated
    BY <1>3 DEF IInv, TypeOK, Allocated, Allocating
  <2>2. \A u \in Allocated : ptr[u] \in DOMAIN heap
    BY DEF IInv, AllocationApart
  <2>3. \A u \in Allocated : u # t /\ ptr'[u] = ptr[u]
    BY <1>3, <2>1 DEF IInv, TypeOK, Allocated
  <2>4. QED
    BY <2>1, <2>2, <2>3
<1>8. WithRings' = WithRings
  BY <1>3, <1>5 DEF IInv, TypeOK, WithRings
<1>9. WithRings \subseteq DOMAIN heap
  BY <1>6 DEF IInv, AllocationApart, WithRings, Allocated
<1>10. SlotsApart' /\ NamesApart'
  BY <1>2, <1>3, <1>5, <1>6, <1>8, <1>9 DEF IInv, SlotsApart, NamesApart
<1>11. AllocationApart'
  BY <1>2, <1>3, <1>5, <1>6, <1>7
  DEF IInv, TypeOK, AllocationApart, NewTcb
<1>12. StatesMeaning' /\ ConnectionsApart' /\ RemovalsJustified'
  <2>1. StatesMeaning'
    BY <1>2, <1>3 DEF IInv, StatesMeaning, NewTcb
  <2>2. ConnectionsApart'
    BY <1>2, <1>5, <1>6 DEF IInv, ConnectionsApart
  <2>3. RemovalsJustified'
    BY <1>2, <1>3 DEF IInv, TypeOK, RemovalsJustified
  <2>4. QED
    BY <2>1, <2>2, <2>3
<1>13. SynInHand'
  BY <1>2, <1>3, <1>5, <1>6, AppsAndLcore DEF IInv, TypeOK, SynInHand
<1>14. HandedOut'
  <2>1. \A x \in InTable' : heap'[x].identifier = heap[x].identifier
    BY <1>2, <1>5, <1>6
  <2>2. \A a \in Apps : pc'[a] = "using" => pc[a] = "using" /\ ptr'[a] = ptr[a]
    BY <1>3, AppsAndLcore DEF IInv, TypeOK
  <2>3. QED
    BY <1>3, <1>5, <2>1, <2>2 DEF IInv, HandedOut
<1>15. QueueCovers'
  <2>1. \A a \in Apps : HalfOpen(a)' = HalfOpen(a)
    BY <1>2 DEF HalfOpen, NewTcb
  <2>2. QED
    BY <2>1, <1>3 DEF IInv, TypeOK, QueueCovers
<1>16. QED
  BY <1>4, <1>10, <1>11, <1>12, <1>13, <1>14, <1>15 DEF IInv

(* The second of two threads with one number cannot create its rings.      *)
LEMMA CreateRingsIInv ==
  ASSUME IInv, fault = None, NEW t \in Threads, CreateRings(t), UNCHANGED syn
  PROVE  IInv'
<1>1. /\ UNCHANGED <<IdentifierCount, table, queue, held, reg, ptr, finished>>
      /\ pc[t] = "rings"
      /\ \/ /\ reg[t] \notin ringNames
            /\ ringNames' = ringNames \union {reg[t]}
            /\ pc' = [pc EXCEPT ![t] = "link"] /\ UNCHANGED fault
         \/ fault' = "ring" /\ UNCHANGED <<ringNames, pc>>
  BY DEF CreateRings, RingsCreated, Goto
<1>2. TypeOK'
  BY <1>1 DEF table, IInv, TypeOK
<1>3. /\ Linked' = Linked /\ LinkedTcbs' = LinkedTcbs /\ InTable' = InTable
      /\ \A a \in Apps : HalfOpen(a)' = HalfOpen(a)
  BY <1>1, SameTable
<1>4. Allocated' = Allocated /\ Allocating' = Allocating /\ t \in Allocating
  BY <1>1 DEF IInv, TypeOK, Allocated, Allocating
<1>5. SlotsApart' /\ AllocationApart' /\ StatesMeaning' /\ ConnectionsApart'
  BY <1>1, <1>3, <1>4
  DEF table, IInv, SlotsApart, AllocationApart, StatesMeaning, ConnectionsApart
<1>6. NamesApart'
  <2>1. CASE UNCHANGED <<ringNames, pc>>
    BY <2>1, <1>1, <1>3 DEF table, IInv, WithRings, NamesApart
  <2>2. CASE /\ reg[t] \notin ringNames
             /\ ringNames' = ringNames \union {reg[t]}
             /\ pc' = [pc EXCEPT ![t] = "link"]
    <3>1. WithRings' = WithRings \union {ptr[t]}
      BY <2>2, <1>1, <1>3 DEF IInv, TypeOK, WithRings
    <3>2. heap[ptr[t]].identifier = reg[t]
      BY <1>4 DEF IInv, AllocationApart, Allocated, Allocating
    <3>3. QED
      BY <2>2, <3>1, <3>2, <1>1 DEF table, IInv, NamesApart
  <2>3. QED
    BY <2>1, <2>2, <1>1
<1>7. SynInHand'
  BY <1>1, <1>3, AppsAndLcore DEF table, IInv, TypeOK, SynInHand
<1>8. HandedOut' /\ QueueCovers'
  BY <1>1, <1>3, AppsAndLcore DEF table, IInv, TypeOK, HandedOut, QueueCovers
<1>9. RemovalsJustified'
  BY <1>1 DEF table, IInv, RemovalsJustified
<1>10. QED
  BY <1>2, <1>5, <1>6, <1>7, <1>8, <1>9 DEF IInv

(* The tcb enters the table with rings of its own.                         *)
LEMMA LinkTcbIInv ==
  ASSUME IInv, fault = None, NEW t \in Threads, LinkTcb(t), UNCHANGED syn
  PROVE  IInv'
<1>1. /\ UNCHANGED <<IdentifierCount, heap, freed, ringNames, queue, held, reg,
                     ptr, finished>>
      /\ pc[t] = "link"
  BY DEF LinkTcb
<1>2. CASE fault' = "slots" /\ UNCHANGED <<tcbs, pc>>
  BY <1>1, <1>2, StutterIInv DEF table, threads
<1>3. CASE /\ Len(tcbs) < TOTAL_TCBS /\ tcbs' = Append(tcbs, ptr[t])
           /\ pc' = [pc EXCEPT ![t] = "linked"] /\ UNCHANGED fault
  <2>1. t \in Allocating /\ t \in Allocated
    BY <1>1 DEF Allocating, Allocated
  <2>2. /\ ptr[t] \in DOMAIN heap /\ ptr[t] # NULL /\ ptr[t] \notin InTable
        /\ heap[ptr[t]].client = None /\ heap[ptr[t]].port = None
        /\ ptr[t] \in WithRings
    BY <1>1, <2>1, TcbsOfHeap DEF IInv, AllocationApart, WithRings
  <2>3. /\ tcbs' \in Seq(DOMAIN heap \union {NULL})
        /\ Len(tcbs') = Len(tcbs) + 1
        /\ DOMAIN tcbs' = DOMAIN tcbs \union {Len(tcbs) + 1}
        /\ Len(tcbs) + 1 \notin DOMAIN tcbs
        /\ \A i \in DOMAIN tcbs : tcbs'[i] = tcbs[i]
        /\ tcbs'[Len(tcbs) + 1] = ptr[t]
    BY <1>3, <2>2, AppendProperties DEF IInv, TypeOK
  <2>4. /\ Linked' = Linked \union {Len(tcbs) + 1}
        /\ LinkedTcbs' = LinkedTcbs \union {ptr[t]}
        /\ InTable' = InTable \union {ptr[t]}
    <3>1. Linked' = Linked \union {Len(tcbs) + 1}
      BY <2>2, <2>3 DEF Linked
    <3>2. LinkedTcbs' = LinkedTcbs \union {ptr[t]}
      BY <2>3, <3>1 DEF LinkedTcbs, Linked
    <3>3. QED
      BY <1>1, <3>1, <3>2 DEF InTable
  <2>5. TypeOK'
    BY <1>1, <1>3, <2>3, TableAssumption DEF IInv, TypeOK
  <2>6. /\ Allocated' = Allocated /\ Allocating' = Allocating \ {t}
        /\ WithRings' = WithRings
    <3>1. Allocated' = Allocated /\ Allocating' = Allocating \ {t}
      BY <1>1, <1>3 DEF IInv, TypeOK, Allocated, Allocating
    <3>2. WithRings' = WithRings
      BY <1>1, <1>3, <2>4 DEF IInv, TypeOK, WithRings
    <3>3. QED
      BY <3>1, <3>2
  <2>7. SlotsApart'
    BY <1>1, <2>2, <2>3, <2>4 DEF IInv, SlotsApart, LinkedTcbs, InTable, Linked
  <2>8. NamesApart'
    BY <1>1, <2>6 DEF IInv, NamesApart
  <2>9. AllocationApart'
    BY <1>1, <2>1, <2>2, <2>4, <2>6
    DEF IInv, AllocationApart, Allocating, Allocated
  <2>10. StatesMeaning' /\ ConnectionsApart' /\ RemovalsJustified'
    BY <1>1, <1>3, <2>2, <2>4
    DEF IInv, StatesMeaning, ConnectionsApart, RemovalsJustified
  <2>11. SynInHand'
    BY <1>1, <1>3, <2>2, <2>4, AppsAndLcore DEF IInv, TypeOK, SynInHand
  <2>12. HandedOut' /\ QueueCovers'
    BY <1>1, <1>3, <2>4, AppsAndLcore
    DEF IInv, TypeOK, HandedOut, QueueCovers, HalfOpen
  <2>13. QED
    BY <2>5, <2>7, <2>8, <2>9, <2>10, <2>11, <2>12 DEF IInv
<1>4. QED
  BY <1>2, <1>3 DEF LinkTcb, HasSlot, Goto

-----------------------------------------------------------------------------
(* The lcore: tcp_listen and the handlers of tcp_in.                       *)

(* The half-open connections are finitely many.                            *)
LEMMA HalfOpenFinite ==
  ASSUME TypeOK, NEW a
  PROVE  IsFiniteSet(HalfOpen(a)) /\ Cardinality(HalfOpen(a)) \in Nat
<1>1. DOMAIN heap = 1 .. Len(heap) /\ Len(heap) \in Nat
  BY DEF TypeOK
<1>2. IsFiniteSet(DOMAIN heap)
  BY <1>1, FS_Interval
<1>3. HalfOpen(a) \in SUBSET DOMAIN heap
  BY DEF HalfOpen
<1>4. QED
  BY <1>2, <1>3, FS_Subset, FS_CardinalityType

(* remove_tcb by the lcore, of a connection whose FIN was handled or of    *)
(* the tcb it has just allocated.                                          *)
LEMMA RemoveIInv ==
  ASSUME IInv, NEW x \in LinkedTcbs, remove_tcb(heap[x].identifier),
         \/ heap[x].client # None /\ x \in finished
         \/ pc[Lcore] = "linked" /\ x = ptr[Lcore],
         pc' = [pc EXCEPT ![Lcore] = "idle"], syn' = NoSyn,
         UNCHANGED <<IdentifierCount, heap, ringNames, queue, held, reg, ptr,
                     fault, finished>>
  PROVE  IInv'
<1>1. /\ tcbs' \in Seq(DOMAIN heap \union {NULL}) /\ Len(tcbs') = Len(tcbs)
      /\ freed' = freed \union {x} /\ x \in DOMAIN heap
      /\ Linked' \subseteq Linked /\ \A i \in Linked' : tcbs'[i] = tcbs[i]
      /\ LinkedTcbs' = LinkedTcbs \ {x}
      /\ InTable' = InTable
  BY RemoveTcb, TcbsOfHeap DEF IInv
<1>2. Lcore \in Threads
  BY AppsAndLcore
<1>3. /\ Allocated' = Allocated \ {Lcore}
      /\ Allocating' = Allocating \ {Lcore}
      /\ \A t \in Threads \ {Lcore} : pc'[t] = pc[t]
      /\ pc'[Lcore] = "idle"
  BY <1>2 DEF IInv, TypeOK, Allocated, Allocating
<1>4. WithRings' \subseteq WithRings
  BY <1>1, <1>3 DEF WithRings
<1>5. \A t \in Allocated' : t # Lcore /\ ptr[t] # x
  BY <1>2, <1>3 DEF IInv, AllocationApart, Allocated
<1>6. TypeOK'
  BY <1>1, <1>2 DEF IInv, TypeOK
<1>7. SlotsApart'
  BY <1>1 DEF IInv, SlotsApart
<1>8. NamesApart'
  BY <1>4 DEF IInv, NamesApart
<1>9. AllocationApart'
  BY <1>1, <1>3, <1>5 DEF IInv, AllocationApart
<1>10. StatesMeaning' /\ ConnectionsApart'
  BY <1>1 DEF IInv, StatesMeaning, ConnectionsApart
<1>11. SynInHand'
  BY <1>3 DEF SynInHand, NoSyn
<1>12. HandedOut'
  <2>1. freed' # {}
    BY <1>1
  <2>2. QED
    BY <1>1, <2>1 DEF IInv, HandedOut
<1>13. QueueCovers'
  BY <1>3, AppsAndLcore DEF IInv, QueueCovers, HalfOpen
<1>14. RemovalsJustified'
  <2>1. heap[x].port = None \/ (heap[x].client # None /\ x \in finished)
    BY <1>2 DEF IInv, AllocationApart, Allocated
  <2>2. QED
    BY <1>1, <2>1 DEF IInv, RemovalsJustified
<1>15. QED
  BY <1>6, <1>7, <1>8, <1>9, <1>10, <1>11, <1>12, <1>13, <1>14 DEF IInv

(* The new tcb takes the connection, for which there was no tcb when the   *)
(* SYN came, and a place in the queue; or the queue is full.               *)
LEMMA TcpListenIInv ==
  ASSUME IInv, tcp_listen
  PROVE  IInv'
<1>1. /\ pc[Lcore] = "linked" /\ pc' = [pc EXCEPT ![Lcore] = "idle"]
      /\ syn' = NoSyn
      /\ UNCHANGED <<IdentifierCount, ringNames, held, reg, ptr, fault,
                     finished>>
  BY DEF tcp_listen, Goto
<1>2. Lcore \in Threads /\ Lcore \in Allocated /\ Lcore \notin Allocating
  BY <1>1, AppsAndLcore DEF Allocated, Allocating
<1>3. PICK x \in LinkedTcbs :
        /\ x = ptr[Lcore] /\ x \in DOMAIN heap
        /\ heap[x].client = None /\ heap[x].port = None
        /\ heap[x].state = "CLOSED"
  BY <1>2 DEF IInv, AllocationApart
<1>4. PICK c \in Clients, p \in Apps : c = syn.client /\ p = syn.port
  BY <1>1 DEF IInv, TypeOK, SynInHand
<1>5. CASE Len(queue[p]) >= QueueMax
  <2>1. remove_tcb(heap[x].identifier) /\ UNCHANGED <<heap, queue>>
    BY <1>3, <1>4, <1>5, TableAssumption DEF tcp_listen, IInv, TypeOK
  <2>2. QED
    BY <1>1, <1>3, <2>1, RemoveIInv
<1>6. CASE Len(queue[p]) < QueueMax
  <2> DEFINE t == [heap[x] EXCEPT !.port = p, !.client = c,
                                  !.state = "SYN_RECV"]
  <2>1. /\ queue' = [queue EXCEPT ![p] = Append(@, x)]
        /\ heap' = [heap EXCEPT ![x].port = p, ![x].client = c,
                                ![x].state = "SYN_RECV"]
        /\ UNCHANGED <<freed, tcbs>>
    BY <1>3, <1>4, <1>6 DEF tcp_listen
  <2>2. /\ t \in Tcb /\ t.identifier = heap[x].identifier
        /\ t.port = p /\ t.client = c /\ t.state = "SYN_RECV"
    <3>1. heap[x] \in Tcb
      BY <1>3, TcbsOfHeap DEF IInv
    <3>2. QED
      BY <3>1 DEF Tcb, States
  <2>3. heap' = [heap EXCEPT ![x] = t]
    BY <1>3, <2>1 DEF IInv, TypeOK
  <2> HIDE DEF t
  <2>4. /\ heap' \in Seq(Tcb) /\ DOMAIN heap' = DOMAIN heap /\ heap'[x] = t
        /\ \A y \in DOMAIN heap \ {x} : heap'[y] = heap[y]
    BY <1>3, <2>2, <2>3, ChangeTcb DEF IInv
  <2>5. \A y \in DOMAIN heap : heap'[y].identifier = heap[y].identifier
    BY <2>2, <2>4
  <2>6. Linked' = Linked /\ LinkedTcbs' = LinkedTcbs /\ InTable' = InTable
    BY <2>1 DEF Linked, LinkedTcbs, InTable
  <2>7. /\ LinkedTcbs \subseteq DOMAIN heap /\ InTable \subseteq DOMAIN heap
        /\ WithRings \subseteq DOMAIN heap
    BY TcbsOfHeap DEF IInv, AllocationApart, WithRings, Allocated
  <2>8. /\ Allocated' = Allocated \ {Lcore}
        /\ Allocating' = Allocating
        /\ \A u \in Threads \ {Lcore} : pc'[u] = pc[u]
        /\ pc'[Lcore] = "idle"
    BY <1>1, <1>2 DEF IInv, TypeOK, Allocated, Allocating
  <2>9. WithRings' \subseteq WithRings
    BY <1>1, <2>6, <2>8, <1>2 DEF WithRings
  <2>10. /\ queue' \in [Apps -> Seq(DOMAIN heap)]
         /\ Len(queue'[p]) = Len(queue[p]) + 1
         /\ \A k \in DOMAIN queue'[p] :
              \/ queue'[p][k] = x
              \/ k \in DOMAIN queue[p] /\ queue'[p][k] = queue[p][k]
         /\ \A a \in Apps \ {p} : queue'[a] = queue[a]
    <3>1. queue[p] \in Seq(DOMAIN heap)
      BY <1>4 DEF IInv, TypeOK
    <3>2. queue'[p] = Append(queue[p], x)
      BY <1>4, <2>1 DEF IInv, TypeOK
    <3>3. \A a \in Apps \ {p} : queue'[a] = queue[a]
      BY <2>1 DEF IInv, TypeOK
    <3>4. queue'[p] \in Seq(DOMAIN heap) /\ Len(queue'[p]) = Len(queue[p]) + 1
      BY <1>3, <3>1, <3>2, AppendProperties
    <3>5. \A k \in DOMAIN queue'[p] :
            \/ queue'[p][k] = x
            \/ k \in DOMAIN queue[p] /\ queue'[p][k] = queue[p][k]
      BY <1>3, <3>1, <3>2, AppendProperties
    <3>6. queue' \in [Apps -> Seq(DOMAIN heap)]
      BY <1>3, <1>4, <2>1, <3>1, <3>2, <3>4 DEF IInv, TypeOK
    <3>7. QED
      BY <3>3, <3>4, <3>5, <3>6
  <2>11. TypeOK'
    BY <1>1, <1>2, <2>1, <2>4, <2>10 DEF IInv, TypeOK
  <2>12. SlotsApart'
    BY <2>1, <2>6 DEF IInv, SlotsApart
  <2>13. NamesApart'
    BY <1>1, <2>5, <2>7, <2>9 DEF IInv, NamesApart
  <2>14. AllocationApart'
    <3>1. \A u \in Allocated' : u \in Allocated /\ ptr[u] # x
      BY <1>2, <1>3, <2>8 DEF IInv, AllocationApart
    <3>2. QED
      BY <1>1, <2>4, <2>6, <2>8, <3>1 DEF IInv, AllocationApart
  <2>15. StatesMeaning'
    <3>1. heap'[x].state = "SYN_RECV" /\ heap'[x].port # None
      BY <2>2, <2>4, TableAssumption
    <3>2. heap'[x].client # None
      BY <2>2, <2>4, TableAssumption
    <3>3. QED
      BY <1>1, <2>4, <3>1, <3>2 DEF IInv, StatesMeaning
  <2>16. SynInHand'
    BY <1>1, <2>8 DEF SynInHand, NoSyn
  <2>17. ConnectionsApart'
    <3>1. heap'[x].client = syn.client /\ heap'[x].port = syn.port
      BY <1>4, <2>2, <2>4
    <3>2. \A y \in LinkedTcbs \ {x} :
            /\ heap'[y] = heap[y]
            /\ heap[y].client # None =>
                 heap[y].client # syn.client \/ heap[y].port # syn.port
      BY <2>4, <2>7 DEF IInv, SynInHand
    <3>3. QED
      BY <2>6, <3>1, <3>2 DEF IInv, ConnectionsApart
  <2>18. HandedOut'
    <3>1. \A a \in Apps : \A k \in DOMAIN queue'[a] : queue'[a][k] \in InTable
      BY <1>3, <2>10 DEF IInv, HandedOut, InTable
    <3>2. \A y \in InTable' : heap'[y].identifier = heap[y].identifier
      BY <2>5, <2>6, <2>7
    <3>3. \A a \in Apps : pc'[a] = pc[a]
      BY <2>8, AppsAndLcore
    <3>4. \A a \in Apps : \A id \in held'[a] :
            \E y \in InTable' : heap'[y].identifier = id
      BY <1>1, <2>6, <3>2 DEF IInv, HandedOut
    <3>5. \A a \in Apps : pc'[a] = "using" /\ ptr'[a] = NULL => freed' # {}
      BY <1>1, <2>1, <3>3 DEF IInv, HandedOut
    <3>6. QED
      BY <2>6, <3>1, <3>4, <3>5 DEF HandedOut
  <2>19. QueueCovers'
    <3>1. \A a \in Apps \ {p} : HalfOpen(a)' = HalfOpen(a)
      BY <1>3, <2>2, <2>4, TableAssumption DEF HalfOpen
    <3>2. HalfOpen(p)' = HalfOpen(p) \union {x} /\ x \notin HalfOpen(p)
      BY <1>3, <2>2, <2>4 DEF HalfOpen
    <3>3. Cardinality(HalfOpen(p)') = Cardinality(HalfOpen(p)) + 1
          /\ Cardinality(HalfOpen(p)) \in Nat
      BY <3>2, HalfOpenFinite, FS_AddElement DEF IInv
    <3>4. \A a \in Apps : pc'[a] = pc[a]
      BY <2>8, AppsAndLcore
    <3>5. Cardinality(HalfOpen(p)') + (IF pc'[p] = "woken" THEN 1 ELSE 0)
            <= Len(queue'[p])
      <4>1. Cardinality(HalfOpen(p)) + (IF pc[p] = "woken" THEN 1 ELSE 0)
              <= Len(queue[p])
        BY DEF IInv, QueueCovers
      <4>2. Len(queue[p]) \in Nat /\ pc'[p] = pc[p]
        BY <3>4 DEF IInv, TypeOK
      <4>3. QED
        BY <2>10, <3>3, <4>1, <4>2
    <3>6. \A a \in Apps \ {p} :
            Cardinality(HalfOpen(a)') + (IF pc'[a] = "woken" THEN 1 ELSE 0)
              <= Len(queue'[a])
      BY <2>10, <3>1, <3>4 DEF IInv, QueueCovers
    <3>7. QED
      BY <3>5, <3>6 DEF QueueCovers
  <2>20. RemovalsJustified'
    <3>1. x \notin freed
      BY <1>3 DEF IInv, SlotsApart
    <3>2. QED
      BY <1>1, <2>1, <2>4, <3>1 DEF IInv, TypeOK, RemovalsJustified
  <2>21. QED
    BY <2>11, <2>12, <2>13, <2>14, <2>15, <2>16, <2>17, <2>18, <2>19, <2>20
    DEF IInv
<1>7. QED
  BY <1>5, <1>6, TableAssumption DEF IInv, TypeOK

(* findtcb returns a tcb of the table: one of the packet's connection, or, *)
(* when there is none, one that listens on its port.                       *)
LEMMA FoundTcb ==
  ASSUME IInv, NEW c \in Clients, NEW p \in Apps, findtcb(c, p) # NULL
  PROVE  LET x == findtcb(c, p) IN
         /\ x \in LinkedTcbs /\ x \in DOMAIN heap
         /\ heap[x].port = p
         /\ \/ heap[x].client = c /\ heap[x].client # None
            \/ /\ heap[x].state = "LISTENING"
               /\ \A y \in LinkedTcbs : heap[y].client # c \/ heap[y].port # p
<1> DEFINE x == findtcb(c, p)
<1>1. Stablized(c, p) \subseteq Linked /\ Listening(p) \subseteq Linked
  BY DEF Stablized, Listening
<1>2. CASE Stablized(c, p) # {}
  <2>1. PICK i \in Stablized(c, p) : x = tcbs[i]
    BY <1>1, <1>2, LookUpResult DEF findtcb, IInv
  <2>2. heap[x].client = c /\ heap[x].port = p /\ x \in LinkedTcbs
    BY <2>1 DEF Stablized, LinkedTcbs
  <2>3. QED
    BY <2>2, TcbsOfHeap, TableAssumption DEF IInv
<1>3. CASE Stablized(c, p) = {}
  <2>1. x = TcbAtFirst(Listening(p))
    BY <1>3 DEF findtcb
  <2>2. PICK i \in Listening(p) : x = tcbs[i]
    BY <1>1, <2>1, LookUpResult DEF IInv
  <2>3. heap[x].state = "LISTENING" /\ heap[x].port = p /\ x \in LinkedTcbs
    BY <2>2 DEF Listening, LinkedTcbs
  <2>4. \A y \in LinkedTcbs : heap[y].client # c \/ heap[y].port # p
    BY <1>3 DEF Stablized, LinkedTcbs
  <2>5. QED
    BY <2>3, <2>4, TcbsOfHeap DEF IInv
<1>4. QED
  BY <1>2, <1>3

(* A handler sets the state of a connection to a later one; the first that *)
(* leaves SYN_RECV wakes the thread that waits.                            *)
LEMMA AdvanceIInv ==
  ASSUME IInv, NEW x \in LinkedTcbs,
         NEW s \in {"ESTABLISHED", "FIN_2", "CLOSED"},
         heap[x].client # None, SetState(x, s),
         finished' \in {finished, finished \union {x}},
         s # "ESTABLISHED" => x \in finished',
         \/ UNCHANGED pc
         \/ heap[x].state = "SYN_RECV" /\ SignalAccept(heap[x].port),
         UNCHANGED <<IdentifierCount, ringNames, queue, held, reg, ptr, syn,
                     fault>>
  PROVE  IInv'
<1> DEFINE t == [heap[x] EXCEPT !.state = s]
<1>1. x \in DOMAIN heap /\ heap[x] \in Tcb
  BY TcbsOfHeap DEF IInv
<1>2. /\ t \in Tcb /\ t.state = s /\ t.identifier = heap[x].identifier
      /\ t.port = heap[x].port /\ t.client = heap[x].client
  BY <1>1 DEF Tcb, States
<1>3. heap' = [heap EXCEPT ![x] = t] /\ UNCHANGED <<freed, tcbs>>
  BY <1>1 DEF SetState, IInv, TypeOK
<1> HIDE DEF t
<1>4. /\ heap' \in Seq(Tcb) /\ DOMAIN heap' = DOMAIN heap /\ heap'[x] = t
      /\ \A y \in DOMAIN heap \ {x} : heap'[y] = heap[y]
  BY <1>1, <1>2, <1>3, ChangeTcb DEF IInv
<1>5. \A y \in DOMAIN heap :
        /\ heap'[y].identifier = heap[y].identifier
        /\ heap'[y].port = heap[y].port /\ heap'[y].client = heap[y].client
  BY <1>2, <1>4
<1>6. PICK p \in Apps : p = heap[x].port
  BY <1>1 DEF IInv, StatesMeaning, Tcb
<1>7. /\ Lcore \in Threads /\ p \in Threads /\ p # Lcore
      /\ \A a \in Apps : a \in Threads /\ a # Lcore
  BY AppsAndLcore
<1>8. \/ pc' = pc
      \/ /\ heap[x].state = "SYN_RECV" /\ pc[p] = "waiting"
         /\ pc' = [pc EXCEPT ![p] = "woken"]
  BY <1>6 DEF SignalAccept
<1>9. Linked' = Linked /\ LinkedTcbs' = LinkedTcbs /\ InTable' = InTable
  BY <1>3 DEF Linked, LinkedTcbs, InTable
<1>10. Allocated' = Allocated /\ Allocating' = Allocating
  BY <1>7, <1>8 DEF IInv, TypeOK, Allocated, Allocating
<1>11. WithRings' = WithRings
  BY <1>7, <1>8, <1>9 DEF IInv, TypeOK, WithRings
<1>12. WithRings \subseteq DOMAIN heap /\ InTable \subseteq DOMAIN heap
  BY TcbsOfHeap DEF IInv, AllocationApart, WithRings, Allocated
<1>13. TypeOK'
  BY <1>1, <1>3, <1>4, <1>7, <1>8 DEF IInv, TypeOK
<1>14. SlotsApart' /\ NamesApart'
  BY <1>3, <1>5, <1>9, <1>11, <1>12 DEF IInv, SlotsApart, NamesApart
<1>15. AllocationApart'
  <2>1. \A u \in Allocated : ptr[u] # x
    BY DEF IInv, AllocationApart
  <2>2. QED
    BY <1>4, <1>9, <1>10, <2>1 DEF IInv, AllocationApart
<1>16. StatesMeaning'
  BY <1>2, <1>4 DEF IInv, StatesMeaning
<1>17. SynInHand' /\ ConnectionsApart'
  <2>1. LinkedTcbs \subseteq DOMAIN heap /\ pc'[Lcore] = pc[Lcore]
    BY <1>7, <1>8, TcbsOfHeap DEF IInv, TypeOK
  <2>2. QED
    BY <1>5, <1>9, <2>1 DEF IInv, SynInHand, ConnectionsApart
<1>18. HandedOut'
  <2>1. \A y \in InTable : heap'[y].identifier = heap[y].identifier
    BY <1>5, <1>12
  <2>2. \A a \in Apps : pc'[a] = "using" => pc[a] = "using"
    BY <1>7, <1>8 DEF IInv, TypeOK
  <2>3. \A a \in Apps : \A id \in held'[a] :
          \E y \in InTable' : heap'[y].identifier = id
    BY <1>9, <2>1 DEF IInv, HandedOut
  <2>4. QED
    BY <1>3, <1>9, <2>2, <2>3 DEF IInv, HandedOut
<1>19. QueueCovers'
  <2>1. \A a \in Apps : HalfOpen(a)' = HalfOpen(a) \ {x}
    BY <1>1, <1>2, <1>4 DEF HalfOpen
  <2>2. \A a \in Apps :
          /\ Cardinality(HalfOpen(a)) \in Nat
          /\ Cardinality(HalfOpen(a)') = IF x \in HalfOpen(a)
                                         THEN Cardinality(HalfOpen(a)) - 1
                                         ELSE Cardinality(HalfOpen(a))
    BY <2>1, HalfOpenFinite, FS_RemoveElement DEF IInv
  <2>3. ASSUME NEW a \in Apps
        PROVE  Cardinality(HalfOpen(a)') + (IF pc'[a] = "woken" THEN 1 ELSE 0)
                 <= Len(queue[a])
    <3>1. Cardinality(HalfOpen(a)) + (IF pc[a] = "woken" THEN 1 ELSE 0)
            <= Len(queue[a])
      BY DEF IInv, QueueCovers
    <3>2. Len(queue[a]) \in Nat
      BY DEF IInv, TypeOK
    <3>3. CASE pc'[a] = pc[a]
      BY <2>2, <3>1, <3>2, <3>3
    <3>4. CASE /\ a = p /\ heap[x].state = "SYN_RECV"
               /\ pc[a] = "waiting" /\ pc'[a] = "woken"
      <4>1. x \in HalfOpen(a)
        BY <1>1, <1>6, <3>4 DEF HalfOpen
      <4>2. QED
        BY <2>2, <3>1, <3>2, <3>4, <4>1
    <3>5. QED
      BY <1>7, <1>8, <3>3, <3>4 DEF IInv, TypeOK
  <2>4. QED
    BY <2>3 DEF QueueCovers
<1>20. RemovalsJustified'
  BY <1>3, <1>5 DEF IInv, TypeOK, RemovalsJustified
<1>21. QED
  BY <1>13, <1>14, <1>15, <1>16, <1>17, <1>18, <1>19, <1>20 DEF IInv

(* tcp_listen begins: a SYN for which there is no connection.              *)
LEMMA StartListenIInv ==
  ASSUME IInv, pc[Lcore] = "idle", NEW c \in Clients, NEW p \in Apps,
         \A y \in LinkedTcbs : heap[y].client # c \/ heap[y].port # p,
         Goto(Lcore, "alloc"), syn' = [client |-> c, port |-> p],
         UNCHANGED <<IdentifierCount, table, ringNames, queue, held, reg, ptr,
                     fault, finished>>
  PROVE  IInv'
<1>1. /\ Linked' = Linked /\ LinkedTcbs' = LinkedTcbs /\ InTable' = InTable
      /\ \A a \in Apps : HalfOpen(a)' = HalfOpen(a)
  BY SameTable
<1>2. /\ Lcore \in Threads /\ pc'[Lcore] = "alloc"
      /\ \A a \in Apps : pc'[a] = pc[a]
  BY AppsAndLcore DEF Goto, IInv, TypeOK
<1>3. Allocated' = Allocated /\ Allocating' = Allocating
  BY <1>2 DEF Goto, IInv, TypeOK, Allocated, Allocating
<1>4. WithRings' = WithRings
  BY <1>1, <1>2 DEF Goto, IInv, TypeOK, WithRings
<1>5. TypeOK'
  BY <1>2 DEF Goto, table, IInv, TypeOK
<1>6. SlotsApart' /\ NamesApart' /\ AllocationApart'
  BY <1>1, <1>3, <1>4
  DEF table, IInv, SlotsApart, NamesApart, AllocationApart
<1>7. StatesMeaning' /\ ConnectionsApart' /\ RemovalsJustified'
  BY <1>1 DEF table, IInv, StatesMeaning, ConnectionsApart, RemovalsJustified
<1>8. SynInHand'
  <2>1. syn' # NoSyn
    BY TableAssumption DEF NoSyn
  <2>2. QED
    BY <1>1, <1>2, <2>1 DEF table, SynInHand
<1>9. HandedOut' /\ QueueCovers'
  BY <1>1, <1>2 DEF table, IInv, HandedOut, QueueCovers
<1>10. QED
  BY <1>5, <1>6, <1>7, <1>8, <1>9 DEF IInv

(* A packet: the handler of the state of the tcb that findtcb found.       *)
LEMMA TcpInIInv ==
  ASSUME IInv, fault = None, NEW c \in Clients, NEW p \in Apps,
         NEW kind \in Kinds, tcp_in(c, p, kind)
  PROVE  IInv'
<1> DEFINE rest ==
             UNCHANGED <<IdentifierCount, ringNames, queue, held, reg, ptr>>
<1>1. pc[Lcore] = "idle" /\ rest /\ syn = NoSyn
  BY DEF tcp_in, IInv, SynInHand
<1>2. CASE fault' = "null" /\ UNCHANGED <<table, finished, pc, syn>>
           /\ FollowsNull(c, p)
  <2>1. freed # {}
    BY <1>2 DEF FollowsNull, IInv, SlotsApart
  <2>2. /\ Linked' = Linked /\ LinkedTcbs' = LinkedTcbs /\ InTable' = InTable
        /\ \A a \in Apps : HalfOpen(a)' = HalfOpen(a)
    BY <1>2, SameTable
  <2>3. /\ Allocated' = Allocated /\ Allocating' = Allocating
        /\ WithRings' = WithRings
    BY <1>1, <1>2, <2>2 DEF Allocated, Allocating, WithRings
  <2>4. TypeOK' /\ SlotsApart' /\ NamesApart' /\ AllocationApart'
    BY <1>1, <1>2, <2>2, <2>3
    DEF table, IInv, TypeOK, SlotsApart, NamesApart, AllocationApart
  <2>5. /\ StatesMeaning' /\ SynInHand' /\ ConnectionsApart'
        /\ HandedOut' /\ QueueCovers' /\ RemovalsJustified'
    BY <1>1, <1>2, <2>1, <2>2
    DEF table, IInv, StatesMeaning, SynInHand, ConnectionsApart, HandedOut,
        QueueCovers, RemovalsJustified
  <2>6. QED
    BY <2>4, <2>5 DEF IInv
<1>3. CASE UNCHANGED <<table, finished, pc, syn, fault>>
  BY <1>1, <1>3, StutterIInv DEF threads
<1>4. ASSUME findtcb(c, p) # NULL, tcpswitch(findtcb(c, p), c, kind),
             UNCHANGED fault
      PROVE  IInv'
  <2>1. PICK x \in LinkedTcbs :
          /\ x = findtcb(c, p) /\ x \in DOMAIN heap /\ heap[x].port = p
          /\ \/ heap[x].client = c /\ heap[x].client # None
             \/ /\ heap[x].state = "LISTENING"
                /\ \A y \in LinkedTcbs : heap[y].client # c \/ heap[y].port # p
    BY <1>4, FoundTcb
  <2>2. heap[x].state \in States
    BY <2>1, TcbsOfHeap DEF IInv, Tcb
  <2>3. heap[x].state = "LISTENING" => heap[x].client = None
    BY <2>1 DEF IInv, StatesMeaning
  <2>4. CASE heap[x].state = "LISTENING"
    <3>1. CASE kind = "SYN"
      <4>1. StartListen(x, c)
        BY <1>4, <2>1, <2>4, <3>1 DEF tcpswitch
      <4>2. QED
        BY <1>1, <1>4, <2>1, <2>3, <2>4, <4>1, StartListenIInv DEF StartListen
    <3>2. CASE kind # "SYN"
      BY <1>3, <1>4, <2>1, <2>4, <3>2 DEF tcpswitch
    <3>3. QED
      BY <3>1, <3>2
  <2>5. CASE heap[x].state = "SYN_RECV"
    <3>1. tcp_syn_rcv(x, kind) /\ UNCHANGED syn
      BY <1>4, <2>1, <2>5 DEF tcpswitch
    <3>2. CASE kind = "SYN"
      BY <1>3, <1>4, <3>1, <3>2 DEF tcp_syn_rcv, IgnoreOnReset
    <3>3. CASE kind # "SYN"
      BY <1>1, <1>4, <2>1, <2>5, <3>1, <3>3, AdvanceIInv DEF tcp_syn_rcv
    <3>4. QED
      BY <3>2, <3>3
  <2>6. CASE heap[x].state = "ESTABLISHED"
    <3>1. tcp_established(x, kind) /\ UNCHANGED <<pc, syn>>
      BY <1>4, <2>1, <2>6 DEF tcpswitch
    <3>2. CASE kind \in {"FIN", "DATAFIN"}
      BY <1>1, <1>4, <2>1, <2>6, <3>1, <3>2, AdvanceIInv DEF tcp_established
    <3>3. CASE kind \notin {"FIN", "DATAFIN"}
      BY <1>3, <1>4, <3>1, <3>3 DEF tcp_established
    <3>4. QED
      BY <3>2, <3>3
  <2>7. CASE heap[x].state = "FIN_2"
    <3>1. tcp_fin2(x) /\ UNCHANGED <<pc, syn>>
      BY <1>4, <2>1, <2>7 DEF tcpswitch
    <3>2. x \in finished
      BY <2>1, <2>7 DEF IInv, StatesMeaning
    <3>3. QED
      BY <1>1, <1>4, <2>1, <2>7, <3>1, <3>2, AdvanceIInv DEF tcp_fin2
  <2>8. CASE heap[x].state = "CLOSED"
    <3>1. tcp_closed(x) /\ UNCHANGED <<pc, syn>>
      BY <1>4, <2>1, <2>8 DEF tcpswitch
    <3>2. x \in finished /\ heap[x].client # None
      BY <2>1, <2>8 DEF IInv, StatesMeaning
    <3>3. pc' = [pc EXCEPT ![Lcore] = "idle"] /\ syn' = NoSyn
      BY <1>1, <3>1 DEF IInv, TypeOK
    <3>4. QED
      BY <1>1, <1>4, <2>1, <3>1, <3>2, <3>3, RemoveIInv DEF tcp_closed
  <2>9. QED
    BY <2>2, <2>4, <2>5, <2>6, <2>7, <2>8 DEF States
<1>5. QED
  BY <1>1, <1>2, <1>3, <1>4 DEF tcp_in

-----------------------------------------------------------------------------
(* The application.                                                        *)

(* What the steps that only move a thread, or take from a queue, keep.     *)
LEMMA AppStep ==
  ASSUME IInv, NEW a \in Apps, a \notin Allocated,
         NEW label \in {"alloc", "bound", "waiting", "using"}, Goto(a, label),
         ptr' \in [Threads -> DOMAIN heap \union {NULL}],
         \A t \in Threads \ {a} : ptr'[t] = ptr[t],
         UNCHANGED <<IdentifierCount, table, ringNames, reg, syn, finished>>
  PROVE  /\ IdentifierCount' \in Ids /\ pc' \in [Threads -> {"idle", "alloc",
              "read", "rings", "link", "linked", "bound", "waiting", "woken",
              "using"}]
         /\ InTable' = InTable
         /\ SlotsApart' /\ NamesApart' /\ AllocationApart' /\ StatesMeaning'
         /\ SynInHand' /\ ConnectionsApart'
         /\ \A b \in Apps : HalfOpen(b)' = HalfOpen(b)
         /\ \A b \in Apps \ {a} : pc'[b] = pc[b] /\ ptr'[b] = ptr[b]
         /\ pc'[a] = label
<1>1. /\ Linked' = Linked /\ LinkedTcbs' = LinkedTcbs /\ InTable' = InTable
      /\ \A b \in Apps : HalfOpen(b)' = HalfOpen(b)
  BY SameTable
<1>2. /\ a \in Threads /\ a # Lcore /\ Lcore \in Threads
      /\ \A b \in Apps : b \in Threads
      /\ pc' = [pc EXCEPT ![a] = label]
  BY AppsAndLcore DEF Goto
<1>3. Allocated' = Allocated /\ Allocating' = Allocating
  BY <1>2 DEF IInv, TypeOK, Allocated, Allocating
<1>4. WithRings' = WithRings
  <2>1. {u \in Threads : pc'[u] = "link"} = {u \in Threads : pc[u] = "link"}
    BY <1>2 DEF IInv, TypeOK, Allocated
  <2>2. \A u \in {v \in Threads : pc[v] = "link"} : ptr'[u] = ptr[u]
    BY DEF Allocated
  <2>3. QED
    BY <1>1, <2>1, <2>2 DEF WithRings
<1>5. \A t \in Allocated : ptr'[t] = ptr[t]
  BY DEF Allocated
<1>6. SlotsApart' /\ NamesApart' /\ AllocationApart'
  BY <1>1, <1>3, <1>4, <1>5
  DEF table, IInv, SlotsApart, NamesApart, AllocationApart
<1>7. StatesMeaning' /\ SynInHand' /\ ConnectionsApart'
  BY <1>1, <1>2
  DEF table, IInv, TypeOK, StatesMeaning, SynInHand, ConnectionsApart
<1>8. QED
  BY <1>1, <1>2, <1>6, <1>7 DEF IInv, TypeOK

(* socket_open, or waiting in socket_accept.                               *)
LEMMA MoveIInv ==
  ASSUME IInv, NEW a \in Apps, socket_open(a) \/ StartAccept(a)
  PROVE  IInv'
<1>1. PICK label \in {"alloc", "waiting"} : Goto(a, label)
  BY DEF socket_open, StartAccept
<1>2. /\ UNCHANGED <<IdentifierCount, table, ringNames, queue, held, reg, ptr,
                     syn, fault, finished>>
      /\ pc[a] \in {"idle", "bound"} /\ a \notin Allocated
  BY DEF socket_open, StartAccept, Allocated
<1>3. /\ SlotsApart' /\ NamesApart' /\ AllocationApart' /\ StatesMeaning'
      /\ SynInHand' /\ ConnectionsApart' /\ InTable' = InTable
      /\ \A b \in Apps : HalfOpen(b)' = HalfOpen(b)
      /\ \A b \in Apps \ {a} : pc'[b] = pc[b]
      /\ pc'[a] = label
  BY <1>1, <1>2, AppStep DEF IInv, TypeOK
<1>4. TypeOK'
  BY <1>1, <1>2, AppsAndLcore DEF table, Goto, IInv, TypeOK
<1>5. HandedOut' /\ QueueCovers' /\ RemovalsJustified'
  BY <1>2, <1>3
  DEF table, IInv, HandedOut, QueueCovers, RemovalsJustified
<1>6. QED
  BY <1>3, <1>4, <1>5 DEF IInv

(* socket_bind finds the tcb that socket_open has just linked.             *)
LEMMA SocketBindIInv ==
  ASSUME IInv, NEW a \in Apps, socket_bind(a)
  PROVE  IInv'
<1>1. /\ pc[a] = "linked" /\ pc' = [pc EXCEPT ![a] = "bound"]
      /\ UNCHANGED <<IdentifierCount, freed, tcbs, ringNames, queue, held, reg,
                     ptr, syn, fault, finished>>
  BY DEF socket_bind, Goto
<1>2. /\ a \in Threads /\ a # Lcore /\ Lcore \in Threads
      /\ \A b \in Apps : b \in Threads
      /\ a \in Allocated /\ a \notin Allocating
  BY <1>1, AppsAndLcore DEF Allocated, Allocating
<1>3. PICK x \in LinkedTcbs :
        /\ x = ptr[a] /\ x \in DOMAIN heap /\ heap[x].identifier = reg[a]
        /\ heap[x].client = None /\ heap[x].state = "CLOSED"
        /\ heap[x].port = None
  BY <1>2 DEF IInv, AllocationApart
<1>4. get_tcb_by_identifier(reg[a]) = x /\ x # NULL /\ heap[x] \in Tcb
  BY <1>3, LookUpIdentifier, TcbsOfHeap DEF IInv
<1> DEFINE t == [heap[x] EXCEPT !.port = a, !.state = "LISTENING"]
<1>5. /\ t \in Tcb /\ t.identifier = heap[x].identifier /\ t.port = a
      /\ t.client = None /\ t.state = "LISTENING"
  BY <1>3, <1>4 DEF Tcb, States
<1>6. heap' = [heap EXCEPT ![x] = t]
  BY <1>3, <1>4 DEF socket_bind, IInv, TypeOK
<1> HIDE DEF t
<1>7. /\ heap' \in Seq(Tcb) /\ DOMAIN heap' = DOMAIN heap /\ heap'[x] = t
      /\ \A y \in DOMAIN heap \ {x} : heap'[y] = heap[y]
  BY <1>3, <1>5, <1>6, ChangeTcb DEF IInv
<1>8. \A y \in DOMAIN heap : /\ heap'[y].identifier = heap[y].identifier
                             /\ heap'[y].client = heap[y].client
  BY <1>3, <1>5, <1>7
<1>9. Linked' = Linked /\ LinkedTcbs' = LinkedTcbs /\ InTable' = InTable
  BY <1>1 DEF Linked, LinkedTcbs, InTable
<1>10. Allocated' = Allocated \ {a} /\ Allocating' = Allocating
  BY <1>1, <1>2 DEF IInv, TypeOK, Allocated, Allocating
<1>11. WithRings' = WithRings
  BY <1>1, <1>2, <1>9 DEF IInv, TypeOK, WithRings
<1>12. /\ WithRings \subseteq DOMAIN heap /\ InTable \subseteq DOMAIN heap
       /\ LinkedTcbs \subseteq DOMAIN heap
  BY TcbsOfHeap DEF IInv, AllocationApart, WithRings, Allocated
<1>13. TypeOK'
  BY <1>1, <1>2, <1>7 DEF IInv, TypeOK
<1>14. SlotsApart' /\ NamesApart'
  BY <1>1, <1>8, <1>9, <1>11, <1>12 DEF IInv, SlotsApart, NamesApart
<1>15. AllocationApart'
  <2>1. \A u \in Allocated' : u \in Allocated /\ ptr[u] # x
    BY <1>2, <1>3, <1>10 DEF IInv, AllocationApart
  <2>2. QED
    BY <1>1, <1>7, <1>9, <1>10, <2>1 DEF IInv, AllocationApart
<1>16. StatesMeaning'
  BY <1>1, <1>5, <1>7, TableAssumption DEF IInv, StatesMeaning
<1>17. SynInHand' /\ ConnectionsApart'
  <2>1. \A y \in LinkedTcbs : heap'[y].client # None =>
                                y # x /\ heap'[y] = heap[y]
    BY <1>5, <1>7, <1>12
  <2>2. pc'[Lcore] = pc[Lcore]
    BY <1>1, <1>2 DEF IInv, TypeOK
  <2>3. SynInHand'
    BY <1>1, <1>8, <1>9, <1>12, <2>1, <2>2 DEF IInv, SynInHand
  <2>4. ConnectionsApart'
    BY <1>8, <1>9, <1>12, <2>1 DEF IInv, ConnectionsApart
  <2>5. QED
    BY <2>3, <2>4
<1>18. HandedOut'
  <2>1. \A b \in Apps : \A id \in held'[b] :
          \E y \in InTable' : heap'[y].identifier = id
    BY <1>1, <1>8, <1>9, <1>12 DEF IInv, HandedOut
  <2>2. \A b \in Apps : pc'[b] = "using" => pc[b] = "using"
    BY <1>1, <1>2 DEF IInv, TypeOK
  <2>3. QED
    BY <1>1, <1>9, <2>1, <2>2 DEF IInv, HandedOut
<1>19. QueueCovers'
  <2>1. \A b \in Apps : HalfOpen(b)' = HalfOpen(b)
    BY <1>3, <1>5, <1>7 DEF HalfOpen
  <2>2. \A b \in Apps : pc'[b] = "woken" <=> pc[b] = "woken"
    BY <1>1, <1>2 DEF IInv, TypeOK
  <2>3. QED
    BY <1>1, <2>1, <2>2 DEF IInv, QueueCovers
<1>20. RemovalsJustified'
  <2>1. x \notin freed
    BY <1>3 DEF IInv, SlotsApart
  <2>2. QED
    BY <1>1, <1>7, <2>1 DEF IInv, TypeOK, RemovalsJustified
<1>21. QED
  BY <1>13, <1>14, <1>15, <1>16, <1>17, <1>18, <1>19, <1>20 DEF IInv

(* A woken thread finds a connection in its queue.                         *)
LEMMA WokenHasConnection ==
  ASSUME IInv, NEW a \in Apps, pc[a] = "woken"
  PROVE  queue[a] \in Seq(DOMAIN heap) /\ queue[a] # <<>>
<1>1. Cardinality(HalfOpen(a)) + 1 <= Len(queue[a])
  BY DEF IInv, QueueCovers
<1>2. Cardinality(HalfOpen(a)) \in Nat
  BY HalfOpenFinite DEF IInv
<1>3. Len(queue[a]) # 0
  BY <1>1, <1>2 DEF IInv, TypeOK
<1>4. QED
  BY <1>3, EmptySeq DEF IInv, TypeOK

(* socket_accept returns the identifier of the oldest connection.          *)
LEMMA SocketAcceptIInv ==
  ASSUME IInv, fault = None, NEW a \in Apps, socket_accept(a)
  PROVE  IInv'
<1> DEFINE x == Head(queue[a])
<1>1. /\ pc[a] = "woken" /\ Goto(a, "bound") /\ a \notin Allocated
      /\ queue' = [queue EXCEPT ![a] = Tail(@)]
      /\ held' = [held EXCEPT ![a] = @ \union {heap[x].identifier}]
      /\ fault' = IF x \in freed THEN "freed" ELSE fault
      /\ UNCHANGED <<IdentifierCount, table, ringNames, reg, ptr, syn,
                     finished>>
  BY DEF socket_accept, Allocated
<1>2. /\ SlotsApart' /\ NamesApart' /\ AllocationApart' /\ StatesMeaning'
      /\ SynInHand' /\ ConnectionsApart' /\ InTable' = InTable
      /\ \A b \in Apps : HalfOpen(b)' = HalfOpen(b)
      /\ \A b \in Apps \ {a} : pc'[b] = pc[b]
      /\ pc'[a] = "bound"
  BY <1>1, AppStep DEF IInv, TypeOK
<1>3. queue[a] \in Seq(DOMAIN heap) /\ queue[a] # <<>>
  BY <1>1, WokenHasConnection
<1>4. /\ x \in DOMAIN heap /\ Tail(queue[a]) \in Seq(DOMAIN heap)
      /\ Len(Tail(queue[a])) = Len(queue[a]) - 1
      /\ \A i \in 1 .. Len(Tail(queue[a])) :
           Tail(queue[a])[i] = queue[a][i + 1]
  BY <1>3, HeadTailProperties
<1>5. x = queue[a][1] /\ 1 \in DOMAIN queue[a] /\ Len(queue[a]) \in Nat
  BY <1>3
<1>6. x \in InTable /\ heap[x].identifier \in Ids
  BY <1>4, <1>5, TcbsOfHeap DEF IInv, HandedOut, Tcb
<1>7. /\ queue'[a] = Tail(queue[a]) /\ queue' \in [Apps -> Seq(DOMAIN heap)]
      /\ \A b \in Apps \ {a} : queue'[b] = queue[b]
  BY <1>1, <1>4 DEF IInv, TypeOK
<1>8. /\ held'[a] = held[a] \union {heap[x].identifier}
      /\ held' \in [Apps -> SUBSET Ids]
      /\ \A b \in Apps \ {a} : held'[b] = held[b]
  BY <1>1, <1>6 DEF IInv, TypeOK
<1>9. TypeOK'
  BY <1>1, <1>7, <1>8, AppsAndLcore DEF table, Goto, IInv, TypeOK
<1>10. HandedOut'
  <2>1. \A k \in DOMAIN queue'[a] : queue'[a][k] \in InTable
    BY <1>3, <1>4, <1>7 DEF IInv, HandedOut
  <2>2. \A b \in Apps : \A k \in DOMAIN queue'[b] : queue'[b][k] \in InTable
    BY <1>7, <2>1 DEF IInv, HandedOut
  <2>3. \A b \in Apps : \A id \in held'[b] :
          \E y \in InTable : heap[y].identifier = id
    BY <1>6, <1>8 DEF IInv, HandedOut
  <2>4. QED
    BY <1>1, <1>2, <2>2, <2>3 DEF table, IInv, HandedOut
<1>11. QueueCovers'
  <2>1. Cardinality(HalfOpen(a)) + 1 <= Len(queue[a])
    BY <1>1 DEF IInv, QueueCovers
  <2>2. Cardinality(HalfOpen(a)) \in Nat
    BY HalfOpenFinite DEF IInv
  <2>3. Cardinality(HalfOpen(a)) + (IF pc'[a] = "woken" THEN 1 ELSE 0)
          <= Len(queue'[a])
    BY <1>2, <1>4, <1>5, <1>7, <2>1, <2>2
  <2>4. QED
    BY <1>2, <1>7, <2>3 DEF IInv, QueueCovers
<1>12. RemovalsJustified'
  BY <1>1 DEF table, IInv, RemovalsJustified
<1>13. QED
  BY <1>2, <1>9, <1>10, <1>11, <1>12 DEF IInv

(* A look-up by a number the application holds fails only when a tcb with  *)
(* that number was freed.                                                  *)
LEMMA LookUpIInv ==
  ASSUME IInv, NEW a \in Apps, LookUp(a)
  PROVE  IInv'
<1>1. PICK id \in held[a] :
        ptr' = [ptr EXCEPT ![a] = get_tcb_by_identifier(id)]
  BY DEF LookUp
<1>2. /\ pc[a] = "bound" /\ Goto(a, "using") /\ a \notin Allocated
      /\ UNCHANGED <<IdentifierCount, table, ringNames, queue, held, reg, syn,
                     fault, finished>>
  BY DEF LookUp, Allocated
<1>3. get_tcb_by_identifier(id) \in DOMAIN heap \union {NULL}
  BY LookUpIdentifier, TcbsOfHeap DEF IInv
<1>4. get_tcb_by_identifier(id) = NULL => freed # {}
  <2>1. PICK y \in InTable : heap[y].identifier = id
    BY DEF IInv, HandedOut
  <2>2. y \in LinkedTcbs => get_tcb_by_identifier(id) = y /\ y # NULL
    BY <2>1, LookUpIdentifier, TcbsOfHeap DEF IInv
  <2>3. QED
    BY <2>1, <2>2 DEF InTable
<1>5. /\ ptr' \in [Threads -> DOMAIN heap \union {NULL}]
      /\ ptr'[a] = get_tcb_by_identifier(id)
      /\ \A t \in Threads \ {a} : ptr'[t] = ptr[t]
  BY <1>1, <1>3, AppsAndLcore DEF IInv, TypeOK
<1>6. /\ SlotsApart' /\ NamesApart' /\ AllocationApart' /\ StatesMeaning'
      /\ SynInHand' /\ ConnectionsApart' /\ InTable' = InTable
      /\ \A b \in Apps : HalfOpen(b)' = HalfOpen(b)
      /\ \A b \in Apps \ {a} : pc'[b] = pc[b] /\ ptr'[b] = ptr[b]
      /\ pc'[a] = "using"
  BY <1>2, <1>5, AppStep
<1>7. TypeOK'
  BY <1>2, <1>5, AppsAndLcore DEF table, Goto, IInv, TypeOK
<1>8. HandedOut'
  <2>1. \A b \in Apps : pc'[b] = "using" /\ ptr'[b] = NULL => freed # {}
    BY <1>4, <1>5, <1>6 DEF IInv, HandedOut
  <2>2. QED
    BY <1>2, <1>6, <2>1 DEF table, IInv, HandedOut
<1>9. QueueCovers' /\ RemovalsJustified'
  BY <1>2, <1>6 DEF table, IInv, QueueCovers, RemovalsJustified
<1>10. QED
  BY <1>6, <1>7, <1>8, <1>9 DEF IInv

(* The tcb that was looked up is used, whatever has become of it.          *)
LEMMA UseTcbIInv ==
  ASSUME IInv, fault = None, NEW a \in Apps, UseTcb(a)
  PROVE  IInv'
<1>1. /\ pc[a] = "using" /\ Goto(a, "bound") /\ a \notin Allocated
      /\ UNCHANGED <<IdentifierCount, table, ringNames, queue, held, reg, ptr,
                     syn, finished>>
  BY DEF UseTcb, Allocated
<1>2. fault' \in {"null", "freed", fault} /\ (fault' # fault => freed # {})
  BY <1>1 DEF UseTcb, IInv, HandedOut
<1>3. /\ SlotsApart' /\ NamesApart' /\ AllocationApart' /\ StatesMeaning'
      /\ SynInHand' /\ ConnectionsApart' /\ InTable' = InTable
      /\ \A b \in Apps : HalfOpen(b)' = HalfOpen(b)
      /\ \A b \in Apps \ {a} : pc'[b] = pc[b] /\ ptr'[b] = ptr[b]
      /\ pc'[a] = "bound"
  BY <1>1, AppStep DEF IInv, TypeOK
<1>4. TypeOK'
  BY <1>1, <1>2, AppsAndLcore DEF table, Goto, IInv, TypeOK
<1>5. HandedOut' /\ QueueCovers'
  BY <1>1, <1>3 DEF table, IInv, HandedOut, QueueCovers
<1>6. RemovalsJustified'
  BY <1>1, <1>2 DEF table, IInv, RemovalsJustified
<1>7. QED
  BY <1>3, <1>4, <1>5, <1>6 DEF IInv

-----------------------------------------------------------------------------
(* IInv is inductive.                                                      *)
LEMMA NextIInv ==
  ASSUME IInv, [Next]_vars
  PROVE  IInv'
<1>1. ASSUME NEW t \in Threads, fault = None, alloc_tcb(t)
      PROVE  IInv'
  BY <1>1, ReadCountIInv, StoreCountIInv, CreateRingsIInv, LinkTcbIInv
  DEF alloc_tcb
<1>2. ASSUME NEW a \in Apps, fault = None, App(a)
      PROVE  IInv'
  BY <1>2, MoveIInv, SocketBindIInv, SocketAcceptIInv, LookUpIInv, UseTcbIInv
  DEF App
<1>3. CASE UNCHANGED vars
  BY <1>3, StutterIInv DEF vars
<1>4. QED
  BY <1>1, <1>2, <1>3, TcpListenIInv, TcpInIInv DEF Next

(* IInv holds in every reachable state.                                    *)
LEMMA Invariance == Spec => []IInv
<1>1. Init => IInv
  BY InitIInv
<1>2. IInv /\ [Next]_vars => IInv'
  BY NextIInv
<1>3. QED
  BY <1>1, <1>2, PTL DEF Spec

(* The variables keep their types; among them, socket_accept never takes   *)
(* from an empty queue.                                                    *)
THEOREM TypeCorrect == Spec => []TypeOK
<1>1. IInv => TypeOK
  BY DEF IInv
<1>2. QED
  BY <1>1, Invariance, PTL

(* No two tcbs of the table share an identifier or serve one connection.   *)
THEOREM UniqueTcbs == Spec => []TableUnique
<1>1. ASSUME IInv
      PROVE  TableUnique
  <2>1. ASSUME NEW i \in Linked, NEW j \in Linked, i # j
        PROVE  /\ heap[tcbs[i]].identifier # heap[tcbs[j]].identifier
               /\ \/ heap[tcbs[i]].client = None
                  \/ heap[tcbs[i]].client # heap[tcbs[j]].client
                  \/ heap[tcbs[i]].port # heap[tcbs[j]].port
    <3>1. tcbs[i] \in LinkedTcbs /\ tcbs[j] \in LinkedTcbs /\ tcbs[i] # tcbs[j]
      BY <1>1, <2>1 DEF LinkedTcbs, IInv, SlotsApart
    <3>2. QED
      BY <1>1, <3>1
      DEF IInv, NamesApart, WithRings, InTable, ConnectionsApart
  <2>2. QED
    BY <2>1 DEF TableUnique
<1>2. QED
  BY <1>1, Invariance, PTL

(* A connection is only freed after its FIN, and nothing is used after it  *)
(* was freed, or missing, before the first connection has been freed.      *)
THEOREM JustifiedRemovals == Spec => []RemovalsJustified
<1>1. IInv => RemovalsJustified
  BY DEF IInv
<1>2. QED
  BY <1>1, Invariance, PTL

(* No step changes the identifier of a tcb, takes back a free or forgets   *)
(* a tcb that is or was in the table.                                      *)
LEMMA IdentifiersKept ==
  ASSUME IInv, [Next]_vars
  PROVE  /\ freed \subseteq freed' /\ InTable \subseteq InTable'
         /\ \A x \in InTable : heap'[x].identifier = heap[x].identifier
<1> DEFINE kept == /\ freed \subseteq freed' /\ InTable \subseteq InTable'
                   /\ \A x \in DOMAIN heap :
                        heap'[x].identifier = heap[x].identifier
<1>0. UNCHANGED <<tcbs, freed>> => InTable' = InTable
  BY DEF InTable, LinkedTcbs, Linked
<1>1. /\ InTable \subseteq DOMAIN heap
      /\ \A x \in DOMAIN heap : heap[x] \in Tcb
  BY TcbsOfHeap DEF IInv
<1>2. UNCHANGED <<heap, freed, tcbs>> => kept
  BY <1>0
<1>3. \A x, s : SetState(x, s) => kept
  BY <1>0, <1>1 DEF SetState, Tcb, IInv, TypeOK
<1>4. ASSUME NEW id, remove_tcb(id), UNCHANGED heap
      PROVE  kept
  <2>1. PICK gone : /\ tcbs' = [i \in DOMAIN tcbs |->
                                 IF tcbs[i] = gone THEN NULL ELSE tcbs[i]]
                    /\ freed' = freed \union {gone}
    BY <1>4 DEF remove_tcb
  <2>2. \A i \in Linked : tcbs[i] # gone => i \in Linked' /\ tcbs'[i] = tcbs[i]
    BY <2>1 DEF Linked
  <2>3. InTable \subseteq InTable'
    BY <2>1, <2>2 DEF InTable, LinkedTcbs
  <2>4. QED
    BY <1>4, <2>1, <2>3
<1>5. ASSUME NEW t \in Threads, alloc_tcb(t)
      PROVE  kept
  <2>1. StoreCount(t) => kept
    BY <1>0, AppendProperties DEF StoreCount, NewTcb, IInv, TypeOK
  <2>2. ASSUME tcbs' = Append(tcbs, ptr[t]), UNCHANGED <<heap, freed>>
        PROVE  kept
    <3>1. \A i \in DOMAIN tcbs : i \in DOMAIN tcbs' /\ tcbs'[i] = tcbs[i]
      BY <2>2, AppendProperties DEF IInv, TypeOK
    <3>2. InTable \subseteq InTable'
      BY <2>2, <3>1 DEF InTable, LinkedTcbs, Linked
    <3>3. QED
      BY <2>2, <3>2
  <2>3. QED
    BY <1>2, <1>5, <2>1, <2>2
    DEF alloc_tcb, ReadCount, CreateRings, LinkTcb, table
<1>6. ASSUME tcp_listen
      PROVE  kept
  <2>1. heap' = [heap EXCEPT ![ptr[Lcore]].port = syn.port,
                             ![ptr[Lcore]].client = syn.client,
                             ![ptr[Lcore]].state = "SYN_RECV"]
          /\ UNCHANGED <<freed, tcbs>> => kept
    BY <1>0, <1>1 DEF Tcb, IInv, TypeOK
  <2>2. QED
    BY <1>2, <1>4, <1>6, <2>1 DEF tcp_listen
<1>7. ASSUME NEW c \in Clients, NEW p \in Apps, NEW kind \in Kinds,
             tcp_in(c, p, kind)
      PROVE  kept
  <2>1. ASSUME NEW x, x = findtcb(c, p), x # NULL, tcpswitch(x, c, kind)
        PROVE  kept
    <3>1. x \in DOMAIN heap /\ heap[x].state \in States
      BY <2>1, <1>1, FoundTcb DEF Tcb
    <3>2. \/ UNCHANGED table
          \/ \E s : SetState(x, s)
          \/ remove_tcb(heap[x].identifier) /\ UNCHANGED heap
      BY <2>1, <3>1
      DEF tcpswitch, States, StartListen, tcp_syn_rcv, IgnoreOnReset,
          tcp_established, tcp_fin2, tcp_closed
    <3>3. QED
      BY <1>2, <1>3, <1>4, <3>2 DEF table
  <2>2. QED
    BY <1>2, <1>7, <2>1 DEF tcp_in, table
<1>8. ASSUME NEW a \in Apps, App(a)
      PROVE  kept
  <2>1. socket_bind(a) => kept
    <3>1. ASSUME NEW x, heap' = [heap EXCEPT ![x].port = a,
                                            ![x].state = "LISTENING"],
                 UNCHANGED <<freed, tcbs>>
          PROVE  kept
      BY <1>0, <1>1, <3>1 DEF Tcb, IInv, TypeOK
    <3>2. QED
      BY <1>2, <3>1 DEF socket_bind
  <2>2. QED
    BY <1>2, <1>8, <2>1
    DEF App, socket_open, StartAccept, socket_accept, LookUp, UseTcb, table
<1>9. kept
  BY <1>2, <1>5, <1>6, <1>7, <1>8 DEF Next, vars, table
<1>10. QED
  BY <1>1, <1>9

(* What a look-up finds is in the table and has the identifier.            *)
FindsOwn ==
  \A id \in Ids :
    LET x == get_tcb_by_identifier(id) IN
      x # NULL => x \in LinkedTcbs /\ heap[x].identifier = id

(* What an identifier denotes never changes to another tcb, and once it    *)
(* denotes nothing it stays so: every tcb that was ever in the table keeps *)
(* its identifier for itself, linked or freed.                             *)
THEOREM StableIdentifiers == Spec => IdentifierStable
<1> DEFINE stable ==
      \A id \in Ids :
        get_tcb_by_identifier(id)' # get_tcb_by_identifier(id) =>
          \/ get_tcb_by_identifier(id)' = NULL
          \/ /\ get_tcb_by_identifier(id) = NULL
             /\ \A x \in freed : heap[x].identifier # id
<1>1. IInv => FindsOwn
  BY LookUpIdentifier DEF IInv, FindsOwn
<1>2. ASSUME IInv, FindsOwn, IInv', FindsOwn', [Next]_vars
      PROVE  [stable]_vars
  <2>1. ASSUME NEW id \in Ids, NEW y, y = get_tcb_by_identifier(id)',
               y # NULL, NEW x \in InTable, heap[x].identifier = id
        PROVE  x = y /\ x \notin freed
    <3>1. y \in LinkedTcbs' /\ heap'[y].identifier = id
      BY <1>2, <2>1 DEF FindsOwn
    <3>2. x \in InTable' /\ heap'[x].identifier = id
      BY <1>2, <2>1, IdentifiersKept
    <3>3. x \in WithRings' /\ y \in WithRings'
      BY <3>1, <3>2 DEF WithRings, InTable
    <3>4. x = y
      BY <1>2, <3>1, <3>2, <3>3 DEF IInv, NamesApart
    <3>5. y \notin freed' /\ freed \subseteq freed'
      BY <1>2, <3>1, IdentifiersKept DEF IInv, SlotsApart
    <3>6. QED
      BY <3>4, <3>5
  <2>2. ASSUME NEW id \in Ids,
               get_tcb_by_identifier(id)' # get_tcb_by_identifier(id),
               get_tcb_by_identifier(id)' # NULL
        PROVE  /\ get_tcb_by_identifier(id) = NULL
               /\ \A x \in freed : heap[x].identifier # id
    <3>1. get_tcb_by_identifier(id) # NULL =>
            /\ get_tcb_by_identifier(id) \in InTable
            /\ heap[get_tcb_by_identifier(id)].identifier = id
      BY <1>2 DEF FindsOwn, InTable
    <3>2. get_tcb_by_identifier(id) = NULL
      BY <2>1, <2>2, <3>1
    <3>3. \A x \in freed : heap[x].identifier # id
      BY <2>1, <2>2 DEF InTable
    <3>4. QED
      BY <3>2, <3>3
  <2>3. QED
    BY <2>2
<1>3. QED
  BY <1>1, <1>2, Invariance, PTL DEF Spec, IdentifierStable
=============================================================================
