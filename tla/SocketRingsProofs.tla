-------------------------- MODULE SocketRingsProofs --------------------------
(***************************************************************************)
(* Proofs about SocketRings for any number of connections, any sizes of    *)
(* the pool and the rings, and files of any length; segments may come      *)
(* without end: the bound on them only limits the runs.                    *)
(***************************************************************************)
EXTENDS SocketRings, SequenceTheorems, FunctionTheorems,
        FiniteSetTheorems, TLAPS

(* A thread holds a message only where it sends one.                       *)
SendingOnly ==
  \A c \in Conns : hasMsg[c] => pc[c] \in {"head", "err", "chunk", "close"}

(* Where a thread is tells what it has decided to answer, and how far it   *)
(* has got with the chunks.                                                *)
PlanOfThread ==
  \A c \in Conns :
    /\ plan[c] = "none" <=> pc[c] \in {"new", "reading", "copied", "parsing"}
    /\ pc[c] \in {"head", "chunk"} => plan[c] = "file"
    /\ pc[c] = "err" => plan[c] = "error"
    /\ pc[c] \notin {"chunk", "close", "done"} => chunk[c] = 1

(* Nothing is given up before it was tried.                                *)
LostTried ==
  \A c \in Conns :
    lost[c] \subseteq
      CASE pc[c] = "chunk" -> {Reply("head", 0)}
        [] pc[c] = "close" -> {Reply("head", 0), Reply("err", 0)}
        [] pc[c] = "done"  -> {Reply("head", 0), Reply("err", 0), FIN}
        [] OTHER           -> {}

(* What a thread has sent of its answer where it is.                       *)
Begun(c) ==
  CASE pc[c] = "chunk" ->
         Part(c, Reply("head", 0)) \o ChunksUpTo(chunk[c] - 1)
    [] pc[c] = "close" -> Body(c)
    [] pc[c] = "done"  -> Body(c) \o Part(c, FIN)
    [] OTHER           -> <<>>

(* It is what went out and what is still in the ring, in this order.       *)
SentIsBegun == \A c \in Conns : wire[c] \o toTcb[c] = Begun(c)

IInv ==
  /\ TypeOK
  /\ PoolExact
  /\ SendingOnly
  /\ PlanOfThread
  /\ LostTried
  /\ SentIsBegun

-----------------------------------------------------------------------------
(* The places of the messages.                                             *)

TakenPlaces == {p \in Places : Taken(p)}

(* There are finitely many places.                                         *)
LEMMA PlacesFinite == IsFiniteSet(Places)
<1>1. IsFiniteSet(Conns) /\ RingSize \in Nat
  BY RingsAssumption
<1>2. IsFiniteSet(Conns \X (1 .. RingSize))
  <2>1. IsFiniteSet(1 .. RingSize)
    BY <1>1, FS_Interval
  <2>2. QED
    BY <1>1, <2>1, FS_Product
<1> DEFINE Slots(name) == {<<name, c, i>> : c \in Conns, i \in 1 .. RingSize}
           Hands(name) == {<<name, c>> : c \in Conns}
<1>3. ASSUME NEW name
      PROVE  IsFiniteSet(Slots(name))
  <2> DEFINE f == [x \in Conns \X (1 .. RingSize) |-> <<name, x[1], x[2]>>]
  <2>1. f \in Surjection(Conns \X (1 .. RingSize), Slots(name))
    <3>1. f \in [Conns \X (1 .. RingSize) -> Slots(name)]
      OBVIOUS
    <3>2. ASSUME NEW p \in Slots(name)
          PROVE  \E x \in Conns \X (1 .. RingSize) : f[x] = p
      <4>1. PICK c \in Conns, i \in 1 .. RingSize : p = <<name, c, i>>
        OBVIOUS
      <4>2. <<c, i>> \in Conns \X (1 .. RingSize) /\ f[<<c, i>>] = p
        BY <4>1
      <4>3. QED
        BY <4>2
    <3>3. QED
      BY <3>1, <3>2, Fun_IsSurj
  <2>2. QED
    BY <2>1, <1>2, FS_Surjection
<1>4. ASSUME NEW name
      PROVE  IsFiniteSet(Hands(name))
  <2> DEFINE f == [c \in Conns |-> <<name, c>>]
  <2>1. f \in Surjection(Conns, Hands(name))
    <3>1. f \in [Conns -> Hands(name)]
      OBVIOUS
    <3>2. \A p \in Hands(name) : \E c \in Conns : f[c] = p
      OBVIOUS
    <3>3. QED
      BY <3>1, <3>2, Fun_IsSurj
  <2>2. QED
    BY <2>1, <1>1, FS_Surjection
<1>5. IsFiniteSet({<<"lcore">>})
  BY FS_Singleton
<1>6. Places = Slots("toTcb") \union Slots("toApp") \union Hands("send")
                 \union Hands("read") \union {<<"lcore">>}
  BY DEF Places
<1> HIDE DEF Slots, Hands
<1>7. QED
  BY <1>3, <1>4, <1>5, <1>6, FS_Union

(* The pool holds no fewer messages than none.                             *)
LEMMA TakenFinite ==
  IsFiniteSet(TakenPlaces) /\ Cardinality(TakenPlaces) \in Nat
<1>1. TakenPlaces \in SUBSET Places
  BY DEF TakenPlaces
<1>2. QED
  BY <1>1, PlacesFinite, FS_Subset, FS_CardinalityType

(* What it takes for a place of each kind to hold a message.               *)
LEMMA TakenMeans ==
  /\ \A c, i : Taken(<<"toTcb", c, i>>) <=> i <= Len(toTcb[c])
  /\ \A c, i : Taken(<<"toApp", c, i>>) <=> i <= Len(toApp[c])
  /\ \A c : Taken(<<"send", c>>) <=> hasMsg[c]
  /\ \A c : Taken(<<"read", c>>) <=> pc[c] = "copied"
  /\ Taken(<<"lcore">>) <=> lcore # Idle
  BY DEF Taken

(* The pool stays exact when its state changes with the places'.           *)
PoolKept == avail' \in 0 .. PoolSize /\ PoolExact'

LEMMA CountKept ==
  ASSUME TypeOK, PoolExact, avail' \in Nat, IsFiniteSet(TakenPlaces'),
         Cardinality(TakenPlaces') = Cardinality(TakenPlaces) + avail - avail'
  PROVE  PoolKept
<1>1. /\ avail = PoolSize - Cardinality(TakenPlaces)
      /\ PoolSize \in Nat /\ avail \in Nat
  BY RingsAssumption DEF TypeOK, PoolExact, TakenPlaces
<1>2. Cardinality(TakenPlaces) \in Nat /\ Cardinality(TakenPlaces') \in Nat
  BY TakenFinite, FS_CardinalityType
<1>3. avail' = PoolSize - Cardinality(TakenPlaces')
  BY <1>1, <1>2
<1>4. avail' \in 0 .. PoolSize
  BY <1>1, <1>2, <1>3
<1>5. PoolExact'
  BY <1>3 DEF PoolExact, TakenPlaces
<1>6. QED
  BY <1>4, <1>5 DEF PoolKept

(* No message moves ...                                                    *)
LEMMA NothingMoves ==
  ASSUME TypeOK, PoolExact, avail' = avail, TakenPlaces' = TakenPlaces
  PROVE  PoolKept
  BY TakenFinite, CountKept DEF TypeOK

(* ... or one from the pool to a place ...                                 *)
LEMMA MessageTaken ==
  ASSUME TypeOK, PoolExact, NEW p, p \notin TakenPlaces,
         avail > 0, avail' = avail - 1, TakenPlaces' = TakenPlaces \union {p}
  PROVE  PoolKept
<1>1. IsFiniteSet(TakenPlaces) /\ Cardinality(TakenPlaces) \in Nat
  BY TakenFinite
<1>2. /\ IsFiniteSet(TakenPlaces')
      /\ Cardinality(TakenPlaces') = Cardinality(TakenPlaces) + 1
  BY <1>1, FS_AddElement
<1>3. QED
  BY <1>1, <1>2, CountKept DEF TypeOK

(* ... or one from a place to the pool ...                                 *)
LEMMA MessageGiven ==
  ASSUME TypeOK, PoolExact, NEW p, p \in TakenPlaces,
         avail' = avail + 1, TakenPlaces' = TakenPlaces \ {p}
  PROVE  PoolKept
<1>1. IsFiniteSet(TakenPlaces) /\ Cardinality(TakenPlaces) \in Nat
  BY TakenFinite
<1>2. /\ IsFiniteSet(TakenPlaces')
      /\ Cardinality(TakenPlaces') = Cardinality(TakenPlaces) - 1
  BY <1>1, FS_RemoveElement
<1>3. QED
  BY <1>1, <1>2, CountKept DEF TypeOK

(* ... or one from a place to another.                                     *)
LEMMA MessageMoved ==
  ASSUME TypeOK, PoolExact, NEW p, p \in TakenPlaces,
         NEW q, q \notin TakenPlaces,
         avail' = avail, TakenPlaces' = (TakenPlaces \ {p}) \union {q}
  PROVE  PoolKept
<1>1. IsFiniteSet(TakenPlaces) /\ Cardinality(TakenPlaces) \in Nat
  BY TakenFinite
<1>2. /\ IsFiniteSet(TakenPlaces \ {p})
      /\ Cardinality(TakenPlaces \ {p}) = Cardinality(TakenPlaces) - 1
  BY <1>1, FS_RemoveElement
<1>3. /\ IsFiniteSet(TakenPlaces')
      /\ Cardinality(TakenPlaces') = Cardinality(TakenPlaces \ {p}) + 1
  BY <1>2, FS_AddElement
<1>4. QED
  BY <1>1, <1>2, <1>3, CountKept DEF TypeOK

-----------------------------------------------------------------------------
(* The steps keep the pool exact.                                          *)

(* What no message goes through stays as it is.                            *)
LEMMA SamePlaces ==
  ASSUME TypeOK, PoolExact, UNCHANGED <<avail, hasMsg>>,
         \A c \in Conns : /\ Len(toTcb'[c]) = Len(toTcb[c])
                          /\ Len(toApp'[c]) = Len(toApp[c])
                          /\ pc'[c] = "copied" <=> pc[c] = "copied",
         lcore' = Idle <=> lcore = Idle
  PROVE  PoolKept
<1>1. TakenPlaces' = TakenPlaces
  BY DEF TakenPlaces, Places, Taken
<1>2. QED
  BY <1>1, NothingMoves

(* A segment takes a message into the lcore's hand.                        *)
LEMMA GetForSegmentPool ==
  ASSUME IInv, NEW c \in Conns, NEW m \in Segments, GetForSegment(c, m)
  PROVE  PoolKept
<1>1. CASE avail > 0
  <2>1. /\ avail' = avail - 1 /\ lcore = Idle /\ lcore' # Idle
        /\ UNCHANGED <<hasMsg, toTcb, toApp, pc>>
    BY <1>1 DEF GetForSegment, InHand, Idle, respond
  <2>2. <<"lcore">> \notin TakenPlaces
    BY <2>1 DEF TakenPlaces, Taken
  <2>3. TakenPlaces' = TakenPlaces \union {<<"lcore">>}
    BY <2>1 DEF TakenPlaces, Places, Taken
  <2>4. QED
    BY <1>1, <2>1, <2>2, <2>3, MessageTaken DEF IInv
<1>2. CASE ~(avail > 0)
  <2>1. UNCHANGED <<avail, lcore, hasMsg, toTcb, toApp, pc>>
    BY <1>2 DEF GetForSegment, respond
  <2>2. QED
    BY <2>1, SamePlaces DEF IInv
<1>3. QED
  BY <1>1, <1>2

(* It goes into the ring or back.                                          *)
LEMMA PushDataInQueuePool ==
  ASSUME IInv, PushDataInQueue
  PROVE  PoolKept
<1>1. PICK c \in Conns : c = lcore.conn
  BY DEF PushDataInQueue, Idle, IInv, TypeOK
<1>2. <<"lcore">> \in TakenPlaces /\ lcore' = Idle
  BY DEF PushDataInQueue, Idle, TakenPlaces, Places, Taken
<1>3. CASE HasRoom(toApp[c])
  <2> DEFINE slot == <<"toApp", c, Len(toApp[c]) + 1>>
  <2>1. /\ toApp' = [toApp EXCEPT ![c] = Append(@, lcore.msg)]
        /\ UNCHANGED <<avail, hasMsg, toTcb, pc>>
    BY <1>1, <1>3 DEF PushDataInQueue, respond
  <2>2. /\ Len(toApp'[c]) = Len(toApp[c]) + 1 /\ Len(toApp[c]) \in Nat
        /\ Len(toApp[c]) < RingSize /\ RingSize \in Nat
        /\ \A d \in Conns \ {c} : toApp'[d] = toApp[d]
    BY <1>3, <2>1, RingsAssumption DEF HasRoom, IInv, TypeOK
  <2>3. slot \in Places /\ slot \notin TakenPlaces
    BY <2>2 DEF TakenPlaces, Places, Taken
  <2>4. TakenPlaces' = (TakenPlaces \ {<<"lcore">>}) \union {slot}
    BY <1>2, <2>1, <2>2, <2>3 DEF TakenPlaces, Places, Taken
  <2> HIDE DEF slot
  <2>5. QED
    BY <1>2, <2>1, <2>3, <2>4, MessageMoved DEF IInv
<1>4. CASE ~HasRoom(toApp[c])
  <2>1. avail' = avail + 1 /\ UNCHANGED <<hasMsg, toTcb, toApp, pc>>
    BY <1>1, <1>4 DEF PushDataInQueue, DiscardSegment, respond
  <2>2. TakenPlaces' = TakenPlaces \ {<<"lcore">>}
    BY <1>2, <2>1 DEF TakenPlaces, Places, Taken
  <2>3. QED
    BY <1>2, <2>1, <2>2, MessageGiven DEF IInv
<1>5. QED
  BY <1>3, <1>4

(* What the lcore takes from a ring is in its hand, until it puts it back. *)
LEMMA check_socket_out_queuePool ==
  ASSUME IInv, NEW c \in Conns, check_socket_out_queue(c)
  PROVE  PoolKept
<1>1. UNCHANGED <<avail, hasMsg, toApp, pc>> /\ lcore = Idle
  BY DEF check_socket_out_queue, pool, respond
<1>2. CASE toTcb[c] # <<>> /\ toTcb' = [toTcb EXCEPT ![c] = Tail(@)]
           /\ lcore' = InHand("put", c, OldestMessage(c))
  <2> DEFINE slot == <<"toTcb", c, Len(toTcb[c])>>
  <2>1. lcore' # Idle
    BY <1>2 DEF InHand, Idle
  <2>2. /\ Len(toTcb'[c]) = Len(toTcb[c]) - 1 /\ Len(toTcb[c]) \in Nat \ {0}
        /\ Len(toTcb[c]) <= RingSize /\ RingSize \in Nat
        /\ \A d \in Conns \ {c} : toTcb'[d] = toTcb[d]
    BY <1>2, RingsAssumption DEF IInv, TypeOK
  <2>3. slot \in TakenPlaces /\ <<"lcore">> \notin TakenPlaces
    BY <1>1, <2>2 DEF TakenPlaces, Places, Taken
  <2>4. TakenPlaces' = (TakenPlaces \ {slot}) \union {<<"lcore">>}
    BY <1>1, <2>1, <2>2, <2>3 DEF TakenPlaces, Places, Taken
  <2> HIDE DEF slot
  <2>5. QED
    BY <1>1, <2>3, <2>4, MessageMoved DEF IInv
<1>3. CASE UNCHANGED <<toTcb, lcore>>
  BY <1>1, <1>3, SamePlaces DEF IInv
<1>4. QED
  BY <1>2, <1>3 DEF check_socket_out_queue

LEMMA PutMessagePool ==
  ASSUME IInv, PutMessage
  PROVE  PoolKept
<1>1. /\ avail' = avail + 1 /\ lcore # Idle /\ lcore' = Idle
      /\ UNCHANGED <<hasMsg, toTcb, toApp, pc>>
  BY DEF PutMessage, Idle, respond
<1>2. <<"lcore">> \in TakenPlaces
  BY <1>1 DEF TakenPlaces, Places, Taken
<1>3. TakenPlaces' = TakenPlaces \ {<<"lcore">>}
  BY <1>1 DEF TakenPlaces, Places, Taken
<1>4. QED
  BY <1>1, <1>2, <1>3, MessageGiven DEF IInv

(* A thread has in its hand what it reads until it is done with it.        *)
LEMMA socket_readPool ==
  ASSUME IInv, NEW c \in Conns, socket_read(c)
  PROVE  PoolKept
<1>1. UNCHANGED <<avail, hasMsg, toTcb, lcore>> /\ pc[c] = "reading"
  BY DEF socket_read, pool, stack
<1>2. CASE UNCHANGED <<toApp, text, pc>>
  BY <1>1, <1>2, SamePlaces DEF IInv
<1>3. CASE /\ toApp[c] # <<>> /\ toApp' = [toApp EXCEPT ![c] = Tail(@)]
           /\ Goto(c, "copied")
  <2> DEFINE slot == <<"toApp", c, Len(toApp[c])>>
  <2>1. pc'[c] = "copied" /\ \A d \in Conns \ {c} : pc'[d] = pc[d]
    BY <1>3 DEF Goto, IInv, TypeOK
  <2>2. /\ Len(toApp'[c]) = Len(toApp[c]) - 1 /\ Len(toApp[c]) \in Nat \ {0}
        /\ Len(toApp[c]) <= RingSize /\ RingSize \in Nat
        /\ \A d \in Conns \ {c} : toApp'[d] = toApp[d]
    BY <1>3, RingsAssumption DEF IInv, TypeOK
  <2>3. slot \in TakenPlaces /\ <<"read", c>> \notin TakenPlaces
    BY <1>1, <2>2 DEF TakenPlaces, Places, Taken
  <2>4. TakenPlaces' = (TakenPlaces \ {slot}) \union {<<"read", c>>}
    BY <1>1, <2>1, <2>2, <2>3 DEF TakenPlaces, Places, Taken
  <2> HIDE DEF slot
  <2>5. QED
    BY <1>1, <2>3, <2>4, MessageMoved DEF IInv
<1>4. QED
  BY <1>2, <1>3 DEF socket_read

LEMMA ReadDonePool ==
  ASSUME IInv, NEW c \in Conns, ReadDone(c)
  PROVE  PoolKept
<1>1. /\ avail' = avail + 1 /\ pc[c] = "copied" /\ pc'[c] # "copied"
      /\ \A d \in Conns \ {c} : pc'[d] = pc[d]
      /\ UNCHANGED <<hasMsg, toTcb, toApp, lcore>>
  BY DEF ReadDone, Goto, stack, IInv, TypeOK
<1>2. <<"read", c>> \in TakenPlaces
  BY <1>1 DEF TakenPlaces, Places, Taken
<1>3. TakenPlaces' = TakenPlaces \ {<<"read", c>>}
  BY <1>1 DEF TakenPlaces, Places, Taken
<1>4. QED
  BY <1>1, <1>2, <1>3, MessageGiven DEF IInv

(* Where a thread goes next it reads nothing.                              *)
LEMMA NotCopied ==
  ASSUME TypeOK, NEW c \in Conns, pc[c] \in {"head", "err", "chunk", "close"},
         GoOn(c) \/ SendFailed(c)
  PROVE  \A d \in Conns : pc'[d] = "copied" <=> pc[d] = "copied"
<1>1. CASE GoOn(c)
  BY <1>1 DEF GoOn, Goto, TypeOK
<1>2. CASE UNCHANGED pc
  BY <1>2
<1>3. QED
  BY <1>1, <1>2 DEF SendFailed

(* So it is with what it sends.                                            *)
LEMMA GetMessagePool ==
  ASSUME IInv, NEW c \in Conns, GetMessage(c)
  PROVE  PoolKept
<1>1. /\ pc[c] \in {"head", "err", "chunk", "close"} /\ ~hasMsg[c]
      /\ UNCHANGED <<toTcb, toApp, lcore>>
  BY DEF GetMessage, stack
<1>2. CASE /\ avail > 0 /\ avail' = avail - 1
           /\ hasMsg' = [hasMsg EXCEPT ![c] = TRUE] /\ UNCHANGED pc
  <2>1. <<"send", c>> \notin TakenPlaces
    BY <1>1 DEF TakenPlaces, Places, Taken
  <2>2. hasMsg'[c] /\ \A d \in Conns \ {c} : hasMsg'[d] = hasMsg[d]
    BY <1>2 DEF IInv, TypeOK
  <2>3. TakenPlaces' = TakenPlaces \union {<<"send", c>>}
    BY <1>1, <1>2, <2>2 DEF TakenPlaces, Places, Taken
  <2>4. QED
    BY <1>2, <2>1, <2>3, MessageTaken DEF IInv
<1>3. CASE SendFailed(c) /\ UNCHANGED pool
  <2>1. \A d \in Conns : pc'[d] = "copied" <=> pc[d] = "copied"
    BY <1>1, <1>3, NotCopied DEF IInv
  <2>2. QED
    BY <1>1, <1>3, <2>1, SamePlaces DEF pool, IInv
<1>4. CASE UNCHANGED <<pool, pc>>
  BY <1>1, <1>4, SamePlaces DEF pool, IInv
<1>5. QED
  BY <1>2, <1>3, <1>4 DEF GetMessage

LEMMA socket_sendPool ==
  ASSUME IInv, NEW c \in Conns, socket_send(c)
  PROVE  PoolKept
<1>1. hasMsg[c] /\ pc[c] \in {"head", "err", "chunk", "close"}
      /\ UNCHANGED <<toApp, lcore>>
  BY DEF socket_send, stack, IInv, SendingOnly
<1>2. CASE UNCHANGED <<pool, toTcb, pc>>
  BY <1>1, <1>2, SamePlaces DEF pool, IInv
<1>3. CASE hasMsg' = [hasMsg EXCEPT ![c] = FALSE] /\ (GoOn(c) \/ SendFailed(c))
  <2>1. \A d \in Conns : pc'[d] = "copied" <=> pc[d] = "copied"
    BY <1>1, <1>3, NotCopied DEF IInv
  <2>2. ~hasMsg'[c] /\ \A d \in Conns \ {c} : hasMsg'[d] = hasMsg[d]
    BY <1>3 DEF IInv, TypeOK
  <2>3. <<"send", c>> \in TakenPlaces
    BY <1>1 DEF TakenPlaces, Places, Taken
  <2>4. CASE /\ HasRoom(toTcb[c]) /\ UNCHANGED avail
             /\ toTcb' = [toTcb EXCEPT ![c] = Append(@, Message(c))]
    <3> DEFINE slot == <<"toTcb", c, Len(toTcb[c]) + 1>>
    <3>1. /\ Len(toTcb'[c]) = Len(toTcb[c]) + 1 /\ Len(toTcb[c]) \in Nat
          /\ Len(toTcb[c]) < RingSize /\ RingSize \in Nat
          /\ \A d \in Conns \ {c} : toTcb'[d] = toTcb[d]
      BY <2>4, RingsAssumption DEF HasRoom, IInv, TypeOK
    <3>2. slot \in Places /\ slot \notin TakenPlaces
      BY <3>1 DEF TakenPlaces, Places, Taken
    <3>3. TakenPlaces' = (TakenPlaces \ {<<"send", c>>}) \union {slot}
      BY <1>1, <2>1, <2>2, <3>1, <3>2 DEF TakenPlaces, Places, Taken
    <3> HIDE DEF slot
    <3>4. QED
      BY <2>3, <2>4, <3>2, <3>3, MessageMoved DEF IInv
  <2>5. CASE avail' = avail + 1 /\ UNCHANGED toTcb
    <3>1. TakenPlaces' = TakenPlaces \ {<<"send", c>>}
      BY <1>1, <2>1, <2>2, <2>5 DEF TakenPlaces, Places, Taken
    <3>2. QED
      BY <2>3, <2>5, <3>1, MessageGiven DEF IInv
  <2>6. QED
    BY <1>1, <2>2, <2>4, <2>5 DEF socket_send, pool
<1>4. QED
  BY <1>2, <1>3 DEF socket_send

LEMMA PoolStep ==
  ASSUME IInv, Next
  PROVE  PoolKept
<1>1. ASSUME NEW c \in Conns, PeerCloses(c)
      PROVE  PoolKept
  BY <1>1, SamePlaces DEF PeerCloses, pool, respond, IInv
<1>2. ASSUME NEW c \in Conns, sample1(c)
      PROVE  PoolKept
  BY <1>2, SamePlaces DEF sample1, Goto, pool, stack, IInv, TypeOK
<1>3. ASSUME NEW c \in Conns, ParseRequest(c)
      PROVE  PoolKept
  BY <1>3, SamePlaces DEF ParseRequest, Answers, Goto, pool, stack, IInv, TypeOK
<1>4. QED
  BY <1>1, <1>2, <1>3, GetForSegmentPool, PushDataInQueuePool,
     check_socket_out_queuePool, PutMessagePool, socket_readPool,
     ReadDonePool, GetMessagePool, socket_sendPool
  DEF Next, Lcore, Peer, Thread

-----------------------------------------------------------------------------
(* The steps keep what is known of the threads.                            *)

ThreadsKept == SendingOnly' /\ PlanOfThread' /\ LostTried'

(* Where a thread goes when a message of its answer is sent or given up.   *)
LEMMA GoOnThreads ==
  ASSUME IInv, NEW c \in Conns, pc[c] \in {"head", "err", "chunk", "close"},
         GoOn(c), plan' = plan,
         \/ lost' = lost
         \/ pc[c] # "chunk" /\ lost' = [lost EXCEPT ![c] = @ \union {Message(c)}]
  PROVE  PlanOfThread' /\ LostTried'
<1>1. /\ pc'[c] = CASE pc[c] = "close" -> "done"
                    [] pc[c] = "head" \/ (pc[c] = "chunk" /\ chunk[c] < Chunks)
                       -> "chunk"
                    [] OTHER -> "close"
      /\ \A d \in Conns \ {c} : pc'[d] = pc[d] /\ chunk'[d] = chunk[d]
  BY DEF GoOn, Goto, IInv, TypeOK
<1>2. PlanOfThread'
  BY <1>1 DEF IInv, PlanOfThread
<1>3. /\ lost'[c] \subseteq lost[c]
                             \union (IF pc[c] = "chunk" THEN {} ELSE {Message(c)})
      /\ \A d \in Conns \ {c} : lost'[d] = lost[d]
  BY DEF IInv, TypeOK
<1>4. Message(c) = CASE pc[c] = "close" -> FIN
                     [] pc[c] = "chunk" -> Reply("chunk", chunk[c])
                     [] OTHER           -> Reply(pc[c], 0)
  BY DEF Message
<1>5. LostTried'
  <2>1. ASSUME NEW d \in Conns
        PROVE  lost'[d] \subseteq
                 CASE pc'[d] = "chunk" -> {Reply("head", 0)}
                   [] pc'[d] = "close" -> {Reply("head", 0), Reply("err", 0)}
                   [] pc'[d] = "done"  -> {Reply("head", 0), Reply("err", 0), FIN}
                   [] OTHER            -> {}
    <3>1. lost[d] \subseteq
            CASE pc[d] = "chunk" -> {Reply("head", 0)}
              [] pc[d] = "close" -> {Reply("head", 0), Reply("err", 0)}
              [] pc[d] = "done"  -> {Reply("head", 0), Reply("err", 0), FIN}
              [] OTHER           -> {}
      BY DEF IInv, LostTried
    <3>2. CASE d = c
      BY <1>1, <1>3, <1>4, <3>1, <3>2
    <3>3. CASE d # c
      BY <1>1, <1>3, <3>1, <3>3
    <3>4. QED
      BY <3>2, <3>3
  <2>2. QED
    BY <2>1 DEF LostTried
<1>6. QED
  BY <1>2, <1>5

(* A message that could not be sent: it is given up or stays to be sent.   *)
LEMMA SendFailedThreads ==
  ASSUME IInv, NEW c \in Conns, pc[c] \in {"head", "err", "chunk", "close"},
         SendFailed(c), plan' = plan
  PROVE  PlanOfThread' /\ LostTried'
<1>1. CASE pc[c] = "chunk"
  BY <1>1 DEF SendFailed, IInv, PlanOfThread, LostTried
<1>2. CASE pc[c] # "chunk"
  BY <1>2, GoOnThreads DEF SendFailed
<1>3. QED
  BY <1>1, <1>2

LEMMA ThreadStep ==
  ASSUME IInv, Next
  PROVE  ThreadsKept
<1>1. CASE UNCHANGED <<hasMsg, pc, plan, chunk, lost>>
  BY <1>1 DEF ThreadsKept, IInv, SendingOnly, PlanOfThread, LostTried
<1>2. ASSUME NEW c \in Conns, NEW from, NEW to,
             pc[c] = from, pc' = [pc EXCEPT ![c] = to],
             <<from, to>> \in {<<"new", "reading">>, <<"reading", "copied">>,
                               <<"copied", "reading">>, <<"copied", "parsing">>},
             UNCHANGED <<hasMsg, plan, chunk, lost>>
      PROVE  ThreadsKept
  <2>1. pc'[c] = to /\ \A d \in Conns \ {c} : pc'[d] = pc[d]
    BY <1>2 DEF IInv, TypeOK
  <2>2. SendingOnly' /\ PlanOfThread'
    BY <1>2, <2>1 DEF IInv, SendingOnly, PlanOfThread
  <2>3. LostTried'
    BY <1>2, <2>1 DEF IInv, LostTried
  <2>4. QED
    BY <2>2, <2>3 DEF ThreadsKept
<1>3. ASSUME NEW c \in Conns, ParseRequest(c)
      PROVE  ThreadsKept
  <2>1. CASE UNCHANGED <<plan, pc>>
    BY <1>1, <1>3, <2>1 DEF ParseRequest, pool
  <2>2. ASSUME NEW p, NEW label, Answers(c, p, label),
               <<p, label>> \in {<<"close", "close">>, <<"error", "err">>,
                                 <<"file", "head">>}
        PROVE  ThreadsKept
    <3>1. /\ pc'[c] = label /\ plan'[c] = p /\ pc[c] = "parsing"
          /\ \A d \in Conns \ {c} : pc'[d] = pc[d] /\ plan'[d] = plan[d]
          /\ UNCHANGED <<hasMsg, chunk, lost>>
      BY <1>3, <2>2 DEF ParseRequest, Answers, Goto, pool, IInv, TypeOK
    <3>2. SendingOnly' /\ PlanOfThread'
      BY <2>2, <3>1 DEF IInv, SendingOnly, PlanOfThread
    <3>3. LostTried'
      BY <2>2, <3>1 DEF IInv, LostTried
    <3>4. QED
      BY <3>2, <3>3 DEF ThreadsKept
  <2>3. QED
    BY <1>3, <2>1, <2>2 DEF ParseRequest
<1>4. ASSUME NEW c \in Conns, GetMessage(c)
      PROVE  ThreadsKept
  <2>1. plan' = plan /\ pc[c] \in {"head", "err", "chunk", "close"} /\ ~hasMsg[c]
    BY <1>4 DEF GetMessage
  <2>2. CASE hasMsg' = [hasMsg EXCEPT ![c] = TRUE] /\ UNCHANGED <<pc, chunk, lost>>
    BY <2>1, <2>2
    DEF ThreadsKept, IInv, TypeOK, SendingOnly, PlanOfThread, LostTried
  <2>3. CASE SendFailed(c) /\ UNCHANGED pool
    <3>1. PlanOfThread' /\ LostTried'
      BY <2>1, <2>3, SendFailedThreads
    <3>2. SendingOnly'
      BY <2>1, <2>3 DEF SendFailed, GoOn, Goto, pool, IInv, TypeOK, SendingOnly
    <3>3. QED
      BY <3>1, <3>2 DEF ThreadsKept
  <2>4. CASE UNCHANGED <<pool, pc, chunk, lost>>
    BY <1>1, <2>1, <2>4 DEF pool
  <2>5. QED
    BY <1>4, <2>2, <2>3, <2>4 DEF GetMessage
<1>5. ASSUME NEW c \in Conns, socket_send(c)
      PROVE  ThreadsKept
  <2>1. plan' = plan /\ pc[c] \in {"head", "err", "chunk", "close"}
    BY <1>5 DEF socket_send, IInv, SendingOnly
  <2>2. CASE UNCHANGED <<pool, toTcb, pc, chunk, lost>>
    BY <1>1, <2>1, <2>2 DEF pool
  <2>3. CASE /\ hasMsg' = [hasMsg EXCEPT ![c] = FALSE]
             /\ (GoOn(c) /\ UNCHANGED lost) \/ SendFailed(c)
    <3>1. PlanOfThread' /\ LostTried'
      BY <2>1, <2>3, GoOnThreads, SendFailedThreads
    <3>2. SendingOnly'
      BY <2>1, <2>3 DEF SendFailed, GoOn, Goto, IInv, TypeOK, SendingOnly
    <3>3. QED
      BY <3>1, <3>2 DEF ThreadsKept
  <2>4. QED
    BY <1>5, <2>2, <2>3 DEF socket_send
<1>6. ASSUME NEW c \in Conns, sample1(c) \/ socket_read(c) \/ ReadDone(c)
      PROVE  ThreadsKept
  BY <1>1, <1>2, <1>6 DEF sample1, socket_read, ReadDone, Goto, pool
<1>7. CASE PushDataInQueue \/ PutMessage \/ Peer
           \/ \E c \in Conns : check_socket_out_queue(c)
  BY <1>1, <1>7
  DEF PushDataInQueue, PutMessage, check_socket_out_queue, Peer, PeerCloses,
      GetForSegment, pool, respond
<1>8. QED
  BY <1>3, <1>4, <1>5, <1>6, <1>7 DEF Next, Lcore, Thread

-----------------------------------------------------------------------------
(* The answer, and what has been sent of it.                               *)

(* Taking the first element of a sequence behind another keeps the whole.  *)
LEMMA TakeHead ==
  ASSUME NEW S, NEW s \in Seq(S), NEW t \in Seq(S), t # <<>>
  PROVE  Append(s, Head(t)) \o Tail(t) = s \o t
<1> DEFINE l == Append(s, Head(t)) \o Tail(t)
           r == s \o t
<1>1. /\ Head(t) \in S /\ Head(t) = t[1]
      /\ Tail(t) \in Seq(S) /\ Len(Tail(t)) = Len(t) - 1
      /\ \A i \in 1 .. Len(t) - 1 : Tail(t)[i] = t[i + 1]
      /\ Len(t) \in Nat \ {0} /\ Len(s) \in Nat
  BY HeadTailProperties
<1>2. /\ Append(s, Head(t)) \in Seq(S) /\ Len(Append(s, Head(t))) = Len(s) + 1
      /\ \A i \in 1 .. Len(s) : Append(s, Head(t))[i] = s[i]
      /\ Append(s, Head(t))[Len(s) + 1] = t[1]
  BY <1>1, AppendProperties
<1>3. /\ l \in Seq(S) /\ Len(l) = Len(s) + Len(t)
      /\ \A i \in 1 .. Len(s) + Len(t) :
           l[i] = IF i <= Len(s) + 1 THEN Append(s, Head(t))[i]
                                     ELSE Tail(t)[i - (Len(s) + 1)]
  BY <1>1, <1>2, ConcatProperties
<1>4. /\ r \in Seq(S) /\ Len(r) = Len(s) + Len(t)
      /\ \A i \in 1 .. Len(s) + Len(t) :
           r[i] = IF i <= Len(s) THEN s[i] ELSE t[i - Len(s)]
  BY ConcatProperties
<1> HIDE DEF l, r
<1>5. ASSUME NEW i \in 1 .. Len(l)
      PROVE  l[i] = r[i]
  <2>1. CASE i <= Len(s)
    BY <1>1, <1>2, <1>3, <1>4, <2>1
  <2>2. CASE i = Len(s) + 1
    BY <1>1, <1>2, <1>3, <1>4, <2>2
  <2>3. CASE i > Len(s) + 1
    <3>1. l[i] = Tail(t)[i - (Len(s) + 1)]
      BY <1>1, <1>3, <2>3
    <3>2. i - (Len(s) + 1) \in 1 .. Len(t) - 1
      BY <1>1, <1>3, <2>3
    <3>3. Tail(t)[i - (Len(s) + 1)] = t[i - (Len(s) + 1) + 1]
      BY <1>1, <3>2
    <3>4. i - (Len(s) + 1) + 1 = i - Len(s)
      BY <1>1, <1>3
    <3>5. QED
      BY <1>1, <1>3, <1>4, <2>3, <3>1, <3>3, <3>4
  <2>4. QED
    BY <1>1, <1>3, <2>1, <2>2, <2>3
<1>6. l = r
  BY <1>3, <1>4, <1>5, SeqEqual
<1>7. QED
  BY <1>6 DEF l, r

(* Appending to the second of two sequences appends to the whole.          *)
LEMMA AppendBehind ==
  ASSUME NEW S, NEW s \in Seq(S), NEW t \in Seq(S), NEW e \in S
  PROVE  s \o Append(t, e) = Append(s \o t, e)
<1>1. \A u \in Seq(S) : Append(u, e) = u \o <<e>>
  BY AppendIsConcat
<1>2. <<e>> \in Seq(S) /\ s \o t \in Seq(S)
  BY ConcatProperties
<1>3. (s \o t) \o <<e>> = s \o (t \o <<e>>)
  BY <1>2, ConcatAssociative
<1>4. QED
  BY <1>1, <1>2, <1>3

(* A sequence is a prefix of it with another one behind.                   *)
LEMMA PrefixOfConcat ==
  ASSUME NEW S, NEW s \in Seq(S), NEW t \in Seq(S)
  PROVE  IsPrefix(s, s \o t)
<1>1. /\ s \o t \in Seq(S) /\ Len(s \o t) = Len(s) + Len(t)
      /\ Len(s) \in Nat /\ Len(t) \in Nat
  BY ConcatProperties
<1>2. SubSeq(s \o t, 1, Len(s)) = SubSeq(s, 1, Len(s))
  <2>1. CASE Len(s) = 0
    BY <2>1, SubSeqEmpty
  <2>2. CASE Len(s) # 0
    <3>1. 1 \in 1 .. Len(s) /\ Len(s) \in 1 .. Len(s)
      BY <1>1, <2>2
    <3>2. QED
      BY <3>1, SubSeqOfConcat1
  <2>3. QED
    BY <2>1, <2>2
<1>3. QED
  BY <1>1, <1>2 DEF IsPrefix

(* The chunks up to one, and one more.                                     *)
LEMMA ChunkSequence ==
  ASSUME NEW n \in 0 .. Chunks
  PROVE  /\ ChunksUpTo(n) \in Seq(Replies) /\ Len(ChunksUpTo(n)) = n
         /\ n = 0 => ChunksUpTo(n) = <<>>
         /\ n > 0 => ChunksUpTo(n) = Append(ChunksUpTo(n - 1), Reply("chunk", n))
<1>1. Chunks \in Nat /\ n \in Nat
  BY RingsAssumption
<1>2. ASSUME NEW k \in 0 .. Chunks
      PROVE  /\ ChunksUpTo(k) \in Seq(Replies) /\ Len(ChunksUpTo(k)) = k
             /\ \A i \in 1 .. k : ChunksUpTo(k)[i] = Reply("chunk", i)
  <2>1. \A i \in 1 .. k : Reply("chunk", i) \in Replies
    BY <1>1 DEF Reply, Replies
  <2>2. QED
    BY <1>1, <2>1 DEF ChunksUpTo
<1>3. ASSUME n > 0
      PROVE  ChunksUpTo(n) = Append(ChunksUpTo(n - 1), Reply("chunk", n))
  <2> DEFINE s == ChunksUpTo(n)
             t == Append(ChunksUpTo(n - 1), Reply("chunk", n))
  <2>1. n - 1 \in 0 .. Chunks
    BY <1>1, <1>3
  <2>2. /\ s \in Seq(Replies) /\ Len(s) = n
        /\ \A i \in 1 .. n : s[i] = Reply("chunk", i)
    BY <1>2
  <2>3. Reply("chunk", n) \in Replies
    BY <1>1 DEF Reply, Replies
  <2>4. /\ t \in Seq(Replies) /\ Len(t) = n - 1 + 1 /\ t[n - 1 + 1] = Reply("chunk", n)
        /\ \A i \in 1 .. n - 1 : t[i] = Reply("chunk", i)
    BY <1>2, <2>1, <2>3, AppendProperties
  <2> HIDE DEF s, t
  <2>5. \A i \in 1 .. n : s[i] = t[i]
    BY <1>1, <2>2, <2>4
  <2>6. s = t
    BY <1>1, <2>2, <2>4, <2>5, SeqEqual
  <2>7. QED
    BY <2>6 DEF s, t
<1>4. n = 0 => ChunksUpTo(n) = <<>>
  BY <1>2, EmptySeq
<1>5. QED
  BY <1>2, <1>3, <1>4

(* The parts of an answer are sequences of replies.                        *)
LEMMA AnswerType ==
  ASSUME TypeOK, NEW c \in Conns
  PROVE  /\ \A m \in Replies : Part(c, m) \in Seq(Replies)
         /\ {FIN, Reply("head", 0), Reply("err", 0)} \subseteq Replies
         /\ Body(c) \in Seq(Replies) /\ Begun(c) \in Seq(Replies)
         /\ Message(c) \in Replies \/ pc[c] \notin {"head", "err", "chunk", "close"}
<1>1. Chunks \in Nat \ {0} /\ chunk[c] \in 1 .. Chunks
  BY RingsAssumption DEF TypeOK
<1>2. {FIN, Reply("head", 0), Reply("err", 0)} \subseteq Replies
      /\ Reply("chunk", chunk[c]) \in Replies
  BY <1>1 DEF FIN, Reply, Replies
<1>3. \A m \in Replies : Part(c, m) \in Seq(Replies)
  BY DEF Part
<1>4. ChunksUpTo(Chunks) \in Seq(Replies) /\ ChunksUpTo(chunk[c] - 1) \in Seq(Replies)
  BY <1>1, ChunkSequence
<1>5. Body(c) \in Seq(Replies)
  BY <1>2, <1>3, <1>4, ConcatProperties, EmptySeq DEF Body
<1>6. Begun(c) \in Seq(Replies)
  BY <1>2, <1>3, <1>4, <1>5, ConcatProperties, EmptySeq DEF Begun
<1>7. Message(c) \in Replies \/ pc[c] \notin {"head", "err", "chunk", "close"}
  BY <1>2 DEF Message
<1>8. QED
  BY <1>2, <1>3, <1>5, <1>6, <1>7

(* What a thread has sent when a message of its answer is sent, in full or *)
(* given up, and it goes on.                                               *)
LEMMA GoOnBegun ==
  ASSUME IInv, NEW c \in Conns, pc[c] \in {"head", "err", "chunk", "close"},
         GoOn(c), plan' = plan
  PROVE  /\ lost' = lost => Begun(c)' = Append(Begun(c), Message(c))
         /\ /\ pc[c] # "chunk"
            /\ lost' = [lost EXCEPT ![c] = @ \union {Message(c)}]
            => Begun(c)' = Begun(c)
<1> DEFINE H == Reply("head", 0)
           E == Reply("err", 0)
<1>1. /\ pc'[c] = CASE pc[c] = "close" -> "done"
                    [] pc[c] = "head" \/ (pc[c] = "chunk" /\ chunk[c] < Chunks)
                       -> "chunk"
                    [] OTHER -> "close"
      /\ chunk'[c] = IF pc[c] = "chunk" /\ chunk[c] < Chunks
                     THEN chunk[c] + 1 ELSE chunk[c]
  BY DEF GoOn, Goto, IInv, TypeOK
<1>2. /\ chunk[c] \in 1 .. Chunks /\ Chunks \in Nat \ {0}
      /\ pc[c] \in {"head", "chunk"} => plan[c] = "file"
      /\ pc[c] = "err" => plan[c] = "error"
      /\ pc[c] = "head" => chunk[c] = 1
  BY RingsAssumption DEF IInv, TypeOK, PlanOfThread
<1>3. H # E /\ H # FIN /\ E # FIN
  BY DEF Reply, FIN
<1>4. /\ pc[c] \in {"head", "err"} => lost[c] = {}
      /\ pc[c] = "close" => FIN \notin lost[c]
  BY <1>3 DEF IInv, LostTried
<1>5. /\ \A m \in Replies : Part(c, m) \in Seq(Replies)
      /\ {FIN, H, E} \subseteq Replies /\ Body(c) \in Seq(Replies)
      /\ Message(c) \in Replies
  BY AnswerType DEF IInv
<1>6. /\ ChunksUpTo(0) = <<>>
      /\ lost' = [lost EXCEPT ![c] = @ \union {Message(c)}] =>
           lost'[c] = lost[c] \union {Message(c)}
  <2>1. 0 \in 0 .. Chunks
    BY <1>2
  <2>2. lost' = [lost EXCEPT ![c] = @ \union {Message(c)}] =>
          lost'[c] = lost[c] \union {Message(c)}
    BY DEF IInv, TypeOK
  <2>3. QED
    BY <2>1, <2>2, ChunkSequence
<1> HIDE DEF H, E
<1>7. CASE pc[c] = "head"
  <2>1. Begun(c) = <<>> /\ Message(c) = H
    BY <1>7 DEF Begun, Message, H
  <2>2. Begun(c)' = Part(c, H)' \o <<>>
    <3>1. pc'[c] = "chunk" /\ chunk'[c] - 1 = 0
      BY <1>1, <1>2, <1>7
    <3>2. QED
      BY <1>6, <3>1 DEF Begun, H
  <2>3. CASE lost' = lost
    <3>1. Part(c, H)' = <<H>>
      BY <1>4, <1>7, <2>3 DEF Part
    <3>2. <<H>> \o <<>> = <<H>> /\ Append(<<>>, H) = <<H>>
      BY <1>5, ConcatEmptySeq
    <3>3. lost' # [lost EXCEPT ![c] = @ \union {Message(c)}]
      BY <1>4, <1>6, <1>7, <2>1, <2>3
    <3>4. QED
      BY <2>1, <2>2, <3>1, <3>2, <3>3
  <2>4. CASE lost' = [lost EXCEPT ![c] = @ \union {Message(c)}]
    <3>1. H \in lost'[c] /\ lost' # lost
      BY <1>4, <1>6, <1>7, <2>1, <2>4
    <3>2. Part(c, H)' = <<>>
      BY <3>1 DEF Part
    <3>3. QED
      BY <2>1, <2>2, <3>1, <3>2, ConcatEmptySeq, EmptySeq
  <2>5. QED
    BY <2>3, <2>4
<1>8. CASE pc[c] = "err"
  <2>1. Begun(c) = <<>> /\ Message(c) = E
    BY <1>8 DEF Begun, Message, E
  <2>2. Begun(c)' = Part(c, E)'
    BY <1>1, <1>2, <1>8 DEF Begun, Body, E
  <2>3. CASE lost' = lost
    <3>1. Part(c, E)' = <<E>>
      BY <1>4, <1>8, <2>3 DEF Part
    <3>2. lost' # [lost EXCEPT ![c] = @ \union {Message(c)}]
      BY <1>4, <1>6, <1>8, <2>1, <2>3
    <3>3. QED
      BY <2>1, <2>2, <3>1, <3>2
  <2>4. CASE lost' = [lost EXCEPT ![c] = @ \union {Message(c)}]
    <3>1. E \in lost'[c] /\ lost' # lost
      BY <1>4, <1>6, <1>8, <2>1, <2>4
    <3>2. QED
      BY <2>1, <2>2, <3>1 DEF Part
  <2>5. QED
    BY <2>3, <2>4
<1>9. CASE pc[c] = "chunk"
  <2> DEFINE k == chunk[c]
  <2>1. Begun(c) = Part(c, H) \o ChunksUpTo(k - 1)
    BY <1>9 DEF Begun, H
  <2>2. Message(c) = Reply("chunk", k)
    BY <1>9 DEF Message
  <2>3. ASSUME lost' = lost
        PROVE  Begun(c)' = Part(c, H) \o ChunksUpTo(k)
    <3>1. Part(c, H)' = Part(c, H)
      BY <2>3 DEF Part
    <3>2. CASE k < Chunks
      <4>1. chunk'[c] - 1 = k /\ pc'[c] = "chunk"
        BY <1>1, <1>2, <1>9, <3>2
      <4>2. QED
        BY <3>1, <4>1 DEF Begun, H
    <3>3. CASE ~(k < Chunks)
      <4>1. k = Chunks /\ pc'[c] = "close"
        BY <1>1, <1>2, <1>9, <3>3
      <4>2. QED
        BY <1>2, <1>9, <3>1, <4>1 DEF Begun, Body, H
    <3>4. QED
      BY <3>2, <3>3
  <2>4. /\ ChunksUpTo(k) = Append(ChunksUpTo(k - 1), Reply("chunk", k))
        /\ ChunksUpTo(k - 1) \in Seq(Replies)
    <3>1. k \in 0 .. Chunks /\ k > 0 /\ k - 1 \in 0 .. Chunks
      BY <1>2
    <3>2. QED
      BY <3>1, ChunkSequence
  <2>5. Part(c, H) \o ChunksUpTo(k)
          = Append(Part(c, H) \o ChunksUpTo(k - 1), Reply("chunk", k))
    <3>1. \A s, t \in Seq(Replies) : \A m \in Replies :
            s \o Append(t, m) = Append(s \o t, m)
      BY AppendBehind
    <3>2. Part(c, H) \in Seq(Replies) /\ Reply("chunk", k) \in Replies
      BY <1>5, <2>2
    <3>3. QED
      BY <2>4, <3>1, <3>2
  <2>6. QED
    BY <1>9, <2>1, <2>2, <2>3, <2>5
<1>10. CASE pc[c] = "close"
  <2>1. Begun(c) = Body(c) /\ Message(c) = FIN
    BY <1>10 DEF Begun, Message
  <2>2. Begun(c)' = Body(c)' \o Part(c, FIN)'
    BY <1>1, <1>10 DEF Begun
  <2>3. CASE lost' = lost
    <3>1. Part(c, FIN)' = <<FIN>>
      BY <1>4, <1>10, <2>3 DEF Part
    <3>2. Body(c)' = Body(c)
      BY <2>3 DEF Body, Part
    <3>3. Body(c) \o <<FIN>> = Append(Body(c), FIN)
      BY <1>5, AppendIsConcat
    <3>4. lost' # [lost EXCEPT ![c] = @ \union {Message(c)}]
      BY <1>4, <1>6, <1>10, <2>1, <2>3
    <3>5. QED
      BY <2>1, <2>2, <3>1, <3>2, <3>3, <3>4
  <2>4. CASE lost' = [lost EXCEPT ![c] = @ \union {Message(c)}]
    <3>1. lost'[c] = lost[c] \union {FIN} /\ lost' # lost
      BY <1>4, <1>6, <1>10, <2>1, <2>4
    <3>2. Part(c, FIN)' = <<>>
      BY <3>1 DEF Part
    <3>3. Part(c, H)' = Part(c, H) /\ Part(c, E)' = Part(c, E)
      BY <1>3, <3>1 DEF Part
    <3>4. Body(c)' = Body(c)
      BY <3>3 DEF Body, H, E
    <3>5. QED
      BY <1>5, <2>1, <2>2, <3>1, <3>2, <3>4, ConcatEmptySeq
  <2>5. QED
    BY <2>3, <2>4
<1>11. QED
  BY <1>7, <1>8, <1>9, <1>10

(* What has been sent depends on where the thread is and what it gave up.  *)
LEMMA SameBegun ==
  ASSUME NEW c, pc'[c] = pc[c], plan'[c] = plan[c], chunk'[c] = chunk[c],
         lost'[c] = lost[c]
  PROVE  Begun(c)' = Begun(c)
  BY DEF Begun, Body, Part

LEMMA SentStep ==
  ASSUME IInv, Next
  PROVE  SentIsBegun'
<1>1. CASE UNCHANGED <<wire, toTcb, pc, plan, chunk, lost>>
  BY <1>1, SameBegun DEF IInv, SentIsBegun
<1>2. ASSUME NEW c \in Conns, check_socket_out_queue(c)
      PROVE  SentIsBegun'
  <2>1. CASE /\ toTcb[c] # <<>>
             /\ wire' = [wire EXCEPT ![c] = Append(@, OldestMessage(c))]
             /\ toTcb' = [toTcb EXCEPT ![c] = Tail(@)]
    <3>1. /\ wire'[c] = Append(wire[c], Head(toTcb[c]))
          /\ toTcb'[c] = Tail(toTcb[c])
          /\ \A d \in Conns \ {c} : wire'[d] = wire[d] /\ toTcb'[d] = toTcb[d]
          /\ wire[c] \in Seq(Replies) /\ toTcb[c] \in Seq(Replies)
      BY <2>1 DEF OldestMessage, IInv, TypeOK
    <3>2. wire'[c] \o toTcb'[c] = wire[c] \o toTcb[c]
      <4>1. Append(wire[c], Head(toTcb[c])) \o Tail(toTcb[c])
              = wire[c] \o toTcb[c]
        BY <2>1, <3>1, TakeHead
      <4>2. QED
        BY <3>1, <4>1
    <3>3. \A d \in Conns : Begun(d)' = Begun(d)
      BY <1>2, SameBegun DEF check_socket_out_queue, respond
    <3>4. QED
      BY <3>1, <3>2, <3>3 DEF IInv, SentIsBegun
  <2>2. CASE UNCHANGED <<wire, toTcb>>
    BY <1>1, <1>2, <2>2 DEF check_socket_out_queue, respond
  <2>3. QED
    BY <1>2, <2>1, <2>2 DEF check_socket_out_queue
<1>3. ASSUME NEW c \in Conns, UNCHANGED <<wire, toTcb, chunk, lost>>,
             Begun(c) = <<>>, Begun(c)' = <<>>,
             \A d \in Conns \ {c} : pc'[d] = pc[d] /\ plan'[d] = plan[d]
      PROVE  SentIsBegun'
  <2>1. \A d \in Conns : Begun(d)' = Begun(d)
    BY <1>3, SameBegun
  <2>2. QED
    BY <1>3, <2>1 DEF IInv, SentIsBegun
<1>4. ASSUME NEW c \in Conns, sample1(c) \/ socket_read(c) \/ ReadDone(c)
      PROVE  SentIsBegun'
  <2>1. CASE UNCHANGED pc
    BY <1>1, <1>4, <2>1 DEF sample1, socket_read, ReadDone, stack
  <2>2. ASSUME NEW to \in {"reading", "copied", "parsing"}, Goto(c, to)
        PROVE  SentIsBegun'
    <3>1. /\ pc'[c] = to /\ pc[c] \in {"new", "reading", "copied"}
          /\ \A d \in Conns \ {c} : pc'[d] = pc[d]
          /\ UNCHANGED <<wire, toTcb, chunk, lost, plan>>
      BY <1>4, <2>2 DEF sample1, socket_read, ReadDone, Goto, stack, IInv, TypeOK
    <3>2. Begun(c) = <<>> /\ Begun(c)' = <<>>
      BY <2>2, <3>1 DEF Begun
    <3>3. QED
      BY <1>3, <3>1, <3>2
  <2>3. QED
    BY <1>4, <2>1, <2>2 DEF sample1, socket_read, ReadDone
<1>5. ASSUME NEW c \in Conns, ParseRequest(c)
      PROVE  SentIsBegun'
  <2>1. CASE UNCHANGED <<plan, pc>>
    BY <1>1, <1>5, <2>1 DEF ParseRequest, stack
  <2>2. ASSUME NEW p, NEW label, Answers(c, p, label),
               <<p, label>> \in {<<"close", "close">>, <<"error", "err">>,
                                 <<"file", "head">>}
        PROVE  SentIsBegun'
    <3>1. /\ pc'[c] = label /\ plan'[c] = p /\ pc[c] = "parsing"
          /\ \A d \in Conns \ {c} : pc'[d] = pc[d] /\ plan'[d] = plan[d]
          /\ UNCHANGED <<wire, toTcb, chunk, lost>>
      BY <1>5, <2>2 DEF ParseRequest, Answers, Goto, stack, IInv, TypeOK
    <3>2. Begun(c) = <<>> /\ Begun(c)' = <<>>
      BY <2>2, <3>1 DEF Begun, Body
    <3>3. QED
      BY <1>3, <3>1, <3>2
  <2>3. QED
    BY <1>5, <2>1, <2>2 DEF ParseRequest
<1>6. ASSUME NEW c \in Conns, SendFailed(c), plan' = plan,
             UNCHANGED <<wire, toTcb>>, pc[c] \in {"head", "err", "chunk", "close"}
      PROVE  SentIsBegun'
  <2>1. CASE pc[c] = "chunk"
    BY <1>1, <1>6, <2>1 DEF SendFailed
  <2>2. CASE pc[c] # "chunk"
    <3>1. GoOn(c) /\ lost' = [lost EXCEPT ![c] = @ \union {Message(c)}]
      BY <1>6, <2>2 DEF SendFailed
    <3>2. Begun(c)' = Begun(c)
      BY <1>6, <2>2, <3>1, GoOnBegun
    <3>3. \A d \in Conns \ {c} : /\ pc'[d] = pc[d] /\ plan'[d] = plan[d]
                                 /\ chunk'[d] = chunk[d] /\ lost'[d] = lost[d]
      BY <1>6, <3>1 DEF GoOn, Goto, IInv, TypeOK
    <3>4. \A d \in Conns \ {c} : Begun(d)' = Begun(d)
      BY <3>3, SameBegun
    <3>5. QED
      BY <1>6, <3>2, <3>4 DEF IInv, SentIsBegun
  <2>3. QED
    BY <2>1, <2>2
<1>7. ASSUME NEW c \in Conns, GetMessage(c)
      PROVE  SentIsBegun'
  BY <1>1, <1>6, <1>7 DEF GetMessage, stack
<1>8. ASSUME NEW c \in Conns, socket_send(c)
      PROVE  SentIsBegun'
  <2>1. plan' = plan /\ wire' = wire /\ pc[c] \in {"head", "err", "chunk", "close"}
    BY <1>8 DEF socket_send, stack, IInv, SendingOnly
  <2>2. CASE GoOn(c) /\ UNCHANGED lost
             /\ toTcb' = [toTcb EXCEPT ![c] = Append(@, Message(c))]
    <3>1. Begun(c)' = Append(Begun(c), Message(c)) /\ Message(c) \in Replies
      BY <2>1, <2>2, GoOnBegun, AnswerType DEF IInv
    <3>2. /\ toTcb'[c] = Append(toTcb[c], Message(c))
          /\ \A d \in Conns \ {c} : toTcb'[d] = toTcb[d]
          /\ wire[c] \in Seq(Replies) /\ toTcb[c] \in Seq(Replies)
      BY <2>2 DEF IInv, TypeOK
    <3>3. wire[c] \o toTcb'[c] = Append(wire[c] \o toTcb[c], Message(c))
      <4>1. /\ wire[c] \in Seq(Replies) /\ toTcb[c] \in Seq(Replies)
            /\ Message(c) \in Replies
        BY <3>1, <3>2
      <4>2. wire[c] \o Append(toTcb[c], Message(c))
              = Append(wire[c] \o toTcb[c], Message(c))
        <5>1. \A s, t \in Seq(Replies) : \A m \in Replies :
                s \o Append(t, m) = Append(s \o t, m)
          BY AppendBehind
        <5>2. QED
          BY <4>1, <5>1
      <4>3. QED
        BY <3>2, <4>2
    <3>4. \A d \in Conns \ {c} : /\ pc'[d] = pc[d] /\ plan'[d] = plan[d]
                                 /\ chunk'[d] = chunk[d] /\ lost'[d] = lost[d]
      BY <2>1, <2>2 DEF GoOn, Goto, IInv, TypeOK
    <3>5. \A d \in Conns \ {c} : Begun(d)' = Begun(d)
      BY <3>4, SameBegun
    <3>6. QED
      BY <2>1, <3>1, <3>2, <3>3, <3>5 DEF IInv, SentIsBegun
  <2>3. CASE SendFailed(c) /\ UNCHANGED toTcb
    BY <1>6, <2>1, <2>3
  <2>4. CASE UNCHANGED <<pool, toTcb, pc, chunk, lost>>
    BY <1>1, <2>1, <2>4
  <2>5. QED
    BY <1>8, <2>2, <2>3, <2>4 DEF socket_send
<1>9. CASE PushDataInQueue \/ PutMessage \/ Peer
  BY <1>1, <1>9
  DEF PushDataInQueue, PutMessage, Peer, PeerCloses, GetForSegment, respond
<1>10. QED
  BY <1>2, <1>4, <1>5, <1>7, <1>8, <1>9 DEF Next, Lcore, Thread

-----------------------------------------------------------------------------
(* The steps keep the types.                                               *)
LEMMA TypeStep ==
  ASSUME IInv, Next, avail' \in 0 .. PoolSize
  PROVE  TypeOK'
<1> DEFINE Sends(c) == pc[c] \in {"head", "err", "chunk", "close"}
<1>1. /\ RingSize \in Nat \ {0} /\ MaxSegs \in Nat /\ Chunks \in Nat \ {0}
      /\ TypeOK
  BY RingsAssumption DEF IInv
<1>2. ASSUME NEW c \in Conns, GoOn(c) \/ SendFailed(c), Sends(c)
      PROVE  /\ pc' \in [Conns -> {"new", "reading", "copied", "parsing", "head",
                                   "err", "chunk", "close", "done"}]
             /\ chunk' \in [Conns -> 1 .. Chunks]
  <2>1. CASE GoOn(c)
    <3> DEFINE Labels == {"new", "reading", "copied", "parsing", "head",
                          "err", "chunk", "close", "done"}
               next == CASE pc[c] = "close" -> "done"
                         [] pc[c] = "head" \/ (pc[c] = "chunk" /\ chunk[c] < Chunks)
                              -> "chunk"
                         [] OTHER -> "close"
    <3>1. pc \in [Conns -> Labels] /\ chunk \in [Conns -> 1 .. Chunks]
      BY <1>1 DEF TypeOK
    <3>2. pc' = [pc EXCEPT ![c] = next]
      BY <2>1, Zenon DEF GoOn, Goto
    <3>3. next \in {"done", "chunk", "close"}
      OBVIOUS
    <3>4. chunk' = IF pc[c] = "chunk" /\ chunk[c] < Chunks
                   THEN [chunk EXCEPT ![c] = @ + 1] ELSE chunk
      BY <2>1, Zenon DEF GoOn
    <3> HIDE DEF next
    <3>5. pc' \in [Conns -> Labels]
      BY <3>1, <3>2, <3>3
    <3>6. chunk' \in [Conns -> 1 .. Chunks]
      <4>1. CASE chunk[c] < Chunks
        <5>1. chunk[c] + 1 \in 1 .. Chunks
          BY <1>1, <3>1, <4>1
        <5>2. QED
          BY <3>1, <3>4, <5>1
      <4>2. CASE ~(chunk[c] < Chunks)
        BY <3>1, <3>4, <4>2
      <4>3. QED
        BY <4>1, <4>2
    <3>7. QED
      BY <3>5, <3>6
  <2>2. CASE UNCHANGED <<pc, chunk>>
    BY <1>1, <2>2 DEF TypeOK
  <2>3. QED
    BY <1>2, <2>1, <2>2 DEF SendFailed
<1>3. ASSUME NEW c \in Conns, SendFailed(c), Sends(c)
      PROVE  lost' \in [Conns -> SUBSET Replies]
  <2>1. Message(c) \in Replies
    BY <1>1, <1>3, AnswerType
  <2>2. QED
    <3>1. CASE lost' = lost
      BY <1>1, <3>1 DEF TypeOK
    <3>2. CASE lost' = [lost EXCEPT ![c] = @ \union {Message(c)}]
      <4>1. /\ lost \in [Conns -> SUBSET Replies]
            /\ lost[c] \union {Message(c)} \in SUBSET Replies
        BY <1>1, <2>1 DEF TypeOK
      <4>2. QED
        BY <3>2, <4>1
    <3>3. QED
      BY <1>3, <3>1, <3>2 DEF SendFailed
<1>4. ASSUME NEW c \in Conns, NEW m \in Segments, GetForSegment(c, m)
      PROVE  TypeOK'
  <2>1. lcore' \in {Idle, InHand("enqueue", c, m)}
    BY <1>1, <1>4 DEF GetForSegment, TypeOK
  <2>2. lcore' \in {Idle} \union [at : {"enqueue"}, conn : Conns, msg : Segments]
    BY <2>1 DEF InHand
  <2>3. segs' \in 0 .. MaxSegs
    BY <1>1, <1>4 DEF GetForSegment, TypeOK
  <2>4. need_ack_now' \in [Conns -> BOOLEAN] /\ fault' \in {fault, "message"}
    BY <1>1, <1>4 DEF GetForSegment, TypeOK
  <2>5. QED
    BY <1>1, <1>4, <2>2, <2>3, <2>4 DEF GetForSegment, respond, TypeOK
<1>5. ASSUME PushDataInQueue
      PROVE  TypeOK'
  <2>1. /\ toApp' \in [Conns -> Seq(Segments)]
        /\ \A c \in Conns : Len(toApp'[c]) <= RingSize
    <3>1. CASE UNCHANGED toApp
      BY <1>1, <3>1 DEF TypeOK
    <3>2. CASE /\ HasRoom(toApp[lcore.conn])
               /\ toApp' = [toApp EXCEPT ![lcore.conn] = Append(@, lcore.msg)]
      <4>1. lcore.conn \in Conns /\ lcore.msg \in Segments
        BY <1>1, <1>5 DEF PushDataInQueue, Idle, TypeOK
      <4>2. QED
        BY <1>1, <3>2, <4>1 DEF HasRoom, TypeOK
    <3>3. QED
      BY <1>5, <3>1, <3>2 DEF PushDataInQueue
  <2>2. QED
    BY <1>1, <1>5, <2>1 DEF PushDataInQueue, respond, TypeOK
<1>6. ASSUME NEW c \in Conns, PeerCloses(c)
      PROVE  TypeOK'
  BY <1>1, <1>6 DEF PeerCloses, pool, respond, TypeOK
<1>7. ASSUME NEW c \in Conns, check_socket_out_queue(c)
      PROVE  TypeOK'
  <2>1. CASE /\ toTcb[c] # <<>>
             /\ wire' = [wire EXCEPT ![c] = Append(@, OldestMessage(c))]
             /\ toTcb' = [toTcb EXCEPT ![c] = Tail(@)]
             /\ lcore' = InHand("put", c, OldestMessage(c))
    <3>1. /\ OldestMessage(c) \in Replies /\ Tail(toTcb[c]) \in Seq(Replies)
          /\ Len(Tail(toTcb[c])) = Len(toTcb[c]) - 1 /\ Len(toTcb[c]) \in Nat
          /\ toTcb[c] \in Seq(Replies) /\ wire[c] \in Seq(Replies)
      BY <1>1, <2>1, HeadTailProperties DEF OldestMessage, TypeOK
    <3>2. wire' \in [Conns -> Seq(Replies)] /\ toTcb' \in [Conns -> Seq(Replies)]
      BY <1>1, <2>1, <3>1 DEF TypeOK
    <3>3. \A d \in Conns : Len(toTcb'[d]) <= RingSize
      BY <1>1, <2>1, <3>1 DEF TypeOK
    <3>4. lcore' \in [at : {"put"}, conn : Conns, msg : Replies]
      BY <2>1, <3>1 DEF InHand
    <3>5. QED
      BY <1>1, <1>7, <3>2, <3>3, <3>4
      DEF check_socket_out_queue, AckLeaves, pool, respond, TypeOK
  <2>2. CASE UNCHANGED <<wire, toTcb, lcore>>
    BY <1>1, <1>7, <2>2
    DEF check_socket_out_queue, AckLeaves, pool, respond, TypeOK
  <2>3. QED
    BY <1>7, <2>1, <2>2 DEF check_socket_out_queue
<1>8. ASSUME PutMessage
      PROVE  TypeOK'
  BY <1>1, <1>8 DEF PutMessage, respond, TypeOK
<1>9. ASSUME NEW c \in Conns, sample1(c) \/ ReadDone(c)
      PROVE  TypeOK'
  BY <1>1, <1>9 DEF sample1, ReadDone, Goto, pool, stack, TypeOK
<1>10. ASSUME NEW c \in Conns, socket_read(c)
       PROVE  TypeOK'
  <2>1. CASE UNCHANGED <<toApp, text, pc>> /\ fault' = "tcb"
    BY <1>1, <1>10, <2>1 DEF socket_read, pool, stack, TypeOK
  <2>2. CASE /\ toApp[c] # <<>> /\ toApp' = [toApp EXCEPT ![c] = Tail(@)]
             /\ text' = [text EXCEPT ![c] = TextWith(c, Head(toApp[c]))]
             /\ Goto(c, "copied") /\ UNCHANGED fault
    <3>1. /\ Head(toApp[c]) \in Segments /\ Tail(toApp[c]) \in Seq(Segments)
          /\ Len(Tail(toApp[c])) = Len(toApp[c]) - 1 /\ Len(toApp[c]) \in Nat
      BY <1>1, <2>2, HeadTailProperties DEF TypeOK
    <3>2. toApp' \in [Conns -> Seq(Segments)]
      BY <1>1, <2>2, <3>1 DEF TypeOK
    <3>3. \A d \in Conns : Len(toApp'[d]) <= RingSize
      BY <1>1, <2>2, <3>1 DEF TypeOK
    <3>4. text' \in [Conns -> Segments \union {"none", "short"}]
      BY <1>1, <2>2, <3>1 DEF TextWith, Segments, TypeOK
    <3>5. pc' \in [Conns -> {"new", "reading", "copied", "parsing", "head",
                             "err", "chunk", "close", "done"}]
      BY <1>1, <2>2 DEF Goto, TypeOK
    <3>6. QED
      BY <1>1, <1>10, <2>2, <3>2, <3>3, <3>4, <3>5
      DEF socket_read, pool, stack, TypeOK
  <2>3. QED
    BY <1>10, <2>1, <2>2 DEF socket_read
<1>11. ASSUME NEW c \in Conns, ParseRequest(c)
       PROVE  TypeOK'
  BY <1>1, <1>11 DEF ParseRequest, Answers, Goto, pool, stack, TypeOK
<1>12. ASSUME NEW c \in Conns, GetMessage(c)
       PROVE  TypeOK'
  <2>1. Sends(c) /\ UNCHANGED <<toTcb, toApp, stack, text, plan>>
    BY <1>12 DEF GetMessage
  <2>2. CASE /\ hasMsg' = [hasMsg EXCEPT ![c] = TRUE]
             /\ UNCHANGED <<pc, chunk, lost, fault>>
    BY <1>1, <2>1, <2>2 DEF stack, TypeOK
  <2>3. CASE SendFailed(c) /\ UNCHANGED <<pool, fault>>
    BY <1>1, <1>2, <1>3, <2>1, <2>3 DEF pool, stack, TypeOK
  <2>4. CASE fault' = "message" /\ UNCHANGED <<pool, pc, chunk, lost>>
    BY <1>1, <2>1, <2>4 DEF pool, stack, TypeOK
  <2>5. QED
    BY <1>12, <2>2, <2>3, <2>4 DEF GetMessage
<1>13. ASSUME NEW c \in Conns, socket_send(c)
       PROVE  TypeOK'
  <2>1. Sends(c) /\ UNCHANGED <<toApp, stack, text, plan>>
    BY <1>13 DEF socket_send, IInv, SendingOnly
  <2>2. CASE fault' = "tcb" /\ UNCHANGED <<pool, toTcb, pc, chunk, lost>>
    BY <1>1, <2>1, <2>2 DEF pool, stack, TypeOK
  <2>3. CASE /\ hasMsg' = [hasMsg EXCEPT ![c] = FALSE]
             /\ HasRoom(toTcb[c]) /\ GoOn(c) /\ UNCHANGED <<lost, fault>>
             /\ toTcb' = [toTcb EXCEPT ![c] = Append(@, Message(c))]
    <3>1. /\ toTcb' \in [Conns -> Seq(Replies)]
          /\ \A d \in Conns : Len(toTcb'[d]) <= RingSize
      <4>1. Message(c) \in Replies /\ toTcb[c] \in Seq(Replies)
        BY <1>1, <2>1, AnswerType DEF TypeOK
      <4>2. QED
        BY <1>1, <2>3, <4>1 DEF HasRoom, TypeOK
    <3>2. QED
      BY <1>1, <1>2, <2>1, <2>3, <3>1 DEF stack, TypeOK
  <2>4. CASE /\ hasMsg' = [hasMsg EXCEPT ![c] = FALSE]
             /\ SendFailed(c) /\ UNCHANGED <<toTcb, fault>>
    BY <1>1, <1>2, <1>3, <2>1, <2>4 DEF stack, TypeOK
  <2>5. QED
    BY <1>13, <2>2, <2>3, <2>4 DEF socket_send
<1>14. QED
  BY <1>4, <1>5, <1>6, <1>7, <1>8, <1>9, <1>10, <1>11, <1>12, <1>13
  DEF Next, Lcore, Peer, Thread

-----------------------------------------------------------------------------
(* IInv is inductive.                                                      *)

(* All messages are in the pool, no thread has begun.                      *)
LEMMA InitIInv ==
  ASSUME Init
  PROVE  IInv
<1>1. /\ PoolSize \in Nat /\ RingSize \in Nat \ {0} /\ Chunks \in Nat \ {0}
      /\ MaxSegs \in Nat
  BY RingsAssumption
<1>2. TypeOK
  <2>1. /\ toTcb \in [Conns -> Seq(Replies)] /\ wire \in [Conns -> Seq(Replies)]
        /\ toApp \in [Conns -> Seq(Segments)]
    BY EmptySeq DEF Init
  <2>2. \A c \in Conns : Len(toTcb[c]) <= RingSize /\ Len(toApp[c]) <= RingSize
    BY <1>1, EmptySeq DEF Init
  <2>3. QED
    BY <1>1, <2>1, <2>2 DEF Init, TypeOK
<1>3. PoolExact
  <2>1. {p \in Places : Taken(p)} = {}
    BY EmptySeq DEF Init, Places, Taken, Idle
  <2>2. Cardinality({p \in Places : Taken(p)}) = 0
    BY <2>1, FS_EmptySet
  <2>3. QED
    BY <1>1, <2>2 DEF Init, PoolExact
<1>4. SendingOnly /\ PlanOfThread /\ LostTried
  BY DEF Init, SendingOnly, PlanOfThread, LostTried
<1>5. SentIsBegun
  <2>1. <<>> \o <<>> = <<>>
    BY EmptySeq, ConcatEmptySeq
  <2>2. QED
    BY <2>1 DEF Init, SentIsBegun, Begun
<1>6. QED
  BY <1>2, <1>3, <1>4, <1>5 DEF IInv

LEMMA NextIInv ==
  ASSUME IInv, [Next]_vars
  PROVE  IInv'
<1>1. CASE Next
  <2>1. avail' \in 0 .. PoolSize /\ PoolExact'
    BY <1>1, PoolStep DEF PoolKept
  <2>2. TypeOK'
    BY <1>1, <2>1, TypeStep
  <2>3. SendingOnly' /\ PlanOfThread' /\ LostTried' /\ SentIsBegun'
    BY <1>1, ThreadStep, SentStep DEF ThreadsKept
  <2>4. QED
    BY <2>1, <2>2, <2>3 DEF IInv
<1>2. CASE UNCHANGED vars
  <2>1. TypeOK' /\ PoolExact'
    BY <1>2
    DEF vars, pool, stack, respond, IInv, TypeOK, PoolExact, Places, Taken
  <2>2. SendingOnly' /\ PlanOfThread' /\ LostTried'
    BY <1>2
    DEF vars, pool, stack, respond, IInv, SendingOnly, PlanOfThread, LostTried
  <2>3. SentIsBegun'
    BY <1>2, SameBegun DEF vars, pool, stack, respond, IInv, SentIsBegun
  <2>4. QED
    BY <2>1, <2>2, <2>3 DEF IInv
<1>3. QED
  BY <1>1, <1>2

(* IInv holds in every reachable state.                                    *)
LEMMA Invariance == Spec => []IInv
<1>1. Init => IInv
  BY InitIInv
<1>2. IInv /\ [Next]_vars => IInv'
  BY NextIInv
<1>3. QED
  BY <1>1, <1>2, PTL DEF Spec

(* The chunks of a file behind what has been sent of them.                 *)
LEMMA ChunksSplit ==
  ASSUME NEW n \in 0 .. Chunks
  PROVE  \E r \in Seq(Replies) : ChunksUpTo(Chunks) = ChunksUpTo(n) \o r
<1> DEFINE r == [i \in 1 .. Chunks - n |-> Reply("chunk", n + i)]
           s == ChunksUpTo(n)
           t == ChunksUpTo(Chunks)
<1>1. Chunks \in Nat /\ n \in Nat /\ Chunks - n \in Nat
  BY RingsAssumption
<1>2. /\ s \in Seq(Replies) /\ Len(s) = n
      /\ t \in Seq(Replies) /\ Len(t) = Chunks
  BY <1>1, ChunkSequence
<1>3. r \in Seq(Replies) /\ Len(r) = Chunks - n
  <2>1. \A i \in 1 .. Chunks - n : Reply("chunk", n + i) \in Replies
    BY <1>1 DEF Reply, Replies
  <2>2. QED
    BY <1>1, <2>1
<1>4. /\ s \o r \in Seq(Replies) /\ Len(s \o r) = Chunks
      /\ \A i \in 1 .. Chunks : (s \o r)[i] = IF i <= n THEN s[i] ELSE r[i - n]
  <2>1. n + (Chunks - n) = Chunks
    BY <1>1
  <2>2. /\ s \o r \in Seq(Replies) /\ Len(s \o r) = n + (Chunks - n)
        /\ \A i \in 1 .. n + (Chunks - n) :
             (s \o r)[i] = IF i <= n THEN s[i] ELSE r[i - n]
    <3> HIDE DEF s, r
    <3>1. QED
      BY <1>2, <1>3, ConcatProperties
  <2>3. QED
    BY <2>1, <2>2
<1>5. ASSUME NEW i \in 1 .. Chunks
      PROVE  (s \o r)[i] = t[i]
  <2>1. t[i] = Reply("chunk", i)
    BY DEF ChunksUpTo
  <2>2. CASE i <= n
    <3>1. s[i] = Reply("chunk", i)
      BY <1>1, <2>2 DEF ChunksUpTo
    <3>2. QED
      BY <1>4, <2>1, <2>2, <3>1
  <2>3. CASE ~(i <= n)
    <3>1. i - n \in 1 .. Chunks - n /\ n + (i - n) = i
      BY <1>1, <2>3
    <3>2. r[i - n] = Reply("chunk", i)
      BY <3>1
    <3>3. QED
      BY <1>4, <2>1, <2>3, <3>2
  <2>4. QED
    BY <2>2, <2>3
<1> HIDE DEF r, s, t
<1>6. s \o r = t
  BY <1>1, <1>2, <1>4, <1>5, SeqEqual
<1>7. QED
  BY <1>3, <1>6 DEF s, t

(* What a thread has sent is the beginning of its answer.                  *)
LEMMA BegunIsPrefix ==
  ASSUME IInv, NEW c \in Conns
  PROVE  /\ IsPrefix(Begun(c), Answer(c))
         /\ pc[c] = "done" => Begun(c) = Answer(c)
<1> DEFINE P == Part(c, Reply("head", 0))
           F == Part(c, FIN)
<1>1. /\ P \in Seq(Replies) /\ F \in Seq(Replies)
      /\ Body(c) \in Seq(Replies) /\ Begun(c) \in Seq(Replies)
  BY AnswerType DEF IInv
<1>2. /\ plan[c] = "none" <=> pc[c] \in {"new", "reading", "copied", "parsing"}
      /\ pc[c] = "chunk" => plan[c] = "file"
      /\ chunk[c] \in 1 .. Chunks
  BY DEF IInv, TypeOK, PlanOfThread
<1> HIDE DEF P, F
<1>3. Body(c) \o F \in Seq(Replies) /\ <<>> \in Seq(Replies)
  BY <1>1, ConcatProperties, EmptySeq
<1>4. Answer(c) = IF plan[c] = "none" THEN <<>> ELSE Body(c) \o F
  BY DEF Answer, F
<1>5. \A s, t, u \in Seq(Replies) : (s \o t) \o u = s \o (t \o u)
  BY ConcatAssociative
<1>6. CASE pc[c] = "chunk"
  <2>1. chunk[c] - 1 \in 0 .. Chunks /\ Chunks \in 0 .. Chunks
    BY <1>2, RingsAssumption
  <2>2. PICK r \in Seq(Replies) :
          ChunksUpTo(Chunks) = ChunksUpTo(chunk[c] - 1) \o r
    BY <2>1, ChunksSplit
  <2>3. ChunksUpTo(chunk[c] - 1) \in Seq(Replies)
    BY <2>1, ChunkSequence
  <2>4. Begun(c) = P \o ChunksUpTo(chunk[c] - 1)
    BY <1>6 DEF Begun, P
  <2>5. Body(c) = P \o (ChunksUpTo(chunk[c] - 1) \o r)
    BY <1>2, <1>6, <2>2 DEF Body, P
  <2>6. Body(c) = Begun(c) \o r
    <3> DEFINE C == ChunksUpTo(chunk[c] - 1)
    <3> HIDE DEF C
    <3>1. C \in Seq(Replies) /\ P \in Seq(Replies)
      BY <1>1, <2>3 DEF C
    <3>2. (P \o C) \o r = P \o (C \o r)
      BY <1>5, <3>1, Zenon
    <3>3. QED
      BY <2>4, <2>5, <3>2 DEF C
  <2>7. Body(c) \o F = Begun(c) \o (r \o F) /\ r \o F \in Seq(Replies)
    <3>1. (Begun(c) \o r) \o F = Begun(c) \o (r \o F)
      BY <1>1, <1>5, Zenon
    <3>2. r \o F \in Seq(Replies)
      BY <1>1, <2>2, ConcatProperties
    <3>3. QED
      BY <2>6, <3>1, <3>2
  <2>8. Answer(c) = Begun(c) \o (r \o F)
    BY <1>2, <1>4, <1>6, <2>7
  <2>9. QED
    BY <1>1, <1>6, <2>7, <2>8, PrefixOfConcat
<1>7. CASE pc[c] = "close"
  <2>1. Begun(c) = Body(c) /\ Answer(c) = Body(c) \o F
    BY <1>2, <1>4, <1>7 DEF Begun
  <2>2. QED
    BY <1>1, <1>7, <2>1, PrefixOfConcat
<1>8. CASE pc[c] = "done"
  <2>1. Begun(c) = Body(c) \o F /\ Answer(c) = Body(c) \o F
    BY <1>2, <1>4, <1>8 DEF Begun, F
  <2>2. Answer(c) = Begun(c) \o <<>>
    BY <1>1, <2>1, ConcatEmptySeq
  <2>3. QED
    BY <1>1, <1>3, <2>1, <2>2, PrefixOfConcat
<1>9. CASE pc[c] \notin {"chunk", "close", "done"}
  <2>1. Begun(c) = <<>>
    BY <1>9 DEF Begun
  <2>2. Answer(c) \in Seq(Replies)
    BY <1>3, <1>4
  <2>3. Answer(c) = Begun(c) \o Answer(c)
    BY <2>1, <2>2, ConcatEmptySeq
  <2>4. QED
    BY <1>1, <1>9, <2>2, <2>3, PrefixOfConcat
<1>10. QED
  BY <1>6, <1>7, <1>8, <1>9

-----------------------------------------------------------------------------
(* The variables keep their types; among them, no ring is ever longer than *)
(* its room and the pool never holds more messages than it was made with.  *)
THEOREM TypeCorrect == Spec => []TypeOK
<1>1. IInv => TypeOK
  BY DEF IInv
<1>2. QED
  BY <1>1, Invariance, PTL

(* Every message is in the pool or in one place, whatever sends fail.      *)
THEOREM ExactPool == Spec => []PoolExact
<1>1. IInv => PoolExact
  BY DEF IInv
<1>2. QED
  BY <1>1, Invariance, PTL

(* What a thread gave the stack to send is the beginning of its answer, in *)
(* order and every chunk once, and all of it when the thread has ended.    *)
THEOREM RepliesInOrder == Spec => []ReplyInOrder
<1>1. IInv => ReplyInOrder
  BY BegunIsPrefix DEF IInv, SentIsBegun, ReplyInOrder
<1>2. QED
  BY <1>1, Invariance, PTL
=============================================================================
