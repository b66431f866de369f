----------------------------- MODULE BridgeConn -----------------------------
(***************************************************************************)
(* The stack of tcp_ip_bridge: one listening socket, the connections its   *)
(* peers open, and the example server's threads, one accepting and one for *)
(* each connection accepted.  The lcore takes a packet through tcp_in, or  *)
(* a message of a thread through check_socket_out_queue, in one step each. *)
(*                                                                         *)
(* The tcb of the listener is made before any packet comes and stays at    *)
(* tcbs[0]; connection x is tcbs[x] with identifier x + 1.  Removed tcbs   *)
(* are only unlinked, never freed.  A packet for the listening port finds  *)
(* its tcb or the listener; a reset changes nothing and is left out.       *)
(* Functions without a prototype return int: the model is of a build whose *)
(* pointers fit that.  The two rings and the message pool hold 1024.       *)
(***************************************************************************)
EXTENDS Integers, FiniteSets, SequencesExt

CONSTANTS
  Clients,    \* address and port of a peer
  TOTAL_TCBS, \* slots of the table, the listener's included (10 in C)
  Segments,   \* a peer sends this many segments of one byte, then a FIN
  Padding,    \* bytes that bring an acknowledgement to a frame's minimum (6)
  MaxSize,    \* bytes of the receive window (2000)
  Hello,      \* length of the greeting (12)
  Busy,       \* bound: peers that send up to MaxPackets, others one
  MaxPackets, \* bound: packets of a busy peer
  MaxSpurious \* bound: spurious wakeups of the condition variable

ASSUME BridgeConnAssumption ==
  /\ {TOTAL_TCBS, Segments, Padding, MaxSize, Hello} \subseteq Nat \ {0}
  /\ Busy \subseteq Clients /\ MaxPackets \in Nat /\ MaxSpurious \in Nat

Slots == 1 .. TOTAL_TCBS - 1

VARIABLES
  tcbs,            \* the connections' slots, in the order of their SYNs
  newpTcbOnAccept, \* the connection socket_accept is to return, 0 for none
  accepting,       \* how far the accepting thread is
  threads,         \* the threads of DoWork, in the order of socket_accept
  toTcb,           \* messages from the threads to the stack
  toApp,           \* data from the stack to the threads
  wire,            \* the number after all a connection sent, and its latest ack
  packets,         \* packets from each peer, as far as they are counted
  spurious,        \* spurious wakeups so far
  fault,           \* what the process died of
  sent,            \* history: the kinds of packet a connection has sent
  gaps,            \* history: connections that left a hole or an overlap
  got,             \* history: segments a connection got, and if in order
  read,            \* history: the latest that was read from a connection
  missed           \* history: connections no wakeup was for

accept  == <<newpTcbOnAccept, accepting, threads, spurious, missed>>
output  == <<wire, sent, gaps>>
history == <<got, read>>
vars    == <<tcbs, accept, toTcb, toApp, output, packets, fault, history>>

SYN == [syn |-> TRUE,  fin |-> FALSE, seq |-> 0, len |-> 0]
ACK == [syn |-> FALSE, fin |-> FALSE, seq |-> 1, len |-> 0]
PAD == [syn |-> FALSE, fin |-> FALSE, seq |-> Segments + 1, len |-> Padding]
FIN == [syn |-> FALSE, fin |-> TRUE,  seq |-> Segments + 1, len |-> 0]
Data(k, fin) == [syn |-> FALSE, fin |-> fin, seq |-> k, len |-> 1]

(* What may arrive from a peer, lost, repeated or reordered as it may be;  *)
(* PAD is an acknowledgement in a frame that had to be padded.             *)
Packets == {SYN, ACK, PAD, FIN, Data(Segments, TRUE)}
           \union {Data(k, FALSE) : k \in 1 .. Segments}

InOrder    == [n |-> 0, inOrder |-> TRUE]
OutOfOrder == [n |-> 0, inOrder |-> FALSE]

Ids == DOMAIN tcbs
Removed(x) == tcbs[x].state = "removed"

Init ==
  /\ tcbs = <<>> /\ newpTcbOnAccept = 0 /\ accepting = "out"
  /\ threads = <<>> /\ spurious = 0 /\ missed = {}
  /\ toTcb = [x \in Slots |-> <<>>] /\ toApp = [x \in Slots |-> <<>>]
  /\ wire = [x \in Slots |-> [end |-> 1, ack |-> 0]]
  /\ sent = [x \in Slots |-> {}] /\ gaps = {}
  /\ packets = [c \in Clients |-> 0] /\ fault = "none"
  /\ got = [x \in Slots |-> InOrder]
  /\ read = [x \in Slots |-> 0]
-----------------------------------------------------------------------------
(* Output.  Each function takes the sequence number a tcb is at, and says  *)
(* how far it moves it.                                                    *)

Length(kind) == CASE kind = "synack" -> 1 [] kind = "fin" -> 1
                  [] kind = "hello" -> Hello [] OTHER -> 0

(* Mutant: sendfin leaves next_seq where it is.                            *)
AdvanceUnlessFin(t, kind) ==
  [t EXCEPT !.next_seq = @ + (IF kind = "fin" THEN 0 ELSE Length(kind))]

Advance(t, kind) == [t EXCEPT !.next_seq = @ + Length(kind)]

OnWire(x, kind, seq, ack) ==
  /\ wire' = [wire EXCEPT ![x] = [end |-> seq + Length(kind), ack |-> ack]]
  /\ gaps' = IF seq = wire[x].end THEN gaps ELSE gaps \union {x}
  /\ sent' = [sent EXCEPT ![x] = @ \union {kind}]

Send(x, kind, t) ==
  /\ OnWire(x, kind, t.next_seq, t.ack)
  /\ tcbs' = [tcbs EXCEPT ![x] = Advance(t, kind)]

sendtcpack(x, t)  == Send(x, "ack", t)
sendtcpdata(x, t) == Send(x, "hello", t)
sendfin(x, t)     == Send(x, "fin", t)
-----------------------------------------------------------------------------
(* The receive window: the list SeqPairs of what has come and is not taken.*)

(* Mutant: an acknowledgement names the last byte, not the one after it.   *)
LastByte(p) == p.seq + p.len - 1

End(p) == p.seq + p.len
Larger(m, n) == IF m > n THEN m ELSE n

(* Enter a segment.  The list is sorted and its pairs apart.  A segment    *)
(* that begins before them all takes the place of the whole list; another  *)
(* widens the pair it begins in, or makes one behind it, which then        *)
(* swallows the pairs it reaches into.                                     *)
AdjustPair(pairs, s, n) ==
  LET k       == Cardinality({i \in DOMAIN pairs : pairs[i].seq <= s})
      inside  == End(pairs[k]) > s
      pair    == IF inside
                 THEN [pairs[k] EXCEPT !.len = Larger(@, s - pairs[k].seq + n)]
                 ELSE [seq |-> s, len |-> n]
      reached == Cardinality({i \in DOMAIN pairs : pairs[i].seq < End(pair)})
  IN  IF k = 0 THEN <<[seq |-> s, len |-> n]>>
      ELSE SubSeq(pairs, 1, IF inside THEN k - 1 ELSE k)
           \o <<[pair EXCEPT !.len = Larger(@, End(pairs[reached]) - pair.seq)]>>
           \o SubSeq(pairs, reached + 1, Len(pairs))

(* Mutant: the pair that was taken stays in the list.                      *)
TakeAndKeep(pairs) == pairs

GetData(pairs) == Tail(pairs)

(* AddData copies the segment to its place, past the end of the window if  *)
(* it is at the end.                                                       *)
Overruns(start, p) == ((p.seq - start) % MaxSize) + p.len > MaxSize

(* GetData returns a length out of the pair it has freed.  By the build    *)
(* that is the length, zero, or a part of an address.                      *)
PushDataInQueue(x, p) ==
  \/ toApp' = [toApp EXCEPT ![x] = Append(@, p.seq)] /\ UNCHANGED fault
  \/ UNCHANGED <<toApp, fault>>
  \/ fault' = "length" /\ UNCHANGED toApp

(* The acknowledgement goes out with the FIN counted, the tcb keeps the    *)
(* end of its first pair, without it.                                      *)
PushData(x, t, p) ==
  IF t.pairs # <<>> /\ p.seq - t.pairs[1].seq + p.len < MaxSize
  THEN tcbs' = [tcbs EXCEPT ![x] = t] /\ UNCHANGED <<output, toApp, fault>>
  ELSE LET pairs == AdjustPair(t.pairs, p.seq, p.len)
           start == IF t.start = 0 THEN p.seq ELSE t.start
           acked == End(p) + (IF p.fin \/ p.syn THEN 1 ELSE 0)
       IN  /\ OnWire(x, "ack", t.next_seq, acked)
           /\ tcbs' = [tcbs EXCEPT ![x] = [t EXCEPT !.ack = End(pairs[1]),
                         !.pairs = GetData(pairs), !.start = start]]
           /\ IF Overruns(start, p) THEN fault' = "window" /\ UNCHANGED toApp
                                    ELSE PushDataInQueue(x, p)
-----------------------------------------------------------------------------
(* The states.                                                             *)

(* Mutant: a connection that is being accepted is not overwritten.         *)
KeepFirst(x) ==
  newpTcbOnAccept' = IF accepting = "woken" THEN newpTcbOnAccept ELSE x

SetNewTcb(x) == newpTcbOnAccept' = x

NewTcb(c) == [client |-> c, state |-> "SYN_RECV", ack |-> SYN.seq + 1,
              next_seq |-> 1, pairs |-> <<>>, start |-> 0]

(* A SYN for the listener: a new tcb, a signal, which is lost when nobody  *)
(* waits, and the answer.  The table asserts that it has a slot left.      *)
tcp_listen(c) ==
  LET x == Len(tcbs) + 1 IN
  IF x \notin Slots
  THEN fault' = "slots" /\ UNCHANGED <<tcbs, accept, toApp, output, history>>
  ELSE /\ tcbs' = Append(tcbs, Advance(NewTcb(c), "synack"))
       /\ OnWire(x, "synack", NewTcb(c).next_seq, NewTcb(c).ack)
       /\ SetNewTcb(x)
       /\ accepting' = IF accepting = "waiting" THEN "woken" ELSE accepting
       /\ missed' = CASE accepting = "out"   -> missed \union {x}
                      [] accepting = "woken" -> missed \union ({newpTcbOnAccept} \ {0})
                      [] OTHER               -> missed
       /\ UNCHANGED <<threads, spurious, toApp, fault, history>>

(* Whatever comes first establishes the connection; data it has is lost.   *)
tcp_syn_rcv(x, p) ==
  /\ tcbs' = [tcbs EXCEPT ![x].state = "ESTABLISHED",
                          ![x].ack = IF p.syn \/ p.fin THEN p.seq + 1 ELSE @]
  /\ got' = IF p \in {SYN, ACK, PAD} THEN got ELSE [got EXCEPT ![x] = OutOfOrder]
  /\ UNCHANGED <<toApp, output, fault>>

(* The length of the frame counts as data, its padding too.                *)
tcp_established(x, p) ==
  LET t == IF p.fin THEN [tcbs[x] EXCEPT !.state = "FIN_2"] ELSE tcbs[x] IN
  /\ IF p.len > 0
     THEN PushData(x, t, p)
     ELSE /\ IF p.syn \/ p.fin
             THEN sendtcpack(x, [t EXCEPT !.ack = p.seq + 1])
             ELSE UNCHANGED <<tcbs, output>>
          /\ UNCHANGED <<toApp, fault>>
  /\ got' = IF p = ACK \/ ~got[x].inOrder THEN got
            ELSE [got EXCEPT ![x] = IF p # PAD /\ p.seq = @.n + 1
                                    THEN [n |-> @.n + p.len, inOrder |-> TRUE]
                                    ELSE OutOfOrder]

tcp_fin2(x) ==
  /\ sendfin(x, [tcbs[x] EXCEPT !.state = "CLOSED"])
  /\ UNCHANGED <<toApp, fault, got>>

tcp_closed(x) ==
  /\ tcbs' = [tcbs EXCEPT ![x].state = "removed"]
  /\ UNCHANGED <<toApp, output, fault, got>>

(* Bound: the packets a connection gets before it is on its way out.       *)
Counted(c, found) ==
  IF \E x \in found : tcbs[x].state \in {"FIN_2", "CLOSED"}
  THEN UNCHANGED packets
  ELSE /\ packets[c] < (IF c \in Busy THEN MaxPackets ELSE 1)
       /\ packets' = [packets EXCEPT ![c] = @ + 1]

(* The connection of a packet, none if the listener takes it.              *)
findtcb(c) == {x \in Ids : ~Removed(x) /\ tcbs[x].client = c}

tcp_in(c, p) ==
  /\ \/ p = SYN /\ findtcb(c) = {} /\ tcp_listen(c)
     \/ \E x \in findtcb(c) :
          /\ CASE tcbs[x].state = "SYN_RECV"    -> tcp_syn_rcv(x, p)
               [] tcbs[x].state = "ESTABLISHED" -> tcp_established(x, p)
               [] tcbs[x].state = "FIN_2"       -> tcp_fin2(x)
               [] OTHER                         -> tcp_closed(x)
          /\ UNCHANGED <<accept, read>>
  /\ UNCHANGED toTcb
  /\ Counted(c, findtcb(c))

(* A packet for another port than the listener's: the search for a         *)
(* listener looks into the slot of a tcb that is removed.                  *)
OtherPort ==
  /\ \E x \in Ids : Removed(x)
  /\ fault' = "null"
  /\ UNCHANGED <<tcbs, accept, toTcb, toApp, output, packets, history>>

(* Mutant: the queue of a connection that is not established has to wait.  *)
OnlyEstablished(x) == tcbs[x].state = "ESTABLISHED"

Visited(x) == ~Removed(x)

(* One message of a connection.  SOCKET_CLOSE sends a FIN in any state and *)
(* leaves the state as it is.                                              *)
check_socket_out_queue(x) ==
  /\ Visited(x) /\ toTcb[x] # <<>>
  /\ toTcb' = [toTcb EXCEPT ![x] = Tail(@)]
  /\ IF Head(toTcb[x]) = "SOCKET_CLOSE" THEN sendfin(x, tcbs[x])
                                        ELSE sendtcpdata(x, tcbs[x])
  /\ UNCHANGED <<accept, toApp, packets, fault, history>>
-----------------------------------------------------------------------------
(* The accepting thread.                                                   *)

socket_accept ==
  /\ accepting = "out" /\ accepting' = "waiting"
  /\ UNCHANGED <<tcbs, newpTcbOnAccept, threads, spurious, missed, toTcb, toApp,
                 output, packets, fault, history>>

SpuriousWakeup ==
  /\ accepting = "waiting" /\ accepting' = "woken"
  /\ spurious < MaxSpurious /\ spurious' = spurious + 1
  /\ UNCHANGED <<tcbs, newpTcbOnAccept, threads, missed, toTcb, toApp, output,
                 packets, fault, history>>

(* Returns from the wait with what is there, looks for nothing, and goes   *)
(* round the loop of init_socket_example.                                  *)
AcceptReturns ==
  /\ accepting = "woken"
  /\ IF newpTcbOnAccept = 0
     THEN fault' = "null" /\ UNCHANGED <<accepting, threads>>
     ELSE /\ accepting' = "out"
          /\ threads' = Append(threads, [conn |-> newpTcbOnAccept, at |-> "send"])
          /\ UNCHANGED fault
  /\ UNCHANGED <<tcbs, newpTcbOnAccept, spurious, missed, toTcb, toApp, output,
                 packets, history>>
-----------------------------------------------------------------------------
(* The thread of a connection: DoWork.                                     *)

(* A thread's next call, with the search for its tcb: that returns garbage *)
(* when the tcb is removed, and the call then uses it.                     *)
LooksUp(i, from, to) ==
  /\ threads[i].at = from
  /\ IF Removed(threads[i].conn)
     THEN fault' = "garbage" /\ UNCHANGED <<threads, toTcb>>
     ELSE /\ threads' = [threads EXCEPT ![i].at = to]
          /\ UNCHANGED fault
          /\ IF from = "read" THEN UNCHANGED toTcb
             ELSE toTcb' = [toTcb EXCEPT ![threads[i].conn] = Append(@,
                      IF from = "send" THEN "SEND_DATA" ELSE "SOCKET_CLOSE")]
  /\ UNCHANGED <<tcbs, newpTcbOnAccept, accepting, spurious, missed, toApp, output,
                 packets, history>>

socket_send(i)          == LooksUp(i, "send", "read")
socket_read_nonblock(i) == LooksUp(i, "read", "poll")
socket_close(i)         == LooksUp(i, "close", "done")

(* The read returns the length of the text in a message already given      *)
(* back: DoWork may have what it waits for, or read on.                    *)
ReadReturns(i) ==
  LET x == threads[i].conn IN
  /\ threads[i].at = "poll" /\ toApp[x] # <<>>
  /\ toApp' = [toApp EXCEPT ![x] = Tail(@)]
  /\ read' = [read EXCEPT ![x] = IF got[x].inOrder THEN Head(toApp[x]) ELSE 0]
  /\ \E to \in {"read", "close"} : threads' = [threads EXCEPT ![i].at = to]
  /\ UNCHANGED <<tcbs, newpTcbOnAccept, accepting, spurious, missed, toTcb, output,
                 packets, fault, got>>

DoWork(i) ==
  socket_send(i) \/ socket_read_nonblock(i) \/ ReadReturns(i) \/ socket_close(i)
-----------------------------------------------------------------------------
Lcore   == \E x \in Ids : check_socket_out_queue(x)
Threads == \E i \in DOMAIN threads : DoWork(i)

Next ==
  /\ fault = "none"
  /\ \/ \E c \in Clients, p \in Packets : tcp_in(c, p)
     \/ OtherPort \/ Lcore
     \/ socket_accept \/ SpuriousWakeup \/ AcceptReturns \/ Threads

(* The lcore's loop and the threads go on as long as there is a message or *)
(* a call to finish; packets and spurious wakeups come as they like.       *)
Fairness ==
  /\ WF_vars(fault = "none" /\ (socket_accept \/ AcceptReturns))
  /\ WF_vars(fault = "none" /\ Lcore)
  /\ WF_vars(fault = "none" /\ Threads)

Spec     == Init /\ [][Next]_vars
FairSpec == Spec /\ Fairness
-----------------------------------------------------------------------------
(* The type of every variable.                                             *)
TypeOK ==
  /\ tcbs \in Seq([client : Clients, ack : Nat, next_seq : Nat, start : Nat,
                   state : {"SYN_RECV", "ESTABLISHED", "FIN_2", "CLOSED", "removed"},
                   pairs : {<<>>}])
  /\ Len(tcbs) < TOTAL_TCBS /\ newpTcbOnAccept \in 0 .. Len(tcbs)
  /\ accepting \in {"out", "waiting", "woken"}
  /\ threads \in Seq([conn : Ids, at : {"send", "read", "poll", "close", "done"}])
  /\ toTcb \in [Slots -> Seq({"SEND_DATA", "SOCKET_CLOSE"})]
  /\ toApp \in [Slots -> Seq(1 .. Segments + 1)]
  /\ wire \in [Slots -> [end : Nat, ack : Nat]]
  /\ sent \in [Slots -> SUBSET {"synack", "ack", "hello", "fin"}]
  /\ got \in [Slots -> [n : Nat, inOrder : BOOLEAN]]
  /\ read \in [Slots -> 0 .. Segments + 1]
  /\ packets \in [Clients -> Nat] /\ spurious \in 0 .. MaxSpurious
  /\ fault \in {"none", "length", "window", "slots", "null", "garbage"}
  /\ gaps \subseteq Slots /\ missed \subseteq Slots

(* One slot for the connection to accept and a signal nobody may wait for: *)
(* a connection is handed to a thread unless its SYN came while the thread *)
(* was not waiting, or another came before it woke; and, spurious wakeups  *)
(* aside, no connection is given to two threads.  However often a peer's   *)
(* SYN comes, the peer has one connection at a time.                       *)
AcceptedOnce ==
  LET accepted == {threads[i].conn : i \in DOMAIN threads}
  IN  /\ Ids \ (accepted \union missed) \subseteq
           (IF accepting = "woken" THEN {newpTcbOnAccept} ELSE {})
      /\ spurious = 0 => Cardinality(accepted) = Len(threads)
      /\ \A x, y \in Ids : ~Removed(x) /\ ~Removed(y) /\ x # y
                             => tcbs[x].client # tcbs[y].client

(* The numbers a connection sends have no hole and no overlap, whatever    *)
(* the threads and the peer make it send, in whatever state: data after a  *)
(* FIN, and the two FINs of a connection both sides close, included.       *)
SentInSequence ==
  gaps = {} /\ \A x \in Ids : tcbs[x].next_seq = wire[x].end /\ "synack" \in sent[x]

(* A peer whose packets come in order and without padding is acknowledged  *)
(* what it sent, and its data reaches the threads in that order, each      *)
(* segment at most once.                                                   *)
InOrderStream ==
  \A x \in Ids : got[x].inOrder =>
    /\ {tcbs[x].ack, wire[x].ack} \subseteq
         IF tcbs[x].state \in {"SYN_RECV", "ESTABLISHED"}
         THEN {1 + got[x].n} ELSE {1 + got[x].n, 2 + got[x].n}
    /\ Range(toApp[x]) \subseteq read[x] + 1 .. got[x].n
    /\ \A j, k \in DOMAIN toApp[x] : j < k => toApp[x][j] < toApp[x][k]

(* A thread has greeted its peer, and waits for data or has sent a FIN, or *)
(* the peer's packets have removed the tcb.                                *)
ThreadServed(i) ==
  LET x == threads[i].conn IN
  \/ Removed(x)
  \/ /\ "hello" \in sent[x]
     /\ \/ threads[i].at = "poll" /\ toApp[x] = <<>>
        \/ threads[i].at = "done" /\ "fin" \in sent[x] /\ toTcb[x] = <<>>

(* The accepting thread waits again in the end, and every thread is served *)
(* whatever its peer sends, in any state of the connection, or the process *)
(* has died.                                                               *)
ConnectionsServed ==
  <>[](\/ fault # "none"
       \/ accepting = "waiting" /\ \A i \in DOMAIN threads : ThreadServed(i))
=============================================================================
