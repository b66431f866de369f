------------------------------ MODULE TcbTable ------------------------------
(***************************************************************************)
(* The table of tcbs.  Application threads open, bind and accept sockets   *)
(* and use them by identifier; the stack's lcore finds the tcb of every    *)
(* packet, runs the handler of its state and removes it in the end.        *)
(*                                                                         *)
(* alloc_tcb runs on every thread.  It increments IdentifierCount without  *)
(* a lock, creates two rings named after the identifier, and takes         *)
(* tcb_alloc_mutex only to append the tcb to tcbs.  The application looks  *)
(* a tcb up and follows the pointer later; the lcore may free it between.  *)
(***************************************************************************)
EXTENDS Integers, Sequences, FiniteSets

CONSTANTS
  Apps,        \* application threads: each opens one socket, on a port of its own
  Clients,     \* remote addresses and ports
  TOTAL_TCBS,  \* slots of tcbs (20000 in C)
  QueueMax,    \* connections a listen queue holds (listen_queue_max - 1)
  IdSpace      \* values of the uint16_t IdentifierCount

Lcore == "lcore"
None  == "none"     \* no port, no client
NULL  == 0          \* addresses of tcbs are 1, 2, ...
NoSyn == [client |-> None, port |-> None]

ASSUME TableAssumption ==
  /\ IsFiniteSet(Apps) /\ IsFiniteSet(Clients)
  /\ Lcore \notin Apps /\ None \notin Apps /\ None \notin Clients
  /\ TOTAL_TCBS \in Nat \ {0} /\ QueueMax \in Nat
  /\ IdSpace \in Nat /\ IdSpace > TOTAL_TCBS + Cardinality(Apps) + 2

Threads == Apps \union {Lcore}

VARIABLES
  IdentifierCount, \* the static counter of alloc_tcb
  heap,            \* every tcb ever allocated; an address is an index
  freed,           \* addresses given back with free
  tcbs,            \* the table up to Ntcb, so Ntcb = Len(tcbs)
  ringNames,       \* identifiers that rings are named after; never given back
  queue,           \* listen queue of each application's socket
  held,            \* identifiers each application got from socket_accept
  pc,              \* where each thread is
  reg,             \* the identifier a thread has read
  ptr,             \* the tcb a thread works on
  syn,             \* the SYN tcp_listen has in hand
  fault,           \* how the process ended, None while it runs
  finished         \* history: connections whose FIN the tcb has handled

table   == <<heap, freed, tcbs>>
threads == <<pc, reg, ptr>>
vars    == <<IdentifierCount, table, ringNames, queue, held, threads, syn,
             fault, finished>>

Ids == 0 .. IdSpace - 1

States == {"CLOSED", "LISTENING", "SYN_RECV", "ESTABLISHED", "FIN_2"}

Tcb == [identifier : Ids, port : Apps \union {None},
        client : Clients \union {None}, state : States]

(* A packet is a SYN, an acknowledgement of the SYN|ACK, or one that also  *)
(* brings data, a FIN or both.                                             *)
Kinds == {"SYN", "ACK", "DATA", "FIN", "DATAFIN"}

Init ==
  /\ IdentifierCount = 0 /\ heap = <<>> /\ freed = {} /\ tcbs = <<>>
  /\ ringNames = {} /\ queue = [a \in Apps |-> <<>>]
  /\ held = [a \in Apps |-> {}]
  /\ pc = [t \in Threads |-> "idle"] /\ reg = [t \in Threads |-> 0]
  /\ ptr = [t \in Threads |-> NULL]
  /\ syn = NoSyn /\ fault = None /\ finished = {}

Goto(t, label) == pc' = [pc EXCEPT ![t] = label]
-----------------------------------------------------------------------------
(* alloc_tcb, by an application in socket_open and by the lcore in         *)
(* tcp_listen.  The test for 0 and the load of IdentifierCount++ are one   *)
(* step, its store another.                                                *)

ReadCount(t) ==
  LET count == IF IdentifierCount = 0 THEN 1 ELSE IdentifierCount
  IN  /\ pc[t] = "alloc"
      /\ IdentifierCount' = count
      /\ reg' = [reg EXCEPT ![t] = count]
      /\ Goto(t, "read")
      /\ UNCHANGED <<table, ringNames, queue, held, ptr, fault, finished>>

NewTcb(t) == [identifier |-> reg[t], port |-> None, client |-> None,
              state |-> "CLOSED"]

StoreCount(t) ==
  /\ pc[t] = "read"
  /\ IdentifierCount' = (reg[t] + 1) % IdSpace
  /\ heap' = Append(heap, NewTcb(t))
  /\ ptr' = [ptr EXCEPT ![t] = Len(heap) + 1]
  /\ Goto(t, "rings")
  /\ UNCHANGED <<freed, tcbs, ringNames, queue, held, reg, fault, finished>>

(* Mutant: the result of rte_ring_create is not looked at.                 *)
RingsAlways(id) == TRUE

(* rte_ring_create returns NULL for a name that is taken.                  *)
RingsCreated(id) == id \notin ringNames

CreateRings(t) ==
  /\ pc[t] = "rings"
  /\ IF RingsCreated(reg[t])
     THEN /\ ringNames' = ringNames \union {reg[t]}
          /\ Goto(t, "link")
          /\ UNCHANGED fault
     ELSE fault' = "ring" /\ UNCHANGED <<ringNames, pc>>
  /\ UNCHANGED <<IdentifierCount, table, queue, held, reg, ptr, finished>>

(* Mutant: one slot too many.                                              *)
SlotOffByOne == Len(tcbs) <= TOTAL_TCBS

HasSlot == Len(tcbs) < TOTAL_TCBS

LinkTcb(t) ==
  /\ pc[t] = "link"
  /\ IF HasSlot
     THEN /\ tcbs' = Append(tcbs, ptr[t])
          /\ Goto(t, "linked")
          /\ UNCHANGED fault
     ELSE fault' = "slots" /\ UNCHANGED <<tcbs, pc>>
  /\ UNCHANGED <<IdentifierCount, heap, freed, ringNames, queue, held, reg,
                 ptr, finished>>
-----------------------------------------------------------------------------
(* Looking tcbs up and removing them.                                      *)

Linked == {i \in DOMAIN tcbs : tcbs[i] # NULL}

(* The first slot of a set of slots, and the tcb in it.                    *)
FirstSlot(slots) == CHOOSE i \in slots : \A j \in slots : i <= j
TcbAtFirst(slots) == IF slots = {} THEN NULL ELSE tcbs[FirstSlot(slots)]

SlotsOf(id) == {i \in Linked : heap[tcbs[i]].identifier = id}

get_tcb_by_identifier(id) == TcbAtFirst(SlotsOf(id))

(* Mutant: a tcb that has seen a FIN is passed over.                       *)
NotClosing(c, p) ==
  {i \in Linked : /\ heap[tcbs[i]].client = c /\ heap[tcbs[i]].port = p
                  /\ heap[tcbs[i]].state \notin {"FIN_2", "CLOSED"}}

(* findtcb: the slots whose ports and addresses are the packet's, and the  *)
(* listening ones, which the second loop looks for without a NULL test.    *)
Stablized(c, p) ==
  {i \in Linked : heap[tcbs[i]].client = c /\ heap[tcbs[i]].port = p}

Listening(p) ==
  {i \in Linked : heap[tcbs[i]].state = "LISTENING" /\ heap[tcbs[i]].port = p}

findtcb(c, p) ==
  IF Stablized(c, p) # {} THEN TcbAtFirst(Stablized(c, p))
                          ELSE TcbAtFirst(Listening(p))

FollowsNull(c, p) ==
  /\ Stablized(c, p) = {}
  /\ \E i \in DOMAIN tcbs : tcbs[i] = NULL /\ \A j \in Listening(p) : i < j

(* remove_tcb leaves a hole where the tcb was.                             *)
remove_tcb(id) ==
  LET gone == get_tcb_by_identifier(id)
  IN  /\ tcbs' = [i \in DOMAIN tcbs |-> IF tcbs[i] = gone THEN NULL ELSE tcbs[i]]
      /\ freed' = freed \union {gone}
-----------------------------------------------------------------------------
(* The lcore: tcp_in and the handlers.                                     *)

SetState(x, s) ==
  /\ heap' = [heap EXCEPT ![x].state = s]
  /\ UNCHANGED <<freed, tcbs>>

(* tcp_listen starts with alloc_tcb, the SYN in hand.                      *)
StartListen(x, c) ==
  /\ Goto(Lcore, "alloc")
  /\ syn' = [client |-> c, port |-> heap[x].port]
  /\ UNCHANGED <<table, finished>>

(* The rest of tcp_listen: the new tcb takes the connection's ports and    *)
(* addresses, or is removed again when the queue is full.                  *)
tcp_listen ==
  LET p == syn.port
      x == ptr[Lcore]
  IN  /\ pc[Lcore] = "linked"
      /\ Goto(Lcore, "idle")
      /\ IF Len(queue[p]) < QueueMax
         THEN /\ queue' = [queue EXCEPT ![p] = Append(@, x)]
              /\ heap' = [heap EXCEPT ![x].port = p, ![x].client = syn.client,
                                      ![x].state = "SYN_RECV"]
              /\ UNCHANGED <<freed, tcbs>>
         ELSE remove_tcb(heap[x].identifier) /\ UNCHANGED <<heap, queue>>
      /\ syn' = NoSyn
      /\ UNCHANGED <<IdentifierCount, ringNames, held, reg, ptr, fault, finished>>

tcp_established(x, kind) ==
  IF kind \in {"FIN", "DATAFIN"}
  THEN SetState(x, "FIN_2") /\ finished' = finished \union {x}
  ELSE UNCHANGED <<table, finished>>

(* The signal reaches the thread that waits in socket_accept, if any.      *)
SignalAccept(a) ==
  pc' = IF pc[a] = "waiting" THEN [pc EXCEPT ![a] = "woken"] ELSE pc

(* Mutant: an acknowledgement that does not match closes the tcb.          *)
CloseOnReset(x) == SetState(x, "CLOSED")

IgnoreOnReset(x) == UNCHANGED table

(* A SYN does not acknowledge next_seq and is answered by a reset; a FIN   *)
(* without data is dropped.                                                *)
tcp_syn_rcv(x, kind) ==
  IF kind = "SYN"
  THEN IgnoreOnReset(x) /\ UNCHANGED <<finished, pc>>
  ELSE /\ SignalAccept(heap[x].port)
       /\ IF kind = "DATAFIN"
          THEN SetState(x, "FIN_2") /\ finished' = finished \union {x}
          ELSE SetState(x, "ESTABLISHED") /\ UNCHANGED finished

tcp_fin2(x) == SetState(x, "CLOSED") /\ UNCHANGED finished

tcp_closed(x) ==
  remove_tcb(heap[x].identifier) /\ UNCHANGED <<heap, finished>>

(* tcpswitch[ptcb->state]; a listening tcb answers all but a SYN by a      *)
(* reset.                                                                  *)
tcpswitch(x, c, kind) ==
  CASE heap[x].state = "LISTENING" ->
         IF kind = "SYN" THEN StartListen(x, c)
                         ELSE UNCHANGED <<table, finished, pc, syn>>
    [] heap[x].state = "SYN_RECV" -> tcp_syn_rcv(x, kind) /\ UNCHANGED syn
    [] heap[x].state = "ESTABLISHED" ->
         tcp_established(x, kind) /\ UNCHANGED <<pc, syn>>
    [] heap[x].state = "FIN_2" -> tcp_fin2(x) /\ UNCHANGED <<pc, syn>>
    [] heap[x].state = "CLOSED" -> tcp_closed(x) /\ UNCHANGED <<pc, syn>>

tcp_in(c, p, kind) ==
  /\ pc[Lcore] = "idle"
  /\ IF FollowsNull(c, p)
     THEN fault' = "null" /\ UNCHANGED <<table, finished, pc, syn>>
     ELSE /\ IF findtcb(c, p) = NULL
             THEN UNCHANGED <<table, finished, pc, syn>>
             ELSE tcpswitch(findtcb(c, p), c, kind)
          /\ UNCHANGED fault
  /\ UNCHANGED <<IdentifierCount, ringNames, queue, held, reg, ptr>>
-----------------------------------------------------------------------------
(* The application.                                                        *)

socket_open(a) ==
  /\ pc[a] = "idle" /\ ptr[a] = NULL
  /\ Goto(a, "alloc")
  /\ UNCHANGED <<IdentifierCount, table, ringNames, queue, held, reg, ptr,
                 syn, fault, finished>>

(* socket_bind looks its identifier up again, and makes the tcb listen.    *)
socket_bind(a) ==
  LET x == get_tcb_by_identifier(reg[a])
  IN  /\ pc[a] = "linked"
      /\ IF x = NULL
         THEN UNCHANGED heap
         ELSE heap' = [heap EXCEPT ![x].port = a, ![x].state = "LISTENING"]
      /\ Goto(a, "bound")
      /\ UNCHANGED <<IdentifierCount, freed, tcbs, ringNames, queue, held,
                     reg, ptr, syn, fault, finished>>

StartAccept(a) ==
  /\ pc[a] = "bound"
  /\ Goto(a, "waiting")
  /\ UNCHANGED <<IdentifierCount, table, ringNames, queue, held, reg, ptr,
                 syn, fault, finished>>

(* socket_accept returns the identifier of the oldest queued tcb, which it *)
(* reads from the tcb: the lcore may have freed that.                      *)
socket_accept(a) ==
  LET x == Head(queue[a])
  IN  /\ pc[a] = "woken"
      /\ queue' = [queue EXCEPT ![a] = Tail(@)]
      /\ held' = [held EXCEPT ![a] = @ \union {heap[x].identifier}]
      /\ fault' = IF x \in freed THEN "freed" ELSE fault
      /\ Goto(a, "bound")
      /\ UNCHANGED <<IdentifierCount, table, ringNames, reg, ptr, syn, finished>>

(* socket_send, socket_read and socket_close look the tcb up ...           *)
LookUp(a) ==
  /\ pc[a] = "bound"
  /\ \E id \in held[a] : ptr' = [ptr EXCEPT ![a] = get_tcb_by_identifier(id)]
  /\ Goto(a, "using")
  /\ UNCHANGED <<IdentifierCount, table, ringNames, queue, held, reg, syn,
                 fault, finished>>

(* ... and use its rings without a test.                                   *)
UseTcb(a) ==
  /\ pc[a] = "using"
  /\ fault' = CASE ptr[a] = NULL -> "null"
                [] ptr[a] \in freed -> "freed"
                [] OTHER -> fault
  /\ Goto(a, "bound")
  /\ UNCHANGED <<IdentifierCount, table, ringNames, queue, held, reg, ptr,
                 syn, finished>>
-----------------------------------------------------------------------------
alloc_tcb(t) ==
  /\ ReadCount(t) \/ StoreCount(t) \/ CreateRings(t) \/ LinkTcb(t)
  /\ UNCHANGED syn

App(a) ==
  \/ socket_open(a) \/ socket_bind(a) \/ StartAccept(a) \/ socket_accept(a)
  \/ LookUp(a) \/ UseTcb(a)

Next ==
  /\ fault = None
  /\ \/ \E t \in Threads : alloc_tcb(t)
     \/ tcp_listen
     \/ \E c \in Clients, p \in Apps, kind \in Kinds : tcp_in(c, p, kind)
     \/ \E a \in Apps : App(a)

Spec == Init /\ [][Next]_vars
-----------------------------------------------------------------------------
(* The type of every variable.                                             *)
TypeOK ==
  /\ IdentifierCount \in Ids
  /\ heap \in Seq(Tcb) /\ freed \subseteq DOMAIN heap
  /\ tcbs \in Seq(DOMAIN heap \union {NULL}) /\ Len(tcbs) <= TOTAL_TCBS
  /\ ringNames \subseteq Ids
  /\ queue \in [Apps -> Seq(DOMAIN heap)] /\ held \in [Apps -> SUBSET Ids]
  /\ pc \in [Threads -> {"idle", "alloc", "read", "rings", "link", "linked",
                         "bound", "waiting", "woken", "using"}]
  /\ reg \in [Threads -> Ids] /\ ptr \in [Threads -> DOMAIN heap \union {NULL}]
  /\ syn = NoSyn \/ syn \in [client : Clients, port : Apps]
  /\ fault \in {None, "ring", "slots", "null", "freed"}
  /\ finished \subseteq DOMAIN heap

(* No two tcbs of the table share an identifier, although IdentifierCount  *)
(* is incremented without a lock: the ring names keep them apart.  Nor do  *)
(* two serve one connection: a SYN that comes again makes no second tcb.   *)
TableUnique ==
  \A i, j \in Linked :
    LET t == heap[tcbs[i]]  u == heap[tcbs[j]] IN
    i # j => /\ t.identifier # u.identifier
             /\ t.client = None \/ t.client # u.client \/ t.port # u.port

(* A connection is only freed after its peer's FIN, and a listening tcb    *)
(* never; a NULL pointer is followed, or freed memory read, only when that *)
(* has happened: while connections stay open every look-up finds its tcb.  *)
RemovalsJustified ==
  /\ \A x \in freed :
       heap[x].port = None \/ (heap[x].client # None /\ x \in finished)
  /\ fault \in {"null", "freed"} => freed # {}

(* What an identifier denotes never changes to another tcb, and once it    *)
(* denotes nothing it stays so: a number the application still holds never *)
(* comes to mean another connection.                                       *)
IdentifierStable ==
  [][\A id \in Ids :
       get_tcb_by_identifier(id)' # get_tcb_by_identifier(id) =>
         \/ get_tcb_by_identifier(id)' = NULL
         \/ /\ get_tcb_by_identifier(id) = NULL
            /\ \A x \in freed : heap[x].identifier # id]_vars
=============================================================================
