------------------------------ MODULE Connect ------------------------------
(***************************************************************************)
(* The active open.  Application threads call socket_connect, each on a    *)
(* tcb of its own from socket_open; the lcore takes the CONNECTION_OPEN    *)
(* message, sends the SYN and handles the answer in tcp_syn_sent.          *)
(*                                                                         *)
(* socket_connect enqueues the message before it fills in the addresses,   *)
(* the ports and next_seq, and nothing but the order of the steps keeps    *)
(* the lcore from sending a SYN without them.  The ports come from the     *)
(* static SrcPorts, which every call increments and reads again later.     *)
(*                                                                         *)
(* The message comes from the pool that all sockets share; when that is    *)
(* empty, the NULL it gives is written to.  The message goes to the ring   *)
(* of the tcb, which is new and gets nothing else before, so the branch    *)
(* for a full ring is never taken and is left out.                         *)
(***************************************************************************)
EXTENDS Integers, FiniteSets

CONSTANTS
  NumApps,    \* application threads, each with one tcb
  FirstPort,  \* the value SrcPorts starts from (10000 in C)
  PortSpace   \* values of a uint16_t

ASSUME ConnectAssumption ==
  /\ NumApps \in Nat /\ FirstPort \in Nat \ {0} /\ PortSpace \in Nat
  /\ FirstPort + NumApps < PortSpace

Apps  == 1 .. NumApps   \* in the order of their sockets in tcbs
Ports == 0 .. PortSpace - 1

VARIABLES
  SrcPorts,   \* the static counter of socket_connect
  reg,        \* the count a thread has loaded
  pc,         \* where each thread is in socket_connect
  opened,     \* tcbs with a CONNECTION_OPEN message in their ring
  remote,     \* whether ipv4_src and sport are set
  ipv4_dst,   \* the tcb's own address; "swapped" with its bytes reversed
  dport,      \* the tcb's own port
  next_seq,   \* ptcb->next_seq
  state,      \* ptcb->state; REMOVED when remove_tcb freed the tcb
  toPeer,     \* packets of the stack on their way
  toStack,    \* packets of the peer on their way
  fault,      \* a freed tcb was used or a NULL message written to
  overlap,    \* history: a call began while another had not got its port
  early,      \* history: tcbs whose SYN left before all fields were set
  missed,     \* history: tcbs signalled while nobody waited
  lost,       \* history: tcbs with a packet lost on the way
  spurious,   \* history: threads woken without a signal
  answered,   \* history: the packet that established a tcb
  poolEmpty   \* history: a call found no message in the pool

fields  == <<remote, ipv4_dst, dport, next_seq>>
network == <<toPeer, toStack>>
history == <<overlap, early, missed, lost, spurious, answered, poolEmpty>>
vars    == <<SrcPorts, reg, pc, opened, fields, state, network, fault,
             history>>

NoAnswer == [kind |-> "none", of |-> 0, port |-> 0]

(* The steps of socket_connect, by what has been done.                     *)
PCs == {"idle", "loaded", "counted", "sent", "remote", "local", "set",
        "waiting", "woken", "done"}

Addresses == {"unset", "own", "swapped"}

(* What the stack sends: `of' is the tcb, `to' whether the peer's address  *)
(* and port are in it, `addr' and `port' the source.                       *)
Packet == [kind : {"SYN", "ACK"}, of : Apps, to : BOOLEAN,
           addr : Addresses, port : Ports, seq : {0, 1}]

(* What the peer sends: `of' is the tcb whose SYN it answers.              *)
Answer == [kind : {"SYNACK", "RST"}, of : Apps, port : Ports]

Init ==
  /\ SrcPorts = 0 /\ reg = [a \in Apps |-> 0]
  /\ pc = [a \in Apps |-> "idle"] /\ opened = {}
  /\ remote = [a \in Apps |-> FALSE] /\ ipv4_dst = [a \in Apps |-> "unset"]
  /\ dport = [a \in Apps |-> 0] /\ next_seq = [a \in Apps |-> 0]
  /\ state = [a \in Apps |-> "CLOSED"]
  /\ toPeer = {} /\ toStack = {} /\ fault = FALSE
  /\ overlap = FALSE /\ early = {} /\ missed = {} /\ lost = {}
  /\ spurious = {} /\ answered = [a \in Apps |-> NoAnswer]
  /\ poolEmpty = FALSE
-----------------------------------------------------------------------------
(* socket_connect.                                                         *)

Step(a, from, to) ==
  /\ ~fault /\ pc[a] = from
  /\ pc' = [pc EXCEPT ![a] = to]

(* A step that uses the tcb finds it freed.                                *)
UsesTcb(a) == fault' = (state[a] = "REMOVED")

GettingPort(b) == pc[b] \in {"loaded", "counted", "sent", "remote"}

(* SrcPorts++ is a load and a store, on every thread.                      *)
LoadPort(a) ==
  /\ Step(a, "idle", "loaded")
  /\ SrcPorts' = IF SrcPorts = 0 THEN FirstPort ELSE SrcPorts
  /\ reg' = [reg EXCEPT ![a] = SrcPorts']
  /\ overlap' = (overlap \/ \E b \in Apps : GettingPort(b))
  /\ UNCHANGED <<opened, fields, state, network, fault, early, missed, lost,
                 spurious, answered, poolEmpty>>

(* Mutant: the count is stored as it was loaded.                           *)
SamePort(count) == count

NextPort(count) == (count + 1) % PortSpace

StorePort(a) ==
  /\ Step(a, "loaded", "counted")
  /\ SrcPorts' = NextPort(reg[a])
  /\ UNCHANGED <<reg, opened, fields, state, network, fault, history>>

(* Get a message from the pool, fill it in and enqueue it.                 *)
EnqueueOpen(a) ==
  /\ \/ /\ Step(a, "counted", "sent")
        /\ opened' = opened \union {a}
        /\ UNCHANGED <<fault, poolEmpty>>
     \/ /\ Step(a, "counted", "counted")
        /\ fault' = TRUE /\ poolEmpty' = TRUE
        /\ UNCHANGED opened
  /\ UNCHANGED <<SrcPorts, reg, fields, state, network, overlap, early,
                 missed, lost, spurious, answered>>

SetRemote(a) ==
  /\ Step(a, "sent", "remote")
  /\ remote' = [remote EXCEPT ![a] = TRUE]
  /\ UsesTcb(a)
  /\ UNCHANGED <<SrcPorts, reg, opened, ipv4_dst, dport, next_seq, state,
                 network, history>>

(* The port is what SrcPorts is by now.                                    *)
SetLocal(a) ==
  /\ Step(a, "remote", "local")
  /\ ipv4_dst' = [ipv4_dst EXCEPT ![a] = "own"]
  /\ dport' = [dport EXCEPT ![a] = SrcPorts]
  /\ UsesTcb(a)
  /\ UNCHANGED <<SrcPorts, reg, opened, remote, next_seq, state, network,
                 history>>

SetSeq(a) ==
  /\ Step(a, "local", "set")
  /\ next_seq' = [next_seq EXCEPT ![a] = 1]
  /\ UsesTcb(a)
  /\ UNCHANGED <<SrcPorts, reg, opened, remote, ipv4_dst, dport, state,
                 network, history>>

(* Lock, set WaitingOnConnect, and wait, whatever state the tcb is in.     *)
WaitConnected(a) ==
  /\ Step(a, "set", "waiting")
  /\ UsesTcb(a)
  /\ UNCHANGED <<SrcPorts, reg, opened, fields, state, network, history>>

(* pthread_cond_wait may return without a signal; the code does not check. *)
SpuriousWakeup(a) ==
  /\ Step(a, "waiting", "woken")
  /\ spurious' = spurious \union {a}
  /\ UNCHANGED <<SrcPorts, reg, opened, fields, state, network, fault, overlap,
                 early, missed, lost, answered, poolEmpty>>

ReturnConnected(a) ==
  /\ Step(a, "woken", "done")
  /\ UsesTcb(a)
  /\ UNCHANGED <<SrcPorts, reg, opened, fields, state, network, history>>
-----------------------------------------------------------------------------
(* The lcore.                                                              *)

(* Mutant: the number is increased before it is sent.                      *)
SynAfterIncrement(a) ==
  [kind |-> "SYN", of |-> a, to |-> remote[a], addr |-> ipv4_dst[a],
   port |-> dport[a], seq |-> next_seq[a] + 1]

(* sendsyn with the fields as they are.                                    *)
Syn(a) == [kind |-> "SYN", of |-> a, to |-> remote[a], addr |-> ipv4_dst[a],
           port |-> dport[a], seq |-> next_seq[a]]

FieldsMissing(b) == pc[b] \in {"sent", "remote", "local"}

(* check_socket_out_queue on a CONNECTION_OPEN message.                    *)
HandleOpen(a) ==
  /\ ~fault /\ a \in opened /\ state[a] # "REMOVED"
  /\ opened' = opened \ {a}
  /\ toPeer' = toPeer \union {Syn(a)}
  /\ next_seq' = [next_seq EXCEPT ![a] = @ + 1]
  /\ state' = [state EXCEPT ![a] = "SYN_SENT"]
  /\ early' = early \union ({a} \intersect {b \in Apps : FieldsMissing(b)})
  /\ UNCHANGED <<SrcPorts, reg, pc, remote, ipv4_dst, dport, toStack, fault,
                 overlap, missed, lost, spurious, answered, poolEmpty>>

(* Mutant: the ports are not compared.                                     *)
AnyPort(a, p) == state[a] # "REMOVED" /\ remote[a] /\ ipv4_dst[a] = "own"

(* The first loop of findtcb; nothing listens here.                        *)
Matches(a, p) ==
  /\ state[a] # "REMOVED"
  /\ dport[a] = p.port /\ remote[a] /\ ipv4_dst[a] = "own"

findtcb(p) ==
  {a \in Apps : Matches(a, p) /\ \A b \in 1 .. a - 1 : ~Matches(b, p)}

(* Mutant: the signal is left out.                                         *)
SignalNobody(a) == UNCHANGED <<pc, missed>>

(* Mutant: all tcbs share one condition variable.                          *)
SignalAll(a) ==
  /\ pc' = [b \in Apps |-> IF pc[b] = "waiting" THEN "woken" ELSE pc[b]]
  /\ UNCHANGED missed

(* pthread_cond_signal.                                                    *)
SignalConnect(a) ==
  IF pc[a] = "waiting"
  THEN pc' = [pc EXCEPT ![a] = "woken"] /\ UNCHANGED missed
  ELSE missed' = missed \union {a} /\ UNCHANGED pc

Ack(a) == [kind |-> "ACK", of |-> a, to |-> TRUE, addr |-> "swapped",
           port |-> dport[a], seq |-> 1]

(* tcp_syn_sent, whatever the packet's flags: the address from the packet  *)
(* goes through ntohl, next_seq goes back, and the acknowledgement leaves  *)
(* with the fields set so.                                                 *)
tcp_syn_sent(a, p) ==
  /\ state' = [state EXCEPT ![a] = "ESTABLISHED"]
  /\ ipv4_dst' = [ipv4_dst EXCEPT ![a] = "swapped"]
  /\ next_seq' = [next_seq EXCEPT ![a] = 1]
  /\ answered' = [answered EXCEPT ![a] = p]
  /\ SignalConnect(a)
  /\ toPeer' = toPeer \union {Ack(a)}

(* A packet that comes before the SYN of its tcb was sent ends the tcb.    *)
tcp_closed(a) ==
  /\ state' = [state EXCEPT ![a] = "REMOVED"]
  /\ UNCHANGED <<pc, ipv4_dst, next_seq, toPeer, missed, answered>>

(* tcp_in; the packet may come again.  What finds no tcb is answered with  *)
(* a reset, which changes nothing here.                                    *)
tcp_in(p) ==
  /\ ~fault /\ p \in toStack
  /\ toStack' \in {toStack, toStack \ {p}}
  /\ \/ /\ findtcb(p) = {}
        /\ UNCHANGED <<pc, ipv4_dst, next_seq, state, toPeer, missed, answered>>
     \/ \E a \in findtcb(p) :
          IF state[a] = "SYN_SENT" THEN tcp_syn_sent(a, p) ELSE tcp_closed(a)
  /\ UNCHANGED <<SrcPorts, reg, opened, remote, dport, fault, overlap, early,
                 lost, spurious, poolEmpty>>
-----------------------------------------------------------------------------
(* The network and the peer, which answers a SYN that names it and its     *)
(* sender.                                                                 *)

PeerAnswers(a) ==
  /\ ~fault
  /\ \E m \in toPeer :
       /\ m.kind = "SYN" /\ m.of = a /\ m.to /\ m.addr = "own"
       /\ toPeer' = toPeer \ {m}
       /\ \E kind \in {"SYNACK", "RST"} :
            toStack' = toStack \union
                         {[kind |-> kind, of |-> a, port |-> m.port]}
  /\ UNCHANGED <<SrcPorts, reg, pc, opened, fields, state, fault, history>>

(* A SYN or its answer is lost.  An acknowledgement reaches nobody anyway, *)
(* its source address being swapped.                                       *)
Lose(a) ==
  /\ ~fault
  /\ \/ /\ \E m \in toPeer :
             m.kind = "SYN" /\ m.of = a /\ toPeer' = toPeer \ {m}
        /\ UNCHANGED toStack
     \/ /\ \E p \in toStack : p.of = a /\ toStack' = toStack \ {p}
        /\ UNCHANGED toPeer
  /\ lost' = lost \union {a}
  /\ UNCHANGED <<SrcPorts, reg, pc, opened, fields, state, fault, overlap,
                 early, missed, spurious, answered, poolEmpty>>
-----------------------------------------------------------------------------
socket_connect(a) ==
  \/ LoadPort(a) \/ StorePort(a) \/ EnqueueOpen(a)
  \/ SetRemote(a) \/ SetLocal(a) \/ SetSeq(a)
  \/ WaitConnected(a) \/ SpuriousWakeup(a) \/ ReturnConnected(a)

AnswerArrives(a) == \E p \in toStack : p.of = a /\ tcp_in(p)

Next ==
  \E a \in Apps : \/ socket_connect(a)
                 \/ HandleOpen(a)
                 \/ AnswerArrives(a)
                 \/ PeerAnswers(a)
                 \/ Lose(a)

Spec == Init /\ [][Next]_vars

(* The main loop takes every message and packet; the peer answers.         *)
FairSpec ==
  Spec /\ \A a \in Apps : WF_vars(HandleOpen(a)) /\ WF_vars(PeerAnswers(a))
                           /\ WF_vars(AnswerArrives(a))
-----------------------------------------------------------------------------
(* The type of every variable.                                             *)
TypeOK ==
  /\ SrcPorts \in Ports /\ reg \in [Apps -> Ports] /\ pc \in [Apps -> PCs]
  /\ opened \subseteq Apps
  /\ remote \in [Apps -> BOOLEAN] /\ ipv4_dst \in [Apps -> Addresses]
  /\ dport \in [Apps -> Ports] /\ next_seq \in [Apps -> 0 .. 2]
  /\ state \in [Apps -> {"CLOSED", "SYN_SENT", "ESTABLISHED", "REMOVED"}]
  /\ toPeer \subseteq Packet /\ toStack \subseteq Answer
  /\ fault \in BOOLEAN /\ overlap \in BOOLEAN
  /\ early \subseteq Apps /\ missed \subseteq Apps /\ lost \subseteq Apps
  /\ spurious \subseteq Apps
  /\ answered \in [Apps -> Answer \union {NoAnswer}]
  /\ poolEmpty \in BOOLEAN

HasPort(a) == pc[a] \in {"local", "set", "waiting", "woken", "done"}

(* Unless socket_connect was called again before the call that came first  *)
(* had read its port back, two connections have different ports, and so    *)
(* each tcb is established by the answer to its own SYN, even one that     *)
(* left too early, and none is removed under the thread that uses it: the  *)
(* process only ends on the NULL of an empty message pool.                 *)
PortsApart ==
  ~overlap =>
    /\ \A a, b \in Apps :
         a # b /\ HasPort(a) /\ HasPort(b) => dport[a] # dport[b]
    /\ \A a \in Apps : answered[a] # NoAnswer => answered[a].of = a
    /\ ~fault \/ poolEmpty

(* A SYN has all its addresses, its port and the number 1, unless the      *)
(* lcore took the message before socket_connect had set them.              *)
SynComplete ==
  \A m \in toPeer :
    m.kind = "SYN" /\ m.of \notin early => m.to /\ m.addr = "own" /\ m.seq = 1

(* socket_connect returns only on an established connection, unless it was *)
(* woken without a signal.                                                 *)
ConnectedOnReturn ==
  \A a \in Apps : pc[a] \in {"woken", "done"} /\ a \notin spurious
                  => state[a] = "ESTABLISHED"

(* A waiting thread is woken, unless its signal came before it waited, its *)
(* SYN left too early, a packet was lost (a SYN is never sent again), the  *)
(* ports were mixed up or a call that found the message pool empty ended   *)
(* the process.                                                            *)
ConnectReturns ==
  \A a \in Apps :
    pc[a] = "waiting" ~>
      pc[a] # "waiting" \/ a \in early \union missed \union lost
        \/ overlap \/ poolEmpty
=============================================================================
