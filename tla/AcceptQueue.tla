---------------------------- MODULE AcceptQueue ----------------------------
(***************************************************************************)
(* A listening tcb between the stack's lcore and the application threads.  *)
(* tcp_listen puts the tcb of every SYN into a ring of listen_queue_max    *)
(* slots; tcp_syn_rcv, when a handshake completes, signals condAccept;     *)
(* socket_accept waits for one signal and takes the oldest tcb.            *)
(* The ring is only touched under listen_queue_mutex and the condition     *)
(* variable only under mutex, so each critical section is one step.  What  *)
(* is read without a lock, WaitingOnAccept, is a step of its own.          *)
(***************************************************************************)
EXTENDS Integers, Sequences, FiniteSets

CONSTANTS
  Conns,            \* the connections clients open, one tcb each
  Acceptors,        \* the application threads that call socket_accept
  listen_queue_max, \* slots of the ring, one of them always free (5 in C)
  NULL              \* the empty slot

ASSUME AcceptAssumption ==
  /\ IsFiniteSet(Conns) /\ IsFiniteSet(Acceptors)
  /\ listen_queue_max \in Nat \ {0}
  /\ NULL \notin Conns

VARIABLES
  newpTcbOnAccept,    \* the slots of the ring
  listen_queue_front, \* where the next SYN goes
  listen_queue_rare,  \* where the next accept takes
  WaitingOnAccept,    \* the listener's flag
  state,              \* state of each connection's tcb
  pc,                 \* where each application thread is
  aborted,            \* an assert has failed
  spurious,           \* history: a thread was woken without a signal
  arrivals,           \* history: connections in the order they were queued
  accepted            \* history: connections in the order accept took them

ring    == <<newpTcbOnAccept, listen_queue_front, listen_queue_rare>>
history == <<arrivals, accepted>>
vars    == <<ring, WaitingOnAccept, state, pc, aborted, spurious, history>>

Slots == 0 .. listen_queue_max - 1

(* idle: outside socket_accept; entered: the flag was clear; waiting: in   *)
(* pthread_cond_wait; woken: signalled, about to take the mutex again.     *)
PCs == {"idle", "entered", "waiting", "woken"}

Init ==
  /\ newpTcbOnAccept = [i \in Slots |-> NULL]
  /\ listen_queue_front = 0 /\ listen_queue_rare = 0
  /\ WaitingOnAccept = 0
  /\ state = [c \in Conns |-> "CLOSED"]
  /\ pc = [t \in Acceptors |-> "idle"]
  /\ aborted = FALSE /\ spurious = FALSE
  /\ arrivals = <<>> /\ accepted = <<>>

(* Mutant: the index runs past the last slot.                              *)
NextWithoutWrap(i) == i + 1

NextIndex(i) == IF i + 1 = listen_queue_max THEN 0 ELSE i + 1

-----------------------------------------------------------------------------
(* The stack's lcore.                                                      *)

(* Mutant: the slot kept empty is used too.                                *)
AlwaysRoom == TRUE

(* The listener's ring has a free slot besides the one kept empty.         *)
HasRoom == NextIndex(listen_queue_front) # listen_queue_rare

(* tcp_listen on the SYN of c.  A full ring ignores the SYN and frees the  *)
(* new tcb, so the client is where it was and may send its SYN again.      *)
tcp_listen(c) ==
  /\ ~aborted
  /\ state[c] = "CLOSED"
  /\ HasRoom
  /\ IF newpTcbOnAccept[listen_queue_front] = NULL
     THEN /\ newpTcbOnAccept' =
               [newpTcbOnAccept EXCEPT ![listen_queue_front] = c]
          /\ listen_queue_front' = NextIndex(listen_queue_front)
          /\ state' = [state EXCEPT ![c] = "SYN_RECV"]
          /\ arrivals' = Append(arrivals, c)
          /\ UNCHANGED aborted
     ELSE /\ aborted' = TRUE
          /\ UNCHANGED <<newpTcbOnAccept, listen_queue_front, state, arrivals>>
  /\ UNCHANGED <<listen_queue_rare, WaitingOnAccept, pc, spurious, accepted>>

(* Mutant: every waiting thread is woken for one connection.               *)
Broadcast ==
  pc' = [t \in Acceptors |-> IF pc[t] = "waiting" THEN "woken" ELSE pc[t]]

(* pthread_cond_signal wakes one waiting thread, or nobody.                *)
SignalAccept ==
  LET waiting == {t \in Acceptors : pc[t] = "waiting"}
  IN  IF waiting = {}
      THEN UNCHANGED pc
      ELSE \E t \in waiting : pc' = [pc EXCEPT ![t] = "woken"]

(* tcp_syn_rcv on the packet that completes the handshake of c.            *)
tcp_syn_rcv(c) ==
  /\ ~aborted
  /\ state[c] = "SYN_RECV"
  /\ SignalAccept
  /\ state' = [state EXCEPT ![c] = "ESTABLISHED"]
  /\ UNCHANGED <<ring, WaitingOnAccept, aborted, spurious, history>>
-----------------------------------------------------------------------------
(* socket_accept, in an application thread.                                *)

(* The test of WaitingOnAccept, without a lock; the call returns 0 and     *)
(* changes nothing when the flag is set.                                   *)
CheckWaiting(t) ==
  /\ ~aborted
  /\ pc[t] = "idle"
  /\ WaitingOnAccept = 0
  /\ pc' = [pc EXCEPT ![t] = "entered"]
  /\ UNCHANGED <<ring, WaitingOnAccept, state, aborted, spurious, history>>

(* Lock, set the flag, and wait whatever the ring holds.                   *)
StartWaiting(t) ==
  /\ ~aborted
  /\ pc[t] = "entered"
  /\ WaitingOnAccept' = 1
  /\ pc' = [pc EXCEPT ![t] = "waiting"]
  /\ UNCHANGED <<ring, state, aborted, spurious, history>>

(* pthread_cond_wait may return without a signal; the code does not check. *)
SpuriousWakeup(t) ==
  /\ ~aborted
  /\ pc[t] = "waiting"
  /\ spurious' = TRUE
  /\ pc' = [pc EXCEPT ![t] = "woken"]
  /\ UNCHANGED <<ring, WaitingOnAccept, state, aborted, history>>

(* The two asserts before the oldest tcb is taken.                         *)
TakeAsserts ==
  /\ listen_queue_front # listen_queue_rare
  /\ newpTcbOnAccept[listen_queue_rare] # NULL

(* Mutants: the slot is not freed, or rare does not move on.               *)
TakeWithoutFreeing ==
  /\ listen_queue_rare' = NextIndex(listen_queue_rare)
  /\ accepted' = Append(accepted, newpTcbOnAccept[listen_queue_rare])
  /\ UNCHANGED newpTcbOnAccept

TakeWithoutMoving ==
  /\ newpTcbOnAccept' = [newpTcbOnAccept EXCEPT ![listen_queue_rare] = NULL]
  /\ accepted' = Append(accepted, newpTcbOnAccept[listen_queue_rare])
  /\ UNCHANGED listen_queue_rare

(* Take the oldest tcb and free its slot.                                  *)
TakeOldest ==
  /\ newpTcbOnAccept' = [newpTcbOnAccept EXCEPT ![listen_queue_rare] = NULL]
  /\ listen_queue_rare' = NextIndex(listen_queue_rare)
  /\ accepted' = Append(accepted, newpTcbOnAccept[listen_queue_rare])

TakeConnection(t) ==
  /\ ~aborted
  /\ pc[t] = "woken"
  /\ IF TakeAsserts
     THEN /\ TakeOldest
          /\ WaitingOnAccept' = 0
          /\ pc' = [pc EXCEPT ![t] = "idle"]
          /\ UNCHANGED aborted
     ELSE /\ aborted' = TRUE
          /\ UNCHANGED <<newpTcbOnAccept, listen_queue_rare, accepted,
                         WaitingOnAccept, pc>>
  /\ UNCHANGED <<listen_queue_front, state, spurious, arrivals>>

-----------------------------------------------------------------------------
Next ==
  \/ \E c \in Conns : tcp_listen(c) \/ tcp_syn_rcv(c)
  \/ \E t \in Acceptors : \/ CheckWaiting(t)
                          \/ StartWaiting(t)
                          \/ SpuriousWakeup(t)
                          \/ TakeConnection(t)

(* The scheduler runs every thread; clients and callers owe nothing.       *)
Fairness ==
  \A t \in Acceptors : WF_vars(StartWaiting(t)) /\ WF_vars(TakeConnection(t))

Spec     == Init /\ [][Next]_vars
FairSpec == Spec /\ Fairness
-----------------------------------------------------------------------------
Established == {c \in Conns : state[c] = "ESTABLISHED"}
Woken       == {t \in Acceptors : pc[t] = "woken"}
Queued      == Len(arrivals) - Len(accepted)

(* How far slot i lies behind the slot accept takes next.                  *)
Offset(i) == IF i >= listen_queue_rare
             THEN i - listen_queue_rare
             ELSE i - listen_queue_rare + listen_queue_max

(* The type of every variable.                                             *)
TypeOK ==
  /\ newpTcbOnAccept \in [Slots -> Conns \union {NULL}]
  /\ listen_queue_front \in Slots /\ listen_queue_rare \in Slots
  /\ WaitingOnAccept \in {0, 1}
  /\ state \in [Conns -> {"CLOSED", "SYN_RECV", "ESTABLISHED"}]
  /\ pc \in [Acceptors -> PCs]
  /\ aborted \in BOOLEAN /\ spurious \in BOOLEAN
  /\ arrivals \in Seq(Conns) /\ accepted \in Seq(Conns)

(* The asserts of tcp_listen and socket_accept hold as long as every       *)
(* wakeup was a signal: a woken thread finds a connection, a SYN finds its *)
(* slot free.                                                              *)
AssertsHold == aborted => spurious

(* Connections are accepted in the order of their SYNs and each one once:  *)
(* what was accepted, followed by the ring from rare on, is what arrived.  *)
FifoAccept ==
  /\ \A n \in 1 .. Len(accepted) : accepted[n] = arrivals[n]
  /\ \A i \in Slots : Offset(i) < Queued =>
       newpTcbOnAccept[i] = arrivals[Len(accepted) + Offset(i) + 1]

(* The slots in use are those from rare up to front, so front = rare means *)
(* empty and never full.                                                   *)
RingShape ==
  /\ Queued \in 0 .. listen_queue_max - 1
  /\ Offset(listen_queue_front) = Queued
  /\ \A i \in Slots : newpTcbOnAccept[i] # NULL <=> Offset(i) < Queued

(* Accept never runs ahead of the handshakes: connections taken and        *)
(* threads on their way to take one stay within the handshakes completed,  *)
(* although what a thread takes is the oldest connection and not the one   *)
(* it was signalled for.                                                   *)
AcceptNotAhead ==
  ~spurious => Len(accepted) + Cardinality(Woken) <= Cardinality(Established)

(* The ring delivers the connections in order and keeps its shape.         *)
RingInOrder == FifoAccept /\ RingShape

(* Whatever is true only while every wakeup was a signal: the asserts hold *)
(* and accept does not run ahead.                                          *)
SignalsSuffice == AssertsHold /\ AcceptNotAhead

(* A thread that was signalled returns from socket_accept.                 *)
WokenReturns ==
  \A t \in Acceptors : pc[t] = "woken" ~> pc[t] = "idle" \/ spurious

(* "signal the tcb waiting on accpet": a thread in socket_accept returns   *)
(* when a connection that completed its handshake is in the ring.          *)
WaiterServed ==
  \A t \in Acceptors :
    pc[t] = "waiting" /\ Queued > 0
      /\ (\A i \in Slots : newpTcbOnAccept[i] # NULL
                             => state[newpTcbOnAccept[i]] = "ESTABLISHED")
    ~> pc[t] = "idle"
=============================================================================
