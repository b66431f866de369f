---------------------------- MODULE SocketRings ----------------------------
(***************************************************************************)
(* The messages between applications and the stack.  A tcb has two rings,  *)
(* one each way; the messages in all of them come from one shared pool.    *)
(* The application is the file download server: one thread per accepted    *)
(* connection reads a request and answers it through socket_send and       *)
(* socket_close; the lcore delivers segments (PushDataInQueue) and empties *)
(* the other ring (check_socket_out_queue).                                *)
(*                                                                         *)
(* Taking a message from the pool and putting it into a ring are two       *)
(* steps, and so are taking one from a ring and giving it back: the pool   *)
(* is shared and unlocked.  socket_send reports a full ring or an empty    *)
(* pool; socket_close and PushDataInQueue do not look, and write to NULL.  *)
(***************************************************************************)
EXTENDS Integers, Sequences, FiniteSets, SequencesExt

CONSTANTS
  Conns,     \* accepted connections, each with its thread and its tcb
  PoolSize,  \* messages of buffer_message_pool (10024 in C)
  RingSize,  \* messages a ring holds (1023 in C)
  Chunks,    \* chunks of about 1000 bytes the served file is read in
  MaxSegs    \* bound: segments the peers send, all together

ASSUME RingsAssumption ==
  /\ IsFiniteSet(Conns)
  /\ PoolSize \in Nat /\ RingSize \in Nat \ {0}
  /\ Chunks \in Nat \ {0} /\ MaxSegs \in Nat

VARIABLES
  avail,     \* messages left in the pool
  toTcb,     \* tcb_socket_ring of each connection, application to stack
  toApp,     \* socket_tcb_ring of each connection, stack to application
  state,     \* of the tcb: closing stands for FIN_2 and CLOSED, removed
             \* for one that remove_tcb has freed
  need_ack_now,
  lcore,     \* the message the lcore has in hand
  pc,        \* where the thread of each connection is
  hasMsg,    \* the thread holds a message from the pool
  text,      \* what respond has read of the request
  chunk,     \* the chunk respond sends next
  fault,     \* how the process ended, "none" while it runs
  segs,      \* history: segments the peer has sent
  plan,      \* history: what respond answers
  wire,      \* history: what sendtcpdata was given
  lost       \* history: messages given up because of a limit

pool    == <<avail, hasMsg>>
stack   == <<state, need_ack_now, lcore, segs, wire>>
respond == <<pc, text, chunk, plan, lost>>
vars    == <<pool, toTcb, toApp, stack, respond, fault>>

(* A segment of a request: fewer than four bytes, or a whole line.         *)
Segments == {"tiny", "line"}

Reply(kind, n) == [kind |-> kind, n |-> n]
FIN == Reply("FIN", 0)
Replies == [kind : {"head", "err", "chunk", "FIN"}, n : 0 .. Chunks]

Idle == [at |-> "idle"]
InHand(at, c, m) == [at |-> at, conn |-> c, msg |-> m]

Init ==
  /\ avail = PoolSize /\ hasMsg = [c \in Conns |-> FALSE]
  /\ toTcb = [c \in Conns |-> <<>>] /\ toApp = [c \in Conns |-> <<>>]
  /\ state = [c \in Conns |-> "ESTABLISHED"] /\ lcore = Idle
  /\ need_ack_now = [c \in Conns |-> FALSE] /\ segs = 0
  /\ pc = [c \in Conns |-> "new"] /\ text = [c \in Conns |-> "none"]
  /\ chunk = [c \in Conns |-> 1] /\ plan = [c \in Conns |-> "none"]
  /\ wire = [c \in Conns |-> <<>>] /\ lost = [c \in Conns |-> {}]
  /\ fault = "none"

Goto(c, label) == pc' = [pc EXCEPT ![c] = label]

(* Mutant: one message more than the ring has slots for.                   *)
RoomForOneMore(ring) == Len(ring) <= RingSize

HasRoom(ring) == Len(ring) < RingSize
-----------------------------------------------------------------------------
(* The lcore.                                                              *)

(* A segment arrives: tcp_established asks for an acknowledgement and      *)
(* PushDataInQueue takes a message, without a test that there is one ...   *)
GetForSegment(c, m) ==
  /\ lcore = Idle /\ state[c] = "ESTABLISHED" /\ segs < MaxSegs
  /\ segs' = segs + 1
  /\ need_ack_now' = [need_ack_now EXCEPT ![c] = TRUE]
  /\ IF avail > 0
     THEN /\ avail' = avail - 1
          /\ lcore' = InHand("enqueue", c, m)
          /\ UNCHANGED fault
     ELSE fault' = "message" /\ UNCHANGED <<avail, lcore>>
  /\ UNCHANGED <<hasMsg, toTcb, toApp, state, wire, respond>>

(* Mutant: the discarded message is not given back.                        *)
DiscardAndLeak(m) == UNCHANGED avail

DiscardSegment(m) == avail' = avail + 1

(* ... and puts it into the ring, or discards the data when it is full.    *)
PushDataInQueue ==
  /\ lcore.at = "enqueue"
  /\ lcore' = Idle
  /\ IF HasRoom(toApp[lcore.conn])
     THEN /\ toApp' = [toApp EXCEPT ![lcore.conn] = Append(@, lcore.msg)]
          /\ UNCHANGED avail
     ELSE DiscardSegment(lcore.msg) /\ UNCHANGED toApp
  /\ UNCHANGED <<hasMsg, toTcb, state, need_ack_now, segs, wire, respond, fault>>

(* The peer's FIN, and the packets after it: the second one removes the    *)
(* tcb.  Its rings and what they hold are never given back.                *)
PeerCloses(c) ==
  /\ lcore = Idle
  /\ \/ /\ state[c] = "ESTABLISHED"
        /\ state' = [state EXCEPT ![c] = "closing"]
        /\ need_ack_now' = [need_ack_now EXCEPT ![c] = TRUE]
     \/ /\ state[c] = "closing"
        /\ state' = [state EXCEPT ![c] = "removed"]
        /\ UNCHANGED need_ack_now
  /\ UNCHANGED <<pool, toTcb, toApp, lcore, segs, wire, respond, fault>>

OldestMessage(c) == Head(toTcb[c])

(* Mutant: every visit acknowledges the data but leaves the wish standing. *)
KeepWish(c) == UNCHANGED need_ack_now

AckLeaves(c) == need_ack_now' = [need_ack_now EXCEPT ![c] = FALSE]

(* check_socket_out_queue at one tcb: hand a message to sendtcpdata, which *)
(* acknowledges what has arrived too, or send a bare acknowledgement.      *)
check_socket_out_queue(c) ==
  /\ lcore = Idle /\ state[c] # "removed"
  /\ \/ /\ toTcb[c] # <<>>
        /\ wire' = [wire EXCEPT ![c] = Append(@, OldestMessage(c))]
        /\ toTcb' = [toTcb EXCEPT ![c] = Tail(@)]
        /\ lcore' = InHand("put", c, OldestMessage(c))
     \/ /\ toTcb[c] = <<>> /\ need_ack_now[c]
        /\ UNCHANGED <<wire, toTcb, lcore>>
  /\ AckLeaves(c)
  /\ UNCHANGED <<pool, toApp, state, segs, respond, fault>>

(* ... and give the message back to the pool.                              *)
PutMessage ==
  /\ lcore.at = "put"
  /\ lcore' = Idle
  /\ avail' = avail + 1
  /\ UNCHANGED <<hasMsg, toTcb, toApp, state, need_ack_now, segs, wire,
                 respond, fault>>
-----------------------------------------------------------------------------
(* The thread of a connection.                                             *)

(* sample1 accepts the connection and creates the thread.                  *)
sample1(c) ==
  /\ pc[c] = "new"
  /\ Goto(c, "reading")
  /\ UNCHANGED <<pool, toTcb, toApp, stack, text, chunk, plan, lost, fault>>

(* What has been read with one more segment: after fewer than four bytes   *)
(* respond reads on, and two short segments are no whole line.             *)
TextWith(c, m) ==
  IF m = "line" THEN "line" ELSE IF text[c] = "none" THEN "tiny" ELSE "short"

(* socket_read polls the ring of the tcb, even one that is freed.          *)
socket_read(c) ==
  /\ pc[c] = "reading"
  /\ \/ /\ state[c] = "removed" /\ fault' = "tcb"
        /\ UNCHANGED <<toApp, text, pc>>
     \/ /\ state[c] # "removed" /\ toApp[c] # <<>>
        /\ toApp' = [toApp EXCEPT ![c] = Tail(@)]
        /\ text' = [text EXCEPT ![c] = TextWith(c, Head(toApp[c]))]
        /\ Goto(c, "copied")
        /\ UNCHANGED fault
  /\ UNCHANGED <<pool, toTcb, stack, chunk, plan, lost>>

ReadDone(c) ==
  /\ pc[c] = "copied"
  /\ avail' = avail + 1
  /\ Goto(c, IF text[c] = "tiny" THEN "reading" ELSE "parsing")
  /\ UNCHANGED <<hasMsg, toTcb, toApp, stack, text, chunk, plan, lost, fault>>

Answers(c, p, label) == plan' = [plan EXCEPT ![c] = p] /\ Goto(c, label)

(* respond looks at the request line and opens the file.  It closes on     *)
(* another method than GET, answers a wrong version and a missing file by  *)
(* an error, and compares a NULL when strtok finds too few words.          *)
ParseRequest(c) ==
  /\ pc[c] = "parsing"
  /\ \/ /\ fault' = "strtok"
        /\ UNCHANGED <<plan, pc>>
     \/ /\ \/ Answers(c, "close", "close")
           \/ text[c] = "line" /\ Answers(c, "error", "err")
           \/ text[c] = "line" /\ Answers(c, "file", "head")
        /\ UNCHANGED fault
  /\ UNCHANGED <<pool, toTcb, toApp, stack, text, chunk, lost>>

(* The message respond sends where it is, and what it does after it.       *)
Message(c) ==
  CASE pc[c] = "close" -> FIN
    [] pc[c] = "chunk" -> Reply("chunk", chunk[c])
    [] OTHER           -> Reply(pc[c], 0)

GoOn(c) ==
  /\ Goto(c, CASE pc[c] = "close" -> "done"
               [] pc[c] = "head" \/ (pc[c] = "chunk" /\ chunk[c] < Chunks) -> "chunk"
               [] OTHER -> "close")
  /\ chunk' = IF pc[c] = "chunk" /\ chunk[c] < Chunks
              THEN [chunk EXCEPT ![c] = @ + 1] ELSE chunk

(* Mutant: the result of socket_send is looked at nowhere.                 *)
LookNowhere(c) ==
  lost' = [lost EXCEPT ![c] = @ \union {Message(c)}] /\ GoOn(c)

(* A send that failed: the chunks of the file are tried again, the result  *)
(* of the others is not looked at.                                         *)
SendFailed(c) ==
  IF pc[c] = "chunk"
  THEN UNCHANGED <<pc, chunk, lost>>
  ELSE lost' = [lost EXCEPT ![c] = @ \union {Message(c)}] /\ GoOn(c)

(* socket_send and socket_close take a message from the pool ...           *)
GetMessage(c) ==
  /\ pc[c] \in {"head", "err", "chunk", "close"} /\ ~hasMsg[c]
  /\ \/ /\ avail > 0
        /\ avail' = avail - 1 /\ hasMsg' = [hasMsg EXCEPT ![c] = TRUE]
        /\ UNCHANGED <<pc, chunk, lost, fault>>
     \/ /\ avail = 0 /\ pc[c] # "close"
        /\ SendFailed(c)
        /\ UNCHANGED <<pool, fault>>
     \/ /\ avail = 0 /\ pc[c] = "close"
        /\ fault' = "message"
        /\ UNCHANGED <<pool, pc, chunk, lost>>
  /\ UNCHANGED <<toTcb, toApp, stack, text, plan>>

(* ... and put it into the ring of the tcb, or back when that is full.     *)
socket_send(c) ==
  /\ hasMsg[c]
  /\ \/ /\ state[c] = "removed" /\ fault' = "tcb"
        /\ UNCHANGED <<pool, toTcb, pc, chunk, lost>>
     \/ /\ state[c] # "removed"
        /\ hasMsg' = [hasMsg EXCEPT ![c] = FALSE]
        /\ IF HasRoom(toTcb[c])
           THEN /\ toTcb' = [toTcb EXCEPT ![c] = Append(@, Message(c))]
                /\ GoOn(c)
                /\ UNCHANGED <<avail, lost>>
           ELSE avail' = avail + 1 /\ SendFailed(c) /\ UNCHANGED toTcb
        /\ UNCHANGED fault
  /\ UNCHANGED <<toApp, stack, text, plan>>
-----------------------------------------------------------------------------
Lcore ==
  \/ PushDataInQueue \/ PutMessage
  \/ \E c \in Conns : check_socket_out_queue(c)

Thread(c) ==
  socket_read(c) \/ ReadDone(c) \/ ParseRequest(c) \/ GetMessage(c) \/ socket_send(c)

Peer == \E c \in Conns : PeerCloses(c) \/ \E m \in Segments : GetForSegment(c, m)

Next ==
  /\ fault = "none"
  /\ \/ Lcore \/ Peer
     \/ \E c \in Conns : sample1(c) \/ Thread(c)

(* The lcore's loop never blocks, and threads are scheduled; what the peer *)
(* sends, and whether a connection is accepted, is left open.              *)
Fairness ==
  /\ WF_vars(fault = "none" /\ (PushDataInQueue \/ PutMessage))
  /\ \A c \in Conns : /\ WF_vars(fault = "none" /\ check_socket_out_queue(c))
                      /\ WF_vars(fault = "none" /\ Thread(c))

Spec     == Init /\ [][Next]_vars
FairSpec == Spec /\ Fairness
-----------------------------------------------------------------------------
(* The type of every variable.                                             *)
TypeOK ==
  /\ avail \in 0 .. PoolSize /\ hasMsg \in [Conns -> BOOLEAN]
  /\ toTcb \in [Conns -> Seq(Replies)] /\ toApp \in [Conns -> Seq(Segments)]
  /\ \A c \in Conns : Len(toTcb[c]) <= RingSize /\ Len(toApp[c]) <= RingSize
  /\ state \in [Conns -> {"ESTABLISHED", "closing", "removed"}]
  /\ need_ack_now \in [Conns -> BOOLEAN] /\ segs \in 0 .. MaxSegs
  /\ lcore \in {Idle}
       \union [at : {"enqueue"}, conn : Conns, msg : Segments]
       \union [at : {"put"}, conn : Conns, msg : Replies]
  /\ pc \in [Conns -> {"new", "reading", "copied", "parsing", "head", "err",
                       "chunk", "close", "done"}]
  /\ text \in [Conns -> Segments \union {"none", "short"}]
  /\ chunk \in [Conns -> 1 .. Chunks]
  /\ plan \in [Conns -> {"none", "close", "error", "file"}]
  /\ wire \in [Conns -> Seq(Replies)] /\ lost \in [Conns -> SUBSET Replies]
  /\ fault \in {"none", "message", "tcb", "strtok"}

(* The places that hold a message: slots of the rings, of a removed tcb    *)
(* too, and the hands of the threads and of the lcore.                     *)
Places ==
  {<<"toTcb", c, i>> : c \in Conns, i \in 1 .. RingSize}
    \union {<<"toApp", c, i>> : c \in Conns, i \in 1 .. RingSize}
    \union {<<"send", c>> : c \in Conns} \union {<<"read", c>> : c \in Conns}
    \union {<<"lcore">>}

Taken(place) ==
  CASE place[1] = "toTcb" -> place[3] <= Len(toTcb[place[2]])
    [] place[1] = "toApp" -> place[3] <= Len(toApp[place[2]])
    [] place[1] = "send"  -> hasMsg[place[2]]
    [] place[1] = "read"  -> pc[place[2]] = "copied"
    [] OTHER              -> lcore # Idle

(* No message is lost from the pool and none is given back twice, whatever *)
(* sends fail: what is not in the pool is in one of the places.            *)
PoolExact == avail = PoolSize - Cardinality({p \in Places : Taken(p)})

(* A part of the answer that a full ring or an empty pool may have made    *)
(* respond give up: it does not check the sending of any but the chunks.   *)
Part(c, m) == IF m \in lost[c] THEN <<>> ELSE <<m>>

ChunksUpTo(n) == [i \in 1 .. n |-> Reply("chunk", i)]

(* The answer to a request, up to its FIN.                                 *)
Body(c) ==
  CASE plan[c] = "file"  -> Part(c, Reply("head", 0)) \o ChunksUpTo(Chunks)
    [] plan[c] = "error" -> Part(c, Reply("err", 0))
    [] OTHER             -> <<>>

Answer(c) == IF plan[c] = "none" THEN <<>> ELSE Body(c) \o Part(c, FIN)

(* What the stack was given to send is the answer, in order, every chunk   *)
(* of the file once, the FIN last; and all of it when respond has ended.   *)
ReplyInOrder ==
  \A c \in Conns : /\ IsPrefix(wire[c] \o toTcb[c], Answer(c))
                   /\ pc[c] = "done" => wire[c] \o toTcb[c] = Answer(c)

(* A connection with nothing left to do: its request, once read, is        *)
(* answered to the end, the FIN included, and what arrived is acknowledged *)
(* -- or the peer's packets have removed the tcb, or the process ended.    *)
Settled(c) ==
  \/ state[c] = "removed" \/ fault # "none"
  \/ /\ ~need_ack_now[c]
     /\ \/ pc[c] \in {"new", "reading"}
        \/ FIN \in lost[c] \/ Contains(wire[c], FIN)

(* Peers send a bounded number of segments; every connection is settled in *)
(* the end, whatever full rings and empty pools delay it, unless the pool  *)
(* stays empty for good under segments that nobody reads.                  *)
ReplyCompletes == <>[](avail = 0) \/ <>[](\A c \in Conns : Settled(c))
=============================================================================
