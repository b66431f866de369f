--------------------------- MODULE ConnectProofs ---------------------------
(***************************************************************************)
(* Proofs about Connect for every number of threads and every first port   *)
(* that leaves a port for each of them.                                    *)
(***************************************************************************)
EXTENDS Connect, FiniteSetTheorems, TLAPS

(* How far the call of a thread has come says which fields it has set.     *)
FieldsByStep ==
  \A a \in Apps :
    /\ pc[a] \in {"idle", "loaded", "counted"} =>
         a \notin opened /\ state[a] = "CLOSED"
    /\ pc[a] \notin {"idle", "loaded", "counted", "sent"} => remote[a]
    /\ ipv4_dst[a] # "unset" => HasPort(a)
    /\ state[a] = "CLOSED" =>
         /\ HasPort(a) => ipv4_dst[a] = "own"
         /\ next_seq[a] = IF HasPort(a) /\ pc[a] # "local" THEN 1 ELSE 0

(* The message is taken once, by a tcb that has sent no SYN yet, and an    *)
(* established tcb no longer has the address that packets are sent to.     *)
OpenedOnce ==
  \A a \in Apps :
    /\ a \in opened => state[a] \in {"CLOSED", "REMOVED"} /\ next_seq[a] <= 1
    /\ state[a] = "ESTABLISHED" => ipv4_dst[a] = "swapped"

(* What is on the way came from a tcb that has sent its SYN; an answer and *)
(* a SYN that can be answered carry the port the tcb keeps.                *)
PacketsOfSender ==
  /\ \A m \in toPeer :
       m.kind = "SYN" =>
         /\ state[m.of] # "CLOSED"
         /\ m.addr = "own" => HasPort(m.of) /\ m.port = dport[m.of]
  /\ \A p \in toStack :
       state[p.of] # "CLOSED" /\ HasPort(p.of) /\ p.port = dport[p.of]

(* The threads that have taken a number from SrcPorts.                     *)
Counted == {a \in Apps : pc[a] \notin {"idle", "loaded"}}

(* One call after the other: SrcPorts has moved once for each thread that  *)
(* counted, so it has not wrapped, and it is above every port given out    *)
(* while a thread has still to read its own.                               *)
CountersApart ==
  /\ \A a, b \in Apps : GettingPort(a) /\ GettingPort(b) => a = b
  /\ \/ SrcPorts = 0 /\ \A a \in Apps : pc[a] = "idle"
     \/ SrcPorts = FirstPort + Cardinality(Counted)
  /\ \A a \in Apps : pc[a] = "loaded" => reg[a] = SrcPorts
  /\ \A a \in Apps : HasPort(a) => dport[a] <= SrcPorts
  /\ \A a, b \in Apps :
       HasPort(a) /\ pc[b] \in {"counted", "sent", "remote"}
         => dport[a] < SrcPorts

(* Nor has any tcb been removed.                                           *)
NoneRemoved == \A a \in Apps : state[a] # "REMOVED"

IInv ==
  /\ TypeOK
  /\ FieldsByStep
  /\ OpenedOnce
  /\ PacketsOfSender
  /\ ~overlap => CountersApart /\ NoneRemoved
  /\ PortsApart
  /\ SynComplete
  /\ ConnectedOnReturn

(* No more threads count than there are.                                   *)
LEMMA CountedCardinality ==
  /\ IsFiniteSet(Counted) /\ Cardinality(Counted) \in Nat
  /\ Cardinality(Counted) <= NumApps
<1>1. IsFiniteSet(Apps) /\ Cardinality(Apps) = NumApps
  BY FS_Interval, ConnectAssumption DEF Apps
<1>2. Counted \subseteq Apps
  BY DEF Counted
<1>3. QED
  BY <1>1, <1>2, FS_Subset, FS_CardinalityType

(* A thread that counts is one more of them, and there are no more counted *)
(* threads than threads.                                                   *)
LEMMA CountedGrows ==
  ASSUME NEW a \in Apps, a \notin Counted, Counted' = Counted \union {a}
  PROVE  /\ Cardinality(Counted) \in Nat
         /\ Cardinality(Counted') = Cardinality(Counted) + 1
         /\ Cardinality(Counted') <= NumApps
<1>1. IsFiniteSet(Apps) /\ Cardinality(Apps) = NumApps
  BY FS_Interval, ConnectAssumption DEF Apps
<1>2. Counted \subseteq Apps /\ Counted' \subseteq Apps
  BY DEF Counted
<1>3. IsFiniteSet(Counted) /\ Cardinality(Counted) \in Nat
  BY <1>1, <1>2, FS_Subset, FS_CardinalityType
<1>4. Cardinality(Counted') = Cardinality(Counted) + 1
  BY <1>3, FS_AddElement
<1>5. Cardinality(Counted') <= Cardinality(Apps)
  BY <1>1, <1>2, FS_Subset
<1>6. QED
  BY <1>1, <1>3, <1>4, <1>5

(* Nobody has called: every field is unset and nothing is on the way.      *)
LEMMA InitIInv ==
  ASSUME Init
  PROVE  IInv
<1>1. TypeOK
  <2>1. 0 \in Ports
    BY ConnectAssumption DEF Ports
  <2>2. SrcPorts \in Ports /\ reg \in [Apps -> Ports] /\ dport \in [Apps -> Ports]
    BY <2>1 DEF Init
  <2>3. pc \in [Apps -> PCs] /\ ipv4_dst \in [Apps -> Addresses]
    BY DEF Init, PCs, Addresses
  <2>4. remote \in [Apps -> BOOLEAN] /\ next_seq \in [Apps -> 0 .. 2]
    BY DEF Init
  <2>5. answered \in [Apps -> Answer \union {NoAnswer}]
    BY DEF Init
  <2>6. QED
    BY <2>2, <2>3, <2>4, <2>5 DEF Init, TypeOK
<1>2. FieldsByStep /\ OpenedOnce /\ PacketsOfSender
  BY DEF Init, FieldsByStep, OpenedOnce, PacketsOfSender, HasPort
<1>3. CountersApart /\ NoneRemoved
  BY DEF Init, CountersApart, NoneRemoved, GettingPort, HasPort
<1>4. PortsApart /\ SynComplete /\ ConnectedOnReturn
  BY DEF Init, PortsApart, SynComplete, ConnectedOnReturn, HasPort
<1>5. QED
  BY <1>1, <1>2, <1>3, <1>4 DEF IInv

(* The first call sets SrcPorts to FirstPort; no thread has counted yet.   *)
LEMMA LoadPortIInv ==
  ASSUME IInv, NEW a \in Apps, LoadPort(a)
  PROVE  IInv'
<1>1. TypeOK'
  BY ConnectAssumption
  DEF LoadPort, Step, fields, network, IInv, TypeOK, Ports, PCs
<1>2. FieldsByStep' /\ OpenedOnce' /\ PacketsOfSender'
  BY DEF LoadPort, Step, fields, network, IInv, TypeOK, FieldsByStep,
         OpenedOnce, PacketsOfSender, HasPort, Packet, Answer
<1>3. ~overlap' => CountersApart' /\ NoneRemoved'
  <2>1. SUFFICES ASSUME ~overlap'
                 PROVE  CountersApart' /\ NoneRemoved'
    OBVIOUS
  <2>2. ~overlap /\ \A b \in Apps : ~GettingPort(b)
    BY <2>1 DEF LoadPort, IInv, TypeOK
  <2>3. Counted' = Counted
    BY DEF LoadPort, Step, IInv, TypeOK, Counted
  <2>4. SrcPorts' = FirstPort + Cardinality(Counted')
    <3>1. CASE SrcPorts = 0
      <4>1. \A b \in Apps : pc[b] = "idle"
        BY <2>2, <3>1, CountedCardinality, ConnectAssumption
        DEF IInv, CountersApart
      <4>2. Counted = {}
        BY <4>1 DEF Counted
      <4>3. Cardinality(Counted') = 0
        BY <4>2, <2>3, FS_EmptySet
      <4>4. QED
        BY <3>1, <4>3, ConnectAssumption DEF LoadPort
    <3>2. CASE SrcPorts # 0
      BY <2>2, <2>3, <3>2 DEF LoadPort, IInv, CountersApart
    <3>3. QED
      BY <3>1, <3>2
  <2>5. SrcPorts <= SrcPorts' /\ reg'[a] = SrcPorts'
    BY ConnectAssumption DEF LoadPort, Step, IInv, TypeOK, Ports
  <2>6. QED
    BY <2>2, <2>4, <2>5
    DEF LoadPort, Step, fields, IInv, TypeOK, Ports, CountersApart,
        NoneRemoved, GettingPort, HasPort
<1>4. PortsApart'
  BY DEF LoadPort, Step, fields, IInv, TypeOK, PortsApart, HasPort
<1>5. SynComplete' /\ ConnectedOnReturn'
  BY DEF LoadPort, Step, fields, network, IInv, TypeOK, SynComplete,
         ConnectedOnReturn
<1>6. QED
  BY <1>1, <1>2, <1>3, <1>4, <1>5 DEF IInv

(* A number below the modulus is its own residue.                          *)
LEMMA SmallResidue ==
  ASSUME NEW M \in Nat \ {0}, NEW p \in 0 .. M - 1
  PROVE  p % M = p
  OBVIOUS

(* The count a thread stores is one more than before when no other call    *)
(* runs.                                                                   *)
LEMMA StorePortIInv ==
  ASSUME IInv, NEW a \in Apps, StorePort(a)
  PROVE  IInv'
<1>1. TypeOK'
  <2>1. SrcPorts' \in Ports
    <3>1. reg[a] \in Nat /\ PortSpace \in Nat \ {0}
      BY ConnectAssumption DEF IInv, TypeOK, Ports
    <3>2. (reg[a] + 1) % PortSpace \in 0 .. PortSpace - 1
      BY <3>1
    <3>3. QED
      BY <3>2 DEF StorePort, NextPort, Ports
  <2>2. pc' \in [Apps -> PCs]
    BY DEF StorePort, Step, PCs, IInv, TypeOK
  <2>3. QED
    BY <2>1, <2>2
    DEF StorePort, Step, fields, network, history, IInv, TypeOK
<1>2. FieldsByStep' /\ OpenedOnce' /\ PacketsOfSender'
  BY DEF StorePort, Step, NextPort, fields, network, history, IInv, TypeOK,
         FieldsByStep, OpenedOnce, PacketsOfSender, HasPort, Packet, Answer
<1>3. ~overlap' => CountersApart' /\ NoneRemoved'
  <2>1. SUFFICES ASSUME ~overlap'
                 PROVE  CountersApart' /\ NoneRemoved'
    OBVIOUS
  <2>2. ~overlap /\ pc[a] = "loaded" /\ reg[a] = SrcPorts
        /\ SrcPorts = FirstPort + Cardinality(Counted)
    BY <2>1 DEF StorePort, Step, history, IInv, TypeOK, CountersApart
  <2>3. a \notin Counted /\ Counted' = Counted \union {a}
    BY DEF StorePort, Step, IInv, TypeOK, Counted
  <2>4. /\ Cardinality(Counted) \in Nat
        /\ Cardinality(Counted') = Cardinality(Counted) + 1
        /\ Cardinality(Counted') <= NumApps
    BY <2>3, CountedGrows
  <2>5. SrcPorts + 1 \in 0 .. PortSpace - 1
    BY <2>2, <2>4, ConnectAssumption
  <2>6. SrcPorts' = SrcPorts + 1
    BY <2>2, <2>5, SmallResidue, ConnectAssumption DEF StorePort, NextPort
  <2>7. SrcPorts' = FirstPort + Cardinality(Counted')
    BY <2>2, <2>4, <2>6, ConnectAssumption
  <2>8. QED
    BY <2>2, <2>6, <2>7
    DEF StorePort, Step, fields, history, IInv, TypeOK, CountersApart,
        NoneRemoved, HasPort, GettingPort, Ports
<1>4. PortsApart'
  BY DEF StorePort, Step, NextPort, fields, network, history, IInv, TypeOK,
         PortsApart, CountersApart, NoneRemoved, HasPort
<1>5. SynComplete' /\ ConnectedOnReturn'
  BY DEF StorePort, Step, NextPort, fields, network, history, IInv, TypeOK,
         SynComplete, ConnectedOnReturn
<1>6. QED
  BY <1>1, <1>2, <1>3, <1>4, <1>5 DEF IInv

(* The message is sent by a tcb that is still closed; without a message    *)
(* only the process ends.                                                  *)
LEMMA EnqueueOpenIInv ==
  ASSUME IInv, NEW a \in Apps, EnqueueOpen(a)
  PROVE  IInv'
<1>1. /\ pc[a] = "counted"
      /\ \/ /\ pc' = [pc EXCEPT ![a] = "sent"]
            /\ opened' = opened \union {a}
            /\ UNCHANGED <<fault, poolEmpty>>
         \/ UNCHANGED <<pc, opened>> /\ fault' = TRUE /\ poolEmpty' = TRUE
      /\ UNCHANGED <<SrcPorts, reg, remote, ipv4_dst, dport, next_seq, state,
                     toPeer, toStack, overlap, early, missed, lost, spurious,
                     answered>>
  BY DEF EnqueueOpen, Step, fields, network, IInv, TypeOK
<1>2. TypeOK'
  <2>1. pc' \in [Apps -> PCs] /\ opened' \subseteq Apps
    BY <1>1 DEF PCs, IInv, TypeOK
  <2>2. fault' \in BOOLEAN /\ poolEmpty' \in BOOLEAN
    BY <1>1 DEF IInv, TypeOK
  <2>3. QED
    BY <1>1, <2>1, <2>2 DEF IInv, TypeOK
<1>3. FieldsByStep' /\ OpenedOnce' /\ PacketsOfSender'
  BY <1>1 DEF IInv, TypeOK, FieldsByStep, OpenedOnce, PacketsOfSender, HasPort,
              Packet, Answer
<1>4. ~overlap' => CountersApart' /\ NoneRemoved'
  <2>1. Counted' = Counted
    BY <1>1 DEF IInv, TypeOK, Counted
  <2>2. QED
    BY <1>1, <2>1
    DEF IInv, TypeOK, CountersApart, NoneRemoved, HasPort, GettingPort
<1>5. PortsApart'
  BY <1>1 DEF IInv, TypeOK, PortsApart, HasPort
<1>6. SynComplete' /\ ConnectedOnReturn'
  BY <1>1 DEF IInv, TypeOK, SynComplete, ConnectedOnReturn
<1>7. QED
  BY <1>2, <1>3, <1>4, <1>5, <1>6 DEF IInv

(* The first half of the addresses.                                        *)
LEMMA SetRemoteIInv ==
  ASSUME IInv, NEW a \in Apps, SetRemote(a)
  PROVE  IInv'
<1>1. TypeOK'
  BY ConnectAssumption
  DEF SetRemote, Step, UsesTcb, network, history, IInv, TypeOK, Ports, PCs,
      Addresses, Packet, Answer, FieldsByStep, OpenedOnce, HasPort
<1>2. FieldsByStep' /\ OpenedOnce' /\ PacketsOfSender'
  BY DEF SetRemote, Step, UsesTcb, network, history, IInv, TypeOK,
         FieldsByStep, OpenedOnce, PacketsOfSender, HasPort, Packet, Answer
<1>3. ~overlap' => CountersApart' /\ NoneRemoved'
  <2>1. Counted' = Counted
    BY DEF SetRemote, Step, UsesTcb, network, history, IInv, TypeOK, Counted
  <2>2. QED
    BY <2>1
    DEF SetRemote, Step, UsesTcb, network, history, IInv, TypeOK,
        CountersApart, NoneRemoved, HasPort, GettingPort
<1>4. PortsApart'
  BY DEF SetRemote, Step, UsesTcb, network, history, IInv, TypeOK,
         PortsApart, CountersApart, NoneRemoved, HasPort
<1>5. SynComplete' /\ ConnectedOnReturn'
  BY DEF SetRemote, Step, UsesTcb, network, history, IInv, TypeOK,
         SynComplete, ConnectedOnReturn
<1>6. QED
  BY <1>1, <1>2, <1>3, <1>4, <1>5 DEF IInv

(* The port a thread reads back is above all ports given out before.       *)
LEMMA SetLocalIInv ==
  ASSUME IInv, NEW a \in Apps, SetLocal(a)
  PROVE  IInv'
<1>1. TypeOK'
  BY ConnectAssumption
  DEF SetLocal, Step, UsesTcb, network, history, IInv, TypeOK, Ports, PCs,
      Addresses, Packet, Answer, FieldsByStep, OpenedOnce, HasPort
<1>2. FieldsByStep' /\ OpenedOnce' /\ PacketsOfSender'
  BY DEF SetLocal, Step, UsesTcb, network, history, IInv, TypeOK,
         FieldsByStep, OpenedOnce, PacketsOfSender, HasPort, Packet, Answer
<1>3. ~overlap' => CountersApart' /\ NoneRemoved'
  <2>1. Counted' = Counted
    BY DEF SetLocal, Step, network, history, IInv, TypeOK, Counted
  <2>2. QED
    BY <2>1
    DEF SetLocal, Step, history, IInv, TypeOK, CountersApart, NoneRemoved,
        HasPort, GettingPort, Ports
<1>4. PortsApart'
  <2>1. SUFFICES ASSUME ~overlap
                 PROVE  PortsApart'
    BY DEF SetLocal, history, PortsApart
  <2>2. pc[a] = "remote" /\ dport' = [dport EXCEPT ![a] = SrcPorts]
    BY DEF SetLocal, Step
  <2>3. \A b \in Apps : HasPort(b) => dport[b] < SrcPorts
    BY <2>1, <2>2 DEF IInv, CountersApart
  <2>4. \A b \in Apps \ {a} : HasPort(b)' = HasPort(b) /\ dport'[b] = dport[b]
    BY DEF SetLocal, Step, IInv, TypeOK, HasPort
  <2>5. dport'[a] = SrcPorts /\ SrcPorts \in Nat
        /\ \A b \in Apps : dport[b] \in Nat
    BY <2>2 DEF IInv, TypeOK, Ports
  <2>6. \A b, c \in Apps :
          b # c /\ HasPort(b)' /\ HasPort(c)' => dport'[b] # dport'[c]
    BY <2>1, <2>3, <2>4, <2>5 DEF IInv, PortsApart
  <2>7. ~fault'
    BY <2>1 DEF SetLocal, UsesTcb, IInv, NoneRemoved
  <2>8. QED
    BY <2>1, <2>6, <2>7 DEF SetLocal, history, IInv, PortsApart, HasPort
<1>5. SynComplete' /\ ConnectedOnReturn'
  BY DEF SetLocal, Step, UsesTcb, network, history, IInv, TypeOK,
         SynComplete, ConnectedOnReturn
<1>6. QED
  BY <1>1, <1>2, <1>3, <1>4, <1>5 DEF IInv

(* The last field; the lcore may have sent the SYN long since.             *)
LEMMA SetSeqIInv ==
  ASSUME IInv, NEW a \in Apps, SetSeq(a)
  PROVE  IInv'
<1>1. TypeOK'
  BY ConnectAssumption
  DEF SetSeq, Step, UsesTcb, network, history, IInv, TypeOK, Ports, PCs,
      Addresses, Packet, Answer, FieldsByStep, OpenedOnce, HasPort
<1>2. FieldsByStep' /\ OpenedOnce' /\ PacketsOfSender'
  BY DEF SetSeq, Step, UsesTcb, network, history, IInv, TypeOK, FieldsByStep,
         OpenedOnce, PacketsOfSender, HasPort, Packet, Answer
<1>3. ~overlap' => CountersApart' /\ NoneRemoved'
  <2>1. Counted' = Counted
    BY DEF SetSeq, Step, UsesTcb, network, history, IInv, TypeOK, Counted
  <2>2. QED
    BY <2>1
    DEF SetSeq, Step, UsesTcb, network, history, IInv, TypeOK, CountersApart,
        NoneRemoved, HasPort, GettingPort
<1>4. PortsApart'
  BY DEF SetSeq, Step, UsesTcb, network, history, IInv, TypeOK, PortsApart,
         CountersApart, NoneRemoved, HasPort
<1>5. SynComplete' /\ ConnectedOnReturn'
  BY DEF SetSeq, Step, UsesTcb, network, history, IInv, TypeOK, SynComplete,
         ConnectedOnReturn
<1>6. QED
  BY <1>1, <1>2, <1>3, <1>4, <1>5 DEF IInv

(* Nothing but the place of the thread changes.                            *)
LEMMA WaitConnectedIInv ==
  ASSUME IInv, NEW a \in Apps, WaitConnected(a)
  PROVE  IInv'
<1>1. TypeOK'
  BY ConnectAssumption
  DEF WaitConnected, Step, UsesTcb, fields, network, history, IInv, TypeOK,
      Ports, PCs, Addresses, Packet, Answer, FieldsByStep, OpenedOnce,
      HasPort
<1>2. FieldsByStep' /\ OpenedOnce' /\ PacketsOfSender'
  BY DEF WaitConnected, Step, UsesTcb, fields, network, history, IInv,
         TypeOK, FieldsByStep, OpenedOnce, PacketsOfSender, HasPort, Packet,
         Answer
<1>3. ~overlap' => CountersApart' /\ NoneRemoved'
  <2>1. Counted' = Counted
    BY DEF WaitConnected, Step, UsesTcb, fields, network, history, IInv,
           TypeOK, Counted
  <2>2. QED
    BY <2>1
    DEF WaitConnected, Step, UsesTcb, fields, network, history, IInv, TypeOK,
        CountersApart, NoneRemoved, HasPort, GettingPort
<1>4. PortsApart'
  BY DEF WaitConnected, Step, UsesTcb, fields, network, history, IInv,
         TypeOK, PortsApart, CountersApart, NoneRemoved, HasPort
<1>5. SynComplete' /\ ConnectedOnReturn'
  BY DEF WaitConnected, Step, UsesTcb, fields, network, history, IInv,
         TypeOK, SynComplete, ConnectedOnReturn
<1>6. QED
  BY <1>1, <1>2, <1>3, <1>4, <1>5 DEF IInv

(* The thread is remembered as woken without a signal.                     *)
LEMMA SpuriousWakeupIInv ==
  ASSUME IInv, NEW a \in Apps, SpuriousWakeup(a)
  PROVE  IInv'
<1>1. TypeOK'
  BY ConnectAssumption
  DEF SpuriousWakeup, Step, fields, network, IInv, TypeOK, Ports, PCs,
      Addresses, Packet, Answer, FieldsByStep, OpenedOnce, HasPort
<1>2. FieldsByStep' /\ OpenedOnce' /\ PacketsOfSender'
  BY DEF SpuriousWakeup, Step, fields, network, IInv, TypeOK, FieldsByStep,
         OpenedOnce, PacketsOfSender, HasPort, Packet, Answer
<1>3. ~overlap' => CountersApart' /\ NoneRemoved'
  <2>1. Counted' = Counted
    BY DEF SpuriousWakeup, Step, fields, network, IInv, TypeOK, Counted
  <2>2. QED
    BY <2>1
    DEF SpuriousWakeup, Step, fields, network, IInv, TypeOK, CountersApart,
        NoneRemoved, HasPort, GettingPort
<1>4. PortsApart'
  BY DEF SpuriousWakeup, Step, fields, network, IInv, TypeOK, PortsApart,
         CountersApart, NoneRemoved, HasPort
<1>5. SynComplete' /\ ConnectedOnReturn'
  BY DEF SpuriousWakeup, Step, fields, network, IInv, TypeOK, SynComplete,
         ConnectedOnReturn
<1>6. QED
  BY <1>1, <1>2, <1>3, <1>4, <1>5 DEF IInv

(* The thread leaves with what it was woken for.                           *)
LEMMA ReturnConnectedIInv ==
  ASSUME IInv, NEW a \in Apps, ReturnConnected(a)
  PROVE  IInv'
<1>1. TypeOK'
  BY ConnectAssumption
  DEF ReturnConnected, Step, UsesTcb, fields, network, history, IInv, TypeOK,
      Ports, PCs, Addresses, Packet, Answer, FieldsByStep, OpenedOnce,
      HasPort
<1>2. FieldsByStep' /\ OpenedOnce' /\ PacketsOfSender'
  BY DEF ReturnConnected, Step, UsesTcb, fields, network, history, IInv,
         TypeOK, FieldsByStep, OpenedOnce, PacketsOfSender, HasPort, Packet,
         Answer
<1>3. ~overlap' => CountersApart' /\ NoneRemoved'
  <2>1. Counted' = Counted
    BY DEF ReturnConnected, Step, UsesTcb, fields, network, history, IInv,
           TypeOK, Counted
  <2>2. QED
    BY <2>1
    DEF ReturnConnected, Step, UsesTcb, fields, network, history, IInv,
        TypeOK, CountersApart, NoneRemoved, HasPort, GettingPort
<1>4. PortsApart'
  BY DEF ReturnConnected, Step, UsesTcb, fields, network, history, IInv,
         TypeOK, PortsApart, CountersApart, NoneRemoved, HasPort
<1>5. SynComplete' /\ ConnectedOnReturn'
  BY DEF ReturnConnected, Step, UsesTcb, fields, network, history, IInv,
         TypeOK, SynComplete, ConnectedOnReturn
<1>6. QED
  BY <1>1, <1>2, <1>3, <1>4, <1>5 DEF IInv

(* A SYN leaves with the fields that are set by then.                      *)
LEMMA HandleOpenIInv ==
  ASSUME IInv, NEW a \in Apps, HandleOpen(a)
  PROVE  IInv'
<1>1. TypeOK'
  BY ConnectAssumption
  DEF HandleOpen, Syn, FieldsMissing, IInv, TypeOK, Ports, PCs, Addresses,
      Packet, Answer, FieldsByStep, OpenedOnce, HasPort
<1>2. FieldsByStep' /\ OpenedOnce' /\ PacketsOfSender'
  BY DEF HandleOpen, Syn, FieldsMissing, IInv, TypeOK, FieldsByStep,
         OpenedOnce, PacketsOfSender, HasPort, Packet, Answer
<1>3. ~overlap' => CountersApart' /\ NoneRemoved'
  <2>1. Counted' = Counted
    BY DEF HandleOpen, Syn, FieldsMissing, IInv, TypeOK, Counted
  <2>2. QED
    BY <2>1
    DEF HandleOpen, Syn, FieldsMissing, IInv, TypeOK, CountersApart,
        NoneRemoved, HasPort, GettingPort, OpenedOnce, FieldsByStep
<1>4. PortsApart'
  BY DEF HandleOpen, Syn, FieldsMissing, IInv, TypeOK, PortsApart,
         CountersApart, NoneRemoved, HasPort
<1>5. SynComplete' /\ ConnectedOnReturn'
  BY DEF HandleOpen, Syn, FieldsMissing, IInv, TypeOK, SynComplete,
         ConnectedOnReturn, FieldsByStep, OpenedOnce, HasPort, PCs
<1>6. QED
  BY <1>1, <1>2, <1>3, <1>4, <1>5 DEF IInv

(* The answer goes to the port of the SYN it answers.                      *)
LEMMA PeerAnswersIInv ==
  ASSUME IInv, NEW a \in Apps, PeerAnswers(a)
  PROVE  IInv'
<1>1. TypeOK'
  BY ConnectAssumption
  DEF PeerAnswers, fields, history, IInv, TypeOK, Ports, PCs, Addresses,
      Packet, Answer, FieldsByStep, OpenedOnce, HasPort
<1>2. FieldsByStep' /\ OpenedOnce' /\ PacketsOfSender'
  BY DEF PeerAnswers, fields, history, IInv, TypeOK, FieldsByStep,
         OpenedOnce, PacketsOfSender, HasPort, Packet, Answer
<1>3. ~overlap' => CountersApart' /\ NoneRemoved'
  <2>1. Counted' = Counted
    BY DEF PeerAnswers, fields, history, IInv, TypeOK, Counted
  <2>2. QED
    BY <2>1
    DEF PeerAnswers, fields, history, IInv, TypeOK, CountersApart,
        NoneRemoved, HasPort, GettingPort
<1>4. PortsApart'
  BY DEF PeerAnswers, fields, history, IInv, TypeOK, PortsApart,
         CountersApart, NoneRemoved, HasPort
<1>5. SynComplete' /\ ConnectedOnReturn'
  BY DEF PeerAnswers, fields, history, IInv, TypeOK, SynComplete,
         ConnectedOnReturn
<1>6. QED
  BY <1>1, <1>2, <1>3, <1>4, <1>5 DEF IInv

(* A packet less.                                                          *)
LEMMA LoseIInv ==
  ASSUME IInv, NEW a \in Apps, Lose(a)
  PROVE  IInv'
<1>1. TypeOK'
  BY ConnectAssumption
  DEF Lose, fields, IInv, TypeOK, Ports, PCs, Addresses, Packet, Answer,
      FieldsByStep, OpenedOnce, HasPort
<1>2. FieldsByStep' /\ OpenedOnce' /\ PacketsOfSender'
  BY DEF Lose, fields, IInv, TypeOK, FieldsByStep, OpenedOnce,
         PacketsOfSender, HasPort, Packet, Answer
<1>3. ~overlap' => CountersApart' /\ NoneRemoved'
  <2>1. Counted' = Counted
    BY DEF Lose, fields, IInv, TypeOK, Counted
  <2>2. QED
    BY <2>1
    DEF Lose, fields, IInv, TypeOK, CountersApart, NoneRemoved, HasPort,
        GettingPort
<1>4. PortsApart'
  BY DEF Lose, fields, IInv, TypeOK, PortsApart, CountersApart, NoneRemoved,
         HasPort
<1>5. SynComplete' /\ ConnectedOnReturn'
  BY DEF Lose, fields, IInv, TypeOK, SynComplete, ConnectedOnReturn
<1>6. QED
  BY <1>1, <1>2, <1>3, <1>4, <1>5 DEF IInv

(* By its port, a packet from the peer reaches a tcb with an open port; it *)
(* is the tcb the packet is for, and waits for it, when calls do not       *)
(* overlap.                                                                *)
LEMMA FoundTcb ==
  ASSUME IInv, NEW p \in toStack, NEW b \in findtcb(p)
  PROVE  /\ b \in Apps /\ HasPort(b) /\ remote[b]
         /\ state[b] \notin {"REMOVED", "ESTABLISHED"}
         /\ ~overlap => b = p.of /\ state[b] = "SYN_SENT"
<1>1. /\ b \in Apps /\ remote[b] /\ ipv4_dst[b] = "own"
      /\ state[b] # "REMOVED" /\ dport[b] = p.port
  BY DEF findtcb, Matches
<1>2. HasPort(b) /\ state[b] # "ESTABLISHED"
  BY <1>1 DEF IInv, FieldsByStep, OpenedOnce
<1>3. p.of \in Apps /\ HasPort(p.of) /\ p.port = dport[p.of]
      /\ state[p.of] # "CLOSED"
  BY DEF IInv, TypeOK, Answer, PacketsOfSender
<1>4. ASSUME ~overlap
      PROVE  b = p.of /\ state[b] = "SYN_SENT"
  BY <1>1, <1>2, <1>3, <1>4 DEF IInv, TypeOK, PortsApart
<1>5. QED
  BY <1>1, <1>2, <1>4

(* What tcp_in leaves alone, whatever tcb it finds.                        *)
InUnchanged ==
  /\ toStack' \subseteq toStack
  /\ UNCHANGED <<SrcPorts, reg, opened, remote, dport, fault, overlap, early,
                 lost, spurious, poolEmpty>>

(* A packet for no tcb.                                                    *)
LEMMA NotFoundIInv ==
  ASSUME IInv, InUnchanged,
         UNCHANGED <<pc, ipv4_dst, next_seq, state, toPeer, missed, answered>>
  PROVE  IInv'
<1>1. Counted' = Counted
  BY DEF Counted
<1>2. TypeOK' /\ FieldsByStep' /\ OpenedOnce' /\ PacketsOfSender'
  BY DEF InUnchanged, IInv, TypeOK, FieldsByStep, OpenedOnce, PacketsOfSender,
         HasPort
<1>3. ~overlap' => CountersApart' /\ NoneRemoved'
  BY <1>1 DEF InUnchanged, IInv, CountersApart, NoneRemoved, HasPort,
              GettingPort
<1>4. PortsApart' /\ SynComplete' /\ ConnectedOnReturn'
  BY DEF InUnchanged, IInv, PortsApart, SynComplete, ConnectedOnReturn, HasPort
<1>5. QED
  BY <1>1, <1>2, <1>3, <1>4 DEF IInv

(* The answer establishes the tcb and wakes its thread.                    *)
LEMMA SynSentIInv ==
  ASSUME IInv, InUnchanged, NEW p \in toStack, NEW b \in findtcb(p),
         state[b] = "SYN_SENT", tcp_syn_sent(b, p)
  PROVE  IInv'
<1>1. /\ b \in Apps /\ HasPort(b) /\ remote[b]
      /\ ~overlap => b = p.of
  BY FoundTcb
<1>2. /\ pc' = [pc EXCEPT ![b] = IF pc[b] = "waiting" THEN "woken" ELSE pc[b]]
      /\ missed' \subseteq missed \union {b}
  BY <1>1 DEF tcp_syn_sent, SignalConnect, IInv, TypeOK
<1>3. b \notin opened /\ pc[b] \in PCs
  BY <1>1 DEF IInv, TypeOK, OpenedOnce
<1>4. TypeOK'
  <2>1. Ack(b) \in Packet
    BY <1>1 DEF Ack, Packet, Addresses, IInv, TypeOK
  <2>2. QED
    BY <1>1, <1>2, <2>1
    DEF InUnchanged, tcp_syn_sent, IInv, TypeOK, PCs, Addresses
<1>5. FieldsByStep' /\ OpenedOnce' /\ PacketsOfSender'
  BY <1>1, <1>2, <1>3
  DEF InUnchanged, tcp_syn_sent, Ack, IInv, TypeOK, FieldsByStep, OpenedOnce,
      PacketsOfSender, HasPort, PCs, Packet, Answer
<1>6. ~overlap' => CountersApart' /\ NoneRemoved'
  <2>1. Counted' = Counted
    BY <1>1, <1>2, <1>3 DEF IInv, TypeOK, Counted, HasPort
  <2>2. QED
    BY <1>1, <1>2, <1>3, <2>1
    DEF InUnchanged, tcp_syn_sent, IInv, TypeOK, CountersApart, NoneRemoved,
        HasPort, GettingPort
<1>7. PortsApart'
  BY <1>1, <1>2, <1>3
  DEF InUnchanged, tcp_syn_sent, IInv, TypeOK, PortsApart, HasPort
<1>8. SynComplete' /\ ConnectedOnReturn'
  BY <1>1, <1>2, <1>3
  DEF InUnchanged, tcp_syn_sent, Ack, IInv, TypeOK, SynComplete,
      ConnectedOnReturn
<1>9. QED
  BY <1>4, <1>5, <1>6, <1>7, <1>8 DEF IInv

(* A tcb that has sent no SYN is removed by a packet for another one, so   *)
(* calls have overlapped.                                                  *)
LEMMA ClosedIInv ==
  ASSUME IInv, InUnchanged, NEW p \in toStack, NEW b \in findtcb(p),
         state[b] # "SYN_SENT", tcp_closed(b)
  PROVE  IInv'
<1>1. b \in Apps /\ HasPort(b) /\ state[b] # "ESTABLISHED" /\ overlap
  BY FoundTcb DEF IInv, TypeOK
<1>2. TypeOK'
  BY <1>1 DEF InUnchanged, tcp_closed, IInv, TypeOK
<1>3. FieldsByStep' /\ OpenedOnce' /\ PacketsOfSender'
  BY <1>1
  DEF InUnchanged, tcp_closed, IInv, TypeOK, FieldsByStep, OpenedOnce,
      PacketsOfSender, HasPort, Packet, Answer
<1>4. overlap' /\ PortsApart'
  BY <1>1 DEF InUnchanged, PortsApart
<1>5. SynComplete' /\ ConnectedOnReturn'
  BY <1>1
  DEF InUnchanged, tcp_closed, IInv, TypeOK, SynComplete, ConnectedOnReturn
<1>6. QED
  BY <1>2, <1>3, <1>4, <1>5 DEF IInv

(* tcp_in as a whole.                                                      *)
LEMMA AnswerArrivesIInv ==
  ASSUME IInv, NEW a \in Apps, AnswerArrives(a)
  PROVE  IInv'
<1>1. PICK p \in toStack : tcp_in(p)
  BY DEF AnswerArrives
<1>2. InUnchanged
  BY <1>1 DEF tcp_in, InUnchanged
<1>3. CASE UNCHANGED <<pc, ipv4_dst, next_seq, state, toPeer, missed,
                       answered>>
  BY <1>2, <1>3, NotFoundIInv
<1>4. CASE \E b \in findtcb(p) :
             IF state[b] = "SYN_SENT" THEN tcp_syn_sent(b, p) ELSE tcp_closed(b)
  BY <1>2, <1>4, SynSentIInv, ClosedIInv
<1>5. QED
  BY <1>1, <1>3, <1>4 DEF tcp_in

(* IInv is inductive.                                                      *)
LEMMA NextIInv ==
  ASSUME IInv, [Next]_vars
  PROVE  IInv'
<1>1. CASE Next
  <2>1. PICK a \in Apps : \/ socket_connect(a)
                          \/ HandleOpen(a)
                          \/ AnswerArrives(a)
                          \/ PeerAnswers(a)
                          \/ Lose(a)
    BY <1>1 DEF Next
  <2>2. CASE socket_connect(a)
    BY <2>2, LoadPortIInv, StorePortIInv, EnqueueOpenIInv, SetRemoteIInv,
       SetLocalIInv, SetSeqIInv, WaitConnectedIInv, SpuriousWakeupIInv,
       ReturnConnectedIInv DEF socket_connect
  <2>3. QED
    BY <2>1, <2>2, HandleOpenIInv, AnswerArrivesIInv, PeerAnswersIInv, LoseIInv
<1>2. CASE UNCHANGED vars
  <2>1. Counted' = Counted
    BY <1>2 DEF vars, Counted
  <2>2. QED
    BY <1>2, <2>1
    DEF vars, fields, network, history, IInv, TypeOK, FieldsByStep, OpenedOnce,
        PacketsOfSender, CountersApart, NoneRemoved, PortsApart, SynComplete,
        ConnectedOnReturn, HasPort, GettingPort
<1>3. QED
  BY <1>1, <1>2

(* IInv holds in every reachable state.                                    *)
LEMMA Invariance == Spec => []IInv
<1>1. Init => IInv
  BY InitIInv
<1>2. IInv /\ [Next]_vars => IInv'
  BY NextIInv
<1>3. QED
  BY <1>1, <1>2, PTL DEF Spec

(* The variables keep their types; among them, next_seq is never above 2,  *)
(* since a tcb takes its CONNECTION_OPEN message once.                     *)
THEOREM TypeCorrect == Spec => []TypeOK
<1>1. IInv => TypeOK
  BY DEF IInv
<1>2. QED
  BY <1>1, Invariance, PTL

(* Calls of socket_connect that do not overlap get different ports, each   *)
(* tcb is established by its own answer and no thread uses a freed tcb.    *)
THEOREM DistinctPorts == Spec => []PortsApart
<1>1. IInv => PortsApart
  BY DEF IInv
<1>2. QED
  BY <1>1, Invariance, PTL

(* A SYN that did not leave too early is complete.                         *)
THEOREM CompleteSyn == Spec => []SynComplete
<1>1. IInv => SynComplete
  BY DEF IInv
<1>2. QED
  BY <1>1, Invariance, PTL

(* Without a spurious wakeup, socket_connect returns on an established     *)
(* connection.                                                             *)
THEOREM ReturnsConnected == Spec => []ConnectedOnReturn
<1>1. IInv => ConnectedOnReturn
  BY DEF IInv
<1>2. QED
  BY <1>1, Invariance, PTL
=============================================================================
