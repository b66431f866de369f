------------------------------ MODULE EtherOut ------------------------------
(***************************************************************************)
(* The way of a packet from tcp to the wire, and the mbuf it travels in.   *)
(* sendtcpdata takes an mbuf from the pool, ip_out puts it into the ring   *)
(* between IP and Ethernet, CheckEtherOutRing takes it out once per turn   *)
(* of the main loop and hands it to the network card.  A data packet also  *)
(* stays in the send window: when its timer expires the same mbuf goes the *)
(* same way again, with the headers it has got so far.                     *)
(*                                                                         *)
(* An mbuf is shared by counting references; udata64 tells the layers      *)
(* which headers a packet that comes again already has.                    *)
(***************************************************************************)
EXTENDS Integers, Sequences, FiniteSets, SequencesExt

CONSTANTS
  Mbufs,     \* the packets of l2fwd_pktmbuf_pool
  RingSize,  \* packets the ring to Ethernet holds (1023 in C)
  NicSize,   \* packets the network card takes before it has sent one
  MaxLeak,   \* BOUND: a packet that lost so many references is not sent again
  MaxEthers  \* BOUND: neither is one with so many Ethernet headers

ASSUME OutputAssumption ==
  /\ RingSize \in Nat \ {0} /\ NicSize \in Nat \ {0}
  /\ MaxLeak \in Nat /\ MaxEthers \in Nat

VARIABLES
  refcnt,   \* reference count of each mbuf, 0 in the pool
  ip,       \* whether an mbuf has an IP header
  ethers,   \* Ethernet headers in front of it
  udata64,  \* bits of the mbuf's udata64: 1 sent before, 2 IP, 4 Ethernet
  window,   \* mbufs of the send window, oldest first
  ring,     \* ip_to_ether_ring
  nic,      \* packets the card has not sent yet
  known,    \* whether the arp list has the peer's address
  fault,    \* how the process ended, "none" while it runs
  leaked,   \* history: references of an mbuf nothing holds any more
  doubled,  \* history: a packet was sent again while still in the ring
  wellFormed  \* history: all frames had one IP and one Ethernet header

packet == <<ip, ethers, udata64>>
vars   == <<refcnt, packet, window, ring, nic, known, fault, leaked, doubled,
            wellFormed>>

Init ==
  /\ refcnt = [m \in Mbufs |-> 0]
  /\ ip = [m \in Mbufs |-> FALSE] /\ ethers = [m \in Mbufs |-> 0]
  /\ udata64 = [m \in Mbufs |-> {}]
  /\ window = <<>> /\ ring = <<>> /\ nic = <<>>
  /\ known \in BOOLEAN /\ fault = "none"
  /\ leaked = [m \in Mbufs |-> 0] /\ doubled = FALSE /\ wellFormed = TRUE

FreeMbufs == {m \in Mbufs : refcnt[m] = 0}
-----------------------------------------------------------------------------
(* Mutant: the ring holds one packet more than it has room for.            *)
RoomForOneMore == Len(ring) <= RingSize

(* One slot of an rte_ring stays empty.                                    *)
HasRoom == Len(ring) < RingSize

(* EnqueueMBuf: a packet that finds the ring full is forgotten.  There is  *)
(* one more message buffer than the ring holds, so the ring fills first.   *)
EnqueueMBuf(m) ==
  IF HasRoom
  THEN ring' = Append(ring, m) /\ UNCHANGED leaked
  ELSE UNCHANGED ring /\ leaked' = [leaked EXCEPT ![m] = @ + 1]

(* Mutant: the send window keeps the packet without a reference of its own.*)
OneReference(data) == 1

(* sendtcpdata's own reference goes to the ring with the packet;           *)
(* PushDataToSendWindow takes another for a packet with data.              *)
References(data) == IF data THEN 2 ELSE 1

(* sendtcpdata, PushDataToSendWindow and ip_out on a new packet.           *)
sendtcpdata(data) ==
  IF FreeMbufs = {}
  THEN fault' = "pool" /\ UNCHANGED <<refcnt, packet, window, ring, leaked>>
  ELSE \E m \in FreeMbufs :
         /\ refcnt' = [refcnt EXCEPT ![m] = References(data)]
         /\ ip' = [ip EXCEPT ![m] = TRUE]
         /\ ethers' = [ethers EXCEPT ![m] = 0]
         /\ udata64' = [udata64 EXCEPT ![m] = {}]
         /\ window' = IF data THEN Append(window, m) ELSE window
         /\ EnqueueMBuf(m)
         /\ UNCHANGED fault

Send ==
  /\ \E data \in BOOLEAN : sendtcpdata(data)
  /\ UNCHANGED <<nic, known, doubled, wellFormed>>

(* AdjustSendWindow releases the packets that an acknowledgement covers.   *)
AdjustSendWindow ==
  /\ \E k \in 1 .. Len(window) :
       /\ window' = SubSeq(window, k + 1, Len(window))
       /\ refcnt' = [m \in Mbufs |->
                       IF Contains(SubSeq(window, 1, k), m)
                       THEN refcnt[m] - 1 ELSE refcnt[m]]
  /\ UNCHANGED <<packet, ring, nic, known, fault, leaked, doubled, wellFormed>>
-----------------------------------------------------------------------------
(* DoRtoTimer on an expired timer.                                         *)

(* Length of the headers: Ethernet 14, IP 20, TCP 20.                      *)
HeaderSize(m) == 20 + (IF ip[m] THEN 20 ELSE 0) + 14 * ethers[m]

(* Mutant: the IP header is not noted.                                     *)
IpForgotten(m) == IF HeaderSize(m) = 54 THEN {1, 2, 4} ELSE {1}

Marks(m) ==
  udata64[m] \union (CASE HeaderSize(m) = 54 -> {1, 2, 4}
                       [] HeaderSize(m) = 40 -> {1, 2}
                       [] OTHER              -> {})

(* GetFirstUnAckedPacket takes a reference for the ring.                   *)
GetFirstUnAckedPacket(m) == refcnt' = [refcnt EXCEPT ![m] = @ + 1]

(* RetransmitPacket and ip_out: bit 4 or bit 2 must be set; a packet that  *)
(* was never marked gets another IP header, which bit 1 prevents.          *)
RetransmitPacket(m, marks) ==
  IF {2, 4} \intersect marks = {}
  THEN fault' = "header" /\ UNCHANGED <<ring, leaked>>
  ELSE EnqueueMBuf(m) /\ UNCHANGED fault

RtoExpires ==
  /\ window # <<>>
  /\ LET m == Head(window)
     IN  /\ leaked[m] < MaxLeak /\ ethers[m] < MaxEthers
         /\ udata64' = [udata64 EXCEPT ![m] = Marks(m)]
         /\ GetFirstUnAckedPacket(m)
         /\ RetransmitPacket(m, Marks(m))
         /\ doubled' = (doubled \/ Contains(ring, m))
  /\ UNCHANGED <<ip, ethers, window, nic, known, wellFormed>>
-----------------------------------------------------------------------------
(* CheckEtherOutRing, ether_out and send_packet_out.                       *)

(* The IP header is where udata64 says; read elsewhere, the address is     *)
(* whatever bytes are there and may or may not be in the arp list.         *)
HeaderFound(m) == ethers[m] = IF 4 \in udata64[m] THEN 1 ELSE 0

MacStatus(m) == IF HeaderFound(m) THEN {known} ELSE BOOLEAN

(* Mutant: a packet that has its Ethernet header gets another one.         *)
PrependAlways(m) == ethers[m] + 1

PrependEther(m) == IF 4 \in udata64[m] THEN ethers[m] ELSE ethers[m] + 1

(* Mutant: a packet the card does not take is not freed.                   *)
KeptOnFailure(m) == UNCHANGED refcnt

FreedOnFailure(m) == refcnt' = [refcnt EXCEPT ![m] = @ - 1]

(* The card takes the packet, and the reference with it, or is full.       *)
send_packet_out(m) ==
  IF Len(nic) < NicSize
  THEN /\ nic' = Append(nic, m)
       /\ wellFormed' = (wellFormed /\ ip[m] /\ PrependEther(m) = 1)
       /\ UNCHANGED refcnt
  ELSE FreedOnFailure(m) /\ UNCHANGED <<nic, wellFormed>>

ether_out(m) ==
  /\ ethers' = [ethers EXCEPT ![m] = PrependEther(m)]
  /\ send_packet_out(m)
  /\ UNCHANGED leaked

(* Without an address the packet leaves the ring and is neither sent, put  *)
(* back nor freed.                                                         *)
DropUnknown(m) ==
  /\ leaked' = [leaked EXCEPT ![m] = @ + 1]
  /\ UNCHANGED <<ethers, refcnt, nic, wellFormed>>

CheckEtherOutRing ==
  /\ ring # <<>>
  /\ ring' = Tail(ring)
  /\ LET m == Head(ring)
     IN  \E status \in MacStatus(m) :
           IF status THEN ether_out(m) ELSE DropUnknown(m)
  /\ UNCHANGED <<ip, udata64, window, known, fault, doubled>>

(* The card has sent its oldest packet and frees it.                       *)
TransmitDone ==
  /\ nic # <<>>
  /\ nic' = Tail(nic)
  /\ refcnt' = [refcnt EXCEPT ![Head(nic)] = @ - 1]
  /\ UNCHANGED <<packet, window, ring, known, fault, leaked, doubled, wellFormed>>

(* A packet from the peer adds its address to the arp list.                *)
LearnMac ==
  /\ ~known /\ known' = TRUE
  /\ UNCHANGED <<refcnt, packet, window, ring, nic, fault, leaked, doubled,
                 wellFormed>>
-----------------------------------------------------------------------------
Next ==
  /\ fault = "none"
  /\ \/ Send
     \/ AdjustSendWindow
     \/ RtoExpires
     \/ CheckEtherOutRing
     \/ TransmitDone
     \/ LearnMac

Spec == Init /\ [][Next]_vars

(* The main loop calls CheckEtherOutRing in every turn, and the card sends *)
(* what it was given.                                                      *)
FairSpec ==
  Spec /\ WF_vars(fault = "none" /\ CheckEtherOutRing)
       /\ WF_vars(fault = "none" /\ TransmitDone)
-----------------------------------------------------------------------------
(* The type of every variable.                                             *)
TypeOK ==
  /\ refcnt \in [Mbufs -> Nat] /\ leaked \in [Mbufs -> Nat]
  /\ ip \in [Mbufs -> BOOLEAN] /\ ethers \in [Mbufs -> Nat]
  /\ udata64 \in [Mbufs -> SUBSET {1, 2, 4}]
  /\ window \in Seq(Mbufs)
  /\ ring \in Seq(Mbufs) /\ Len(ring) <= RingSize
  /\ nic \in Seq(Mbufs) /\ Len(nic) <= NicSize
  /\ known \in BOOLEAN /\ doubled \in BOOLEAN
  /\ fault \in {"none", "pool", "header"}
  /\ wellFormed \in BOOLEAN

Count(seq, m) == Cardinality({i \in DOMAIN seq : seq[i] = m})

(* The reference count of a packet is what the send window, the ring and   *)
(* the card hold of it, and what was lost: no packet goes back to the pool *)
(* while somebody still uses it, and none stays out for another reason.    *)
RefsExact ==
  \A m \in Mbufs :
    refcnt[m] = Count(window, m) + Count(ring, m) + Count(nic, m) + leaked[m]

(* Every frame has one IP and one Ethernet header, however often and after *)
(* whatever detours it is sent again, unless it was still in the ring when *)
(* its timer expired; and the asserts on udata64 hold (tcp_out.c 86, ip.c  *)
(* 76) in any case.                                                        *)
HeadersOnce == (~doubled => wellFormed) /\ fault # "header"

(* The pool only runs dry while other packets wait for an acknowledgement, *)
(* for the card, or are lost: what was acknowledged and sent is in it.     *)
Released ==
  \A m \in Mbufs :
    refcnt[m] > 0 /\ ~Contains(window, m)
      ~> refcnt[m] = 0 \/ leaked[m] > 0 \/ fault # "none"
=============================================================================
