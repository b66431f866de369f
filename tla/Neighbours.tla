----------------------------- MODULE Neighbours -----------------------------
(***************************************************************************)
(* The list of hardware addresses (arp_map_list) and the list of           *)
(* interfaces, between two threads without a lock: the stack's lcore,      *)
(* which learns from ARP replies and from the packets peers send, and the  *)
(* command line server, whose addip command appends to both lists.         *)
(*                                                                         *)
(* add_mac walks to the last entry, links a new one behind it and then     *)
(* fills that in: three steps.  Entries are never removed, so a walk sees  *)
(* what one look at the list sees and is part of the step that uses it.    *)
(* Malloc'd memory and the hardware address of an interface are never      *)
(* initialised: JUNK stands for a value that is nobody's address.          *)
(*                                                                         *)
(* One module proves of this list and of its user, EtherOut: what both     *)
(* have, such as Init, has the name of the module in front here.           *)
(***************************************************************************)
EXTENDS Integers, Sequences, FiniteSets

CONSTANTS
  Own,       \* the address main configures (IP_INTERFACE_1)
  Peers,     \* addresses of the neighbours, the senders of packets
  Macs,      \* hardware addresses
  LongIPs,   \* addresses whose text is longer than that of the others
  ShowMax,   \* entries whose text fits the buffer of showarp (about 90 in C)
  MaxLearned,\* bound: entries the lcore adds
  MaxCmds    \* bound: commands the operator types

IPs   == Peers \union {Own}
JUNK  == "junk"
None  == "none"
NULL  == 0          \* addresses of entries are 1, 2, ...

(* An address is no filler, and main's own is no neighbour's.              *)
ValuesApart ==
  /\ Own \notin Peers /\ {JUNK, None} \cap (IPs \union Macs) = {}
  /\ LongIPs \subseteq IPs
  /\ ShowMax \in Nat /\ MaxLearned \in Nat /\ MaxCmds \in Nat

ASSUME NeighboursAssumption == ValuesApart

Threads == {"lcore", "cli"}

VARIABLES
  heap,      \* every entry allocated: [ip, mac, next]
  adding,    \* how far each thread is in add_mac, and with what
  interfaces,\* InterfaceList and its NeighboursNext: never more than two
  filled,    \* how far client_message has been written
  cli,       \* the server's connection and the command it works on
  overrun,     \* the process has overrun a buffer
  claims,    \* history: addresses ARP requests were answered for
  added,     \* history: addresses configured, as the operator typed them
  garbled,   \* history: an addip was read with other text behind it
  heard,     \* history: addresses the stack has learned from
  raced      \* history: entries that a race may have dropped from the list

lists   == <<heap, adding, interfaces>>
history == <<claims, added, garbled, heard, raced>>
nvars   == <<lists, filled, cli, overrun, history>>

Entry == [ip : IPs \union {JUNK}, mac : Macs \union {JUNK}, next : Nat]
NotAdding == [at |-> "idle", ip |-> None, mac |-> None, node |-> NULL]

(* What the operator can type, with a number for its length; "help" stands *)
(* for all that only tells of the program and for unknown words.           *)
Commands == {[verb |-> "help", ip |-> None, len |-> 1],
             [verb |-> "showarp", ip |-> None, len |-> 2]}
            \union {[verb |-> "addip", ip |-> i,
              len |-> IF i \in LongIPs THEN 4 ELSE 3] : i \in IPs}
NoCommand == [verb |-> None, ip |-> None, len |-> 0]

(* main adds its interface before it starts the threads.                   *)
NeighboursInit ==
  /\ heap = <<[ip |-> Own, mac |-> JUNK, next |-> NULL]>>
  /\ adding = [t \in Threads |-> NotAdding]
  /\ interfaces = <<Own>>
  /\ filled = 0
  /\ cli = [at |-> "accept", cmd |-> NoCommand, typed |-> 0]
  /\ overrun = FALSE
  /\ claims = {} /\ added = <<Own>> /\ garbled = FALSE /\ heard = {} /\ raced = {}
-----------------------------------------------------------------------------
(* The list of hardware addresses.  Its head, the entry main made, is 1.   *)

(* The entries a walk passes: the head, and those that a passed one, which *)
(* was allocated before, has as its next.                                  *)
Reached ==
  LET passed[x \in DOMAIN heap] ==
        x = 1 \/ \E y \in 1 .. x - 1 : heap[y].next = x /\ passed[y]
  IN  {x \in DOMAIN heap : passed[x]}

(* The order of the walk: each entry was allocated before the next one.    *)
LastReached == CHOOSE x \in Reached : heap[x].next = NULL
EntriesOf(ip) == {x \in Reached : heap[x].ip = ip}

(* Mutant: the youngest entry answers.                                     *)
YoungestOf(ip) == CHOOSE x \in EntriesOf(ip) : \A y \in EntriesOf(ip) : y <= x

FirstOf(ip) ==
  CHOOSE x \in EntriesOf(ip) : \A y \in EntriesOf(ip) : x <= y

get_mac(ip) == IF EntriesOf(ip) = {} THEN None ELSE heap[FirstOf(ip)].mac

(* Mutant: the walk stops at the first entry.                              *)
HeadOnly == 1

WalkEnd == LastReached

add_mac(t, ip, mac) ==
  adding' = [adding EXCEPT ![t] =
               [at |-> "link", ip |-> ip, mac |-> mac, node |-> WalkEnd]]

(* malloc, and the new entry behind the one the walk ended at.  It may be  *)
(* dropped when the other thread is to link behind the same entry, and it  *)
(* is lost when the one it is linked behind has been dropped.              *)
LinkEntry(t) ==
  LET x == Len(heap) + 1
  IN  /\ adding[t].at = "link"
      /\ heap' = Append([heap EXCEPT ![adding[t].node].next = x],
                        [ip |-> JUNK, mac |-> JUNK, next |-> NULL])
      /\ adding' = [adding EXCEPT ![t].at = "fill", ![t].node = x]
      /\ raced' = IF \/ \E u \in Threads \ {t} : adding[u].at = "link"
                     \/ adding[t].node \notin Reached
                  THEN raced \union {x} ELSE raced
      /\ UNCHANGED <<interfaces, filled, cli, overrun, claims, added, garbled, heard>>

(* The other thread reads the address before or after both fields are      *)
(* written: the entries of the server's thread have a JUNK mac anyway, and *)
(* the lcore's are looked up by the lcore only.                            *)
FillEntry(t) ==
  /\ adding[t].at = "fill"
  /\ heap' = [heap EXCEPT ![adding[t].node].ip = adding[t].ip,
                          ![adding[t].node].mac = adding[t].mac]
  /\ heard' = IF t = "lcore" THEN heard \union {adding[t].ip} ELSE heard
  /\ adding' = [adding EXCEPT ![t] = NotAdding]
  /\ UNCHANGED <<interfaces, filled, cli, overrun, claims, added, garbled, raced>>

(* AddInterface: whatever follows the first interface is dropped.          *)
AddInterface(ip) ==
  /\ interfaces' = <<interfaces[1], ip>>
  /\ add_mac("cli", ip, JUNK)
-----------------------------------------------------------------------------
(* The lcore: ether_in.                                                    *)

(* Mutant: every request is answered.                                      *)
AnyAddress(ip) == TRUE

IsHosted(ip) == \E i \in DOMAIN interfaces : interfaces[i] = ip

(* send_arp_reply fills no hardware address in: what send_arp puts on the  *)
(* wire tells the address asked for, and JUNK.                             *)
SendArp(ip) == claims' = claims \union {ip}

ArpRequest(ip) ==
  /\ adding["lcore"].at = "idle"
  /\ IsHosted(ip)
  /\ SendArp(ip)
  /\ UNCHANGED <<lists, filled, cli, overrun, added, garbled, heard, raced>>

(* The entries the lcore has added, one it is to link included.            *)
Learned == Len(heap) - Len(added) + Cardinality({t \in Threads : adding[t].at = "link"})

CanLearn == adding["lcore"].at = "idle" /\ Learned < MaxLearned

(* An ARP reply always adds an entry, for an address that has one too.     *)
ArpReply(ip, mac) ==
  /\ CanLearn
  /\ add_mac("lcore", ip, mac)
  /\ UNCHANGED <<heap, interfaces, filled, cli, overrun, history>>

(* ip_in learns the sender of a TCP packet when get_mac finds nothing.     *)
ip_in(ip, mac) ==
  /\ CanLearn
  /\ IF get_mac(ip) = None
     THEN add_mac("lcore", ip, mac) /\ UNCHANGED heard
     ELSE heard' = heard \union {ip} /\ UNCHANGED adding
  /\ UNCHANGED <<heap, interfaces, filled, cli, overrun, claims, added, garbled, raced>>
-----------------------------------------------------------------------------
(* The command line server, and its client.                                *)

Serving(label) == cli' = [cli EXCEPT !.at = label, !.cmd = NoCommand]

(* One client is accepted; when it leaves, the server ends.                *)
AcceptClient ==
  /\ cli.at = "accept" /\ Serving("recv")
  /\ UNCHANGED <<lists, filled, overrun, history>>

ClientLeaves ==
  /\ cli.at = "recv" /\ Serving("ended")
  /\ UNCHANGED <<lists, filled, overrun, history>>

(* The client sends the text without its zero and waits for the reply.     *)
ClientSends(c) ==
  /\ cli.at = "recv" /\ cli.typed < MaxCmds
  /\ cli' = [at |-> "read", cmd |-> c, typed |-> cli.typed + 1]
  /\ UNCHANGED <<lists, filled, overrun, history>>

(* Whether a zero follows the text: never when a longer command came       *)
(* before, and else if the array, which is not initialised, has one there. *)
EndsAtItsLength(c) == IF c.len < filled THEN {FALSE} ELSE BOOLEAN

(* Mutant: every command goes behind the one before.                       *)
WrittenBehind(c) == filled + c.len

Written(c) == IF c.len > filled THEN c.len ELSE filled

(* The address add_ip reads: with other text behind it any number, or, of  *)
(* a part that is missing, what the stack held.                            *)
ParsedIP(c, clean) == IF clean THEN {c.ip} ELSE IPs \union {JUNK}

(* showarp prints every entry; its buffer is tested when it is full.       *)
ShowOverruns == Cardinality(Reached) > ShowMax

(* perform_command: with other text behind it the word is another one, or  *)
(* the address is.                                                         *)
perform_command(clean) ==
  LET c == cli.cmd
  IN  /\ cli.at = "read" /\ clean \in EndsAtItsLength(c)
      /\ filled' = Written(c)
      /\ garbled' = (garbled \/ (c.verb = "addip" /\ ~clean))
      /\ \/ /\ c.verb = "addip"
            /\ \E ip \in ParsedIP(c, clean) : AddInterface(ip)
            /\ added' = Append(added, c.ip)
            /\ Serving("adding")
            /\ UNCHANGED overrun
         \/ /\ c.verb = "showarp"
            /\ overrun' = ShowOverruns
            /\ Serving("reply")
            /\ UNCHANGED <<adding, interfaces, added>>
         \/ /\ c.verb = "help" \/ (c.verb = "showarp" /\ ~clean)
            /\ Serving("reply")
            /\ UNCHANGED <<adding, interfaces, added, overrun>>
      /\ UNCHANGED <<heap, claims, heard, raced>>

(* Mutant: addip returns without a reply.                                  *)
ReplyUnlessAdding == cli.at = "reply"

(* add_ip replies when AddInterface has returned, the others at once.      *)
ReplyReady ==
  cli.at = "reply" \/ (cli.at = "adding" /\ adding["cli"].at = "idle")

WriteReply ==
  /\ ReplyReady
  /\ Serving("recv")
  /\ UNCHANGED <<lists, filled, overrun, history>>
-----------------------------------------------------------------------------
AddSteps(t) == LinkEntry(t) \/ FillEntry(t)

Network ==
  \/ \E ip \in IPs : ArpRequest(ip)
  \/ \E ip \in Peers, mac \in Macs : ArpReply(ip, mac) \/ ip_in(ip, mac)

Client == ClientLeaves \/ \E c \in Commands : ClientSends(c)
Server ==
  AcceptClient \/ WriteReply \/ \E clean \in BOOLEAN : perform_command(clean)

NeighboursNext ==
  /\ ~overrun
  /\ Network \/ Client \/ Server \/ \E t \in Threads : AddSteps(t)

(* The server's thread and the lcore are never blocked by one another.     *)
Fairness ==
  /\ WF_nvars(~overrun /\ Server)
  /\ \A t \in Threads : WF_nvars(~overrun /\ AddSteps(t))

NeighboursSpec == NeighboursInit /\ [][NeighboursNext]_nvars

NeighboursFairSpec == NeighboursSpec /\ Fairness
-----------------------------------------------------------------------------
(* The type of every variable.                                             *)
NeighboursTypeOK ==
  /\ heap \in Seq(Entry)
  /\ \A x \in DOMAIN heap : heap[x].next \in 0 .. Len(heap)
  /\ adding \in [Threads -> [at : {"idle", "link", "fill"},
                             ip : IPs \union {None, JUNK},
                             mac : Macs \union {None, JUNK}, node : 0 .. Len(heap)]]
  /\ interfaces \in Seq(IPs \union {JUNK}) /\ Len(interfaces) \in 1 .. 2
  /\ filled \in 0 .. 4
  /\ cli \in [at : {"accept", "recv", "read", "adding", "reply", "ended"},
              cmd : Commands \union {NoCommand}, typed : 0 .. MaxCmds]
  /\ overrun \in BOOLEAN /\ garbled \in BOOLEAN
  /\ claims \subseteq IPs \union {JUNK} /\ added \in Seq(IPs)
  /\ heard \subseteq IPs /\ raced \subseteq DOMAIN heap

(* Whoever the stack has learned from it can answer: the address has an    *)
(* entry, unless that was linked while the other thread was about to link  *)
(* its own behind the same one, which drops it.                            *)
Remembered ==
  \A ip \in heard : get_mac(ip) # None \/ \E x \in raced : heap[x].ip = ip

(* The first entry of an address answers for ever: a neighbour that        *)
(* changes its hardware address is never seen to.  Only an entry that a    *)
(* race drops makes room for another, and only one linked in front of it   *)
(* by the other thread, but not filled in before, takes its place.         *)
FirstAnswerKept ==
  \A ip \in IPs : get_mac(ip) # None =>
    \/ get_mac(ip)' = get_mac(ip)
    \/ FirstOf(ip) \in raced
    \/ \E t \in Threads : /\ adding[t].at = "fill" /\ adding[t].ip = ip
                          /\ adding[t].node < FirstOf(ip)

FirstAnswerStays == [][FirstAnswerKept]_nvars

(* The addresses the operator typed are the ones the stack hosts and       *)
(* answers ARP for -- as long as there are two at most, main's own         *)
(* included, and no command ran on into the text of an earlier one.        *)
AddedAnswered ==
  ~garbled =>
    /\ claims \subseteq {added[i] : i \in DOMAIN added}
    /\ Len(added) <= 2 => \A i \in DOMAIN added : IsHosted(added[i])

(* Every command of the client that was accepted gets its reply, for which *)
(* the client waits.                                                       *)
CommandServed == cli.at = "read" ~> (cli.at = "recv" \/ overrun)
=============================================================================
