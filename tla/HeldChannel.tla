---------------------------- MODULE HeldChannel -----------------------------
(***************************************************************************)
(* What a sender promises that keeps a copy of every byte it has written:  *)
(* a byte channel (ByteChannel) in which a copy is only given up after its *)
(* byte has been delivered, the oldest first, each once, and is never      *)
(* taken back.  The copies held are those of the positions from released   *)
(* to written - 1.                                                         *)
(***************************************************************************)
EXTENDS ByteChannel

VARIABLE released  \* position of the first byte a copy is still held of

heldVars == <<vars, released>>

HeldInit == Init /\ released = Start

HeldWrite   == Write /\ UNCHANGED released
HeldDeliver == Deliver /\ UNCHANGED released

Release ==
  /\ released' \in (released + 1) .. delivered
  /\ UNCHANGED vars

HeldNext == HeldWrite \/ HeldDeliver \/ Release

HeldSafety == HeldInit /\ [][HeldNext]_heldVars

HeldSpec == HeldSafety /\ WF_heldVars(HeldDeliver)
=============================================================================
