---------------------------- MODULE ByteChannel ----------------------------
(***************************************************************************)
(* What one direction of a TCP connection promises the two applications:   *)
(* the bytes written at one end are delivered at the other end in order,   *)
(* without a gap and without a repetition, and every byte written is       *)
(* delivered in the end.  Only positions in the stream matter, so the      *)
(* bytes written so far and the bytes delivered so far are two counters    *)
(* that start at the position Start.                                       *)
(***************************************************************************)
EXTENDS Naturals

CONSTANTS Start,  \* stream position of the first byte
          Bound   \* position the writer never goes beyond

VARIABLES written,   \* position after the last byte written
          delivered  \* position after the last byte delivered

vars == <<written, delivered>>

Init == written = Start /\ delivered = Start

Write ==
  /\ written' \in (written + 1) .. Bound
  /\ UNCHANGED delivered

Deliver ==
  /\ delivered' \in (delivered + 1) .. written
  /\ UNCHANGED written

Next == Write \/ Deliver

Safety == Init /\ [][Next]_vars

(* The channel keeps delivering while bytes are outstanding; the writer is *)
(* free to stop.                                                           *)
Spec == Safety /\ WF_vars(Deliver)
=============================================================================
