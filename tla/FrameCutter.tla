---------------------------- MODULE FrameCutter -----------------------------
(***************************************************************************)
(* How the dongle firmware cuts a received byte stream into frames: the    *)
(* same loop stands in frame_buf_push of lux_relay.c and in                *)
(* cloud_recv_and_process of lux_cloud.c.                                  *)
(*                                                                         *)
(* A byte is [frame, pos, size]: the frame it belongs to, its position and *)
(* the frame's length.  Bytes 1 and 2 read A1 1A, and so do the bytes at   *)
(* the positions of Lookalike and behind them; byte HeadLen completes the  *)
(* length.                                                                 *)
(***************************************************************************)
EXTENDS Naturals, Sequences

CONSTANTS
  HeadLen,  (* bytes up to and with the length: 6 in the code              *)
  BufLen,   (* BUF_SIZE, RECV_BUF_SIZE: 1024 in the code                   *)
  Lookalike (* payload positions where a frame happens to read A1 1A       *)

ASSUME CutterAssumption == HeadLen \in Nat /\ HeadLen >= 3 /\ BufLen \in Nat

(* A frame's length is the announced one and the header's.                 *)
FrameByte == [frame : Nat, pos : Nat, size : {n \in Nat : n >= HeadLen}]

Bytes(f, size) == [i \in 1..size |-> [frame |-> f, pos |-> i, size |-> size]]

Drop(buf, n) == SubSeq(buf, n + 1, Len(buf))

Mark(buf, i) == buf[i].pos \in {1} \cup Lookalike /\ buf[i + 1].pos \in {2} \cup {p + 1 : p \in Lookalike}

(* Go on at the first later mark; without one, at the last byte.  *)
Resynced(buf) ==
  LET stop == {i \in 2..Len(buf) - 1 : Mark(buf, i)} \cup {Len(buf)}
  IN  Drop(buf, (CHOOSE i \in stop : \A j \in stop : i <= j) - 1)

(* The length the header announces; payload taken for a header announces   *)
(* a number that depends on the payload.                                   *)
Total(buf) ==
  LET b == buf[HeadLen] IN IF b.pos = HeadLen THEN b.size ELSE HeadLen + b.frame

(* The loop over a buffer: the frames cut from it, what is left in the     *)
(* buffer, and whether the buffer was thrown away for a length that no     *)
(* buffer holds.                                                           *)
Cut(buf) ==
  LET loop[b \in Seq(FrameByte)] ==
        IF Len(b) < HeadLen THEN [frames |-> <<>>, left |-> b, lost |-> FALSE]
        ELSE IF ~Mark(b, 1) THEN loop[Resynced(b)]
        ELSE IF Total(b) > BufLen THEN [frames |-> <<>>, left |-> <<>>, lost |-> TRUE]
        ELSE IF Len(b) < Total(b) THEN [frames |-> <<>>, left |-> b, lost |-> FALSE]
        ELSE LET rest == loop[Drop(b, Total(b))]
             IN  [rest EXCEPT !.frames = <<SubSeq(b, 1, Total(b))>> \o @]
  IN  loop[buf]

(* A new piece goes behind what is there, or in its place if both do not   *)
(* fit.                                                                    *)
Overflows(buf, piece) == Len(buf) + Len(piece) > BufLen

Pushed(buf, piece) == IF Overflows(buf, piece) THEN Cut(piece) ELSE Cut(buf \o piece)
=============================================================================
