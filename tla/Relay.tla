------------------------------- MODULE Relay -------------------------------
(***************************************************************************)
(* lux_relay.c: the real dongle connects to the ESP32 instead of the cloud *)
(* and the ESP32 forwards both ways, as the local server does.  Between    *)
(* recv() and send() it also pushes every piece through a frame buffer of  *)
(* its direction and reports the frames it finds.  Reporting writes a log  *)
(* line; relay_process_dongle_frame, which would feed the register cache,  *)
(* is called by nobody.                                                    *)
(***************************************************************************)
EXTENDS Forwarder, FrameCutter

CONSTANTS
  Sizes,    (* the lengths of the frames that the ends send                *)
  MaxFrames (* bound: how many frames one end sends                        *)

VARIABLES
  fb,       (* fb_d2s and fb_s2d: bytes of frames that are not complete    *)
  reported, (* history: the frames on_dongle_frame or on_cloud_frame saw   *)
  spilt     (* history: the buffer of that direction was thrown away       *)

cutter == <<fb, reported, spilt>>
rvars == <<vars, cutter>>

(* For Messages, with FrameByte for Byte: the ends send whole frames,      *)
(* numbered in order.                                                      *)
FrameMessages == {Bytes(f, n) : f \in 1..MaxFrames, n \in Sizes}

(* A frame has a header; recv() is given a buffer of BUF_SIZE bytes.       *)
ASSUME SizeAssumption == Sizes \subseteq {n \in Nat : n >= HeadLen} /\ PieceLen <= BufLen
ASSUME RelayAssumption == MaxFrames \in Nat /\ FrameMessages \subseteq Messages

NextFrame(s, e) == 1 + Cardinality({i \in 1..Len(sent[s][e]) : sent[s][e][i].pos = 1})

EmptyBuffers == [e \in Ends |-> <<>>]

RelayInit ==
  /\ Init
  /\ fb = [s \in Sessions |-> EmptyBuffers]
  /\ reported = [s \in Sessions |-> EmptyBuffers]
  /\ spilt = [s \in Sessions |-> {}]

(* frame_buf_t fb_d2s = {}, fb_s2d = {}: the buffers are the session's own. *)
FreshBuffers(s) ==
  /\ fb' = [fb EXCEPT ![s] = EmptyBuffers]
  /\ reported' = [reported EXCEPT ![s] = EmptyBuffers]
  /\ spilt' = [spilt EXCEPT ![s] = {}]

(* Mutant: what the loop left over is not kept for the next piece.         *)
frame_buf_push_forgets(s, e, data) ==
  LET cut == Pushed(fb[s][e], data) IN
  /\ fb' = [fb EXCEPT ![s][e] = <<>>]
  /\ reported' = [reported EXCEPT ![s][e] = @ \o cut.frames]
  /\ spilt' = [spilt EXCEPT ![s] =
       IF cut.lost \/ Overflows(fb[s][e], data) THEN @ \cup {e} ELSE @]

frame_buf_push(s, e, data) ==
  LET cut == Pushed(fb[s][e], data) IN
  /\ fb' = [fb EXCEPT ![s][e] = cut.left]
  /\ reported' = [reported EXCEPT ![s][e] = @ \o cut.frames]
  /\ spilt' = [spilt EXCEPT ![s] =
       IF cut.lost \/ Overflows(fb[s][e], data) THEN @ \cup {e} ELSE @]

RelayReceive(s) == Receive(s) /\ frame_buf_push(s, Served(s), piece'[s])
RelaySelect(s)  == Select(s) /\ UNCHANGED cutter
RelaySendOn(s)  == SendOn(s) /\ UNCHANGED cutter
RelayCloses(s)  == (Idle(s) \/ ReceiveFails(s) \/ SendFails(s)) /\ FreshBuffers(s)

relay_server_task(s) == Accepting(s) /\ UNCHANGED cutter
relay_connects(s)    == Connecting(s) /\ FreshBuffers(s)
relay_returns(s)     == RelaySelect(s) \/ RelayReceive(s) \/ RelayCloses(s)
relay_loop(s)        == relay_returns(s) \/ RelaySendOn(s)

FrameSent(s, e) ==
  /\ NextFrame(s, e) <= MaxFrames
  /\ \E n \in Sizes : EndSends(s, e, Bytes(NextFrame(s, e), n))

RelayPeers(s) ==
  /\ ClientConnects(s) \/ \E e \in Ends : EndLeaves(s, e) \/ FrameSent(s, e)
  /\ UNCHANGED cutter

RelayNext == \E s \in Sessions :
  relay_server_task(s) \/ relay_connects(s) \/ relay_loop(s) \/ RelayPeers(s)

(* As in the forwarder, send() may not return. *)
RelayFairness == \A s \in Sessions :
  /\ WF_rvars(relay_server_task(s))
  /\ WF_rvars(relay_connects(s))
  /\ WF_rvars(relay_returns(s))

RelaySpec == RelayInit /\ [][RelayNext]_rvars /\ RelayFairness

-----------------------------------------------------------------------------
(* The frames that have been received whole, in a session's direction.     *)
Received(s, e) == SubSeq(sent[s][e], 1, Len(sent[s][e]) - Len(wire[s][e]))
Whole(s, e) ==
  LET r == Received(s, e) IN
  [f \in 1..Cardinality({i \in 1..Len(r) : r[i].pos = r[i].size}) |->
     LET size == (CHOOSE b \in {r[i] : i \in 1..Len(r)} : b.frame = f).size IN Bytes(f, size)]

(* Every frame is reported when its last byte arrives, once, unchanged and *)
(* in order, however the stream was cut into pieces and whatever a payload *)
(* looks like, as long as no piece had to displace what the buffer held.   *)
ReportsExact == \A s \in Sessions, e \in Ends : e \notin spilt[s] => reported[s][e] = Whole(s, e)
=============================================================================
