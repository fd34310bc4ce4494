---------------------------- MODULE FrameStream ----------------------------
(***************************************************************************)
(* How the component cuts the byte stream of its TCP connection into       *)
(* frames: try_recv_ and try_process_packet_, called by every pass of      *)
(* loop() as  try_recv_(); while (try_process_packet_()) {}.               *)
(*                                                                         *)
(* A frame starts with the mark A1 1A and a header that holds its length.  *)
(* TCP delivers the stream in arbitrary pieces.  Bytes that belong to no   *)
(* frame (noise) come from a peer that is not the dongle.                  *)
(*                                                                         *)
(* A byte is [frame, pos]: the number of the frame it belongs to, 0 for    *)
(* noise, and its position there; byte 1 of a frame reads A1, byte 2 reads *)
(* 1A, the last byte of the header tells the length.  Frames are numbered  *)
(* in the order in which they are sent, over all connections.  The CRC is  *)
(* taken to tell a frame from anything else of that length.                *)
(***************************************************************************)
EXTENDS Naturals, Sequences

CONSTANTS
  HeadLen,   (* bytes up to and with the length: 6 in the code              *)
  MinFrame,  (* process_packet_ ignores anything shorter: 20 in the code    *)
  BufLen,    (* sizeof(recv_buf_): 512 in the code                          *)
  ChunkLen,  (* the most that one recv takes: 256 in the code               *)
  Sizes,     (* the lengths of the frames the peer sends                    *)
  Lookalike, (* payload positions where a frame happens to read A1 1A       *)
  Noise,     (* what noise reads as: 1 as A1, 2 as 1A, others as neither    *)
  MaxFrames, (* bound: how many frames the peer sends                       *)
  MaxNoise,  (* bound: how many bytes of noise it sends on a connection     *)
  EchoFails  (* the send of a heartbeat's echo may fail for good            *)

ASSUME LengthAssumption ==
  /\ HeadLen \in Nat /\ HeadLen >= 3
  /\ MinFrame \in Nat /\ MinFrame >= HeadLen
  /\ BufLen \in Nat
  /\ ChunkLen \in Nat \ {0}
ASSUME SizeAssumption == Sizes \subseteq {n \in Nat : MinFrame <= n /\ n <= BufLen}
ASSUME ByteAssumption == Lookalike \subseteq Nat /\ Noise \subseteq Nat \ {0}
ASSUME BoundAssumption == MaxFrames \in Nat /\ MaxNoise \in Nat /\ EchoFails \in BOOLEAN

VARIABLES
  open,       (* sock_fd_ >= 0 and connected                                *)
  busy,       (* between try_recv_ and the last try_process_packet_ of a    *)
              (* pass of loop()                                             *)
  recv_buf_,  (* the first recv_buf_len_ bytes of the buffer                *)
  overrun,    (* recv_buf_len_ has wrapped around below zero                *)
  wire,       (* bytes sent and not yet received                            *)
  frames,     (* history: the frames sent                                   *)
  base,       (* history: how many of them before the present connection    *)
  done,       (* history: those processed on the present connection         *)
  noises,     (* history: bytes of noise sent on the present connection     *)
  truncated   (* history: received bytes had no space in the buffer, since  *)
              (* the connection was opened                                  *)

vars == <<open, busy, recv_buf_, overrun, wire, frames, base, done, noises, truncated>>

Kinds == {"data", "heartbeat"}
Frame == [size : Sizes, kind : Kinds]
Byte  == [frame : Nat, pos : Nat]

Bytes(f, size) == [i \in 1..size |-> [frame |-> f, pos |-> i]]

(***************************************************************************)
(* What the bytes of a buffer read as.  A byte that is taken for a length  *)
(* without being one reads as some number or other, small or large, for    *)
(* which its frame times its position serves.                              *)
(***************************************************************************)
ReadsA1(b) == b.pos \in {1} \cup Lookalike
Reads1A(b) == b.pos \in {2} \cup {p + 1 : p \in Lookalike}
Mark(s, i) == ReadsA1(s[i]) /\ Reads1A(s[i + 1])

Total(s) ==
  LET b == s[HeadLen] IN
  IF b.frame # 0 /\ b.pos = HeadLen THEN frames[b.frame].size ELSE HeadLen + b.frame * b.pos

IsFrame(f, s) == f \in DOMAIN frames /\ s = Bytes(f, frames[f].size)

Drop(s, n) == SubSeq(s, n + 1, Len(s))

Init ==
  /\ open = FALSE /\ busy = FALSE /\ recv_buf_ = <<>> /\ overrun = FALSE
  /\ wire = <<>> /\ frames = <<>> /\ base = 0 /\ done = <<>>
  /\ noises = 0 /\ truncated = FALSE

(***************************************************************************)
(* The connection.  close_socket_ is the only place that empties the       *)
(* buffer; start_connect_ calls it too, when it is empty already.          *)
(***************************************************************************)
(* Mutant: recv_buf_len_ survives the end of the connection.               *)
close_socket_KeepsBuffer == open' = FALSE /\ wire' = <<>> /\ UNCHANGED recv_buf_

close_socket_ ==
  /\ open' = FALSE
  /\ recv_buf_' = <<>>
  /\ wire' = <<>>

Connect ==
  /\ ~open /\ ~busy /\ ~overrun
  /\ open' = TRUE
  /\ base' = Len(frames) /\ done' = <<>> /\ noises' = 0 /\ truncated' = FALSE
  /\ UNCHANGED <<busy, recv_buf_, overrun, wire, frames>>

LinkLost ==
  /\ open /\ ~busy
  /\ close_socket_
  /\ UNCHANGED <<busy, overrun, frames, base, done, noises, truncated>>

PeerSends(size, kind) ==
  /\ open /\ Len(frames) < MaxFrames
  /\ frames' = Append(frames, [size |-> size, kind |-> kind])
  /\ wire' = wire \o Bytes(Len(frames) + 1, size)
  /\ UNCHANGED <<open, busy, recv_buf_, overrun, base, done, noises, truncated>>

PeerNoise(pos) ==
  /\ open /\ noises < MaxNoise
  /\ wire' = Append(wire, [frame |-> 0, pos |-> pos])
  /\ noises' = noises + 1
  /\ UNCHANGED <<open, busy, recv_buf_, overrun, frames, base, done, truncated>>

(***************************************************************************)
(* try_recv_: what has arrived, up to the size of its own array, of which  *)
(* it copies what fits; none if select reports nothing yet.                *)
(***************************************************************************)
(* Mutant: the size of recv's own array instead of the buffer's.           *)
SpaceOfChunk == ChunkLen - Len(recv_buf_)

Space == BufLen - Len(recv_buf_)

(* Mutant: memcpy of all that recv returned.                               *)
CopiedAll(n) == n

Copied(n) == IF n <= Space THEN n ELSE Space

Receive(n) ==
  /\ open /\ ~busy /\ n <= Len(wire)
  /\ recv_buf_' = recv_buf_ \o SubSeq(wire, 1, Copied(n))
  /\ wire' = Drop(wire, n)
  /\ truncated' = (truncated \/ n > Space)
  /\ busy' = TRUE
  /\ UNCHANGED <<open, overrun, frames, base, done, noises>>

try_recv_ == \E n \in 0..ChunkLen : Receive(n)

(***************************************************************************)
(* try_process_packet_, one action for each way it returns.                *)
(***************************************************************************)
ReturnFalse(buf) ==
  /\ recv_buf_' = buf
  /\ busy' = FALSE
  /\ UNCHANGED <<open, overrun, wire, frames, base, done, noises, truncated>>

HasHead    == Len(recv_buf_) >= HeadLen
AtMark     == HasHead /\ Mark(recv_buf_, 1)
LaterMarks == {i \in 2..Len(recv_buf_) - 1 : Mark(recv_buf_, i)}
Fits       == Total(recv_buf_) <= BufLen

(* Mutant: off by one, a packet that is all there is counts as incomplete. *)
WholeWithMore == Total(recv_buf_) < Len(recv_buf_)

Whole == Total(recv_buf_) <= Len(recv_buf_)

(* Mutant: what is not complete is thrown away.                            *)
IncompleteDiscards ==
  /\ busy /\ (~HasHead \/ (AtMark /\ Fits /\ ~Whole))
  /\ ReturnFalse(<<>>)

(* The header, or the frame it announces, is not complete. *)
Incomplete ==
  /\ busy /\ (~HasHead \/ (AtMark /\ Fits /\ ~Whole))
  /\ ReturnFalse(recv_buf_)

(* No mark at the start: go on at the first one found, without processing  *)
(* what follows it in this pass; a single A1 at the end is dropped too.    *)
Resync ==
  /\ busy /\ HasHead /\ ~AtMark
  /\ \/ /\ LaterMarks = {}
        /\ ReturnFalse(<<>>)
     \/ \E i \in LaterMarks :
          /\ \A j \in LaterMarks : i <= j
          /\ ReturnFalse(Drop(recv_buf_, i - 1))

TooLarge ==
  /\ busy /\ AtMark /\ ~Fits
  /\ ReturnFalse(<<>>)

(* process_packet_, the memmove of what follows the packet, return true.   *)
Packet   == SubSeq(recv_buf_, 1, Total(recv_buf_))
Complete == busy /\ AtMark /\ Fits /\ Whole

(* Mutant: the packet stays in the buffer.                                 *)
ProcessPacketKeeps ==
  /\ Complete
  /\ \E f \in DOMAIN frames : IsFrame(f, Packet) /\ done' = Append(done, f)
  /\ UNCHANGED <<open, busy, recv_buf_, overrun, wire, frames, base, noises, truncated>>

ProcessPacket ==
  /\ Complete
  /\ recv_buf_' = Drop(recv_buf_, Total(recv_buf_))
  /\ \/ \E f \in DOMAIN frames : IsFrame(f, Packet) /\ done' = Append(done, f)
     \/ (\A f \in DOMAIN frames : ~IsFrame(f, Packet)) /\ done' = done
  /\ UNCHANGED <<open, busy, overrun, wire, frames, base, noises, truncated>>

(* The echo of what looks like a heartbeat fails for good: send_bytes_     *)
(* closes the socket, which sets recv_buf_len_ to 0, and                   *)
(* try_process_packet_ goes on to subtract the packet's length from it.    *)
EchoFailure ==
  /\ Complete /\ EchoFails
  /\ Total(recv_buf_) >= MinFrame
  /\ \A f \in DOMAIN frames : IsFrame(f, Packet) => frames[f].kind = "heartbeat"
  /\ close_socket_
  /\ overrun' = TRUE
  /\ busy' = FALSE
  /\ UNCHANGED <<frames, base, done, noises, truncated>>

(* The memmove of almost the whole address space ends in a panic of the    *)
(* processor, and the device starts anew.                                  *)
Boot ==
  /\ overrun
  /\ overrun' = FALSE
  /\ UNCHANGED <<open, busy, recv_buf_, wire, frames, base, done, noises, truncated>>

try_process_packet_ == Incomplete \/ Resync \/ TooLarge \/ ProcessPacket \/ EchoFailure

Next ==
  \/ Connect
  \/ LinkLost
  \/ \E size \in Sizes, kind \in Kinds : PeerSends(size, kind)
  \/ \E pos \in Noise : PeerNoise(pos)
  \/ try_recv_
  \/ try_process_packet_
  \/ Boot

(* loop() is called for ever, each pass ends, and what was sent arrives,   *)
(* so that one of the passes, not all of which find something, receives it.*)
Fairness ==
  /\ WF_vars(try_recv_)
  /\ WF_vars(try_process_packet_)
  /\ SF_vars(\E n \in 1..ChunkLen : Receive(n))

Spec == Init /\ [][Next]_vars /\ Fairness

-----------------------------------------------------------------------------
(* Properties *)

Clean == noises = 0 /\ ~truncated

TypeOK ==
  /\ open \in BOOLEAN /\ busy \in BOOLEAN /\ overrun \in BOOLEAN /\ truncated \in BOOLEAN
  /\ recv_buf_ \in Seq(Byte) /\ Len(recv_buf_) <= BufLen
  /\ wire \in Seq(Byte)
  /\ frames \in Seq(Frame)
  /\ base \in 0..Len(frames)
  /\ done \in Seq(1..Len(frames))
  /\ noises \in Nat
  /\ (busy => open) /\ (~open => recv_buf_ = <<>> /\ wire = <<>>)

(* Whatever noise there is and whatever is cut off, no frame is processed  *)
(* twice, out of order, or on another connection than its own: bytes left  *)
(* over by a resynchronisation or by an earlier connection never complete  *)
(* a frame again.                                                          *)
FramesInOrder ==
  /\ \A i \in DOMAIN done : base < done[i]
  /\ \A i, j \in DOMAIN done : i < j => done[i] < done[j]

(* From a dongle that sends frames only, every frame received is           *)
(* processed: those processed are the first ones sent on this connection,  *)
(* and between two passes the buffer holds a proper beginning of the next. *)
NothingMissed ==
  open /\ Clean =>
    /\ \A i \in DOMAIN done : done[i] = base + i
    /\ LET next == base + Len(done) + 1 IN
       ~busy /\ recv_buf_ # <<>> =>
          /\ next <= Len(frames)
          /\ Len(recv_buf_) < frames[next].size
          /\ recv_buf_ = Bytes(next, Len(recv_buf_))

(* The buffer has space for all that recv may return as long as the        *)
(* longest frame, less one byte, leaves space for it.                      *)
FramesFit == \A n \in Sizes : n + ChunkLen <= BufLen + 1

SpaceSuffices == FramesFit /\ noises = 0 => ~truncated

(* A frame sent over a connection that lasts is processed in the end.      *)
Processed(n) == base + Len(done) >= n

FramesAreProcessed ==
  \A n \in 1..MaxFrames :
    (open /\ Clean /\ Len(frames) >= n) ~> (Processed(n) \/ ~open \/ ~Clean)

(* Noise is recovered from: once the buffer starts at the first byte of a  *)
(* frame that frame is processed, also if a resynchronisation has found it *)
(* and nothing is received after it.                                       *)
InStep(f) == recv_buf_ # <<>> /\ recv_buf_[1] = [frame |-> f, pos |-> 1]

FramesFoundAreProcessed ==
  \A f \in 1..MaxFrames :
    (open /\ ~truncated /\ InStep(f)) ~>
      ((\E i \in DOMAIN done : done[i] = f) \/ ~open \/ truncated)

(* A failing send is handled by reconnecting.                              *)
SendFailureIsHandled == ~overrun
=============================================================================
