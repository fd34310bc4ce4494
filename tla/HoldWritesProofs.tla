-------------------------- MODULE HoldWritesProofs --------------------------
(***************************************************************************)
(* First the poller by itself, for any number of banks, any length of the  *)
(* write queue and any bounds: types, the writes, the socket, which answer *)
(* is processed, the first hold cycle.  Then the switches on top of it:    *)
(* that they leave the poller as it is, and what the component's copy of a *)
(* holding register is worth, for any bits.                                *)
(***************************************************************************)
EXTENDS HoldWrites, SequenceTheorems, TLAPS

USE DEF Message

LEMMA InitTypeOK == Init => TypeOK
<1> SUFFICES ASSUME Init PROVE TypeOK
  OBVIOUS
<1>1. write_queue_ \in Seq(Nat) /\ asked \in Seq(Request) /\ answers \in Seq(Answer)
  BY EmptySeq DEF Init
<1>2. Len(write_queue_) <= QueueMax
  BY EmptySeq, QueueAssumption DEF Init, QueueAssumption
<1>3. QED
  BY <1>1, <1>2, BoundAssumption DEF BoundAssumption, Init, TypeOK, State, Online

LEMMA DropLinkTypeOK ==
  ASSUME TypeOK, DropLink
  PROVE  /\ sock_open' \in BOOLEAN
         /\ peer_open' \in BOOLEAN
         /\ asked' \in Seq(Request)
         /\ answers' \in Seq(Answer)
  BY EmptySeq DEF DropLink

LEMMA FaultTypeOK ==
  ASSUME TypeOK, NEW kind, Fault(kind)
  PROVE  fault_budget' \in Nat
  BY DEF TypeOK, Fault

LEMMA DeliveredTypeOK ==
  ASSUME TypeOK, NEW req \in Request, Delivered(req)
  PROVE  /\ sock_open' \in BOOLEAN
         /\ peer_open' \in BOOLEAN
         /\ asked' \in Seq(Request)
         /\ answers' \in Seq(Answer)
<1>1. asked \in Seq(Request) /\ Append(asked, req) \in Seq(Request)
  BY AppendProperties DEF TypeOK
<1>2. QED
  BY <1>1 DEF TypeOK, Delivered

(* What MoveTo, SendRead and SendWrite leave behind, and so the switch.    *)
LEMMA DispatchTypeOK ==
  ASSUME TypeOK, NEW st \in State, NEW bank \in Nat, NEW done \in BOOLEAN,
         Dispatch(st, bank, done), in_loop' \in BOOLEAN,
         hold_fate' \in [Bank -> {"unread", "read", "skipped"}]
  PROVE  TypeOK'
<1> USE DEF State, Online
<1>1. ASSUME NEW s \in State, NEW b \in Nat, MoveTo(s, b), initial_hold_done_' \in BOOLEAN
      PROVE  TypeOK'
  BY <1>1 DEF TypeOK, MoveTo, linkVars, writeVars
<1>2. ASSUME NEW fn \in {"input", "hold"}, SendRead(fn, bank, st), initial_hold_done_' \in BOOLEAN
      PROVE  TypeOK'
  <2>1. [fn |-> fn, arg |-> bank] \in Request
    BY <1>2 DEF Request
  <2>2. asked' \in Seq(Request) /\ answers' \in Seq(Answer)
    BY <1>2, <2>1, DeliveredTypeOK, DropLinkTypeOK DEF SendRead
  <2>3. fault_budget' \in Nat
    BY <1>2 DEF TypeOK, SendRead, Fault
  <2>4. QED
    BY <1>2, <2>2, <2>3 DEF TypeOK, SendRead, Delivered, DropLink, writeVars
<1>3. ASSUME SendWrite(bank), initial_hold_done_' \in BOOLEAN
      PROVE  TypeOK'
  <2>1. Head(write_queue_) \in Nat /\ write_queue_' \in Seq(Nat) /\ Len(write_queue_') <= QueueMax
    BY <1>3, QueueAssumption DEF TypeOK, SendWrite
  <2>2. [fn |-> "write", arg |-> Head(write_queue_)] \in Request
    BY <2>1 DEF Request
  <2>3. asked' \in Seq(Request) /\ answers' \in Seq(Answer)
    BY <1>3, <2>2, DeliveredTypeOK, DropLinkTypeOK DEF SendWrite
  <2>4. fault_budget' \in Nat
    BY <1>3 DEF TypeOK, SendWrite, Fault
  <2>5. QED
    BY <1>3, <2>1, <2>3, <2>4 DEF TypeOK, SendWrite, Delivered, DropLink
<1>4. initial_hold_done_' \in BOOLEAN
  BY DEF Dispatch
<1>5. CASE st = "IDLE" /\ IdleStep(bank, done)
  BY <1>1, <1>3, <1>4, <1>5 DEF IdleStep
<1>6. CASE st = "POLLING_INPUT" /\ IF bank < InputBanks THEN SendRead("input", bank, st) ELSE MoveTo("IDLE", bank)
  BY <1>1, <1>2, <1>4, <1>6
<1>7. CASE st = "POLLING_HOLD" /\ IF bank < HoldBanks THEN SendRead("hold", bank, st) ELSE MoveTo("IDLE", bank)
  BY <1>1, <1>2, <1>4, <1>7
<1>8. CASE st \in {"WRITING", "DISCONNECTED"} /\ MoveTo(st, bank)
  BY <1>1, <1>4, <1>8
<1>9. QED
  BY <1>5, <1>6, <1>7, <1>8 DEF Dispatch

LEMMA ProcessPacketTypeOK ==
  ASSUME TypeOK, ProcessPacket
  PROVE  TypeOK'
<1>1. answers' \in Seq(Answer) /\ Head(answers) \in Answer
  BY DEF TypeOK, ProcessPacket
<1>2. [hold_fate EXCEPT ![Head(answers).arg] = "read"] \in [Bank -> {"unread", "read", "skipped"}]
  BY DEF TypeOK
<1>3. hold_fate' \in [Bank -> {"unread", "read", "skipped"}] /\ bank_idx_' \in Nat /\ state_' \in State
  <2>1. CASE ReadAnswer(Head(answers))
    BY <1>2, <2>1 DEF TypeOK, ReadAnswer
  <2>2. CASE WriteAnswer(Head(answers))
    BY <2>2 DEF TypeOK, WriteAnswer, State, Online
  <2>3. CASE RefusedAnswer(Head(answers))
    BY <2>3 DEF TypeOK, RefusedAnswer
  <2>4. QED
    BY <2>1, <2>2, <2>3 DEF ProcessPacket
<1>4. QED
  BY <1>1, <1>3 DEF TypeOK, ProcessPacket, writeVars

LEMMA ReplyTypeOK ==
  ASSUME TypeOK, Reply
  PROVE  TypeOK'
<1>1. Head(asked) \in Request /\ asked' \in Seq(Request)
  BY DEF TypeOK, Reply
<1>2. Head(asked) \in Answer /\ [fn |-> "refused", arg |-> Head(asked).arg] \in Answer
  BY <1>1 DEF Request, Answer
<1>3. /\ Append(answers, Head(asked)) \in Seq(Answer)
      /\ Append(answers, [fn |-> "refused", arg |-> Head(asked).arg]) \in Seq(Answer)
  BY <1>2, AppendProperties DEF TypeOK
<1>4. answers' \in Seq(Answer) /\ fault_budget' \in Nat
  BY <1>3, FaultTypeOK DEF TypeOK, Reply
<1>5. QED
  BY <1>1, <1>4 DEF TypeOK, Reply, hubVars, writeVars

LEMMA NextTypeOK == TypeOK /\ [Next]_vars => TypeOK'
<1> SUFFICES ASSUME TypeOK, [Next]_vars PROVE TypeOK'
  OBVIOUS
<1> USE DEF State, Online
<1>1. CASE StartConnect
  <2>1. asked' = <<>> /\ answers' = <<>> /\ asked' \in Seq(Request) /\ answers' \in Seq(Answer)
    BY <1>1, EmptySeq DEF StartConnect, close_socket_, DropLink
  <2>2. QED
    BY <1>1, <2>1, FaultTypeOK DEF TypeOK, StartConnect, close_socket_, DropLink, writeVars
<1>2. CASE ConnectDone
  BY <1>2 DEF TypeOK, ConnectDone, writeVars
<1>3. CASE ConnectFails
  BY <1>3, DropLinkTypeOK, FaultTypeOK DEF TypeOK, ConnectFails, close_socket_, writeVars
<1>4. CASE Receive
  BY <1>4, DropLinkTypeOK DEF TypeOK, Receive, close_socket_, linkVars, writeVars
<1>5. CASE ProcessPacket
  BY <1>5, ProcessPacketTypeOK
<1>6. CASE FinishPass
  BY <1>6, DispatchTypeOK DEF TypeOK, FinishPass
<1>7. CASE FinishWaiting
  BY <1>7 DEF TypeOK, FinishWaiting, linkVars, writeVars
<1>8. CASE FinishTimedOut
  <2>1. StateAfterTimeout \in State /\ bank_idx_ + 1 \in Nat
    BY DEF TypeOK, StateAfterTimeout
  <2>2. hold_fate' \in [Bank -> {"unread", "read", "skipped"}]
    BY <1>8 DEF TypeOK, FinishTimedOut
  <2>3. PICK last \in BOOLEAN : Dispatch(StateAfterTimeout, bank_idx_ + 1, initial_hold_done_ \/ last)
    BY <1>8 DEF FinishTimedOut
  <2>4. (initial_hold_done_ \/ last) \in BOOLEAN
    OBVIOUS
  <2>5. in_loop' \in BOOLEAN
    BY <1>8 DEF FinishTimedOut
  <2>6. QED
    BY <2>1, <2>2, <2>3, <2>4, <2>5, DispatchTypeOK
<1>9. CASE queue_write
  <2>1. write_queue_' \in Seq(Nat) /\ Len(write_queue_') = Len(write_queue_) + 1
    BY <1>9, AppendProperties DEF TypeOK, queue_write
  <2>2. Len(write_queue_') <= QueueMax
    BY <1>9, <2>1, LenProperties, QueueAssumption DEF TypeOK, queue_write, QueueAssumption
  <2>3. QED
    BY <1>9, <2>1, <2>2 DEF TypeOK, queue_write, hubVars, linkVars
<1>10. CASE reconnect
  BY <1>10, DropLinkTypeOK, FaultTypeOK DEF TypeOK, reconnect, close_socket_, writeVars
<1>11. CASE Reply
  BY <1>11, ReplyTypeOK
<1>12. CASE HangUp
  BY <1>12, EmptySeq, FaultTypeOK DEF TypeOK, HangUp, hubVars, writeVars
<1>13. CASE UNCHANGED vars
  BY <1>13 DEF TypeOK, vars, hubVars, linkVars, writeVars
<1>14. QED
  BY <1>1, <1>2, <1>3, <1>4, <1>5, <1>6, <1>7, <1>8, <1>9, <1>10, <1>11, <1>12, <1>13 DEF Next

(* Type correctness, and with it the bound on the write queue              *)
(* (luxpower_sna.cpp:548), under every combination of faults.              *)
THEOREM TypeCorrect == SafetySpec => []TypeOK
  BY InitTypeOK, NextTypeOK, PTL DEF SafetySpec

-----------------------------------------------------------------------------
(* The write queue.                                                        *)

(* What WritesInOrder says, index by index: the inductive form.            *)
QueueInv ==
  /\ Len(write_queue_) = accepted - dispatched
  /\ \A i \in 1..Len(write_queue_) : write_queue_[i] = dispatched + i

(* Only queue_write and a send of the oldest command touch the queue.      *)
LEMMA DispatchWrites ==
  ASSUME NEW st, NEW bank, NEW done, Dispatch(st, bank, done)
  PROVE  UNCHANGED writeVars \/ SendWrite(bank)
  BY DEF Dispatch, IdleStep, MoveTo, SendRead

QueueVars == <<write_queue_, accepted, dispatched>>

LEMMA WriteSteps ==
  ASSUME [Next]_vars
  PROVE  \/ UNCHANGED QueueVars
         \/ queue_write
         \/ \E bank : SendWrite(bank)
<1>1. CASE FinishPass
  BY <1>1, DispatchWrites DEF FinishPass, writeVars, QueueVars
<1>2. CASE FinishTimedOut
  BY <1>2, DispatchWrites DEF FinishTimedOut, writeVars, QueueVars
<1>3. CASE StartConnect \/ ConnectDone \/ ConnectFails \/ Receive \/ ProcessPacket \/ FinishWaiting
  BY <1>3 DEF StartConnect, ConnectDone, ConnectFails, Receive, ProcessPacket, FinishWaiting, writeVars, QueueVars
<1>4. CASE reconnect \/ Reply \/ HangUp
  BY <1>4 DEF reconnect, Reply, HangUp, writeVars, QueueVars
<1>5. CASE UNCHANGED vars
  BY <1>5 DEF vars, writeVars, QueueVars
<1>6. QED
  BY <1>1, <1>2, <1>3, <1>4, <1>5 DEF Next

(* The command a send pops is the next one due.                            *)
LEMMA SendWriteProperties ==
  ASSUME TypeOK, QueueInv, NEW bank, SendWrite(bank)
  PROVE  /\ dispatched < accepted
         /\ dispatched' = dispatched + 1
         /\ accepted' = accepted
         /\ Len(write_queue_') = Len(write_queue_) - 1
         /\ \A i \in 1..Len(write_queue_') : write_queue_'[i] = write_queue_[i + 1]
<1>1. write_queue_ \in Seq(Nat) /\ write_queue_ /= <<>>
  BY DEF TypeOK, SendWrite
<1>2. Len(write_queue_) \in Nat \ {0}
  BY <1>1, EmptySeq
<1>3. Head(write_queue_) = write_queue_[1]
  BY <1>1
<1>4. /\ Len(Tail(write_queue_)) = Len(write_queue_) - 1
      /\ \A i \in 1..Len(Tail(write_queue_)) : Tail(write_queue_)[i] = write_queue_[i + 1]
  BY <1>1, HeadTailProperties
<1>5. dispatched' = dispatched + 1
  BY <1>2, <1>3 DEF SendWrite, QueueInv
<1>6. dispatched < accepted
  BY <1>2 DEF QueueInv, TypeOK
<1>7. QED
  BY <1>4, <1>5, <1>6 DEF SendWrite

LEMMA NextQueueInv == TypeOK /\ QueueInv /\ [Next]_vars => QueueInv'
<1> SUFFICES ASSUME TypeOK, QueueInv, [Next]_vars PROVE QueueInv'
  OBVIOUS
<1>1. CASE UNCHANGED QueueVars
  BY <1>1 DEF QueueInv, QueueVars
<1>2. CASE queue_write
  <2>1. write_queue_ \in Seq(Nat) /\ accepted + 1 \in Nat /\ Len(write_queue_) \in Nat
    BY LenProperties DEF TypeOK
  <2>2. /\ Len(write_queue_') = Len(write_queue_) + 1
        /\ \A i \in 1..Len(write_queue_) : write_queue_'[i] = write_queue_[i]
        /\ write_queue_'[Len(write_queue_) + 1] = accepted + 1
    BY <1>2, <2>1, AppendProperties DEF queue_write
  <2>3. accepted' = accepted + 1 /\ dispatched' = dispatched /\ accepted \in Nat /\ dispatched \in Nat
    BY <1>2 DEF queue_write, TypeOK
  <2>4. Len(write_queue_') = accepted' - dispatched'
    BY <2>2, <2>3 DEF QueueInv
  <2>5. ASSUME NEW i \in 1..Len(write_queue_') PROVE write_queue_'[i] = dispatched' + i
    <3>1. CASE i = Len(write_queue_) + 1
      BY <2>2, <2>3, <3>1 DEF QueueInv
    <3>2. CASE i \in 1..Len(write_queue_)
      BY <2>2, <2>3, <3>2 DEF QueueInv
    <3>3. QED
      BY <2>1, <2>2, <3>1, <3>2
  <2>6. QED
    BY <2>4, <2>5 DEF QueueInv
<1>3. ASSUME NEW bank, SendWrite(bank) PROVE QueueInv'
  <2>1. accepted \in Nat /\ dispatched \in Nat /\ Len(write_queue_) \in Nat
    BY LenProperties DEF TypeOK
  <2>2. /\ dispatched' = dispatched + 1
        /\ accepted' = accepted
        /\ Len(write_queue_') = Len(write_queue_) - 1
        /\ \A i \in 1..Len(write_queue_') : write_queue_'[i] = write_queue_[i + 1]
    BY <1>3, SendWriteProperties
  <2>3. Len(write_queue_') = accepted' - dispatched'
    BY <2>1, <2>2 DEF QueueInv
  <2>4. ASSUME NEW i \in 1..Len(write_queue_') PROVE write_queue_'[i] = dispatched' + i
    <3>1. i + 1 \in 1..Len(write_queue_)
      BY <2>1, <2>2
    <3>2. write_queue_[i + 1] = dispatched + (i + 1)
      BY <3>1 DEF QueueInv
    <3>3. QED
      BY <2>1, <2>2, <3>2
  <2>5. QED
    BY <2>3, <2>4 DEF QueueInv
<1>4. QED
  BY <1>1, <1>2, <1>3, WriteSteps

LEMMA QueueInvariant == SafetySpec => [](TypeOK /\ QueueInv)
<1>1. Init => QueueInv
  BY EmptySeq DEF Init, QueueInv
<1>2. QED
  BY <1>1, InitTypeOK, NextTypeOK, NextQueueInv, PTL DEF SafetySpec

(* Each accepted write is sent exactly once and in order, under every      *)
(* combination of faults.                                                  *)
THEOREM WritesStayInOrder == SafetySpec => []WritesInOrder
<1>1. TypeOK /\ QueueInv => WritesInOrder
  <2> SUFFICES ASSUME TypeOK, QueueInv PROVE WritesInOrder
    OBVIOUS
  <2>1. write_queue_ = [i \in 1..Len(write_queue_) |-> write_queue_[i]]
    BY LenProperties DEF TypeOK
  <2>2. QED
    BY <2>1 DEF QueueInv, WritesInOrder
<1>2. QED
  BY <1>1, QueueInvariant, PTL

(* The poller implements the write service's safety part, under every      *)
(* combination of faults.                                                  *)
THEOREM ServesWritesSafely == SafetySpec => Service!SafetySpec
<1>1. Init => Service!Init
  BY DEF Init, Service!Init
<1>2. TypeOK /\ QueueInv /\ [Next]_vars => [Service!Next]_<<accepted, dispatched>>
  <2> SUFFICES ASSUME TypeOK, QueueInv, [Next]_vars PROVE [Service!Next]_<<accepted, dispatched>>
    OBVIOUS
  <2>1. CASE UNCHANGED QueueVars
    BY <2>1 DEF QueueVars
  <2>2. CASE queue_write
    <3>1. accepted - dispatched < QueueMax
      BY <2>2 DEF queue_write, QueueInv
    <3>2. QED
      BY <2>2, <3>1 DEF queue_write, Service!Next, Service!Accept
  <2>3. ASSUME NEW bank, SendWrite(bank) PROVE Service!Send
    BY <2>3, SendWriteProperties DEF Service!Send
  <2>4. QED
    BY <2>1, <2>2, <2>3, WriteSteps DEF Service!Next
<1>3. QED
  BY <1>1, <1>2, QueueInvariant, PTL DEF SafetySpec, Service!SafetySpec

-----------------------------------------------------------------------------
(* The socket.                                                             *)

(* Nothing is under way without a socket, and a connection attempt has one.*)
SocketInv ==
  /\ ~sock_open => asked = <<>> /\ answers = <<>> /\ ~peer_open
  /\ state_ = "CONNECTING" => sock_open

LEMMA DispatchSocket ==
  ASSUME SocketInv, NEW st, NEW bank, NEW done, Dispatch(st, bank, done)
  PROVE  SocketInv'
<1>1. ASSUME NEW s, NEW b, MoveTo(s, b), s /= "CONNECTING" PROVE SocketInv'
  BY <1>1 DEF SocketInv, MoveTo, linkVars
<1>2. ASSUME NEW fn, SendRead(fn, bank, st), st /= "CONNECTING" PROVE SocketInv'
  BY <1>2 DEF SocketInv, SendRead, Delivered, DropLink
<1>3. ASSUME SendWrite(bank) PROVE SocketInv'
  BY <1>3 DEF SocketInv, SendWrite, Delivered, DropLink
<1>4. QED
  BY <1>1, <1>2, <1>3 DEF Dispatch, IdleStep

LEMMA NextSocketInv == SocketInv /\ [Next]_vars => SocketInv'
<1> SUFFICES ASSUME SocketInv, [Next]_vars PROVE SocketInv'
  OBVIOUS
<1>1. CASE StartConnect
  BY <1>1 DEF SocketInv, StartConnect, close_socket_, DropLink
<1>2. CASE ConnectDone
  BY <1>2 DEF SocketInv, ConnectDone
<1>3. CASE ConnectFails \/ reconnect
  BY <1>3 DEF SocketInv, ConnectFails, reconnect, close_socket_, DropLink
<1>4. CASE Receive
  BY <1>4 DEF SocketInv, Receive, close_socket_, DropLink, linkVars
<1>5. CASE ProcessPacket
  BY <1>5 DEF SocketInv, ProcessPacket, ReadAnswer, WriteAnswer, RefusedAnswer
<1>6. CASE FinishPass
  BY <1>6, DispatchSocket DEF FinishPass
<1>7. CASE FinishTimedOut
  BY <1>7, DispatchSocket DEF FinishTimedOut
<1>8. CASE FinishWaiting \/ queue_write
  BY <1>8 DEF SocketInv, FinishWaiting, queue_write, hubVars, linkVars
<1>9. CASE Reply \/ HangUp
  BY <1>9 DEF SocketInv, Reply, HangUp, hubVars
<1>10. CASE UNCHANGED vars
  BY <1>10 DEF SocketInv, vars, hubVars, linkVars
<1>11. QED
  BY <1>1, <1>2, <1>3, <1>4, <1>5, <1>6, <1>7, <1>8, <1>9, <1>10 DEF Next

LEMMA DispatchNoSocket ==
  ASSUME SocketInv, "write_send" \notin Faults, NEW st, NEW bank, NEW done,
         Dispatch(st, bank, done), ~sock_open => st = "DISCONNECTED"
  PROVE  NoSocketMeansDisconnected'
<1>1. ASSUME MoveTo(st, bank) PROVE NoSocketMeansDisconnected'
  BY <1>1 DEF NoSocketMeansDisconnected, MoveTo
<1>2. ASSUME NEW s, NEW b, MoveTo(s, b), sock_open PROVE NoSocketMeansDisconnected'
  BY <1>2 DEF NoSocketMeansDisconnected, MoveTo
<1>3. ASSUME NEW fn, SendRead(fn, bank, st) PROVE NoSocketMeansDisconnected'
  BY <1>3 DEF NoSocketMeansDisconnected, SendRead, Delivered, DropLink
<1>4. ASSUME SendWrite(bank), sock_open PROVE NoSocketMeansDisconnected'
  BY <1>4 DEF NoSocketMeansDisconnected, SendWrite, Delivered, Fault
<1>5. QED
  BY <1>1, <1>2, <1>3, <1>4 DEF Dispatch, IdleStep

LEMMA NextNoSocket ==
  ASSUME "write_send" \notin Faults, SocketInv, NoSocketMeansDisconnected, [Next]_vars
  PROVE  NoSocketMeansDisconnected'
<1> USE DEF NoSocketMeansDisconnected
<1>1. CASE StartConnect
  BY <1>1 DEF StartConnect, close_socket_, DropLink
<1>2. CASE ConnectDone
  BY <1>2 DEF SocketInv, ConnectDone
<1>3. CASE ConnectFails \/ reconnect
  BY <1>3 DEF ConnectFails, reconnect, close_socket_, DropLink
<1>4. CASE Receive
  BY <1>4 DEF Receive, close_socket_, DropLink
<1>5. CASE ProcessPacket
  BY <1>5 DEF SocketInv, ProcessPacket
<1>6. CASE FinishPass
  BY <1>6, DispatchNoSocket DEF FinishPass
<1>7. CASE FinishTimedOut
  <2>1. ~sock_open => StateAfterTimeout = "DISCONNECTED"
    BY DEF StateAfterTimeout
  <2>2. QED
    BY <1>7, <2>1, DispatchNoSocket DEF FinishTimedOut
<1>8. CASE FinishWaiting \/ queue_write
  BY <1>8 DEF FinishWaiting, queue_write, hubVars
<1>9. CASE Reply \/ HangUp
  BY <1>9 DEF Reply, HangUp, hubVars
<1>10. CASE UNCHANGED vars
  BY <1>10 DEF vars, hubVars
<1>11. QED
  BY <1>1, <1>2, <1>3, <1>4, <1>5, <1>6, <1>7, <1>8, <1>9, <1>10 DEF Next

(* Unless the send of a write request fails for good, losing the socket    *)
(* always leaves the state from which loop() opens another.                *)
THEOREM NoSocketIsDisconnected ==
  "write_send" \notin Faults => (SafetySpec => []NoSocketMeansDisconnected)
<1> SUFFICES ASSUME "write_send" \notin Faults PROVE SafetySpec => []NoSocketMeansDisconnected
  OBVIOUS
<1>1. Init => SocketInv /\ NoSocketMeansDisconnected
  BY DEF Init, SocketInv, NoSocketMeansDisconnected
<1>2. SocketInv /\ NoSocketMeansDisconnected /\ [Next]_vars
      => SocketInv' /\ NoSocketMeansDisconnected'
  BY NextSocketInv, NextNoSocket
<1>3. QED
  BY <1>1, <1>2, PTL DEF SafetySpec

-----------------------------------------------------------------------------
(* Requests and answers, while the dongle is never late.                   *)

(* One request at most is under way, on either side of the dongle, and it  *)
(* is the one the state machine stands at.                                 *)
Outstanding(m) ==
  /\ awaiting_
  /\ state_ \in Online
  /\ Matches(m)

MatchInv ==
  /\ asked /= <<>> => answers = <<>> /\ Len(asked) = 1 /\ Outstanding(asked[1])
  /\ answers /= <<>> => asked = <<>> /\ Len(answers) = 1 /\ Outstanding(answers[1])

OnTime == "late" \notin Faults

LEMMA Singleton ==
  ASSUME NEW S, NEW s \in Seq(S), Len(s) = 1
  PROVE  s /= <<>> /\ Head(s) = s[1] /\ Tail(s) = <<>>
<1>1. s /= <<>> /\ Head(s) = s[1]
  BY EmptySeq
<1>2. Tail(s) \in Seq(S) /\ Len(Tail(s)) = 0
  BY <1>1, HeadTailProperties
<1>3. QED
  BY <1>1, <1>2, EmptySeq

LEMMA AppendToEmpty ==
  ASSUME NEW S, NEW e \in S
  PROVE  /\ Append(<<>>, e) /= <<>>
         /\ Len(Append(<<>>, e)) = 1
         /\ Append(<<>>, e)[1] = e
<1>1. <<>> \in Seq(S) /\ Len(<<>>) = 0
  BY EmptySeq
<1>2. QED
  BY <1>1, AppendProperties

(* A pass of the switch over a silent link leaves at most the one request  *)
(* it has sent.                                                            *)
LEMMA DispatchMatch ==
  ASSUME TypeOK, asked = <<>>, answers = <<>>,
         NEW st, NEW bank \in Nat, NEW done, Dispatch(st, bank, done)
  PROVE  MatchInv'
<1> USE DEF MatchInv
<1>1. ASSUME NEW s, NEW b, MoveTo(s, b) PROVE MatchInv'
  BY <1>1 DEF MoveTo, linkVars
<1>2. ASSUME NEW req \in Request, Delivered(req), Outstanding(req)' PROVE MatchInv'
  <2>1. answers' = <<>> /\ (asked' = <<>> \/ asked' = Append(<<>>, req))
    BY <1>2 DEF Delivered
  <2>2. QED
    BY <1>2, <2>1, AppendToEmpty
<1>3. ASSUME DropLink PROVE MatchInv'
  BY <1>3 DEF DropLink
<1>4. CASE st = "POLLING_INPUT" /\ SendRead("input", bank, st)
  <2>1. Message("input", bank) \in Request
    BY DEF Request
  <2>2. CASE Delivered(Message("input", bank)) /\ state_' = st
    BY <1>2, <1>4, <2>1, <2>2 DEF SendRead, Outstanding, Online, Matches
  <2>3. QED
    BY <1>3, <1>4, <2>2 DEF SendRead
<1>5. CASE st = "POLLING_HOLD" /\ SendRead("hold", bank, st)
  <2>1. Message("hold", bank) \in Request
    BY DEF Request
  <2>2. CASE Delivered(Message("hold", bank)) /\ state_' = st
    BY <1>2, <1>5, <2>1, <2>2 DEF SendRead, Outstanding, Online, Matches
  <2>3. QED
    BY <1>3, <1>5, <2>2 DEF SendRead
<1>6. CASE SendWrite(bank)
  <2>1. Head(write_queue_) \in Nat
    BY <1>6 DEF TypeOK, SendWrite
  <2>2. Message("write", Head(write_queue_)) \in Request
    BY <2>1 DEF Request
  <2>3. CASE Delivered(Message("write", Head(write_queue_)))
    BY <1>2, <1>6, <2>2, <2>3 DEF SendWrite, Outstanding, Online, Matches
  <2>4. QED
    BY <1>3, <1>6, <2>3 DEF SendWrite
<1>7. QED
  BY <1>1, <1>4, <1>5, <1>6 DEF Dispatch, IdleStep

LEMMA TimeoutFindsSilence ==
  ASSUME TypeOK, OnTime, FinishTimedOut
  PROVE  asked = <<>> /\ answers = <<>>
<1>1. asked \o answers = <<>>
  BY DEF FinishTimedOut, OnTime, InFlight
<1>2. asked \in Seq(Answer) /\ answers \in Seq(Answer)
  BY SeqDef DEF TypeOK, Answer
<1>3. Len(asked) + Len(answers) = 0 /\ Len(asked) \in Nat /\ Len(answers) \in Nat
  BY <1>1, <1>2, ConcatProperties, EmptySeq, LenProperties
<1>4. QED
  BY <1>2, <1>3, EmptySeq

LEMMA NextMatchInv ==
  ASSUME OnTime, TypeOK, MatchInv, [Next]_vars
  PROVE  MatchInv'
<1> USE DEF MatchInv, Outstanding, Online, Matches
<1>1. CASE StartConnect \/ ConnectFails \/ reconnect
  BY <1>1 DEF StartConnect, ConnectFails, reconnect, close_socket_, DropLink
<1>2. CASE ConnectDone
  BY <1>2 DEF ConnectDone
<1>3. CASE Receive
  BY <1>3 DEF Receive, close_socket_, DropLink, linkVars, writeVars
<1>4. CASE ProcessPacket
  <2>1. answers \in Seq(Answer) /\ Len(answers) = 1 /\ asked = <<>>
    BY <1>4 DEF ProcessPacket, TypeOK
  <2>2. answers' = <<>> /\ asked' = <<>>
    BY <1>4, <2>1, Singleton DEF ProcessPacket
  <2>3. QED
    BY <2>2
<1>5. CASE FinishPass
  <2>1. asked = <<>> /\ answers = <<>> /\ bank_idx_ \in Nat
    BY <1>5 DEF FinishPass, TypeOK
  <2>2. QED
    BY <1>5, <2>1, DispatchMatch DEF FinishPass
<1>6. CASE FinishTimedOut
  <2>1. bank_idx_ + 1 \in Nat
    BY DEF TypeOK
  <2>2. QED
    BY <1>6, <2>1, TimeoutFindsSilence, DispatchMatch DEF FinishTimedOut
<1>7. CASE FinishWaiting \/ queue_write
  BY <1>7 DEF FinishWaiting, queue_write, hubVars, linkVars, writeVars
<1>8. CASE Reply
  <2>1. asked \in Seq(Request) /\ Len(asked) = 1 /\ answers = <<>> /\ Outstanding(asked[1])
    BY <1>8 DEF Reply, TypeOK
  <2>2. asked' = <<>> /\ Head(asked) = asked[1] /\ Head(asked) \in Request
    BY <1>8, <2>1, Singleton DEF Reply
  <2>3. Message("refused", Head(asked).arg) \in Answer /\ Head(asked) \in Answer
    BY <2>2 DEF Request, Answer
  <2>4. \/ answers' = <<>>
        \/ answers' = Append(<<>>, Head(asked))
        \/ answers' = Append(<<>>, Message("refused", Head(asked).arg))
    BY <1>8, <2>1 DEF Reply
  <2>5. answers' /= <<>> => Len(answers') = 1 /\ Outstanding(answers'[1])
    BY <2>1, <2>2, <2>3, <2>4, AppendToEmpty
  <2>6. QED
    BY <1>8, <2>2, <2>5 DEF Reply, hubVars, writeVars
<1>9. CASE HangUp
  BY <1>9 DEF HangUp, hubVars, writeVars
<1>10. CASE UNCHANGED vars
  BY <1>10 DEF vars, hubVars, linkVars, writeVars
<1>11. QED
  BY <1>1, <1>2, <1>3, <1>4, <1>5, <1>6, <1>7, <1>8, <1>9, <1>10 DEF Next

LEMMA MatchInvariant == OnTime => (SafetySpec => [](TypeOK /\ MatchInv))
<1> SUFFICES ASSUME OnTime PROVE SafetySpec => [](TypeOK /\ MatchInv)
  OBVIOUS
<1>1. Init => MatchInv
  BY DEF Init, MatchInv
<1>2. TypeOK /\ MatchInv /\ [Next]_vars => MatchInv'
  BY NextMatchInv
<1>3. QED
  BY <1>1, <1>2, InitTypeOK, NextTypeOK, PTL DEF SafetySpec

(* While no answer takes longer than RESPONSE_TIMEOUT_MS, whatever else    *)
(* goes wrong, the poller never processes an answer to another request     *)
(* than the one it stands at.                                              *)
THEOREM AnswersAlwaysMatch == "late" \notin Faults => (SafetySpec => []AnswerMatches)
<1> SUFFICES ASSUME OnTime PROVE SafetySpec => []AnswerMatches
  BY DEF OnTime
<1>1. TypeOK /\ MatchInv => AnswerMatches
  <2> SUFFICES ASSUME TypeOK, MatchInv, InFlight /= <<>>
               PROVE  Len(InFlight) = 1 /\ awaiting_ /\ Matches(InFlight[1])
    BY DEF AnswerMatches
  <2>1. asked \in Seq(Answer) /\ answers \in Seq(Answer)
    BY SeqDef DEF TypeOK, Answer
  <2>2. CASE asked /= <<>>
    <3>1. InFlight = asked
      BY <2>1, <2>2, ConcatEmptySeq DEF InFlight, MatchInv
    <3>2. QED
      BY <2>2, <3>1 DEF MatchInv, Outstanding
  <2>3. CASE answers /= <<>>
    <3>1. InFlight = answers
      BY <2>1, <2>3, ConcatEmptySeq DEF InFlight, MatchInv
    <3>2. QED
      BY <2>3, <3>1 DEF MatchInv, Outstanding
  <2>4. asked = <<>> /\ answers = <<>> => InFlight = <<>>
    BY <2>1, ConcatEmptySeq DEF InFlight
  <2>5. QED
    BY <2>2, <2>3, <2>4
<1>2. QED
  BY <1>1, MatchInvariant, PTL

-----------------------------------------------------------------------------
(* The first hold cycle.                                                   *)

(* A hold cycle has dealt with every bank before the one it stands at.     *)
HoldInv ==
  /\ HoldDoneIsHonest
  /\ state_ = "POLLING_HOLD" =>
       /\ bank_idx_ <= HoldBanks
       /\ awaiting_ => bank_idx_ < HoldBanks
       /\ \A b \in Bank : b < bank_idx_ => hold_fate[b] /= "unread"

(* The switch, with what it knows of the hold banks when it begins.        *)
LEMMA DispatchHold ==
  ASSUME NEW st, NEW bank \in Nat, NEW done \in BOOLEAN, Dispatch(st, bank, done),
         done => \A b \in Bank : hold_fate'[b] /= "unread",
         st = "POLLING_HOLD" =>
           /\ bank <= HoldBanks
           /\ \A b \in Bank : b < bank => hold_fate'[b] /= "unread"
  PROVE  HoldInv'
<1> USE DEF HoldInv, HoldDoneIsHonest, Bank
<1>1. CASE st = "IDLE" /\ IdleStep(bank, done) /\ initial_hold_done_' = done
  <2>1. \/ state_' /= "POLLING_HOLD"
        \/ state_' = "POLLING_HOLD" /\ bank_idx_' = 0 /\ awaiting_' = FALSE
    BY <1>1 DEF IdleStep, SendWrite, MoveTo
  <2>2. QED
    BY <1>1, <2>1, BankAssumption DEF BankAssumption
<1>2. CASE st = "POLLING_INPUT" /\ initial_hold_done_' = done
  BY <1>2 DEF Dispatch, SendRead, MoveTo
<1>3. CASE st = "POLLING_HOLD" /\ bank < HoldBanks
  BY <1>3, BankAssumption DEF Dispatch, SendRead, BankAssumption
<1>4. CASE st = "POLLING_HOLD" /\ ~(bank < HoldBanks)
  BY <1>4, BankAssumption DEF Dispatch, MoveTo, BankAssumption
<1>5. CASE st \in {"WRITING", "DISCONNECTED"} /\ MoveTo(st, bank) /\ initial_hold_done_' = done
  BY <1>5 DEF MoveTo
<1>6. QED
  BY <1>1, <1>2, <1>3, <1>4, <1>5 DEF Dispatch

LEMMA NextHoldInv ==
  ASSUME OnTime, TypeOK, MatchInv, HoldInv, [Next]_vars
  PROVE  HoldInv'
<1> USE DEF HoldInv, HoldDoneIsHonest
<1>1. CASE StartConnect \/ ConnectDone \/ ConnectFails \/ reconnect
  BY <1>1 DEF StartConnect, ConnectDone, ConnectFails, reconnect, close_socket_
<1>2. CASE Receive
  BY <1>2 DEF Receive, close_socket_
<1>3. CASE ProcessPacket
  <2>1. answers \in Seq(Answer) /\ Len(answers) = 1 /\ Outstanding(answers[1])
    BY <1>3 DEF ProcessPacket, TypeOK, MatchInv
  <2>2. PICK a \in Answer : a = Head(answers) /\ Outstanding(a)
    BY <2>1, Singleton
  <2>3. CASE ReadAnswer(a) /\ a.fn = "hold"
    <3>1. state_ = "POLLING_HOLD" /\ awaiting_ /\ a.arg = bank_idx_ /\ state_' = state_
      BY <2>2, <2>3 DEF Outstanding, Matches, ReadAnswer
    <3>2. hold_fate' = [hold_fate EXCEPT ![bank_idx_] = "read"] /\ bank_idx_' = bank_idx_ + 1
      BY <2>3, <3>1 DEF ReadAnswer
    <3>3. bank_idx_ \in Nat /\ hold_fate \in [Bank -> {"unread", "read", "skipped"}]
      BY DEF TypeOK
    <3>4. bank_idx_' <= HoldBanks /\ awaiting_' = FALSE /\ initial_hold_done_' = initial_hold_done_
      BY <1>3, <3>1, <3>2, <3>3, BankAssumption DEF ProcessPacket, BankAssumption
    <3>5. \A b \in Bank : hold_fate'[b] = IF b = bank_idx_ THEN "read" ELSE hold_fate[b]
      BY <3>2, <3>3
    <3>6. \A b \in Bank : b < bank_idx_ + 1 => b = bank_idx_ \/ b < bank_idx_
      BY <3>3 DEF Bank
    <3>7. QED
      BY <3>1, <3>2, <3>4, <3>5, <3>6
  <2>4. CASE ReadAnswer(a) /\ a.fn = "input"
    BY <1>3, <2>2, <2>4 DEF ProcessPacket, ReadAnswer, Outstanding, Matches
  <2>5. CASE WriteAnswer(a)
    BY <1>3, <2>5 DEF ProcessPacket, WriteAnswer
  <2>6. CASE RefusedAnswer(a)
    BY <1>3, <2>6 DEF ProcessPacket, RefusedAnswer
  <2>7. QED
    BY <1>3, <2>2, <2>3, <2>4, <2>5, <2>6 DEF ProcessPacket, ReadAnswer
<1>4. CASE FinishPass
  BY <1>4, DispatchHold DEF FinishPass, TypeOK
<1>5. CASE FinishTimedOut
  <2> DEFINE last == state_ = "POLLING_HOLD" /\ bank_idx_ + 1 >= HoldBanks
  <2>1. Dispatch(StateAfterTimeout, bank_idx_ + 1, initial_hold_done_ \/ last)
    BY <1>5 DEF FinishTimedOut
  <2>2. bank_idx_ \in Nat /\ bank_idx_ + 1 \in Nat /\ (initial_hold_done_ \/ last) \in BOOLEAN
    BY DEF TypeOK
  <2>3. \A b \in Bank : hold_fate[b] /= "unread" => hold_fate'[b] /= "unread"
    BY <1>5 DEF FinishTimedOut, TypeOK
  <2>4. state_ = "POLLING_HOLD" => \A b \in Bank : b < bank_idx_ + 1 => hold_fate'[b] /= "unread"
    <3>1. state_ = "POLLING_HOLD" /\ bank_idx_ \in Bank => hold_fate'[bank_idx_] /= "unread"
      BY <1>5 DEF FinishTimedOut, TypeOK
    <3>2. \A b \in Bank : b < bank_idx_ + 1 => b = bank_idx_ \/ b < bank_idx_
      BY <2>2 DEF Bank
    <3>3. QED
      BY <2>3, <3>1, <3>2
  <2>5. last => \A b \in Bank : b < bank_idx_ + 1
    BY <2>2, BankAssumption DEF Bank, BankAssumption
  <2>6. StateAfterTimeout = "POLLING_HOLD" => state_ = "POLLING_HOLD" /\ bank_idx_ + 1 <= HoldBanks
    BY <2>2, BankAssumption DEF StateAfterTimeout, BankAssumption
  <2>7. (initial_hold_done_ \/ last) => \A b \in Bank : hold_fate'[b] /= "unread"
    BY <2>3, <2>4, <2>5
  <2> HIDE DEF last
  <2>8. QED
    BY <2>1, <2>2, <2>4, <2>6, <2>7, DispatchHold
<1>6. CASE FinishWaiting \/ queue_write
  BY <1>6 DEF FinishWaiting, queue_write, hubVars
<1>7. CASE Reply \/ HangUp
  BY <1>7 DEF Reply, HangUp, hubVars
<1>8. CASE UNCHANGED vars
  BY <1>8 DEF vars, hubVars
<1>9. QED
  BY <1>1, <1>2, <1>3, <1>4, <1>5, <1>6, <1>7, <1>8 DEF Next

(* While no answer takes longer than RESPONSE_TIMEOUT_MS, input polling is *)
(* not released before each hold bank was read or given up.                *)
THEOREM HoldCycleIsHonest == "late" \notin Faults => (SafetySpec => []HoldDoneIsHonest)
<1> SUFFICES ASSUME OnTime PROVE SafetySpec => []HoldDoneIsHonest
  BY DEF OnTime
<1>1. Init => HoldInv
  BY DEF Init, HoldInv, HoldDoneIsHonest
<1>2. TypeOK /\ MatchInv /\ HoldInv /\ [Next]_vars => HoldInv'
  BY NextHoldInv
<1>3. HoldInv => HoldDoneIsHonest
  BY DEF HoldInv
<1>4. QED
  BY <1>1, <1>2, <1>3, MatchInvariant, PTL DEF SafetySpec

-----------------------------------------------------------------------------
(* Waiting for a write's confirmation.                                     *)

(* Without refusals the confirmation is the only answer WRITING gets.      *)
TimedInv ==
  /\ WritingIsTimed
  /\ answers /= <<>> => answers[1].fn /= "refused"

LEMMA DispatchTimed ==
  ASSUME NEW st, NEW bank, NEW done, Dispatch(st, bank, done), st /= "WRITING"
  PROVE  WritingIsTimed'
  BY DEF Dispatch, IdleStep, MoveTo, SendRead, SendWrite, WritingIsTimed

LEMMA DispatchAnswers ==
  ASSUME NEW st, NEW bank, NEW done, Dispatch(st, bank, done)
  PROVE  answers' = answers \/ answers' = <<>>
  BY DEF Dispatch, IdleStep, MoveTo, SendRead, SendWrite, Delivered, DropLink, linkVars

LEMMA NextTimedInv ==
  ASSUME OnTime, "refuse" \notin Faults, TypeOK, MatchInv, TimedInv, [Next]_vars
  PROVE  TimedInv'
<1> USE DEF TimedInv, WritingIsTimed
<1>1. CASE StartConnect \/ ConnectFails \/ reconnect
  BY <1>1 DEF StartConnect, ConnectFails, reconnect, close_socket_, DropLink
<1>2. CASE ConnectDone
  BY <1>2 DEF ConnectDone
<1>3. CASE Receive
  BY <1>3 DEF Receive, close_socket_, DropLink, linkVars
<1>4. CASE ProcessPacket
  <2>1. answers \in Seq(Answer) /\ Len(answers) = 1 /\ Outstanding(answers[1])
    BY <1>4 DEF ProcessPacket, TypeOK, MatchInv
  <2>2. answers' = <<>> /\ Head(answers) = answers[1] /\ answers[1].fn /= "refused"
    BY <1>4, <2>1, Singleton DEF ProcessPacket
  <2>3. CASE ReadAnswer(answers[1])
    BY <2>1, <2>2, <2>3 DEF ReadAnswer, Outstanding, Matches
  <2>4. CASE WriteAnswer(answers[1])
    BY <2>2, <2>4 DEF WriteAnswer
  <2>5. QED
    BY <1>4, <2>2, <2>3, <2>4 DEF ProcessPacket, RefusedAnswer
<1>5. CASE FinishPass
  <2>1. state_ /= "WRITING" /\ Dispatch(state_, bank_idx_, initial_hold_done_)
    BY <1>5 DEF FinishPass
  <2>2. QED
    BY <2>1, DispatchTimed, DispatchAnswers
<1>6. CASE FinishTimedOut
  <2>1. StateAfterTimeout /= "WRITING"
    BY DEF StateAfterTimeout
  <2>2. PICK done : Dispatch(StateAfterTimeout, bank_idx_ + 1, done)
    BY <1>6 DEF FinishTimedOut
  <2>3. QED
    BY <2>1, <2>2, DispatchTimed, DispatchAnswers
<1>7. CASE FinishWaiting \/ queue_write
  BY <1>7 DEF FinishWaiting, queue_write, hubVars, linkVars
<1>8. CASE Reply
  <2>1. asked \in Seq(Request) /\ Head(asked) \in Request /\ answers = <<>>
    BY <1>8 DEF Reply, TypeOK, MatchInv
  <2>2. answers' = <<>> \/ answers' = Append(<<>>, Head(asked))
    BY <1>8, <2>1 DEF Reply, Fault
  <2>3. Head(asked).fn /= "refused"
    BY <2>1 DEF Request
  <2>4. answers' /= <<>> => answers'[1] = Head(asked)
    BY <2>1, <2>2, AppendToEmpty
  <2>5. QED
    BY <1>8, <2>3, <2>4 DEF Reply, hubVars
<1>9. CASE HangUp
  BY <1>9 DEF HangUp, hubVars
<1>10. CASE UNCHANGED vars
  BY <1>10 DEF vars, hubVars, linkVars
<1>11. QED
  BY <1>1, <1>2, <1>3, <1>4, <1>5, <1>6, <1>7, <1>8, <1>9, <1>10 DEF Next

(* While the dongle neither refuses nor is late, the response timeout      *)
(* stays armed as long as a confirmation is missing.                       *)
THEOREM WritingStaysTimed ==
  "late" \notin Faults /\ "refuse" \notin Faults => (SafetySpec => []WritingIsTimed)
<1> SUFFICES ASSUME OnTime, "refuse" \notin Faults PROVE SafetySpec => []WritingIsTimed
  BY DEF OnTime
<1>1. Init => TimedInv
  BY DEF Init, TimedInv, WritingIsTimed
<1>2. TypeOK /\ MatchInv /\ TimedInv /\ [Next]_vars => TimedInv'
  BY NextTimedInv
<1>3. TimedInv => WritingIsTimed
  BY DEF TimedInv
<1>4. QED
  BY <1>1, <1>2, <1>3, MatchInvariant, PTL DEF SafetySpec

-----------------------------------------------------------------------------
(* What polling for ever shows besides.                                    *)

(* That the inverter is polled for ever is a matter of fairness and left   *)
(* to the runs.  It takes with it that every write under way ends, and,    *)
(* unless the send of a write may fail, that a lost connection is opened   *)
(* again.                                                                  *)
THEOREM PollingShows ==
  /\ InputIsPolled => WritingEnds
  /\ "write_send" \notin Faults => (SafetySpec /\ InputIsPolled => Reconnects)
<1>1. state_ = "POLLING_INPUT" => state_ /= "WRITING"
  OBVIOUS
<1>2. NoSocketMeansDisconnected /\ state_ = "POLLING_INPUT" => sock_open
  BY DEF NoSocketMeansDisconnected
<1>3. InputIsPolled => WritingEnds
  BY <1>1, PTL DEF InputIsPolled, WritingEnds
<1>4. []NoSocketMeansDisconnected /\ InputIsPolled => Reconnects
  BY <1>2, PTL DEF InputIsPolled, Reconnects
<1>5. ASSUME "write_send" \notin Faults PROVE SafetySpec /\ InputIsPolled => Reconnects
  <2>1. SafetySpec => []NoSocketMeansDisconnected BY <1>5, NoSocketIsDisconnected
  <2> QED BY <1>4, <2>1, PTL
<1> QED
  BY <1>3, <1>5

-----------------------------------------------------------------------------
(* The switches and the hold register cache.                               *)

(* Every step is a step of the poller.                                     *)
LEMMA RegStep == RegNext => [Next]_vars
  BY DEF RegNext, write_state, RegReply, RegProcessPacket, RegFinishPass, Quietly, Next

(* The switches and the cache do not disturb the poller: whatever it       *)
(* promises with any writes, it promises with those the switches make.     *)
THEOREM SwitchesAreAPoller == RegSafetySpec => SafetySpec
  <1>1. RegInit => Init BY DEF RegInit
  <1>2. [RegNext]_allVars => [Next]_vars BY RegStep DEF allVars
  <1> QED BY <1>1, <1>2, PTL DEF RegSafetySpec, SafetySpec

-----------------------------------------------------------------------------
(* Types.                                                                  *)

(* A write under way has been accepted, so that it has a value.            *)
Numbered(ms) == \A i \in 1..Len(ms) : ms[i].fn = "write" => ms[i].arg \in 1..accepted

RegInv ==
  /\ RegTypeOK
  /\ payloads \in Seq(SUBSET Bits)
  /\ Numbered(asked)
  /\ Numbered(answers)

HubInv == TypeOK /\ QueueInv

LEMMA ValueType ==
  ASSUME RegInv, NEW m, m.arg \in 1..accepted
  PROVE  Value(m) \in SUBSET Bits
  <1>1. written \in Seq([bit : Bits, on : BOOLEAN, value : SUBSET Bits]) /\ m.arg \in 1..Len(written)
    BY DEF RegInv, RegTypeOK
  <1>2. written[m.arg] \in [bit : Bits, on : BOOLEAN, value : SUBSET Bits] BY <1>1, ElementOfSeq
  <1> QED BY <1>2 DEF Value

(* What the steps of the poller do to the requests and the answers.        *)
LEMMA DispatchLink ==
  ASSUME HubInv, NEW st, NEW bank \in Nat, NEW done, Dispatch(st, bank, done)
  PROVE  /\ answers' = answers \/ answers' = <<>>
         /\ \/ asked' = asked
            \/ asked' = <<>>
            \/ \E m \in Request : asked' = Append(asked, m) /\ (m.fn = "write" => m.arg \in 1..accepted)
  <1>1. answers' = answers \/ answers' = <<>> BY DispatchAnswers
  <1>2. ASSUME NEW fn \in {"input", "hold"}, SendRead(fn, bank, st)
        PROVE  asked' = asked \/ asked' = <<>>
               \/ \E m \in Request : asked' = Append(asked, m) /\ (m.fn = "write" => m.arg \in 1..accepted)
    <2>1. Message(fn, bank) \in Request BY DEF Request
    <2>2. asked' = asked \/ asked' = <<>> \/ asked' = Append(asked, Message(fn, bank))
      BY <1>2 DEF SendRead, Delivered, DropLink
    <2> QED BY <2>1, <2>2
  <1>3. ASSUME SendWrite(bank)
        PROVE  asked' = asked \/ asked' = <<>>
               \/ \E m \in Request : asked' = Append(asked, m) /\ (m.fn = "write" => m.arg \in 1..accepted)
    <2>1. dispatched' = Head(write_queue_) /\ dispatched' = dispatched + 1 /\ dispatched < accepted
      BY <1>3, SendWriteProperties DEF HubInv, SendWrite
    <2>2. Head(write_queue_) \in 1..accepted BY <2>1 DEF HubInv, TypeOK
    <2>3. Message("write", Head(write_queue_)) \in Request BY <2>2 DEF Request
    <2>4. asked' = asked \/ asked' = <<>> \/ asked' = Append(asked, Message("write", Head(write_queue_)))
      BY <1>3 DEF SendWrite, Delivered, DropLink
    <2> QED BY <2>2, <2>3, <2>4
  <1>4. ASSUME NEW s, NEW b, MoveTo(s, b) PROVE asked' = asked
    BY <1>4 DEF MoveTo, linkVars
  <1> QED BY <1>1, <1>2, <1>3, <1>4 DEF Dispatch, IdleStep

(* ms becomes ns by losing its head, all of it, nothing, or by taking an   *)
(* accepted m at the end.                                                  *)
LEMMA NumberedKept ==
  ASSUME NEW ms \in Seq(Answer), NEW ns, Numbered(ms), accepted \in Nat,
         accepted' \in Nat, accepted' >= accepted,
         \/ ns = ms
         \/ ns = <<>>
         \/ ms # <<>> /\ ns = Tail(ms)
         \/ \E m \in Answer : ns = Append(ms, m) /\ (m.fn = "write" => m.arg \in 1..accepted)
  PROVE  \A i \in 1..Len(ns) : ns[i].fn = "write" => ns[i].arg \in 1..accepted'
  <1>1. \A i \in 1..Len(ms) : ms[i].fn = "write" => ms[i].arg \in 1..accepted'
    BY DEF Numbered
  <1>2. CASE ns = ms BY <1>1, <1>2
  <1>3. CASE ns = <<>> BY <1>3
  <1>4. CASE ms # <<>> /\ ns = Tail(ms)
    <2>1. Len(ns) = Len(ms) - 1 /\ \A i \in 1..Len(ns) : ns[i] = ms[i + 1]
      BY <1>4, HeadTailProperties
    <2>2. Len(ms) \in Nat BY LenProperties
    <2>3. \A i \in 1..Len(ns) : i + 1 \in 1..Len(ms) BY <2>1, <2>2
    <2> QED BY <1>1, <2>1, <2>3
  <1>5. ASSUME NEW m \in Answer, ns = Append(ms, m), m.fn = "write" => m.arg \in 1..accepted
        PROVE  \A i \in 1..Len(ns) : ns[i].fn = "write" => ns[i].arg \in 1..accepted'
    <2>1. /\ Len(ns) = Len(ms) + 1 /\ ns[Len(ms) + 1] = m
          /\ \A i \in 1..Len(ms) : ns[i] = ms[i]
      BY <1>5, AppendProperties
    <2>2. Len(ms) \in Nat BY LenProperties
    <2>3. m.fn = "write" => m.arg \in 1..accepted' BY <1>5
    <2>4. \A i \in 1..Len(ns) : i \in 1..Len(ms) \/ i = Len(ms) + 1 BY <2>1, <2>2
    <2> QED BY <1>1, <2>1, <2>3, <2>4
  <1> QED BY <1>2, <1>3, <1>4, <1>5

LEMMA RequestIsAnswer == asked \in Seq(Request) => asked \in Seq(Answer)
  BY SeqDef DEF Answer

(* The steps that a switch does not make and that process no answer.       *)
QuietStep ==
  \/ StartConnect \/ ConnectDone \/ ConnectFails \/ Receive
  \/ FinishPass \/ FinishWaiting \/ FinishTimedOut \/ reconnect \/ HangUp

LEMMA QuietLink ==
  ASSUME HubInv, QuietStep
  PROVE  /\ accepted' = accepted
         /\ answers' = answers \/ answers' = <<>>
         /\ \/ asked' = asked
            \/ asked' = <<>>
            \/ \E m \in Request : asked' = Append(asked, m) /\ (m.fn = "write" => m.arg \in 1..accepted)
  <1>1. CASE StartConnect \/ ConnectDone \/ ConnectFails \/ Receive \/ FinishWaiting \/ reconnect \/ HangUp
    BY <1>1 DEF StartConnect, ConnectDone, ConnectFails, Receive, FinishWaiting, reconnect, HangUp,
                close_socket_, DropLink, hubVars, linkVars, writeVars
  <1>2. ASSUME NEW st, NEW bank \in Nat, NEW done, Dispatch(st, bank, done)
        PROVE  accepted' = accepted
    BY <1>2, DispatchWrites DEF SendWrite, writeVars
  <1>3. bank_idx_ \in Nat /\ bank_idx_ + 1 \in Nat BY DEF HubInv, TypeOK
  <1>4. CASE FinishPass
    BY <1>2, <1>3, <1>4, DispatchLink DEF FinishPass
  <1>5. CASE FinishTimedOut
    <2>1. PICK done : Dispatch(StateAfterTimeout, bank_idx_ + 1, done) BY <1>5 DEF FinishTimedOut
    <2> QED BY <1>2, <1>3, <2>1, DispatchLink
  <1> QED BY <1>1, <1>4, <1>5 DEF QuietStep

LEMMA SettledType == ASSUME HubInv, RegInv PROVE Settled \subseteq SUBSET Bits
  <1>1. \A i \in DOMAIN asked : asked[i].fn = "write" => asked[i].arg \in 1..accepted
    BY DEF HubInv, TypeOK, RegInv, Numbered
  <1>2. \A i \in {j \in DOMAIN asked : asked[j].fn = "write"} : Value(asked[i]) \in SUBSET Bits
    BY <1>1, ValueType
  <1> QED BY <1>2 DEF Settled

LEMMA QuietKeepsTypes ==
  ASSUME HubInv, RegInv, TypeOK', QuietStep,
         inverter' \in {inverter} \cup Settled,
         payloads' = (IF answers' = <<>> THEN <<>> ELSE payloads),
         hold_regs_' = hold_regs_, shown' \in SUBSET Bits, written' = written
  PROVE  RegInv'
  <1>1. /\ accepted' = accepted
        /\ answers' = answers \/ answers' = <<>>
        /\ \/ asked' = asked
           \/ asked' = <<>>
           \/ \E m \in Request : asked' = Append(asked, m) /\ (m.fn = "write" => m.arg \in 1..accepted)
    BY QuietLink
  <1>2. accepted \in Nat /\ asked \in Seq(Answer) /\ answers \in Seq(Answer) /\ Request \subseteq Answer
    BY RequestIsAnswer DEF HubInv, TypeOK, Answer
  <1>3. Numbered(asked)'
    <2>1. Numbered(asked) BY DEF RegInv
    <2>2. \/ asked' = asked
          \/ asked' = <<>>
          \/ \E m \in Answer : asked' = Append(asked, m) /\ (m.fn = "write" => m.arg \in 1..accepted)
      BY <1>1, <1>2
    <2>3. \A i \in 1..Len(asked') : asked'[i].fn = "write" => asked'[i].arg \in 1..accepted'
      BY <1>1, <1>2, <2>1, <2>2, NumberedKept
    <2> QED BY <2>3 DEF Numbered
  <1>4. Numbered(answers)'
    BY <1>1, EmptySeq DEF RegInv, Numbered
  <1>5. inverter' \in SUBSET Bits BY SettledType DEF RegInv, RegTypeOK
  <1>6. payloads' \in Seq(SUBSET Bits) /\ Len(payloads') = Len(answers')
    BY <1>1, EmptySeq DEF RegInv, RegTypeOK
  <1> QED BY <1>1, <1>3, <1>4, <1>5, <1>6 DEF RegInv, RegTypeOK

LEMMA WriteStateKeepsTypes ==
  ASSUME HubInv, RegInv, NEW bit \in Bits, NEW on \in BOOLEAN, write_state(bit, on)
  PROVE  RegInv'
  <1>1. shown' \in SUBSET Bits BY DEF write_state, RegInv, RegTypeOK
  <1>2. UNCHANGED <<inverter, hold_regs_, payloads>> BY DEF write_state
  <1>3. CASE UNCHANGED <<vars, written>>
    <2>1. asked' = asked /\ answers' = answers /\ accepted' = accepted
      BY <1>3 DEF vars, linkVars, writeVars
    <2> QED BY <1>1, <1>2, <1>3, <2>1 DEF RegInv, RegTypeOK, Numbered
  <1>4. CASE queue_write /\ written' = Append(written, [bit |-> bit, on |-> on, value |-> WithBit(bit, on)])
    <2>1. accepted' = accepted + 1 /\ asked' = asked /\ answers' = answers
      BY <1>4 DEF queue_write, linkVars
    <2>2. WithBit(bit, on) \in SUBSET Bits BY DEF WithBit, RegInv, RegTypeOK
    <2>3. [bit |-> bit, on |-> on, value |-> WithBit(bit, on)] \in [bit : Bits, on : BOOLEAN, value : SUBSET Bits]
      BY <2>2
    <2>4. written' \in Seq([bit : Bits, on : BOOLEAN, value : SUBSET Bits]) /\ Len(written') = accepted'
      BY <1>4, <2>1, <2>3, AppendProperties DEF RegInv, RegTypeOK
    <2>5. 1..accepted \subseteq 1..accepted' BY <2>1 DEF HubInv, TypeOK
    <2> QED BY <1>1, <1>2, <2>1, <2>4, <2>5 DEF RegInv, RegTypeOK, Numbered
  <1> QED BY <1>3, <1>4 DEF write_state

(* What a reply leaves in the inverter and adds to the answers.            *)
LEMMA RegReplyStep ==
  ASSUME HubInv, RegInv, RegReply
  PROVE  /\ asked # <<>> /\ asked' = Tail(asked) /\ Head(asked) \in Request /\ asked[1] = Head(asked)
         /\ accepted' = accepted
         /\ \/ answers' = answers /\ payloads' = payloads
            \/ /\ answers' = Append(answers, Head(asked)) \/ answers' = Append(answers, Message("refused", Head(asked).arg))
               /\ payloads' = Append(payloads, inverter')
         /\ inverter' \in {inverter} \cup (IF Head(asked).fn = "write" THEN {Value(Head(asked))} ELSE {})
         /\ UNCHANGED <<hold_regs_, shown, written>>
  <1>1. asked \in Seq(Request) /\ asked # <<>> /\ asked' = Tail(asked) BY DEF HubInv, TypeOK, RegReply, Reply
  <1>2. Head(asked) \in Request /\ asked[1] = Head(asked) BY <1>1
  <1>3. accepted' = accepted BY DEF RegReply, Reply, writeVars
  <1>4. \/ answers' = answers
        \/ answers' = Append(answers, Head(asked))
        \/ answers' = Append(answers, Message("refused", Head(asked).arg))
    BY DEF RegReply, Reply
  <1>5. payloads' = IF answers' = answers THEN payloads ELSE Append(payloads, inverter') BY DEF RegReply
  <1>6. inverter' \in {inverter} \cup (IF Head(asked).fn = "write" THEN {Value(Head(asked))} ELSE {})
    BY DEF RegReply
  <1>7. UNCHANGED <<hold_regs_, shown, written>> BY DEF RegReply
  <1> QED BY <1>1, <1>2, <1>3, <1>4, <1>5, <1>6, <1>7

LEMMA ReplyKeepsTypes ==
  ASSUME HubInv, RegInv, RegReply
  PROVE  RegInv'
  <1> DEFINE req == Head(asked)
  <1>1. /\ asked # <<>> /\ asked' = Tail(asked) /\ req \in Request /\ asked[1] = req
        /\ accepted' = accepted
        /\ \/ answers' = answers /\ payloads' = payloads
           \/ /\ answers' = Append(answers, req) \/ answers' = Append(answers, Message("refused", req.arg))
              /\ payloads' = Append(payloads, inverter')
        /\ inverter' \in {inverter} \cup (IF req.fn = "write" THEN {Value(req)} ELSE {})
        /\ UNCHANGED <<hold_regs_, shown, written>>
    BY RegReplyStep
  <1>2. /\ accepted \in Nat /\ answers \in Seq(Answer) /\ asked \in Seq(Answer)
        /\ asked \in Seq(Request) /\ payloads \in Seq(SUBSET Bits) /\ Len(payloads) = Len(answers)
        /\ Numbered(asked) /\ Numbered(answers)
    BY RequestIsAnswer DEF HubInv, TypeOK, RegInv, RegTypeOK
  <1>3. req.fn = "write" => req.arg \in 1..accepted
    <2>1. 1 \in 1..Len(asked) BY <1>1, <1>2, EmptySeq, LenProperties
    <2> QED BY <1>1, <1>2, <2>1 DEF Numbered
  <1>4. req \in Answer /\ Message("refused", req.arg) \in Answer
    BY <1>1 DEF Answer, Request
  <1> HIDE DEF req
  <1>5. inverter' \in SUBSET Bits BY <1>1, <1>3, ValueType DEF RegInv, RegTypeOK
  <1>6. payloads' \in Seq(SUBSET Bits) /\ Len(payloads') = Len(answers')
    <2>1. CASE answers' = answers /\ payloads' = payloads BY <1>2, <2>1
    <2>2. ASSUME NEW m \in Answer, answers' = Append(answers, m), payloads' = Append(payloads, inverter')
          PROVE  payloads' \in Seq(SUBSET Bits) /\ Len(payloads') = Len(answers')
      <3>1. Len(answers') = Len(answers) + 1 BY <1>2, <2>2, AppendProperties
      <3>2. payloads' \in Seq(SUBSET Bits) /\ Len(payloads') = Len(payloads) + 1
        BY <1>2, <1>5, <2>2, AppendProperties
      <3> QED BY <1>2, <3>1, <3>2
    <2> QED BY <1>1, <1>4, <2>1, <2>2
  <1>7. \A i \in 1..Len(asked') : asked'[i].fn = "write" => asked'[i].arg \in 1..accepted'
    BY <1>1, <1>2, NumberedKept
  <1>8. \A i \in 1..Len(answers') : answers'[i].fn = "write" => answers'[i].arg \in 1..accepted'
    <2>1. Message("refused", req.arg).fn = "refused" OBVIOUS
    <2>2. answers' = answers \/ \E m \in Answer : answers' = Append(answers, m) /\ (m.fn = "write" => m.arg \in 1..accepted)
      BY <1>1, <1>3, <1>4, <2>1
    <2> QED BY <1>1, <1>2, <2>2, NumberedKept
  <1> QED BY <1>1, <1>5, <1>6, <1>7, <1>8 DEF RegInv, RegTypeOK, Numbered

LEMMA ProcessKeepsTypes ==
  ASSUME HubInv, RegInv, RegProcessPacket
  PROVE  RegInv'
  <1>1. /\ answers # <<>> /\ answers' = Tail(answers) /\ payloads' = Tail(payloads)
        /\ asked' = asked /\ accepted' = accepted
        /\ hold_regs_' = Copy(Head(answers))
        /\ shown' = IF Head(answers).fn = "write" THEN hold_regs_' ELSE shown
        /\ UNCHANGED <<inverter, written>>
    BY DEF RegProcessPacket, ProcessPacket, writeVars
  <1>2. /\ answers \in Seq(Answer) /\ payloads \in Seq(SUBSET Bits) /\ Len(payloads) = Len(answers)
        /\ Numbered(answers) /\ accepted \in Nat /\ payloads # <<>>
    BY <1>1, EmptySeq DEF HubInv, TypeOK, RegInv, RegTypeOK
  <1>3. Head(payloads) \in SUBSET Bits /\ Head(answers) = answers[1] /\ 1 \in 1..Len(answers)
    BY <1>1, <1>2, EmptySeq, LenProperties
  <1>4. Head(answers).fn = "write" => Value(Head(answers)) \in SUBSET Bits
    BY <1>2, <1>3, ValueType DEF Numbered
  <1>5. hold_regs_' \in SUBSET Bits /\ shown' \in SUBSET Bits
    BY <1>1, <1>3, <1>4 DEF Copy, RegInv, RegTypeOK
  <1>6. payloads' \in Seq(SUBSET Bits) /\ Len(payloads') = Len(answers')
    BY <1>1, <1>2, HeadTailProperties
  <1>7. \A i \in 1..Len(answers') : answers'[i].fn = "write" => answers'[i].arg \in 1..accepted'
    BY <1>1, <1>2, NumberedKept
  <1> QED BY <1>1, <1>5, <1>6, <1>7 DEF RegInv, RegTypeOK, Numbered

LEMMA RegStepKeepsTypes == HubInv /\ TypeOK' /\ RegInv /\ [RegNext]_allVars => RegInv'
  <1> SUFFICES ASSUME HubInv, TypeOK', RegInv, [RegNext]_allVars PROVE RegInv' OBVIOUS
  <1>1. CASE \E bit \in Bits, on \in BOOLEAN : write_state(bit, on) BY <1>1, WriteStateKeepsTypes
  <1>2. CASE RegReply BY <1>2, ReplyKeepsTypes
  <1>3. CASE RegProcessPacket BY <1>3, ProcessKeepsTypes
  <1>4. CASE RegFinishPass
    <2>1. shown' \in SUBSET Bits BY <1>4 DEF RegFinishPass, Notify, RegInv, RegTypeOK
    <2> QED BY <1>4, <2>1, QuietKeepsTypes DEF RegFinishPass, QuietStep
  <1>5. CASE \/ Quietly(StartConnect) \/ Quietly(ConnectDone) \/ Quietly(ConnectFails)
             \/ Quietly(Receive) \/ Quietly(FinishWaiting) \/ Quietly(FinishTimedOut)
             \/ Quietly(reconnect) \/ Quietly(HangUp)
    <2>1. /\ QuietStep
          /\ inverter' \in {inverter} \cup Settled
          /\ payloads' = IF answers' = <<>> THEN <<>> ELSE payloads
          /\ UNCHANGED <<hold_regs_, shown, written>>
      BY <1>5 DEF Quietly, QuietStep
    <2>2. shown' \in SUBSET Bits BY <2>1 DEF RegInv, RegTypeOK
    <2> QED BY <2>1, <2>2, QuietKeepsTypes
  <1>6. CASE UNCHANGED allVars
    <2>1. UNCHANGED vars /\ UNCHANGED regVars /\ payloads' = payloads BY <1>6 DEF allVars
    <2> QED BY <2>1 DEF vars, linkVars, writeVars, regVars, RegInv, RegTypeOK, Numbered
  <1> QED BY <1>1, <1>2, <1>3, <1>4, <1>5, <1>6 DEF RegNext

LEMMA RegAlways == RegSafetySpec => [](HubInv /\ RegInv)
  <1>1. RegInit => RegInv
    BY EmptySeq DEF RegInit, Init, RegInv, RegTypeOK, Numbered
  <1>2. HubInv /\ RegInv /\ HubInv' /\ [RegNext]_allVars => RegInv'
    BY RegStepKeepsTypes DEF HubInv
  <1>3. RegSafetySpec => []HubInv BY SwitchesAreAPoller, QueueInvariant, PTL DEF HubInv
  <1> QED BY <1>1, <1>2, <1>3, PTL DEF RegSafetySpec

(* Types; each answer carries its register and each accepted write has its *)
(* value, under every combination of faults.                               *)
THEOREM RegTypeCorrect == RegSafetySpec => []RegTypeOK
  BY RegAlways, PTL DEF RegInv

-----------------------------------------------------------------------------
(* The copy, while nothing goes wrong.                                     *)

(* A write was confirmed, and the confirmation waits to be processed.      *)
Confirms == answers # <<>> /\ answers[1].fn = "write"

(* The register has been read: in an earlier hold cycle or in this one.    *)
Known == initial_hold_done_ \/ (state_ = "POLLING_HOLD" /\ RegBank < bank_idx_)

(* The dongle is there, and owes the answer the poller waits for.          *)
Linked ==
  /\ state_ = "CONNECTING" => sock_open
  /\ state_ \in Online => sock_open /\ peer_open
  /\ awaiting_ => asked # <<>> \/ answers # <<>>

(* The copy is the register, or the answer that makes it so is there.      *)
Fresh ==
  /\ Known /\ ~Confirms => hold_regs_ = inverter
  /\ Confirms => Value(answers[1]) = inverter
  /\ answers # <<>> /\ answers[1] = Message("hold", RegBank) => payloads[1] = inverter

CopyInv ==
  /\ fault_budget <= MaxFaults
  /\ fault_budget = MaxFaults => Linked /\ Fresh

Calm == \A kind : ~Fault(kind)

(* A step leaves the budget alone or is a fault.                           *)
LEMMA NextBudget == [Next]_vars => fault_budget' = fault_budget \/ \E kind : Fault(kind)
  <1> SUFFICES ASSUME [Next]_vars PROVE fault_budget' = fault_budget \/ \E kind : Fault(kind)
    OBVIOUS
  <1>1. ASSUME NEW st, NEW bank, NEW done, Dispatch(st, bank, done)
        PROVE  fault_budget' = fault_budget \/ \E kind : Fault(kind)
    BY <1>1 DEF Dispatch, IdleStep, MoveTo, SendRead, SendWrite
  <1>2. CASE FinishPass BY <1>1, <1>2 DEF FinishPass
  <1>3. CASE FinishTimedOut BY <1>1, <1>3 DEF FinishTimedOut
  <1>4. CASE StartConnect \/ ConnectDone \/ ConnectFails \/ Receive \/ ProcessPacket
    BY <1>4 DEF StartConnect, ConnectDone, ConnectFails, Receive, ProcessPacket
  <1>5. CASE FinishWaiting \/ queue_write \/ reconnect \/ Reply \/ HangUp
    BY <1>5 DEF FinishWaiting, queue_write, reconnect, Reply, HangUp
  <1>6. CASE UNCHANGED vars BY <1>6 DEF vars
  <1> QED BY <1>2, <1>3, <1>4, <1>5, <1>6 DEF Next

(* As long as the budget is whole, nothing has gone wrong.                 *)
LEMMA WholeBudget ==
  ASSUME HubInv, CopyInv, [Next]_vars
  PROVE  /\ fault_budget' <= MaxFaults
         /\ fault_budget' = MaxFaults => Calm /\ fault_budget = MaxFaults
  <1>1. fault_budget \in Nat /\ MaxFaults \in Nat /\ fault_budget <= MaxFaults
    BY BoundAssumption DEF HubInv, TypeOK, CopyInv, BoundAssumption
  <1>2. ASSUME NEW kind, Fault(kind) PROVE fault_budget' < MaxFaults
    BY <1>1, <1>2 DEF Fault
  <1>3. CASE fault_budget' = fault_budget BY <1>1, <1>2, <1>3 DEF Calm
  <1>4. ASSUME NEW kind, Fault(kind)
        PROVE  fault_budget' <= MaxFaults /\ fault_budget' # MaxFaults
    BY <1>1, <1>4 DEF Fault
  <1> QED BY <1>3, <1>4, NextBudget

(* The switch, over a silent link that is up.                              *)
LEMMA DispatchCalm ==
  ASSUME TypeOK, Calm, asked = <<>>, answers = <<>>,
         NEW st \in State \ {"CONNECTING"}, NEW bank \in Nat, NEW done \in BOOLEAN,
         Dispatch(st, bank, done),
         st \in Online => sock_open /\ peer_open
  PROVE  /\ Linked'
         /\ answers' = <<>>
         /\ Known' => done \/ (st = "POLLING_HOLD" /\ RegBank < bank)
  <1> USE DEF Linked, Known, Online, State
  <1>1. ASSUME NEW s \in State \ {"CONNECTING"}, NEW b, MoveTo(s, b),
               s \in Online => sock_open /\ peer_open
        PROVE  Linked' /\ answers' = <<>> /\ state_' = s /\ bank_idx_' = b
    BY <1>1 DEF MoveTo, linkVars
  <1>2. ASSUME NEW req \in Request, Delivered(req), sock_open, peer_open
        PROVE  asked' # <<>> /\ answers' = <<>> /\ sock_open' /\ peer_open'
    BY <1>2, AppendToEmpty DEF Delivered
  <1>3. ASSUME NEW fn \in {"input", "hold"}, SendRead(fn, bank, st), sock_open, peer_open
        PROVE  Linked' /\ answers' = <<>> /\ state_' = st /\ bank_idx_' = bank
    <2>1. Message(fn, bank) \in Request BY DEF Request
    <2>2. Delivered(Message(fn, bank)) /\ state_' = st /\ bank_idx_' = bank BY <1>3 DEF SendRead, Calm
    <2> QED BY <1>2, <1>3, <2>1, <2>2
  <1>4. ASSUME SendWrite(bank), sock_open, peer_open
        PROVE  Linked' /\ answers' = <<>> /\ state_' = "WRITING"
    <2>1. Message("write", Head(write_queue_)) \in Request BY <1>4 DEF Request, TypeOK, SendWrite
    <2>2. Delivered(Message("write", Head(write_queue_))) /\ state_' = "WRITING" BY <1>4 DEF SendWrite, Calm
    <2> QED BY <1>2, <1>4, <2>1, <2>2
  <1>5. CASE st = "IDLE" /\ IdleStep(bank, done) /\ initial_hold_done_' = done
    <2>1. CASE SendWrite(bank) BY <1>4, <1>5, <2>1
    <2>2. CASE MoveTo("IDLE", bank) \/ MoveTo("POLLING_INPUT", 0) BY <1>1, <1>5, <2>2
    <2>3. CASE MoveTo("POLLING_HOLD", 0)
      <3>1. ~(RegBank < 0) BY RegisterAssumption, BankAssumption DEF RegisterAssumption, BankAssumption
      <3> QED BY <1>1, <1>5, <2>3, <3>1
    <2> QED BY <1>5, <2>1, <2>2, <2>3 DEF IdleStep
  <1>6. CASE st = "POLLING_INPUT" /\ initial_hold_done_' = done
    <2>1. IF bank < InputBanks THEN SendRead("input", bank, st) ELSE MoveTo("IDLE", bank)
      BY <1>6 DEF Dispatch
    <2> QED BY <1>1, <1>3, <1>6, <2>1
  <1>7. CASE st = "POLLING_HOLD"
    <2>1. /\ IF bank < HoldBanks THEN SendRead("hold", bank, st) ELSE MoveTo("IDLE", bank)
          /\ initial_hold_done_' = (done \/ bank >= HoldBanks)
      BY <1>7 DEF Dispatch
    <2>2. bank >= HoldBanks => RegBank < bank
      BY RegisterAssumption, BankAssumption DEF RegisterAssumption, BankAssumption
    <2>3. CASE bank < HoldBanks
      <3>1. ~(bank >= HoldBanks) BY <2>3, BankAssumption DEF BankAssumption
      <3> QED BY <1>3, <1>7, <2>1, <2>3, <3>1
    <2>4. CASE ~(bank < HoldBanks)
      <3>1. bank >= HoldBanks BY <2>4, BankAssumption DEF BankAssumption
      <3> QED BY <1>1, <1>7, <2>1, <2>2, <2>4, <3>1
    <2> QED BY <2>3, <2>4
  <1>8. CASE st \in {"WRITING", "DISCONNECTED"} /\ MoveTo(st, bank) /\ initial_hold_done_' = done
    BY <1>1, <1>8
  <1> QED BY <1>5, <1>6, <1>7, <1>8 DEF Dispatch

(* What process_packet_ makes of an answer the poller stands at.           *)
LEMMA ProcessFresh ==
  ASSUME HubInv, MatchInv, RegInv, Linked, Fresh, RegProcessPacket
  PROVE  Linked' /\ Fresh'
  <1>1. /\ answers # <<>> /\ answers' = Tail(answers) /\ asked' = asked
        /\ awaiting_' = FALSE /\ initial_hold_done_' = initial_hold_done_
        /\ sock_open' = sock_open /\ peer_open' = peer_open
        /\ ReadAnswer(Head(answers)) \/ WriteAnswer(Head(answers)) \/ RefusedAnswer(Head(answers))
        /\ hold_regs_' = Copy(Head(answers)) /\ inverter' = inverter
    BY DEF RegProcessPacket, ProcessPacket
  <1>2. Len(answers) = 1 /\ Outstanding(answers[1]) /\ answers \in Seq(Answer)
    BY <1>1 DEF MatchInv, HubInv, TypeOK
  <1>3. Head(answers) = answers[1] /\ answers' = <<>> BY <1>1, <1>2, Singleton
  <1>4. payloads \in Seq(SUBSET Bits) /\ Len(payloads) = 1
    BY <1>2 DEF RegInv, RegTypeOK
  <1>5. Head(payloads) = payloads[1] BY <1>4, Singleton
  <1> DEFINE a == answers[1]
  <1>6. Linked'
    <2>1. state_ \in Online /\ state_' \in Online
      BY <1>1, <1>2, <1>3 DEF Outstanding, ReadAnswer, WriteAnswer, RefusedAnswer, Online
    <2> QED BY <1>1, <2>1 DEF Linked
  <1>7. Known' => hold_regs_' = inverter'
    <2>1. CASE a.fn = "write" BY <1>1, <1>2, <1>3, <2>1 DEF Copy, Fresh, Confirms
    <2>2. CASE a.fn # "write"
      <3>1. ~Confirms BY <2>2 DEF Confirms
      <3>2. CASE ReadAnswer(a) /\ a.fn = "hold"
        <4>1. state_ = "POLLING_HOLD" /\ state_' = state_ /\ a.arg = bank_idx_ /\ bank_idx_' = bank_idx_ + 1
          BY <1>2, <3>2 DEF Outstanding, Matches, ReadAnswer
        <4>2. CASE a.arg = RegBank
          <5>1. a = Message("hold", RegBank) BY <1>2, <3>2, <4>2, ElementOfSeq DEF Answer, Request
          <5> QED BY <1>1, <1>3, <1>5, <3>2, <4>2, <5>1 DEF Copy, Fresh
        <4>3. CASE a.arg # RegBank
          <5>1. hold_regs_' = hold_regs_ BY <1>1, <1>3, <3>2, <4>3 DEF Copy
          <5>2. bank_idx_ \in Nat /\ RegBank \in Nat
            BY RegisterAssumption, BankAssumption DEF RegisterAssumption, BankAssumption, HubInv, TypeOK
          <5>3. RegBank < bank_idx_ + 1 => RegBank < bank_idx_ BY <4>1, <4>3, <5>2
          <5>4. Known' => Known BY <1>1, <4>1, <5>3 DEF Known
          <5> QED BY <1>1, <3>1, <5>1, <5>4 DEF Fresh
        <4> QED BY <4>2, <4>3
      <3>3. CASE ~(ReadAnswer(a) /\ a.fn = "hold")
        <4>1. a.fn # "hold" BY <1>1, <1>3, <2>2, <3>3 DEF WriteAnswer, RefusedAnswer
        <4>2. hold_regs_' = hold_regs_ BY <1>1, <1>3, <2>2, <4>1 DEF Copy
        <4>3. state_' = state_ BY <1>1, <1>3, <2>2 DEF ReadAnswer, WriteAnswer, RefusedAnswer
        <4>4. state_ = "POLLING_HOLD" => bank_idx_' = bank_idx_
          BY <1>1, <1>2, <1>3, <2>2, <4>1 DEF ReadAnswer, RefusedAnswer, WriteAnswer, Outstanding, Matches
        <4>5. Known' => Known BY <1>1, <4>3, <4>4 DEF Known
        <4> QED BY <1>1, <3>1, <4>2, <4>5 DEF Fresh
      <3> QED BY <3>2, <3>3
    <2> QED BY <2>1, <2>2
  <1> QED BY <1>3, <1>6, <1>7 DEF Fresh, Confirms

(* The inverter carries out the one request that is under way.             *)
LEMMA ReplyFresh ==
  ASSUME HubInv, MatchInv, RegInv, Linked, Fresh, Calm, RegReply
  PROVE  Linked' /\ Fresh'
  <1> DEFINE req == Head(asked)
  <1>1. /\ asked \in Seq(Request) /\ asked # <<>> /\ answers = <<>> /\ Len(asked) = 1
        /\ req = asked[1] /\ req \in Request /\ Outstanding(req) /\ asked' = <<>>
    <2>1. asked \in Seq(Request) /\ asked # <<>> BY DEF HubInv, TypeOK, RegReply, Reply
    <2>2. Len(asked) = 1 /\ answers = <<>> /\ Outstanding(asked[1]) BY <2>1 DEF MatchInv
    <2>3. asked' = Tail(asked) BY DEF RegReply, Reply
    <2> QED BY <2>1, <2>2, <2>3, Singleton
  <1>2. req \in Answer BY <1>1 DEF Answer
  <1>3. answers' = Append(<<>>, req) BY <1>1 DEF RegReply, Reply, Calm
  <1>4. answers' # <<>> /\ Len(answers') = 1 /\ answers'[1] = req BY <1>2, <1>3, AppendToEmpty
  <1>5. req.fn # "refused" BY <1>1 DEF Request
  <1>6. inverter' = IF req.fn = "write" THEN Value(req) ELSE inverter
    BY <1>1, <1>4, <1>5 DEF RegReply
  <1>7. UNCHANGED <<state_, sock_open, awaiting_, bank_idx_, initial_hold_done_, peer_open, hold_regs_, written>>
    BY DEF RegReply, Reply, hubVars
  <1>8. payloads' = Append(payloads, inverter') /\ payloads = <<>>
    BY <1>1, <1>4, EmptySeq DEF RegReply, RegInv, RegTypeOK
  <1>9. payloads'[1] = inverter' BY <1>8, AppendToEmpty
  <1> HIDE DEF req
  <1>10. Linked' BY <1>4, <1>7 DEF Linked
  <1>11. Known' = Known BY <1>7 DEF Known
  <1>12. ~Confirms BY <1>1 DEF Confirms
  <1>13. Confirms' <=> req.fn = "write" BY <1>4 DEF Confirms
  <1>14. Value(answers[1])' = Value(req) BY <1>4, <1>7 DEF Value
  <1>15. Known' /\ ~Confirms' => hold_regs_' = inverter'
    BY <1>6, <1>7, <1>11, <1>12, <1>13 DEF Fresh
  <1>16. Confirms' => Value(answers[1])' = inverter' BY <1>6, <1>13, <1>14
  <1> QED BY <1>9, <1>10, <1>15, <1>16 DEF Fresh

(* A request that is still there has settled nothing.                      *)
LEMMA NothingSettled == asked' = asked \/ asked = <<>> => Settled = {}
  <1> SUFFICES ASSUME asked' = asked \/ asked = <<>> PROVE Settled = {} OBVIOUS
  <1>1. DOMAIN <<>> = {} OBVIOUS
  <1> QED BY <1>1 DEF Settled

(* Steps that neither ask nor answer.                                      *)
LEMMA StillFresh ==
  ASSUME HubInv, RegInv, Fresh, inverter' = inverter, hold_regs_' = hold_regs_,
         answers' = answers, answers # <<>> => payloads' = payloads,
         \A n \in 1..accepted : written'[n].value = written[n].value,
         Known' => Known
  PROVE  Fresh'
  <1>1. Confirms' = Confirms BY DEF Confirms
  <1>2. Confirms => Value(answers[1])' = Value(answers[1])
    <2> SUFFICES ASSUME Confirms PROVE Value(answers[1])' = Value(answers[1]) OBVIOUS
    <2>1. answers \in Seq(Answer) /\ answers # <<>> BY DEF HubInv, TypeOK, Confirms
    <2>2. 1 \in 1..Len(answers) BY <2>1, EmptySeq, LenProperties
    <2>3. answers[1].arg \in 1..accepted BY <2>2 DEF RegInv, Numbered, Confirms
    <2> QED BY <2>3 DEF Value
  <1> QED BY <1>1, <1>2 DEF Fresh

(* The steps other than ProcessPacket and Reply, without a fault.          *)
LEMMA WriteStateFresh ==
  ASSUME HubInv, RegInv, Linked, Fresh, NEW bit \in Bits, NEW on \in BOOLEAN, write_state(bit, on)
  PROVE  Linked' /\ Fresh'
  <1>1. UNCHANGED <<hubVars, linkVars>> /\ UNCHANGED <<inverter, hold_regs_, payloads>>
    <2>1. CASE UNCHANGED <<vars, written>> BY <2>1 DEF write_state, vars
    <2>2. CASE queue_write BY <2>2 DEF write_state, queue_write
    <2> QED BY <2>1, <2>2 DEF write_state
  <1>2. UNCHANGED <<state_, sock_open, awaiting_, bank_idx_, initial_hold_done_, peer_open, asked, answers>>
    BY <1>1 DEF hubVars, linkVars
  <1>3. \A n \in 1..accepted : written'[n].value = written[n].value
    <2>1. CASE written' = written BY <2>1
    <2>2. ASSUME NEW w \in [bit : Bits, on : BOOLEAN, value : SUBSET Bits], written' = Append(written, w)
          PROVE  \A n \in 1..accepted : written'[n] = written[n]
      BY <2>2, AppendProperties DEF RegInv, RegTypeOK
    <2>3. WithBit(bit, on) \in SUBSET Bits BY DEF WithBit, RegInv, RegTypeOK
    <2>4. [bit |-> bit, on |-> on, value |-> WithBit(bit, on)] \in [bit : Bits, on : BOOLEAN, value : SUBSET Bits]
      BY <2>3
    <2>5. written' = written \/ written' = Append(written, [bit |-> bit, on |-> on, value |-> WithBit(bit, on)])
      BY DEF write_state
    <2> QED BY <2>1, <2>2, <2>4, <2>5
  <1>4. Linked' /\ (Known' <=> Known) BY <1>2 DEF Linked, Known
  <1> QED BY <1>1, <1>2, <1>3, <1>4, StillFresh

(* The dongle keeps the connection, so a pass does not close the socket.   *)
LEMMA ControlFresh ==
  ASSUME HubInv, MatchInv, RegInv, Linked, Fresh, Calm,
         StartConnect \/ ConnectDone \/ ConnectFails \/ Receive \/ FinishWaiting \/ reconnect \/ HangUp,
         inverter' \in {inverter} \cup Settled,
         payloads' = (IF answers' = <<>> THEN <<>> ELSE payloads),
         hold_regs_' = hold_regs_, written' = written
  PROVE  Linked' /\ Fresh'
  <1> USE DEF Online
  <1>1. ~ConnectFails /\ ~reconnect /\ ~HangUp BY DEF ConnectFails, reconnect, HangUp, Calm
  <1>2. /\ Linked'
        /\ asked' = asked /\ answers' = answers
        /\ initial_hold_done_' = initial_hold_done_ /\ bank_idx_' = bank_idx_
        /\ state_' = "POLLING_HOLD" => state_ = "POLLING_HOLD"
    <2>1. CASE StartConnect
      <3>1. asked = <<>> /\ answers = <<>> BY <2>1 DEF MatchInv, Outstanding, StartConnect
      <3>2. state_' = "CONNECTING" /\ sock_open' /\ asked' = <<>> /\ answers' = <<>> /\ awaiting_' = FALSE
            /\ initial_hold_done_' = initial_hold_done_ /\ bank_idx_' = bank_idx_
        BY <2>1 DEF StartConnect, Calm
      <3> QED BY <3>1, <3>2 DEF Linked
    <2>2. CASE ConnectDone
      <3>1. asked = <<>> /\ answers = <<>> BY <2>2 DEF MatchInv, Outstanding, ConnectDone
      <3>2. ~awaiting_ BY <3>1 DEF Linked
      <3> QED BY <2>2, <3>2 DEF ConnectDone, Linked
    <2>3. CASE Receive
      <3>1. ~(sock_open /\ ~peer_open /\ answers = <<>>) BY <2>3 DEF Receive, Linked
      <3>2. UNCHANGED <<state_, sock_open, awaiting_, linkVars, bank_idx_, initial_hold_done_>>
        BY <2>3, <3>1 DEF Receive
      <3>3. UNCHANGED <<peer_open, asked, answers>> BY <3>2 DEF linkVars
      <3> QED BY <3>2, <3>3 DEF Linked
    <2>4. CASE FinishWaiting
      <3>1. UNCHANGED <<state_, sock_open, awaiting_, bank_idx_, initial_hold_done_>> /\ UNCHANGED linkVars
        BY <2>4 DEF FinishWaiting
      <3>2. UNCHANGED <<peer_open, asked, answers>> BY <3>1 DEF linkVars
      <3> QED BY <3>1, <3>2 DEF Linked
    <2> QED BY <1>1, <2>1, <2>2, <2>3, <2>4
  <1>3. inverter' = inverter BY <1>2, NothingSettled
  <1>4. answers # <<>> => payloads' = payloads BY <1>2
  <1>5. Known' => Known BY <1>2 DEF Known
  <1> QED BY <1>2, <1>3, <1>4, <1>5, StillFresh

(* The switch at the end of a pass runs over a silent link; the response   *)
(* timeout does not strike.                                                *)
LEMMA FinishFresh ==
  ASSUME HubInv, MatchInv, RegInv, Linked, Fresh, Calm, FinishPass,
         inverter' \in {inverter} \cup Settled,
         hold_regs_' = hold_regs_
  PROVE  Linked' /\ Fresh'
  <1>1. ~awaiting_ /\ Dispatch(state_, bank_idx_, initial_hold_done_) BY DEF FinishPass
  <1>2. asked = <<>> /\ answers = <<>> BY <1>1 DEF MatchInv, Outstanding
  <1>3. TypeOK /\ bank_idx_ \in Nat /\ initial_hold_done_ \in BOOLEAN /\ state_ \in State
    BY DEF HubInv, TypeOK
  <1>4. state_ # "CONNECTING" BY <1>1 DEF Dispatch
  <1>5. state_ \in Online => sock_open /\ peer_open BY DEF Linked
  <1>6. /\ Linked' /\ answers' = <<>>
        /\ Known' => initial_hold_done_ \/ (state_ = "POLLING_HOLD" /\ RegBank < bank_idx_)
    BY <1>1, <1>2, <1>3, <1>4, <1>5, DispatchCalm
  <1>7. inverter' = inverter BY <1>2, NothingSettled
  <1>8. ~Confirms BY <1>2 DEF Confirms
  <1> QED BY <1>6, <1>7, <1>8 DEF Fresh, Known, Confirms

LEMMA NoTimeout ==
  ASSUME OnTime, HubInv, Linked
  PROVE  ~FinishTimedOut
  BY TimeoutFindsSilence DEF FinishTimedOut, Linked, HubInv

LEMMA CopyStep ==
  ASSUME OnTime, HubInv, MatchInv, RegInv, CopyInv, [RegNext]_allVars
  PROVE  CopyInv'
  <1>1. [Next]_vars BY RegStep DEF allVars
  <1>2. /\ fault_budget' <= MaxFaults
        /\ fault_budget' = MaxFaults => Calm /\ fault_budget = MaxFaults
    BY <1>1, WholeBudget
  <1> SUFFICES ASSUME fault_budget' = MaxFaults PROVE Linked' /\ Fresh' BY <1>2 DEF CopyInv
  <1>3. Calm /\ Linked /\ Fresh BY <1>2 DEF CopyInv
  <1>4. CASE \E bit \in Bits, on \in BOOLEAN : write_state(bit, on) BY <1>3, <1>4, WriteStateFresh
  <1>5. CASE RegReply BY <1>3, <1>5, ReplyFresh
  <1>6. CASE RegProcessPacket BY <1>3, <1>6, ProcessFresh
  <1>7. CASE RegFinishPass BY <1>3, <1>7, FinishFresh DEF RegFinishPass
  <1>8. CASE Quietly(FinishTimedOut) BY <1>3, <1>8, NoTimeout DEF Quietly
  <1>9. CASE \/ Quietly(StartConnect) \/ Quietly(ConnectDone) \/ Quietly(ConnectFails)
             \/ Quietly(Receive) \/ Quietly(FinishWaiting) \/ Quietly(reconnect) \/ Quietly(HangUp)
    <2>1. /\ StartConnect \/ ConnectDone \/ ConnectFails \/ Receive \/ FinishWaiting \/ reconnect \/ HangUp
          /\ inverter' \in {inverter} \cup Settled
          /\ payloads' = IF answers' = <<>> THEN <<>> ELSE payloads
          /\ hold_regs_' = hold_regs_ /\ written' = written
      BY <1>9 DEF Quietly
    <2> QED BY <1>3, <2>1, ControlFresh
  <1>10. CASE UNCHANGED allVars
    <2>1. UNCHANGED vars /\ UNCHANGED regVars /\ payloads' = payloads BY <1>10 DEF allVars
    <2>2. UNCHANGED hubVars /\ UNCHANGED linkVars BY <2>1 DEF vars
    <2>3. UNCHANGED <<state_, sock_open, awaiting_, bank_idx_, initial_hold_done_, peer_open, asked, answers>>
      BY <2>2 DEF hubVars, linkVars
    <2>4. inverter' = inverter /\ hold_regs_' = hold_regs_ /\ written' = written BY <2>1 DEF regVars
    <2>5. Linked' /\ (Known' <=> Known) BY <1>3, <2>3 DEF Linked, Known
    <2> QED BY <1>3, <2>1, <2>3, <2>4, <2>5, StillFresh
  <1> QED BY <1>4, <1>5, <1>6, <1>7, <1>8, <1>9, <1>10 DEF RegNext

LEMMA CopyInit == RegInit => CopyInv
  <1> SUFFICES ASSUME RegInit PROVE CopyInv OBVIOUS
  <1>1. Linked BY DEF RegInit, Init, Linked, Online
  <1>2. Fresh BY DEF RegInit, Init, Fresh, Known, Confirms
  <1>3. fault_budget <= MaxFaults BY BoundAssumption DEF RegInit, Init, BoundAssumption
  <1> QED BY <1>1, <1>2, <1>3 DEF CopyInv

(* process_read_hold_, process_write_single_: as long as nothing is lost,  *)
(* refused or late, the copy that the next switch will change a bit of is  *)
(* the inverter's register, whatever was written and queued in between.    *)
THEOREM CopyStaysCurrent == "late" \notin Faults => (RegSafetySpec => []CopyIsCurrent)
  <1> SUFFICES ASSUME OnTime PROVE RegSafetySpec => []CopyIsCurrent BY DEF OnTime
  <1>1. HubInv /\ CopyInv => CopyIsCurrent
    <2> SUFFICES ASSUME HubInv, CopyInv, fault_budget = MaxFaults, initial_hold_done_, InFlight = <<>>
                 PROVE  hold_regs_ = inverter
      BY DEF CopyIsCurrent
    <2>1. asked \in Seq(Answer) /\ answers \in Seq(Answer) BY RequestIsAnswer DEF HubInv, TypeOK
    <2>2. Len(asked) + Len(answers) = 0 BY <2>1, ConcatProperties, EmptySeq DEF InFlight
    <2>3. answers = <<>> BY <2>1, <2>2, EmptySeq, LenProperties
    <2> QED BY <2>3 DEF CopyInv, Fresh, Known, Confirms
  <1>2. HubInv /\ MatchInv /\ RegInv /\ CopyInv /\ [RegNext]_allVars => CopyInv'
    BY CopyStep
  <1>3. RegSafetySpec => []MatchInv BY SwitchesAreAPoller, MatchInvariant, PTL
  <1> QED BY <1>1, <1>2, <1>3, CopyInit, RegAlways, PTL DEF RegSafetySpec
=============================================================================
