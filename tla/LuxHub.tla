------------------------------- MODULE LuxHub -------------------------------
(***************************************************************************)
(* The poller of the ESPHome component: LuxpowerSNAComponent::loop(), its  *)
(* socket helpers, its write queue, and the Wi-Fi dongle at the other end  *)
(* of the TCP connection.                                                  *)
(*                                                                         *)
(* One pass of loop() over an established connection is try_recv_, then    *)
(* process_packet_ for every complete frame, then the response timeout     *)
(* and the switch on state_.  Home Assistant callbacks (queue_write,       *)
(* reconnect) run in the same main loop, never inside a pass: in_loop is   *)
(* TRUE while a pass is under way.  The dongle acts at any moment.         *)
(*                                                                         *)
(* Abstractions.  A request or an answer is its function and its bank (or  *)
(* its write's number).  A write is the number queue_write gave it, so     *)
(* that two equal (register, value) pairs stay distinct.  The millisecond  *)
(* timers are choices: a timer that may have expired may be found expired. *)
(* Heartbeat frames and frames with a bad CRC leave the poller's state     *)
(* alone and are left out; so is the configuration guard, whose inputs     *)
(* never change while a connection exists.                                 *)
(***************************************************************************)
EXTENDS Naturals, Sequences

CONSTANTS
  InputBanks,  (* banks of a READ_INPUT cycle: 5 in the code                *)
  HoldBanks,   (* banks of a READ_HOLD cycle: 6 in the code                 *)
  QueueMax,    (* LUX_WRITE_QUEUE_MAX: 20 in the code                       *)
  MaxWrites,   (* bound: how many writes the user queues                    *)
  MaxFaults,   (* bound: how many faults other than "late" happen           *)
  MaxLate,     (* bound: how many answers the dongle may be behind          *)
  Faults       (* the kinds of fault that may happen, of FaultKinds         *)

FaultKinds ==
  { "drop",        (* a request, or the answer to it, is lost               *)
    "refuse",      (* an exception or a short answer instead of the data    *)
    "late",        (* an answer that takes more than RESPONSE_TIMEOUT_MS    *)
    "hangup",      (* the dongle closes the connection                      *)
    "connect",     (* a connection attempt fails or takes more than 10 s    *)
    "read_send",   (* send() of a read request fails for good               *)
    "write_send",  (* send() of a write request fails for good              *)
    "reconnect" }  (* the user changes host, port or a serial               *)

ASSUME BankAssumption == InputBanks \in Nat \ {0} /\ HoldBanks \in Nat \ {0}
ASSUME QueueAssumption == QueueMax \in Nat \ {0}
ASSUME BoundAssumption == MaxWrites \in Nat /\ MaxFaults \in Nat /\ MaxLate \in Nat
ASSUME FaultAssumption == Faults \subseteq FaultKinds

VARIABLES
  state_,             (* State                                              *)
  sock_open,          (* sock_fd_ >= 0                                      *)
  awaiting_,          (* a request was sent and no answer processed since   *)
  bank_idx_,
  initial_hold_done_,
  write_queue_,       (* numbers of the writes not yet sent, oldest first   *)
  in_loop,            (* between try_recv_ and the end of a pass of loop()  *)
  peer_open,          (* the dongle's end of the connection is open         *)
  asked,              (* requests the dongle has not answered, oldest first *)
  answers,            (* answers not yet processed, oldest first            *)
  accepted,           (* how many writes queue_write has accepted           *)
  dispatched,         (* number of the last write popped and sent           *)
  misled,             (* history: the last frame processed met WRITING and  *)
                      (* was no confirmation                                *)
  hold_fate,          (* what became of each hold bank since reconnect()    *)
  fault_budget        (* faults that may still happen                       *)

hubVars   == <<state_, sock_open, awaiting_, bank_idx_, initial_hold_done_, in_loop>>
linkVars  == <<peer_open, asked, answers>>
writeVars == <<write_queue_, accepted, dispatched, misled>>
vars      == <<hubVars, linkVars, writeVars, hold_fate, fault_budget>>

Online == {"IDLE", "POLLING_INPUT", "POLLING_HOLD", "WRITING"}
State  == Online \cup {"DISCONNECTED", "CONNECTING"}
Bank   == 0..HoldBanks - 1

Request == [fn : {"input", "hold", "write"}, arg : Nat]
Answer  == Request \cup [fn : {"refused"}, arg : Nat]

Message(fn, arg) == [fn |-> fn, arg |-> arg]

InFlight == asked \o answers

Init ==
  /\ state_ = "DISCONNECTED"
  /\ sock_open = FALSE
  /\ awaiting_ = FALSE
  /\ bank_idx_ = 0
  /\ initial_hold_done_ = FALSE
  /\ in_loop = FALSE
  /\ peer_open = FALSE
  /\ asked = <<>>
  /\ answers = <<>>
  /\ write_queue_ = <<>>
  /\ accepted = 0
  /\ dispatched = 0
  /\ misled = FALSE
  /\ hold_fate = [b \in Bank |-> "unread"]
  /\ fault_budget = MaxFaults

Fault(kind) ==
  /\ kind \in Faults
  /\ fault_budget > 0
  /\ fault_budget' = fault_budget - 1

-----------------------------------------------------------------------------
(* The socket.                                                             *)

(* close_socket_ drops the descriptor and, with it, whatever was under way *)
(* in either direction.                                                    *)
DropLink ==
  /\ sock_open' = FALSE
  /\ peer_open' = FALSE
  /\ asked' = <<>>
  /\ answers' = <<>>

(* Mutant: the state is left as it was.                                    *)
close_socket_KeepsState ==
  /\ DropLink
  /\ awaiting_' = FALSE
  /\ UNCHANGED state_

close_socket_ ==
  /\ DropLink
  /\ awaiting_' = FALSE
  /\ state_' = "DISCONNECTED"

(* DISCONNECTED, ten seconds after the last attempt: start_connect_ closes *)
(* what is left of the old connection and begins a new one.                *)
StartConnect ==
  /\ ~in_loop
  /\ state_ = "DISCONNECTED"
  /\ \/ /\ sock_open' = TRUE
        /\ state_' = "CONNECTING"
        /\ peer_open' = FALSE
        /\ asked' = <<>>
        /\ answers' = <<>>
        /\ awaiting_' = FALSE
        /\ UNCHANGED fault_budget
     \/ /\ Fault("connect")
        /\ close_socket_
  /\ UNCHANGED <<bank_idx_, initial_hold_done_, in_loop, writeVars, hold_fate>>

(* check_connect_ finds the socket writable and without an error.          *)
ConnectDone ==
  /\ ~in_loop
  /\ state_ = "CONNECTING"
  /\ state_' = "IDLE"
  /\ peer_open' = TRUE
  /\ UNCHANGED <<sock_open, awaiting_, bank_idx_, initial_hold_done_, in_loop>>
  /\ UNCHANGED <<asked, answers, writeVars, hold_fate, fault_budget>>

(* check_connect_ finds an error, or ten seconds pass without an outcome.  *)
ConnectFails ==
  /\ ~in_loop
  /\ state_ = "CONNECTING"
  /\ Fault("connect")
  /\ close_socket_
  /\ UNCHANGED <<bank_idx_, initial_hold_done_, in_loop, writeVars, hold_fate>>

(* A pass over an established connection begins with try_recv_.  Only when *)
(* nothing is left to read does recv() report that the dongle hung up.     *)
Receive ==
  /\ ~in_loop
  /\ state_ \in Online
  /\ in_loop' = TRUE
  /\ IF sock_open /\ ~peer_open /\ answers = <<>>
     THEN close_socket_
     ELSE UNCHANGED <<state_, sock_open, awaiting_, linkVars>>
  /\ UNCHANGED <<bank_idx_, initial_hold_done_, writeVars, hold_fate, fault_budget>>

-----------------------------------------------------------------------------
(* process_packet_: one complete frame.  Nothing compares the answer with  *)
(* the request that is outstanding.                                        *)

ReadAnswer(a) ==
  /\ a.fn \in {"input", "hold"}
  /\ bank_idx_' = bank_idx_ + 1
  /\ hold_fate' = IF a.fn = "hold" THEN [hold_fate EXCEPT ![a.arg] = "read"] ELSE hold_fate
  /\ UNCHANGED state_

(* Mutant: a confirmation does not return the poller to IDLE.              *)
WriteAnswerStays(a) ==
  /\ a.fn = "write"
  /\ UNCHANGED <<state_, bank_idx_, hold_fate>>

(* process_write_single_ returns the poller to IDLE whatever it was doing. *)
WriteAnswer(a) ==
  /\ a.fn = "write"
  /\ state_' = "IDLE"
  /\ UNCHANGED <<bank_idx_, hold_fate>>

(* An exception falls through the switch; a short answer returns early.    *)
RefusedAnswer(a) ==
  /\ a.fn = "refused"
  /\ UNCHANGED <<state_, bank_idx_, hold_fate>>

ProcessPacket ==
  /\ in_loop
  /\ answers /= <<>>
  /\ answers' = Tail(answers)
  /\ awaiting_' = FALSE
  /\ ReadAnswer(Head(answers)) \/ WriteAnswer(Head(answers)) \/ RefusedAnswer(Head(answers))
  /\ misled' = (state_ = "WRITING" /\ Head(answers).fn /= "write")
  /\ UNCHANGED <<sock_open, initial_hold_done_, in_loop, peer_open, asked>>
  /\ UNCHANGED <<write_queue_, accepted, dispatched, fault_budget>>

-----------------------------------------------------------------------------
(* send_bytes_: without a socket it only returns -1; a hard error closes   *)
(* the socket; bytes sent to a dongle that has gone are lost.              *)

Delivered(req) ==
  /\ IF sock_open /\ peer_open THEN asked' = Append(asked, req) ELSE UNCHANGED asked
  /\ UNCHANGED <<sock_open, peer_open, answers>>

(* A read: the caller sets awaiting_ whether the send worked or not.       *)
SendRead(fn, bank, st) ==
  /\ awaiting_' = TRUE
  /\ bank_idx_' = bank
  /\ \/ /\ Delivered(Message(fn, bank))
        /\ state_' = st
        /\ UNCHANGED fault_budget
     \/ /\ sock_open /\ Fault("read_send")
        /\ DropLink
        /\ state_' = "DISCONNECTED"
  /\ UNCHANGED writeVars

(* Mutants: the command is not popped; the response timeout is not armed.  *)
SendWriteKeepsCommand(bank) ==
  /\ write_queue_ /= <<>>
  /\ dispatched' = Head(write_queue_)
  /\ Delivered(Message("write", Head(write_queue_)))
  /\ state_' = "WRITING"
  /\ awaiting_' = TRUE
  /\ bank_idx_' = bank
  /\ UNCHANGED <<write_queue_, accepted, misled, fault_budget>>

SendWriteUntimed(bank) ==
  /\ write_queue_ /= <<>>
  /\ write_queue_' = Tail(write_queue_)
  /\ dispatched' = Head(write_queue_)
  /\ Delivered(Message("write", Head(write_queue_)))
  /\ state_' = "WRITING"
  /\ UNCHANGED <<accepted, misled, awaiting_, fault_budget>>
  /\ bank_idx_' = bank

(* A write: the caller sets awaiting_ and state_ whether the send worked   *)
(* or not, over the DISCONNECTED that close_socket_ may have just set.     *)
SendWrite(bank) ==
  /\ write_queue_ /= <<>>
  /\ write_queue_' = Tail(write_queue_)
  /\ dispatched' = Head(write_queue_)
  /\ \/ Delivered(Message("write", Head(write_queue_))) /\ UNCHANGED fault_budget
     \/ sock_open /\ Fault("write_send") /\ DropLink
  /\ state_' = "WRITING"
  /\ awaiting_' = TRUE
  /\ bank_idx_' = bank
  /\ UNCHANGED <<accepted, misled>>

(* The switch moves to another state and sends nothing.                    *)
MoveTo(st, bank) ==
  /\ state_' = st
  /\ bank_idx_' = bank
  /\ awaiting_' = FALSE
  /\ UNCHANGED <<sock_open, linkVars, writeVars, fault_budget>>

(* Mutant: the bank is not reset when a cycle starts.                      *)
IdleStepKeepsBank(bank, done) ==
  \/ SendWrite(bank)
  \/ /\ write_queue_ = <<>>
     /\ MoveTo(IF done THEN "POLLING_INPUT" ELSE "POLLING_HOLD", bank)

(* IDLE: writes first, then the first hold cycle, then the cycle whose     *)
(* interval has elapsed, the input cycle before the hold cycle.            *)
IdleStep(bank, done) ==
  \/ SendWrite(bank)
  \/ /\ write_queue_ = <<>>
     /\ ~done
     /\ MoveTo("POLLING_HOLD", 0)
  \/ /\ write_queue_ = <<>>
     /\ done
     /\ MoveTo("IDLE", bank) \/ MoveTo("POLLING_INPUT", 0) \/ MoveTo("POLLING_HOLD", 0)

(* The switch on state_ at the end of a pass, on the state, bank and       *)
(* initial_hold_done_ the pass has come to.                                *)
Dispatch(st, bank, done) ==
  \/ /\ st = "IDLE"
     /\ IdleStep(bank, done)
     /\ initial_hold_done_' = done
  \/ /\ st = "POLLING_INPUT"
     /\ IF bank < InputBanks THEN SendRead("input", bank, st) ELSE MoveTo("IDLE", bank)
     /\ initial_hold_done_' = done
  \/ /\ st = "POLLING_HOLD"
     /\ IF bank < HoldBanks THEN SendRead("hold", bank, st) ELSE MoveTo("IDLE", bank)
     /\ initial_hold_done_' = (done \/ bank >= HoldBanks)
  \/ /\ st \in {"WRITING", "DISCONNECTED"}
     /\ MoveTo(st, bank)
     /\ initial_hold_done_' = done

(* Mutant: without "if (awaiting_) return".                                *)
FinishPassAnyway ==
  /\ in_loop
  /\ Dispatch(state_, bank_idx_, initial_hold_done_)
  /\ in_loop' = FALSE
  /\ UNCHANGED hold_fate

(* A pass with no request outstanding.                                     *)
FinishPass ==
  /\ in_loop
  /\ ~awaiting_
  /\ Dispatch(state_, bank_idx_, initial_hold_done_)
  /\ in_loop' = FALSE
  /\ UNCHANGED hold_fate

(* A pass that leaves at "if (awaiting_) return".                          *)
FinishWaiting ==
  /\ in_loop
  /\ awaiting_
  /\ in_loop' = FALSE
  /\ UNCHANGED <<state_, sock_open, awaiting_, bank_idx_, initial_hold_done_>>
  /\ UNCHANGED <<linkVars, writeVars, hold_fate, fault_budget>>

(* Mutant: the response timeout forgets WRITING.                           *)
StateAfterTimeoutKeepsWriting ==
  IF \/ state_ = "POLLING_INPUT" /\ bank_idx_ + 1 >= InputBanks
     \/ state_ = "POLLING_HOLD" /\ bank_idx_ + 1 >= HoldBanks
  THEN "IDLE"
  ELSE state_

(* The state the response timeout leaves behind, before the switch.        *)
StateAfterTimeout ==
  IF \/ state_ = "POLLING_INPUT" /\ bank_idx_ + 1 >= InputBanks
     \/ state_ = "POLLING_HOLD" /\ bank_idx_ + 1 >= HoldBanks
     \/ state_ = "WRITING"
  THEN "IDLE"
  ELSE state_

(* A pass that gives up on the outstanding request: the answer is lost or, *)
(* with the fault "late", still to come.  The bank is skipped, and the     *)
(* switch runs in the same pass.                                           *)
FinishTimedOut ==
  /\ in_loop
  /\ awaiting_
  /\ InFlight = <<>> \/ ("late" \in Faults /\ Len(InFlight) < MaxLate)
  /\ LET last == state_ = "POLLING_HOLD" /\ bank_idx_ + 1 >= HoldBanks
     IN  Dispatch(StateAfterTimeout, bank_idx_ + 1, initial_hold_done_ \/ last)
  /\ hold_fate' = IF state_ = "POLLING_HOLD" /\ bank_idx_ \in Bank
                  THEN [hold_fate EXCEPT ![bank_idx_] = IF @ = "unread" THEN "skipped" ELSE @]
                  ELSE hold_fate
  /\ in_loop' = FALSE

-----------------------------------------------------------------------------
(* Home Assistant callbacks, between two passes.                           *)

(* Mutant: the bound is one too high.                                      *)
queue_writeOneMore ==
  /\ ~in_loop
  /\ accepted < MaxWrites
  /\ Len(write_queue_) <= QueueMax
  /\ write_queue_' = Append(write_queue_, accepted + 1)
  /\ accepted' = accepted + 1
  /\ UNCHANGED <<hubVars, linkVars, dispatched, misled, hold_fate, fault_budget>>

(* queue_write, from a switch, a number, a time or a button.               *)
queue_write ==
  /\ ~in_loop
  /\ accepted < MaxWrites
  /\ Len(write_queue_) < QueueMax
  /\ write_queue_' = Append(write_queue_, accepted + 1)
  /\ accepted' = accepted + 1
  /\ UNCHANGED <<hubVars, linkVars, dispatched, misled, hold_fate, fault_budget>>

(* reconnect, after the host, the port or a serial changed.  The write     *)
(* queue is not touched.                                                   *)
reconnect ==
  /\ ~in_loop
  /\ Fault("reconnect")
  /\ close_socket_
  /\ initial_hold_done_' = FALSE
  /\ hold_fate' = [b \in Bank |-> "unread"]
  /\ UNCHANGED <<bank_idx_, in_loop, writeVars>>

-----------------------------------------------------------------------------
(* The dongle.  TCP neither reorders nor repeats; the dongle answers       *)
(* requests in the order it gets them, or loses them, or refuses them.     *)

Reply ==
  /\ asked /= <<>>
  /\ asked' = Tail(asked)
  /\ \/ answers' = Append(answers, Head(asked)) /\ UNCHANGED fault_budget
     \/ answers' = Append(answers, Message("refused", Head(asked).arg)) /\ Fault("refuse")
     \/ UNCHANGED answers /\ Fault("drop")
  /\ UNCHANGED <<hubVars, peer_open, writeVars, hold_fate>>

(* The dongle closes the connection, whatever it had still to answer.      *)
HangUp ==
  /\ peer_open
  /\ Fault("hangup")
  /\ peer_open' = FALSE
  /\ asked' = <<>>
  /\ UNCHANGED <<hubVars, answers, writeVars, hold_fate>>

-----------------------------------------------------------------------------
Next ==
  \/ StartConnect
  \/ ConnectDone
  \/ ConnectFails
  \/ Receive
  \/ ProcessPacket
  \/ FinishPass
  \/ FinishWaiting
  \/ FinishTimedOut
  \/ queue_write
  \/ reconnect
  \/ Reply
  \/ HangUp

(* loop() is called for ever and every pass ends.  Each pass reads what    *)
(* has arrived and compares the clock with req_sent_ms_, so an answer that *)
(* is there is processed, and a timeout that is due is taken, although     *)
(* FinishWaiting disables both between two passes: strong fairness.  The   *)
(* input interval elapses again and again, and stays due until the switch  *)
(* takes it, in a pass that timed out or in another.  A dongle that keeps  *)
(* the connection deals with a request in the end.                         *)
Fairness ==
  /\ WF_vars(StartConnect)
  /\ WF_vars(ConnectDone)
  /\ WF_vars(Receive)
  /\ SF_vars(ProcessPacket)
  /\ WF_vars(FinishPass)
  /\ SF_vars((FinishPass \/ FinishTimedOut) /\ state_' = "POLLING_INPUT")
  /\ WF_vars(FinishWaiting)
  /\ SF_vars(FinishTimedOut)
  /\ WF_vars(Reply)

SafetySpec == Init /\ [][Next]_vars
Spec == SafetySpec /\ Fairness

-----------------------------------------------------------------------------
(* Types, and the bound queue_write keeps: the queue never holds more than *)
(* LUX_WRITE_QUEUE_MAX writes (luxpower_sna.cpp:548).                      *)
TypeOK ==
  /\ state_ \in State
  /\ sock_open \in BOOLEAN
  /\ awaiting_ \in BOOLEAN
  /\ bank_idx_ \in Nat
  /\ initial_hold_done_ \in BOOLEAN
  /\ write_queue_ \in Seq(Nat)
  /\ Len(write_queue_) <= QueueMax
  /\ in_loop \in BOOLEAN
  /\ peer_open \in BOOLEAN
  /\ asked \in Seq(Request)
  /\ answers \in Seq(Answer)
  /\ accepted \in Nat
  /\ dispatched \in Nat
  /\ misled \in BOOLEAN
  /\ hold_fate \in [Bank -> {"unread", "read", "skipped"}]
  /\ fault_budget \in Nat

(* Accepted writes are sent exactly once and in the order they were made,  *)
(* across timeouts, hang-ups and reconnections: the queue holds precisely  *)
(* the writes between the last one sent and the last one accepted.         *)
WritesInOrder ==
  write_queue_ = [i \in 1..accepted - dispatched |-> dispatched + i]

(* The request m is the one the state machine stands at.                   *)
Matches(m) ==
  /\ m.fn = "input" => state_ = "POLLING_INPUT" /\ m.arg = bank_idx_
  /\ m.fn = "hold" => state_ = "POLLING_HOLD" /\ m.arg = bank_idx_
  /\ m.fn = "write" => state_ = "WRITING" /\ m.arg = dispatched

(* While the dongle answers within RESPONSE_TIMEOUT_MS or not at all, the  *)
(* poller is half-duplex: at most one request is under way, awaiting_ says *)
(* so, and the answer to come is for the very bank or write the state      *)
(* machine stands at, although process_packet_ never compares the two.     *)
AnswerMatches ==
  InFlight /= <<>> => Len(InFlight) = 1 /\ awaiting_ /\ Matches(InFlight[1])

(* initial_hold_done_, which lets the switch go on to input polling, is    *)
(* set only when each hold bank has been read since the last reconnect()   *)
(* or its request has timed out.                                           *)
HoldDoneIsHonest ==
  initial_hold_done_ => \A b \in Bank : hold_fate[b] /= "unread"

(* A poller that waits for a write's confirmation is one the response      *)
(* timeout can still free: nothing else leaves WRITING when the            *)
(* confirmation is lost.                                                   *)
WritingIsTimed == state_ = "WRITING" => awaiting_

(* close_socket_'s promise to loop(): without a socket the state is        *)
(* DISCONNECTED, which is the only state that opens another.               *)
NoSocketMeansDisconnected == ~sock_open => state_ = "DISCONNECTED"

(* A lost connection is retried: whenever there is no socket, one is       *)
(* opened later ("reconnects on connection drop with 10 s retry").         *)
Reconnects == ~sock_open ~> sock_open

(* A write under way ends: it is confirmed, times out, or the connection   *)
(* is found broken.                                                        *)
WritingEnds == (state_ = "WRITING") ~> (state_ /= "WRITING")

(* The inverter is polled for ever ("update_interval: 20s  # READ_INPUT    *)
(* polling interval"): there is always another input cycle.                *)
InputIsPolled == []<>(state_ = "POLLING_INPUT")

(* Any answer stops the response timer, but only a confirmation leaves     *)
(* WRITING (luxpower_sna.cpp:438, 466).                                    *)
Stranded == state_ = "WRITING" /\ ~awaiting_ /\ misled

(* Nothing else stops the polling for good, and that only until the        *)
(* connection breaks: late answers, exceptions, requests and connections   *)
(* that are lost do not, wherever else they meet the poller.               *)
PollsUnlessStranded == []<>(state_ = "POLLING_INPUT") \/ <>[]Stranded

(* The poller implements the write service: however the connection fares,  *)
(* it only ever accepts within the bound, and sends the next write due.    *)
Service == INSTANCE WriteService
             WITH Capacity <- QueueMax, Limit <- MaxWrites, taken <- accepted, sent <- dispatched
ServesWrites == Service!Spec
=============================================================================
