----------------------------- MODULE HoldWrites -----------------------------
(***************************************************************************)
(* The switches of one holding register, on top of the poller: the         *)
(* inverter's register, the component's cached copy of it (hold_regs_),    *)
(* and what the switch entities show.  Every action is an action of LuxHub *)
(* together with what it does to these.                                    *)
(*                                                                         *)
(* A register value is the set of its bits that are on; each switch owns   *)
(* one bit, as the switches of register 21 do.                             *)
(***************************************************************************)
EXTENDS LuxHub

CONSTANTS
  Bits,        (* the bits of the register, one switch each                 *)
  RegBank      (* the hold bank the register is in                          *)

ASSUME RegisterAssumption == RegBank \in 0..HoldBanks - 1

VARIABLES
  inverter,    (* the register in the inverter                              *)
  hold_regs_,  (* the component's copy                                      *)
  shown,       (* the switches that show "on"                               *)
  written,     (* what each accepted write asked for: bit, on, value        *)
  payloads     (* the register as each of answers carries it                *)

regVars == <<inverter, hold_regs_, shown, written>>
allVars == <<vars, regVars, payloads>>

RegInit ==
  /\ Init
  /\ inverter \in SUBSET Bits
  /\ hold_regs_ = {}
  /\ shown = {}
  /\ written = <<>>
  /\ payloads = <<>>

(* What the write a request or an answer stands for sets the register to.  *)
Value(m) == written[m.arg].value

(* A request that vanishes with the connection may still have reached the  *)
(* inverter.                                                               *)
Settled ==
  IF asked' = <<>> THEN {Value(asked[i]) : i \in {j \in DOMAIN asked : asked[j].fn = "write"}} ELSE {}

(* The steps that leave copy and switches alone.                           *)
Quietly(Step) ==
  /\ Step
  /\ inverter' \in {inverter} \cup Settled
  /\ payloads' = IF answers' = <<>> THEN <<>> ELSE payloads
  /\ UNCHANGED <<hold_regs_, shown, written>>

(* The value a switch writes: the cached register with its own bit changed.*)
WithBit(bit, on) == IF on THEN hold_regs_ \cup {bit} ELSE hold_regs_ \ {bit}

(* Mutant: a dropped command is taken for a queued one.                    *)
write_stateUnaware(bit, on) ==
  /\ shown' = IF on THEN shown \cup {bit} ELSE shown \ {bit}
  /\ queue_write \/ (~in_loop /\ Len(write_queue_) >= QueueMax /\ UNCHANGED vars)
  /\ accepted < MaxWrites
  /\ written' = Append(written, [bit |-> bit, on |-> on, value |-> WithBit(bit, on)])
  /\ UNCHANGED <<inverter, hold_regs_, payloads>>

(* write_state: the switch shows its new state whether queue_write took    *)
(* the command or dropped it.                                              *)
write_state(bit, on) ==
  /\ shown' = IF on THEN shown \cup {bit} ELSE shown \ {bit}
  /\ \/ /\ queue_write
        /\ written' = Append(written, [bit |-> bit, on |-> on, value |-> WithBit(bit, on)])
     \/ /\ ~in_loop
        /\ accepted < MaxWrites
        /\ Len(write_queue_) >= QueueMax
        /\ UNCHANGED <<vars, written>>
  /\ UNCHANGED <<inverter, hold_regs_, payloads>>

(* The inverter carries out a write; a lost one it may or may not have     *)
(* seen, a refused one it has not.                                         *)
RegReply ==
  /\ Reply
  /\ LET m       == Head(asked)
         refused == answers' /= answers /\ answers'[Len(answers')].fn = "refused"
         lost    == answers' = answers
     IN  inverter' \in (IF m.fn = "write" /\ ~refused THEN {Value(m)} ELSE {inverter})
                       \cup (IF lost THEN {inverter} ELSE {})
  /\ payloads' = IF answers' = answers THEN payloads ELSE Append(payloads, inverter')
  /\ UNCHANGED <<hold_regs_, shown, written>>

(* Mutant: a confirmed write does not reach the cache.                     *)
CopyForgetsWrites(a) ==
  IF a.fn = "hold" /\ a.arg = RegBank THEN Head(payloads) ELSE hold_regs_

(* process_read_hold_ and process_write_single_: the copy after answer a.  *)
Copy(a) ==
  IF a.fn = "write" THEN Value(a)
  ELSE IF a.fn = "hold" /\ a.arg = RegBank THEN Head(payloads)
  ELSE hold_regs_

(* Only a confirmed write notifies the entities at once.                   *)
RegProcessPacket ==
  /\ ProcessPacket
  /\ hold_regs_' = Copy(Head(answers))
  /\ shown' = IF Head(answers).fn = "write" THEN hold_regs_' ELSE shown
  /\ payloads' = Tail(payloads)
  /\ UNCHANGED <<inverter, written>>

(* Mutant: the end of a hold cycle does not notify the entities.           *)
NotifyNever == UNCHANGED shown

(* The end of a hold cycle notifies every entity.                          *)
Notify ==
  shown' = IF state_ = "POLLING_HOLD" /\ bank_idx_ >= HoldBanks THEN hold_regs_ ELSE shown

RegFinishPass ==
  /\ FinishPass
  /\ Notify
  /\ inverter' \in {inverter} \cup Settled
  /\ payloads' = IF answers' = <<>> THEN <<>> ELSE payloads
  /\ UNCHANGED <<hold_regs_, written>>

RegNext ==
  \/ \E bit \in Bits, on \in BOOLEAN : write_state(bit, on)
  \/ RegReply
  \/ RegProcessPacket
  \/ RegFinishPass
  \/ Quietly(StartConnect)
  \/ Quietly(ConnectDone)
  \/ Quietly(ConnectFails)
  \/ Quietly(Receive)
  \/ Quietly(FinishWaiting)
  \/ Quietly(FinishTimedOut)
  \/ Quietly(reconnect)
  \/ Quietly(HangUp)

(* As for LuxHub; the hold interval, too, elapses again and again, and an  *)
(* input cycle without lost answers is over before the next one is due.    *)
RegFairness ==
  /\ WF_allVars(Quietly(StartConnect))
  /\ WF_allVars(Quietly(ConnectDone))
  /\ WF_allVars(Quietly(Receive))
  /\ SF_allVars(RegProcessPacket)
  /\ WF_allVars(RegFinishPass)
  /\ SF_allVars((RegFinishPass \/ Quietly(FinishTimedOut)) /\ state_' = "POLLING_INPUT")
  /\ SF_allVars((RegFinishPass \/ Quietly(FinishTimedOut)) /\ state_' = "POLLING_HOLD")
  /\ WF_allVars(Quietly(FinishWaiting))
  /\ SF_allVars(Quietly(FinishTimedOut))
  /\ WF_allVars(RegReply)

RegSafetySpec == RegInit /\ [][RegNext]_allVars
RegSpec == RegSafetySpec /\ RegFairness

-----------------------------------------------------------------------------
(* Types; each answer has its payload, each accepted write its value.      *)
RegTypeOK ==
  /\ inverter \in SUBSET Bits
  /\ hold_regs_ \in SUBSET Bits
  /\ shown \in SUBSET Bits
  /\ written \in Seq([bit : Bits, on : BOOLEAN, value : SUBSET Bits])
  /\ Len(written) = accepted
  /\ Len(payloads) = Len(answers)

(* Without faults the copy is the register whenever nothing is under way:  *)
(* the first hold cycle fills it and each confirmation keeps it up to date.*)
CopyIsCurrent ==
  fault_budget = MaxFaults /\ initial_hold_done_ /\ InFlight = <<>> => hold_regs_ = inverter

(* Whatever was lost, refused or dropped from a full queue, the switches   *)
(* show the inverter's true register in the end: a later hold cycle        *)
(* corrects what write_state showed too early.  That is, unless there is   *)
(* no later one, because the poller is stuck in WRITING (Stranded) or has  *)
(* lost its socket for good, and as long as the dongle does not answer too *)
(* late for ever: a hold cycle that ends by a timeout notifies nobody      *)
(* (luxpower_sna.cpp:184).                                                 *)
SwitchesBecomeHonest ==
  []<>(sock_open /\ state_ = "POLLING_HOLD") => <>[](shown = inverter)

(* "Write support - switches ... to control the inverter" (README.md:16):  *)
(* once every write is through, without any fault, a switch's bit is what  *)
(* the switch was last set to, also when several were used in a row.       *)
SwitchesAreObeyed ==
  fault_budget = MaxFaults /\ write_queue_ = <<>> /\ state_ = "IDLE" =>
    \A n \in 1..accepted :
      (\A m \in n + 1..accepted : written[m].bit /= written[n].bit)
        => ((written[n].bit \in inverter) <=> written[n].on)
=============================================================================
