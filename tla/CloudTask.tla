----------------------------- MODULE CloudTask -----------------------------
(***************************************************************************)
(* lux_cloud_task of lux_cloud.c: one task that keeps a connection to the  *)
(* cloud, receives, sends the queued writes, beats, and polls the register *)
(* banks, all holding registers first.                                     *)
(*                                                                         *)
(* Time passes while the task waits in recv(); what else takes time is     *)
(* short beside the periods.  The code keeps time stamps and subtracts     *)
(* them from `now', which it reads once a pass, before recv(): "since"     *)
(* holds these differences, each only as far as the code tells it apart.   *)
(* recv() gives whole frames: cutting them is FrameCutter's matter.        *)
(***************************************************************************)
EXTENDS Integers, Sequences, SequencesExt

CONSTANTS
  InputBanks, HoldBanks, (* INPUT_BANK_COUNT 5 and HOLD_BANK_COUNT 6       *)
  QueueLen,              (* of g_write_queue: 16 in the code               *)
  (* Times in units of five seconds: 6, 3, 1, 12 and 5 in the code.        *)
  RecvTimeout, Heartbeat, PollInput, PollHold, Settle,
  MaxFrames,             (* bound: frames that one recv() completes        *)
  MaxWrites              (* bound: writes that MQTT and the cloud ask for  *)

ASSUME CloudAssumption ==
  /\ {InputBanks, HoldBanks, QueueLen, RecvTimeout, Heartbeat, PollInput, PollHold, Settle}
       \subseteq Nat \ {0}
  /\ MaxFrames \in Nat /\ MaxWrites \in Nat

VARIABLES
  pc,                (* what the task does next; "connect": it has no socket *)
  bank,              (* i of the two polling loops                         *)
  link,              (* the connection works                               *)
  since,             (* now minus last_heartbeat, last_input_poll,         *)
                     (* last_hold_poll and battery_change_at_ms            *)
  late,              (* how long ago `now' was read                        *)
  initial_hold_done, hold_bank,
  g_write_queue,     (* writes for the inverter, from MQTT and the cloud   *)
  writes,            (* bound: how many were asked for                     *)
  quiet,             (* history: time since anything was sent              *)
  calm,              (* history: time since the battery type was changed on *)
                     (* this connection, as far as Settle                  *)
  changed,           (* history: it was changed in this pass               *)
  asked              (* history: hold banks asked for on this connection   *)

schedule == <<bank, since, late, initial_hold_done, hold_bank>>
queue    == <<g_write_queue, writes>>
history  == <<quiet, calm, changed, asked>>
vars     == <<pc, link, schedule, queue, history>>

Writes == {"single", "multi"}   (* "multi" changes the battery type        *)
Frames == {"other", "single", "multi"}
Batches == SeqOf(Frames, MaxFrames) \ {<<>>}

UpTo(time, top) == IF time < top THEN time ELSE top
MaxQuiet == Heartbeat - 1 + 2 * RecvTimeout

Init ==
  /\ pc = "connect" /\ link = FALSE
  /\ bank = 0 /\ late = 0
  /\ since = [beat |-> 0, input |-> PollInput, hold |-> PollHold, change |-> Settle]
  /\ initial_hold_done = FALSE /\ hold_bank = 0
  /\ g_write_queue = <<>> /\ writes = 0
  /\ quiet = 0 /\ calm = Settle /\ changed = FALSE /\ asked = {}

(* send() on a connection that broke fails, or does not know it yet.       *)
SendOk    == quiet' = 0
SendFails == ~link /\ UNCHANGED quiet

Close == pc' = "connect"

-----------------------------------------------------------------------------
ConnectForgetsToAsk ==
  /\ pc = "connect" /\ pc' = "greet" /\ link' = TRUE
  /\ since' = [beat |-> 0, input |-> PollInput, hold |-> PollHold, change |-> Settle]
  /\ late' = 0 /\ bank' = 0 /\ hold_bank' = 0
  /\ quiet' = 0 /\ calm' = Settle /\ changed' = FALSE /\ asked' = {}
  /\ UNCHANGED <<initial_hold_done, queue>>

(* cloud_connect, once the cloud can be reached.                           *)
Connect ==
  /\ pc = "connect" /\ pc' = "greet" /\ link' = TRUE
  /\ since' = [beat |-> 0, input |-> PollInput, hold |-> PollHold, change |-> Settle]
  /\ late' = 0 /\ bank' = 0
  /\ hold_bank' = 0 /\ initial_hold_done' = FALSE
  /\ quiet' = 0 /\ calm' = Settle /\ changed' = FALSE /\ asked' = {}
  /\ UNCHANGED queue

Greet ==
  /\ pc = "greet"
  /\ (SendOk /\ pc' = "recv") \/ (SendFails /\ Close)
  /\ UNCHANGED <<link, schedule, queue, calm, changed, asked>>

-----------------------------------------------------------------------------
(* cloud_process_frame: writes are queued and acknowledged, whether or not *)
(* the queue had room.  A single write off the whitelist is an "other".    *)
Queued(q, batch) ==
  LET after[n \in 0..Len(batch)] ==
        IF n = 0 THEN q
        ELSE IF batch[n] \in Writes /\ Len(after[n - 1]) < QueueLen
        THEN Append(after[n - 1], batch[n])
        ELSE after[n - 1]
  IN  after[Len(batch)]

WritesIn(batch) == Cardinality({n \in DOMAIN batch : batch[n] \in Writes})

(* cloud_recv_and_process returns after `waited': the socket's timeout is  *)
(* no failure.                                                             *)
Hears(batch, waited) ==
  /\ writes' = writes + WritesIn(batch) /\ writes' <= MaxWrites
  /\ g_write_queue' = Queued(g_write_queue, batch)
  /\ quiet' = IF WritesIn(batch) > 0 THEN 0 ELSE UpTo(quiet + waited, MaxQuiet + 1)
  /\ calm' = IF "multi" \in ToSet(batch) THEN 0 ELSE UpTo(calm + waited, Settle)

Arrivals(waited) == IF waited = RecvTimeout THEN {<<>>} ELSE Batches

(* `now' is read: every difference grows by what the last pass took.       *)
NextNow ==
  [beat   |-> UpTo(since.beat + late, Heartbeat),
   input  |-> UpTo(since.input + late, PollInput),
   hold   |-> UpTo(since.hold + late, PollHold),
   change |-> UpTo(since.change + late, Settle)]

(* A change in recv() is stamped with a later time than `now'.             *)
ReceivesAfter(waited) ==
  /\ pc = "recv" /\ pc' = "flush"
  /\ \E batch \in Arrivals(waited):
       /\ Hears(batch, waited)
       /\ changed' = ("multi" \in ToSet(batch))
       /\ since' = IF changed' THEN [NextNow EXCEPT !.change = -waited] ELSE NextNow
  /\ late' = waited
  /\ UNCHANGED <<link, bank, initial_hold_done, hold_bank, asked>>

Receives == \E waited \in 0..RecvTimeout: ReceivesAfter(waited)

ReceiveFails ==
  /\ pc = "recv" /\ ~link /\ Close
  /\ UNCHANGED <<link, schedule, queue, history>>

-----------------------------------------------------------------------------
FlushForgetsChange ==
  /\ pc = "flush" /\ g_write_queue # <<>>
  /\ g_write_queue' = Tail(g_write_queue)
  /\ SendOk \/ SendFails
  /\ IF Head(g_write_queue) = "multi"
     THEN calm' = 0 /\ changed' = TRUE
     ELSE UNCHANGED <<calm, changed>>
  /\ UNCHANGED <<pc, link, schedule, writes, asked>>

(* cloud_flush_write_queue: sent once, whatever send() says.               *)
Flush ==
  /\ pc = "flush" /\ g_write_queue # <<>>
  /\ g_write_queue' = Tail(g_write_queue)
  /\ SendOk \/ SendFails
  /\ IF Head(g_write_queue) = "multi"
     THEN since' = [since EXCEPT !.change = -late] /\ calm' = 0 /\ changed' = TRUE
     ELSE UNCHANGED <<since, calm, changed>>
  /\ UNCHANGED <<pc, link, bank, late, initial_hold_done, hold_bank, writes, asked>>

Flushed ==
  /\ pc = "flush" /\ g_write_queue = <<>> /\ pc' = "beat"
  /\ UNCHANGED <<link, schedule, queue, history>>

BeatPutsOff ==
  /\ pc = "beat"
  /\ IF since.beat < Heartbeat THEN pc' = "guard" /\ UNCHANGED quiet
     ELSE (SendOk /\ pc' = "guard") \/ (SendFails /\ Close)
  /\ since' = [since EXCEPT !.beat = 0]
  /\ UNCHANGED <<link, bank, late, initial_hold_done, hold_bank, queue, calm, changed, asked>>

Beat ==
  /\ pc = "beat"
  /\ IF since.beat < Heartbeat THEN pc' = "guard" /\ UNCHANGED <<since, quiet>>
     ELSE /\ since' = [since EXCEPT !.beat = 0]
          /\ (SendOk /\ pc' = "guard") \/ (SendFails /\ Close)
  /\ UNCHANGED <<link, bank, late, initial_hold_done, hold_bank, queue, calm, changed, asked>>

-----------------------------------------------------------------------------
(* Both time stamps are unsigned: a change after `now' seems long ago.     *)
battery_settling == since.change \in 0..(Settle - 1)

GuardRearms ==
  /\ pc = "guard"
  /\ pc' = IF battery_settling THEN "recv" ELSE IF initial_hold_done THEN "input" ELSE "initial"
  /\ since' = IF battery_settling THEN [since EXCEPT !.change = -late] ELSE since
  /\ UNCHANGED <<link, bank, late, initial_hold_done, hold_bank, queue, history>>

Guard ==
  /\ pc = "guard"
  /\ pc' = IF battery_settling THEN "recv" ELSE IF initial_hold_done THEN "input" ELSE "initial"
  /\ UNCHANGED <<link, schedule, queue, history>>

(* The initial hold poll, one bank a pass.                                 *)
InitialHold ==
  /\ pc = "initial"
  /\ \/ /\ SendOk /\ pc' = "recv"
        /\ asked' = asked \cup {hold_bank}
        /\ IF hold_bank + 1 >= HoldBanks
           THEN /\ hold_bank' = 0 /\ initial_hold_done' = TRUE
                /\ since' = [since EXCEPT !.hold = 0]
           ELSE /\ hold_bank' = hold_bank + 1
                /\ UNCHANGED <<initial_hold_done, since>>
     \/ SendFails /\ Close /\ UNCHANGED <<asked, hold_bank, initial_hold_done, since>>
  /\ UNCHANGED <<link, bank, late, queue, calm, changed>>

(* The two periodic polls: send, receive, next bank.  After a failed send  *)
(* the code goes on to the next poll without a socket, fails there as well *)
(* and connects again, which resets whatever it set meanwhile.             *)
Asks(loop, listening, banks, due) ==
  /\ pc = loop /\ due /\ bank < banks
  /\ \/ SendOk /\ pc' = listening
     \/ SendFails /\ Close
  /\ UNCHANGED <<link, schedule, queue, calm, changed, asked>>

(* The result of cloud_recv_and_process is not looked at here.             *)
Listens(listening, loop) ==
  /\ pc = listening /\ pc' = loop
  /\ bank' = bank + 1
  /\ \/ \E waited \in 0..RecvTimeout: \E batch \in Arrivals(waited):
          /\ Hears(batch, waited)
          /\ changed' = (changed \/ "multi" \in ToSet(batch))
          /\ late' = late + waited
          /\ since' = IF "multi" \in ToSet(batch) THEN [since EXCEPT !.change = -late'] ELSE since
     \/ ~link /\ UNCHANGED <<late, since, queue, quiet, calm, changed>>
  /\ UNCHANGED <<link, initial_hold_done, hold_bank, asked>>

InputDue == since.input >= PollInput
HoldDue  == since.hold >= PollHold

EndInput ==
  /\ pc = "input" /\ (~InputDue \/ bank = InputBanks)
  /\ pc' = "hold" /\ bank' = 0
  /\ since' = [since EXCEPT !.input = IF InputDue THEN 0 ELSE @]
  /\ UNCHANGED <<link, late, initial_hold_done, hold_bank, queue, history>>

EndHold ==
  /\ pc = "hold" /\ (~HoldDue \/ bank = HoldBanks)
  /\ pc' = "recv" /\ bank' = 0
  /\ since' = [since EXCEPT !.hold = IF HoldDue THEN 0 ELSE @]
  /\ UNCHANGED <<link, late, initial_hold_done, hold_bank, queue, history>>

PollsInput == Asks("input", "input_recv", InputBanks, InputDue) \/ Listens("input_recv", "input") \/ EndInput
PollsHold  == Asks("hold", "hold_recv", HoldBanks, HoldDue) \/ Listens("hold_recv", "hold") \/ EndHold

-----------------------------------------------------------------------------
(* handle_command of lux_mqtt.c, in another task.                          *)
MqttQueues ==
  /\ writes < MaxWrites /\ Len(g_write_queue) < QueueLen
  /\ \E w \in Writes: g_write_queue' = Append(g_write_queue, w)
  /\ writes' = writes + 1
  /\ UNCHANGED <<pc, link, schedule, history>>

(* The cloud or the network ends the connection.                           *)
Cut ==
  /\ link /\ link' = FALSE
  /\ UNCHANGED <<pc, schedule, queue, history>>

Task == \/ Connect \/ Greet \/ Receives \/ ReceiveFails \/ Flush \/ Flushed \/ Beat \/ Guard
        \/ InitialHold \/ PollsInput \/ PollsHold
Next == Task \/ MqttQueues \/ Cut

(* Time passes: recv() cannot return at once for ever.                     *)
TimePasses == \E waited \in 1..RecvTimeout: ReceivesAfter(waited)

SafetySpec == Init /\ [][Next]_vars
Spec       == SafetySpec /\ WF_vars(Task) /\ SF_vars(TimePasses)

-----------------------------------------------------------------------------
Stages == {"connect", "greet", "recv", "flush", "beat", "guard", "initial",
           "input", "input_recv", "hold", "hold_recv"}

(* The values that the variables take.                                     *)
TypeOK ==
  /\ pc \in Stages /\ link \in BOOLEAN /\ late \in Nat
  /\ bank \in 0..(InputBanks + HoldBanks) /\ hold_bank \in 0..(HoldBanks - 1)
  /\ since \in [beat: 0..Heartbeat, input: 0..PollInput, hold: 0..PollHold, change: Int]
  /\ -late <= since.change /\ since.change <= Settle
  /\ initial_hold_done \in BOOLEAN /\ changed \in BOOLEAN
  /\ g_write_queue \in Seq(Writes) /\ Len(g_write_queue) <= QueueLen
  /\ writes \in 0..MaxWrites
  /\ quiet \in 0..(MaxQuiet + 1) /\ calm \in 0..Settle
  /\ asked \subseteq 0..(HoldBanks - 1)

(* Inputs and holds are polled periodically on a connection only after all *)
(* the holding registers were asked for on that same connection.           *)
AllHoldsFirst == pc \in {"input", "input_recv", "hold", "hold_recv"} => asked = 0..(HoldBanks - 1)

(* "suppress poll for 25s" (lux_cloud.c:144) as far as it holds: after the *)
(* battery type was changed nothing is polled until Settle has passed, but *)
(* for the rest of the pass that saw the change.                           *)
PollsWait ==
  pc \in {"initial", "input", "input_recv", "hold", "hold_recv"} => calm >= Settle \/ changed

(* The connection is never silent for longer than MaxQuiet, 14 units of    *)
(* five seconds in the code, where a unit begun counts as none: less than  *)
(* 75 s.  The relay gives a connection up after 90 s without a byte.       *)
NeverSilent == pc # "connect" => quiet <= MaxQuiet

(* While the connection lasts the input registers are polled again and     *)
(* again, whatever was written and however often the connection broke.     *)
PollsForEver == <>[](link \/ pc = "connect") => []<>(pc = "input_recv")
=============================================================================
