------------------------------ MODULE LuxScan ------------------------------
(***************************************************************************)
(* "Scan Dongle IP": the scan task of the ESPHome component, the part of   *)
(* loop() that supervises it and applies what it found, and the ways the   *)
(* dongle's address gets into the component, across reboots.               *)
(*                                                                         *)
(* The main loop (loop(), the button, the YAML callbacks) and the FreeRTOS *)
(* task share the scanning_ ... found_ip_buf_ members without a lock; each *)
(* action here is what one of them does between two accesses the other may *)
(* observe.  A pass of loop() is LoopStart, Watchdog, Pickup and then      *)
(* Result or Rest; the button and the YAML callbacks run between passes.   *)
(*                                                                         *)
(* Time.  Only ages are kept: hb_age ticks since the last heartbeat,       *)
(* now_age ticks since the pass in progress called millis().  A tick is    *)
(* any time that lets millis() advance.  While a task lives the heartbeat  *)
(* is pulsed every MaxQuiet ticks (the longest wait is a probe, 2.3 s).      *)
(*                                                                         *)
(* Addresses are last octets.  The text entity and the global g_lux_host   *)
(* of luxpower_package.yaml always hold the same address: ui_host.         *)
(***************************************************************************)
EXTENDS Integers, FiniteSets

CONSTANTS
  Tasks,        (* task slots: how many scan tasks may be alive at once     *)
  LastOctet,    (* last address of the sweep: 254 in the code               *)
  Self,         (* this device's own address, never probed                  *)
  Dongle,       (* the one address at which our dongle answers              *)
  Typed,        (* bound: the addresses the user types                      *)
  Batch,        (* LUX_SCAN_BATCH: 6 in the code                            *)
  MaxStarved,   (* rounds without a socket before giving up: 100            *)
  MaxQuiet,     (* longest silence of a live task, in ticks                 *)
  Stall,        (* SCAN_STALL_MS, in ticks                                  *)
  Wrap          (* uint32_t: 2^32 in the code                               *)

ASSUME ScanAssumption ==
  /\ LastOctet \in Nat \ {0}
  /\ Self \in 0..LastOctet
  /\ Dongle \in 1..LastOctet
  /\ Typed \subseteq 1..LastOctet
  /\ Batch \in Nat \ {0}
  /\ MaxStarved \in Nat
ASSUME TimeAssumption ==
  /\ MaxQuiet \in Nat /\ Stall \in Nat /\ Wrap \in Nat
  /\ MaxQuiet <= Stall /\ Stall + MaxQuiet < Wrap

VARIABLES
  scanning_, scan_result_pending_, scan_found_, scan_abort_,
  found_ip_buf_,
  deferred_apply_, deferred_ip_,
  status,       (* what scan_status_text shows                              *)
  hb_age,       (* ticks since scan_heartbeat_ms_ was set                   *)
  loop_pc,      (* where the main loop stands                               *)
  now_age,      (* ticks since loop() read the clock                        *)
  task,         (* the scan tasks                                           *)
  socket,       (* the address the poller's socket is for                   *)
  host_,
  nvs_host,     (* the address stored under LUX_HOST_PREF_KEY               *)
  serials,      (* the hub has both serials                                 *)
  ui_host,      (* what the text entity and g_lux_host hold, in flash       *)
  stalled,      (* history: the watchdog has fired since the last boot      *)
  edited        (* history: host_ was set by the user during the scan       *)

flagVars == <<scanning_, scan_result_pending_, scan_found_, scan_abort_, found_ip_buf_>>
loopVars == <<deferred_apply_, deferred_ip_, loop_pc, now_age>>
hostVars == <<host_, nvs_host, serials, ui_host>>
vars == <<flagVars, loopVars, hostVars, status, hb_age, task, socket, stalled, edited>>

NoHost == 0
Octet  == 1..LastOctet
Host   == Octet \cup {NoHost}

NoTask == [pc |-> "none", next |-> 1, cand |-> {}, probing |-> NoHost, starved |-> 0]
Live(t) == task[t].pc /= "none"

is_config_ready == host_ /= NoHost /\ serials

Init ==
  /\ scanning_ = FALSE
  /\ scan_result_pending_ = FALSE
  /\ scan_found_ = FALSE
  /\ scan_abort_ = FALSE
  /\ found_ip_buf_ = NoHost
  /\ deferred_apply_ = FALSE
  /\ deferred_ip_ = NoHost
  /\ status = "Unknown"
  /\ hb_age = 0
  /\ loop_pc = "out"
  /\ now_age = 0
  /\ task = [t \in Tasks |-> NoTask]
  /\ socket = NoHost
  /\ host_ = NoHost
  /\ nvs_host = NoHost
  /\ serials = FALSE
  /\ ui_host = NoHost
  /\ stalled = FALSE
  /\ edited = FALSE

-----------------------------------------------------------------------------
(* The address.                                                            *)

(* Mutant: the address is not written to NVS.                              *)
set_hostUnsaved(h) == host_' = h /\ UNCHANGED nvs_host

(* set_host, and save_host_prefs_ of an address that is not empty.         *)
set_host(h) ==
  /\ host_' = h
  /\ nvs_host' = IF h = NoHost THEN nvs_host ELSE h

(* The text entity's on_value: a typed address goes to g_lux_host and to   *)
(* the hub, which reconnects if it knows the serials.                      *)
TypeHost ==
  /\ loop_pc = "out"
  /\ \E h \in Typed : ui_host' = h /\ set_host(h)
  /\ socket' = IF serials THEN NoHost ELSE socket
  /\ edited' = (edited \/ scanning_)
  /\ UNCHANGED <<flagVars, loopVars, serials, status, hb_age, task, stalled>>

(* The serials' on_value: ten characters go to the hub.                    *)
TypeSerials ==
  /\ loop_pc = "out"
  /\ serials' = TRUE
  /\ socket' = IF host_ /= NoHost THEN NoHost ELSE socket
  /\ UNCHANGED <<flagVars, loopVars, host_, nvs_host, ui_host, status, hb_age, task, stalled, edited>>

(* The five-second interval: an incomplete configuration is filled in from *)
(* what was restored, the address included, the serials if there are any.  *)
PushConfig ==
  /\ loop_pc = "out"
  /\ ~is_config_ready
  /\ IF ui_host /= NoHost THEN set_host(ui_host) ELSE UNCHANGED <<host_, nvs_host>>
  /\ serials' \in {serials, TRUE}
  /\ socket' = IF host_' /= NoHost /\ serials' THEN NoHost ELSE socket
  /\ UNCHANGED <<flagVars, loopVars, ui_host, status, hb_age, task, stalled, edited>>

(* A restart: RAM is lost, setup() loads the address from NVS.             *)
Reboot ==
  /\ host_' = nvs_host
  /\ serials' = FALSE
  /\ scanning_' = FALSE
  /\ scan_result_pending_' = FALSE
  /\ scan_found_' = FALSE
  /\ scan_abort_' = FALSE
  /\ found_ip_buf_' = NoHost
  /\ deferred_apply_' = FALSE
  /\ deferred_ip_' = NoHost
  /\ status' = "Unknown"
  /\ hb_age' = 0
  /\ loop_pc' = "out"
  /\ now_age' = 0
  /\ task' = [t \in Tasks |-> NoTask]
  /\ socket' = NoHost
  /\ stalled' = FALSE
  /\ edited' = FALSE
  /\ UNCHANGED <<nvs_host, ui_host>>

-----------------------------------------------------------------------------
(* The button.                                                             *)

(* Mutant: a scan in progress is not noticed.                              *)
action_scan_dongleAgain ==
  /\ loop_pc = "out"
  /\ serials
  /\ \E t \in Tasks : ~Live(t) /\ task' = [task EXCEPT ![t] = [NoTask EXCEPT !.pc = "created"]]
  /\ scanning_' = TRUE
  /\ scan_result_pending_' = FALSE
  /\ scan_found_' = FALSE
  /\ scan_abort_' = FALSE
  /\ found_ip_buf_' = NoHost
  /\ deferred_apply_' = FALSE
  /\ status' = "Scanning"
  /\ hb_age' = 0
  /\ socket' = NoHost
  /\ edited' = FALSE
  /\ UNCHANGED <<deferred_ip_, loop_pc, now_age, hostVars, stalled>>

(* A press is ignored during a scan; else the poller's socket is closed,   *)
(* the shared members are reset and a task is created, which may fail.     *)
action_scan_dongle ==
  /\ loop_pc = "out"
  /\ ~scanning_
  /\ serials
  /\ \/ /\ \E t \in Tasks : ~Live(t) /\ task' = [task EXCEPT ![t] = [NoTask EXCEPT !.pc = "created"]]
        /\ scanning_' = TRUE
        /\ status' = "Scanning"
     \/ /\ scanning_' = FALSE
        /\ status' = "Error: task create failed"
        /\ UNCHANGED task
  /\ scan_abort_' = FALSE
  /\ scan_result_pending_' = FALSE
  /\ scan_found_' = FALSE
  /\ found_ip_buf_' = NoHost
  /\ deferred_apply_' = FALSE
  /\ hb_age' = 0
  /\ socket' = NoHost
  /\ edited' = FALSE
  /\ UNCHANGED <<deferred_ip_, loop_pc, now_age, hostVars, stalled>>

(* A press without both serials only says so.                              *)
ScanRefused ==
  /\ loop_pc = "out"
  /\ ~scanning_
  /\ ~serials
  /\ status' = "Error: set serial first"
  /\ UNCHANGED <<flagVars, loopVars, hostVars, hb_age, task, socket, stalled, edited>>

-----------------------------------------------------------------------------
(* loop().                                                                 *)

LoopStart ==
  /\ loop_pc = "out"
  /\ loop_pc' = "watch"
  /\ now_age' = 0
  /\ UNCHANGED <<flagVars, deferred_apply_, deferred_ip_, hostVars>>
  /\ UNCHANGED <<status, hb_age, task, socket, stalled, edited>>

(* now - hb, in uint32_t: a heartbeat younger than now wraps around.       *)
Silence == (hb_age - now_age) % Wrap

Supervised == scanning_ /\ ~scan_result_pending_

(* Mutant: the status line is left as it was.                              *)
StallSilently ==
  /\ scan_abort_' = TRUE
  /\ scanning_' = FALSE
  /\ stalled' = TRUE
  /\ UNCHANGED status

DeclareStalled ==
  /\ scan_abort_' = TRUE
  /\ scanning_' = FALSE
  /\ stalled' = TRUE
  /\ status' = "Error: scan stalled"

Watchdog ==
  /\ loop_pc = "watch"
  /\ loop_pc' = "pickup"
  /\ now_age' = 0
  /\ \/ Supervised /\ Silence > Stall /\ DeclareStalled
     \/ /\ Supervised /\ Silence <= Stall
        /\ status' \in {status, "Scanning"}
        /\ UNCHANGED <<scan_abort_, scanning_, stalled>>
     \/ ~Supervised /\ UNCHANGED <<scan_abort_, scanning_, stalled, status>>
  /\ UNCHANGED <<scan_result_pending_, scan_found_, found_ip_buf_, deferred_apply_, deferred_ip_>>
  /\ UNCHANGED <<hostVars, hb_age, task, socket, edited>>

(* Mutant: the end of the scan is not recorded.                            *)
PickupKeepsScanning ==
  /\ loop_pc = "pickup"
  /\ IF scan_result_pending_
     THEN scan_result_pending_' = FALSE /\ UNCHANGED scanning_ /\ loop_pc' = "result"
     ELSE UNCHANGED <<scan_result_pending_, scanning_>> /\ loop_pc' = "rest"
  /\ UNCHANGED <<scan_found_, scan_abort_, found_ip_buf_, deferred_apply_, deferred_ip_, now_age>>
  /\ UNCHANGED <<hostVars, status, hb_age, task, socket, stalled, edited>>

Pickup ==
  /\ loop_pc = "pickup"
  /\ IF scan_result_pending_
     THEN scan_result_pending_' = FALSE /\ scanning_' = FALSE /\ loop_pc' = "result"
     ELSE UNCHANGED <<scan_result_pending_, scanning_>> /\ loop_pc' = "rest"
  /\ UNCHANGED <<scan_found_, scan_abort_, found_ip_buf_, deferred_apply_, deferred_ip_, now_age>>
  /\ UNCHANGED <<hostVars, status, hb_age, task, socket, stalled, edited>>

Result ==
  /\ loop_pc = "result"
  /\ loop_pc' = "out"
  /\ IF scan_found_
     THEN deferred_ip_' = found_ip_buf_ /\ deferred_apply_' = TRUE /\ status' = "Found"
     ELSE status' = "Not found" /\ UNCHANGED <<deferred_ip_, deferred_apply_>>
  /\ UNCHANGED <<flagVars, now_age, hostVars, hb_age, task, socket, stalled, edited>>

(* apply_scanned_host_: the address goes to the hub, not to the entity.    *)
Apply ==
  /\ deferred_apply_
  /\ deferred_apply_' = FALSE
  /\ deferred_ip_' = NoHost
  /\ set_host(deferred_ip_)
  /\ socket' = IF serials /\ deferred_ip_ /= NoHost THEN NoHost ELSE socket

(* Mutant: the poller goes on during a scan.                               *)
PollAnyway ==
  /\ ~deferred_apply_
  /\ is_config_ready
  /\ socket' \in {NoHost, IF socket = NoHost THEN host_ ELSE socket}

(* The poller proper: it keeps, loses or opens its connection.             *)
Poll ==
  /\ ~deferred_apply_
  /\ ~scanning_
  /\ is_config_ready
  /\ socket' \in {NoHost, IF socket = NoHost THEN host_ ELSE socket}

Rest ==
  /\ loop_pc = "rest"
  /\ loop_pc' = "out"
  /\ \/ Apply
     \/ Poll /\ UNCHANGED <<deferred_apply_, deferred_ip_, host_, nvs_host>>
     \/ /\ ~deferred_apply_ /\ (scanning_ \/ ~is_config_ready)
        /\ UNCHANGED <<deferred_apply_, deferred_ip_, host_, nvs_host, socket>>
  /\ UNCHANGED <<flagVars, now_age, serials, ui_host, status, hb_age, task, stalled, edited>>

-----------------------------------------------------------------------------
(* The scan task.                                                          *)

(* A step of task t to pc, with a heartbeat.                               *)
Pulse(t, rec) ==
  /\ task' = [task EXCEPT ![t] = rec]
  /\ hb_age' = 0

(* Task t has its result; the rest of its local state is dead.             *)
Conclude(t, pc) == task' = [task EXCEPT ![t] = [NoTask EXCEPT !.pc = pc]]

(* do_scan_ begins; the dongle gets LUX_SCAN_SETTLE_MS to drop our session.*)
TaskStart(t) ==
  /\ task[t].pc = "created"
  /\ Pulse(t, [task[t] EXCEPT !.pc = "settle"])
  /\ scan_found_' = FALSE
  /\ found_ip_buf_' = NoHost
  /\ UNCHANGED <<scanning_, scan_result_pending_, scan_abort_>>

(* The fast path probes the address the hub has now.                       *)
TaskSettle(t) ==
  /\ task[t].pc = "settle"
  /\ Pulse(t, [task[t] EXCEPT !.pc = IF host_ /= NoHost THEN "known" ELSE "sweep",
                              !.probing = host_])
  /\ UNCHANGED flagVars

(* Mutant: an open port is proof enough.                                   *)
AnswersAnything(h) == TRUE

(* probe_lux_ succeeds: the reply carries our dongle's serial.  The dongle *)
(* serves one client, so it does not answer while the poller is on it.     *)
Answers(h) == h = Dongle /\ socket /= Dongle

(* The probe of the known address; after it, host_ is read once more.      *)
TaskKnown(t) ==
  /\ task[t].pc = "known"
  /\ \/ /\ Answers(task[t].probing)
        /\ found_ip_buf_' = host_
        /\ Conclude(t, "found")
        /\ UNCHANGED hb_age
     \/ /\ Pulse(t, [task[t] EXCEPT !.pc = "sweep", !.probing = NoHost])
        /\ UNCHANGED found_ip_buf_
  /\ UNCHANGED <<scanning_, scan_result_pending_, scan_found_, scan_abort_>>

SkipSelf(n) == IF n = Self THEN n + 1 ELSE n

(* The sweep is over, or was told to stop.                                 *)
TaskSweepEnds(t) ==
  /\ task[t].pc = "sweep"
  /\ task[t].next > LastOctet \/ scan_abort_
  /\ Conclude(t, "notfound")
  /\ UNCHANGED <<flagVars, hb_age>>

(* A batch of connects: as many as Batch and the socket pool allow, each   *)
(* of which may find the port open.                                        *)
TaskBatch(t) ==
  /\ task[t].pc = "sweep"
  /\ task[t].next <= LastOctet /\ ~scan_abort_
  /\ \E last \in task[t].next..LastOctet :
       LET probed == (task[t].next..last) \ {Self}
       IN  /\ Cardinality(probed) \in 1..Batch
           /\ \E open \in SUBSET probed :
                Pulse(t, [task[t] EXCEPT !.pc = "verify", !.next = SkipSelf(last + 1),
                                         !.cand = open, !.starved = 0])
  /\ UNCHANGED flagVars

(* Mutant: a task without a socket tries for ever.                         *)
TaskStarvedPatient(t) ==
  /\ task[t].pc = "sweep"
  /\ task[t].next <= LastOctet /\ ~scan_abort_
  /\ Pulse(t, [task[t] EXCEPT !.next = SkipSelf(@)])
  /\ UNCHANGED flagVars

(* Mutant: the rounds are compared before they are counted.                *)
TaskStarvedOneMore(t) ==
  /\ task[t].pc = "sweep"
  /\ task[t].next <= LastOctet /\ ~scan_abort_
  /\ IF task[t].starved > MaxStarved
     THEN Conclude(t, "notfound") /\ UNCHANGED hb_age
     ELSE Pulse(t, [task[t] EXCEPT !.next = SkipSelf(@), !.starved = @ + 1])
  /\ UNCHANGED flagVars

(* Not a single socket, or nothing left but this device itself.            *)
TaskStarved(t) ==
  /\ task[t].pc = "sweep"
  /\ task[t].next <= LastOctet /\ ~scan_abort_
  /\ IF task[t].starved + 1 > MaxStarved
     THEN Conclude(t, "notfound") /\ UNCHANGED hb_age
     ELSE Pulse(t, [task[t] EXCEPT !.next = SkipSelf(@), !.starved = @ + 1])
  /\ UNCHANGED flagVars

(* The candidates of a batch are verified one at a time, in order.         *)
TaskVerify(t) ==
  /\ task[t].pc = "verify"
  /\ \E c \in task[t].cand :
       /\ \A d \in task[t].cand : c <= d
       /\ \/ /\ Answers(c)
             /\ found_ip_buf_' = c
             /\ Conclude(t, "found")
             /\ UNCHANGED hb_age
          \/ /\ IF scan_abort_
                THEN Pulse(t, [NoTask EXCEPT !.pc = "notfound"])
                ELSE Pulse(t, [task[t] EXCEPT !.cand = @ \ {c}])
             /\ UNCHANGED found_ip_buf_
  /\ UNCHANGED <<scanning_, scan_result_pending_, scan_found_, scan_abort_>>

TaskVerified(t) ==
  /\ task[t].pc = "verify"
  /\ task[t].cand = {}
  /\ task' = [task EXCEPT ![t].pc = "sweep"]
  /\ UNCHANGED <<flagVars, hb_age>>

(* finish: scan_found_, then the flag that makes loop() look at it.        *)
TaskFinish(t) ==
  /\ task[t].pc \in {"found", "notfound"}
  /\ scan_found_' = (task[t].pc = "found")
  /\ task' = [task EXCEPT ![t].pc = "signal"]
  /\ UNCHANGED <<scanning_, scan_result_pending_, scan_abort_, found_ip_buf_, hb_age>>

TaskSignal(t) ==
  /\ task[t].pc = "signal"
  /\ scan_result_pending_' = TRUE
  /\ task' = [task EXCEPT ![t] = NoTask]
  /\ UNCHANGED <<scanning_, scan_found_, scan_abort_, found_ip_buf_, hb_age>>

TaskStep(t) ==
  /\ \/ TaskStart(t) \/ TaskSettle(t) \/ TaskKnown(t) \/ TaskSweepEnds(t) \/ TaskBatch(t)
     \/ TaskStarved(t) \/ TaskVerify(t) \/ TaskVerified(t) \/ TaskFinish(t) \/ TaskSignal(t)
  /\ UNCHANGED <<loopVars, hostVars, status, socket, stalled, edited>>

(* Time passes; only a live task makes it matter.                          *)
Tick ==
  /\ \E t \in Tasks : Live(t)
  /\ hb_age < MaxQuiet
  /\ hb_age' = hb_age + 1
  /\ now_age' = IF loop_pc = "watch" THEN now_age + 1 ELSE now_age
  /\ UNCHANGED <<flagVars, deferred_apply_, deferred_ip_, loop_pc, hostVars>>
  /\ UNCHANGED <<status, task, socket, stalled, edited>>

-----------------------------------------------------------------------------
Next ==
  \/ TypeHost
  \/ TypeSerials
  \/ PushConfig
  \/ Reboot
  \/ action_scan_dongle
  \/ ScanRefused
  \/ LoopStart
  \/ Watchdog
  \/ Pickup
  \/ Result
  \/ Rest
  \/ \E t \in Tasks : TaskStep(t)
  \/ Tick

(* The main loop and every task keep running.                              *)
Fairness ==
  /\ WF_vars(LoopStart)
  /\ WF_vars(Watchdog)
  /\ WF_vars(Pickup)
  /\ WF_vars(Result)
  /\ WF_vars(Rest)
  /\ \A t \in Tasks : WF_vars(TaskStep(t))

SafetySpec == Init /\ [][Next]_vars
Spec == SafetySpec /\ Fairness

-----------------------------------------------------------------------------
TaskPc == {"none", "created", "settle", "known", "sweep", "verify", "found", "notfound", "signal"}

Task == [pc : TaskPc, next : Nat \ {0}, cand : SUBSET Octet, probing : Host, starved : Nat]

(* Types, and the bounds on a task's silence and patience.          *)
TypeOK ==
  /\ scanning_ \in BOOLEAN
  /\ scan_result_pending_ \in BOOLEAN
  /\ scan_found_ \in BOOLEAN
  /\ scan_abort_ \in BOOLEAN
  /\ found_ip_buf_ \in Host
  /\ deferred_apply_ \in BOOLEAN
  /\ deferred_ip_ \in Host
  /\ status \in {"Unknown", "Scanning", "Found", "Not found",
                 "Error: scan stalled", "Error: task create failed", "Error: set serial first"}
  /\ hb_age \in 0..MaxQuiet
  /\ loop_pc \in {"out", "watch", "pickup", "result", "rest"}
  /\ now_age \in Nat
  /\ task \in [Tasks -> Task]
  /\ \A t \in Tasks : task[t].starved <= MaxStarved
  /\ socket \in Host
  /\ host_ \in Host
  /\ nvs_host \in Host
  /\ serials \in BOOLEAN
  /\ ui_host \in Host
  /\ stalled \in BOOLEAN
  /\ edited \in BOOLEAN

(* As long as the watchdog has not intervened there is one scan task at    *)
(* most: the shared members have one writer.                               *)
OneTask == ~stalled => \A t, u \in Tasks : Live(t) /\ Live(u) => t = u

(* "Scanning" always ends in a result: while scanning_ is set, some task   *)
(* is alive to raise scan_result_pending_, or has raised it.               *)
ScanIsAlive == scanning_ => scan_result_pending_ \/ \E t \in Tasks : Live(t)

(* The address about to be applied is the dongle's, unless the watchdog or *)
(* the user interfered with the scan: an open port is not enough, and the  *)
(* result flag is raised after the address is complete.                    *)
FoundIsVerified ==
  deferred_apply_ /\ ~stalled /\ ~edited => deferred_ip_ = Dongle

(* The dongle serves one TCP client: the poller stays off the network as   *)
(* long as a task probes, unless the watchdog has given the task up.       *)
PollerKeepsOff == (\E t \in Tasks : Live(t)) /\ ~stalled => socket = NoHost

(* An address in use goes on being used, over edits, scans, restarts at    *)
(* any moment and the configuration that is pushed after them, until a     *)
(* scan's result replaces it or the address in the text entity does.  Of   *)
(* "survives reboots" (README.md:144) that is what the code keeps: the     *)
(* entity's address may be older than a scanned one, and still replaces it *)
(* after a restart (luxpower_package.yaml:27), as RestoredHostStays shows. *)
AddressSurvives ==
  [][host_ /= NoHost /\ host_' \notin {host_, ui_host'}
       => deferred_apply_ /\ host_' = deferred_ip_]_vars

(* scan_status_text does not go on saying "Scanning" after the scan.       *)
StatusTellsTheEnd == ~scanning_ /\ loop_pc /= "result" => status /= "Scanning"

(* A scan ends, whatever the network does, also after a false alarm.       *)
ScanEnds == scanning_ ~> ~scanning_

(* A task ends, also one that the watchdog gave up and a second scan's     *)
(* reset of scan_abort_ made run on.                                       *)
TaskEnds == \A t \in Tasks : Live(t) ~> ~Live(t)

(* "We only complain if it goes truly silent" (luxpower_sna.cpp:92).       *)
WatchdogIsHonest == [][~stalled /\ stalled' => hb_age > Stall]_vars

(* After a restart the address loaded from NVS stays in use: with a scan   *)
(* "the UI entity is not updated, but the component connects and survives  *)
(* reboots automatically" (README.md:144).                                 *)
RestoredHostStays == [][host_ /= NoHost /\ ~serials /\ serials' => host_' = host_]_vars
=============================================================================
