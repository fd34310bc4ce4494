--------------------------- MODULE LuxScanProofs ---------------------------
(* Proofs about LuxScan, for every subnet, batch size and time limit and   *)
(* any number of task slots.                                               *)
EXTENDS LuxScan, TLAPS

(* A step of a task leaves everyone else's task alone and ends or starts   *)
(* no other.                                                               *)
LEMMA TaskStepTask ==
  ASSUME TypeOK, NEW t \in Tasks, TaskStep(t)
  PROVE  /\ Live(t)
         /\ \A u \in Tasks \ {t} : task'[u] = task[u]
  BY DEF TypeOK, TaskStep, TaskStart, TaskSettle, TaskKnown, TaskSweepEnds, TaskBatch, TaskStarved,
         TaskVerify, TaskVerified, TaskFinish, TaskSignal, Pulse, Conclude, Live

-----------------------------------------------------------------------------
(* Types.                                                                  *)

TasksFit ==
  /\ task \in [Tasks -> Task]
  /\ \A t \in Tasks : task[t].starved <= MaxStarved
  /\ hb_age \in 0..MaxQuiet

LEMMA UpdateFits ==
  ASSUME TasksFit, NEW t \in Tasks, NEW r \in Task, r.starved <= MaxStarved,
         task' = [task EXCEPT ![t] = r], hb_age' \in {hb_age, 0}
  PROVE  TasksFit'
<1>1. task' \in [Tasks -> Task]
  BY DEF TasksFit
<1>2. \A u \in Tasks : task'[u] = IF u = t THEN r ELSE task[u]
  BY DEF TasksFit
<1>3. hb_age' \in 0..MaxQuiet
  BY TimeAssumption DEF TasksFit, TimeAssumption
<1>4. QED
  BY <1>1, <1>2, <1>3 DEF TasksFit

LEMMA TasksStay ==
  ASSUME TypeOK, UNCHANGED <<task, hb_age>>
  PROVE  TasksFit'
  BY DEF TypeOK, TasksFit

FlagsFit ==
  /\ scanning_ \in BOOLEAN
  /\ scan_result_pending_ \in BOOLEAN
  /\ scan_found_ \in BOOLEAN
  /\ scan_abort_ \in BOOLEAN
  /\ found_ip_buf_ \in Host

LEMMA FlagsStay ==
  ASSUME TypeOK, UNCHANGED flagVars
  PROVE  FlagsFit'
  BY DEF TypeOK, FlagsFit, flagVars

HostsFit ==
  /\ host_ \in Host
  /\ nvs_host \in Host
  /\ serials \in BOOLEAN
  /\ ui_host \in Host

LEMMA HostsStay ==
  ASSUME TypeOK, UNCHANGED hostVars
  PROVE  HostsFit'
  BY DEF TypeOK, HostsFit, hostVars

LEMMA NoTaskFits ==
  ASSUME NEW pc \in TaskPc
  PROVE  [NoTask EXCEPT !.pc = pc] \in Task /\ [NoTask EXCEPT !.pc = pc].starved <= MaxStarved
  BY ScanAssumption DEF ScanAssumption, NoTask, Task, NoHost, Host

LEMMA TaskStepFits ==
  ASSUME TypeOK, NEW t \in Tasks, TaskStep(t)
  PROVE  TasksFit'
<1> DEFINE r == task[t]
<1>1. TasksFit /\ host_ \in Host
  BY DEF TypeOK, TasksFit
<1>2. r \in Task /\ r.starved <= MaxStarved
  BY <1>1 DEF TasksFit
<1>3. r.next \in Nat \ {0} /\ r.cand \in SUBSET Octet /\ r.probing \in Host /\ r.starved \in Nat /\ r.pc \in TaskPc
  BY <1>2 DEF Task
<1>4. \A pc \in TaskPc : [r EXCEPT !.pc = pc] \in Task /\ [r EXCEPT !.pc = pc].starved <= MaxStarved
  BY <1>2 DEF Task
<1>5. \A n \in Nat \ {0} : SkipSelf(n) \in Nat \ {0}
  BY DEF SkipSelf
<1>6. ASSUME NEW pc \in TaskPc, Conclude(t, pc), hb_age' \in {hb_age, 0} PROVE TasksFit'
  BY <1>1, <1>6, NoTaskFits, UpdateFits DEF Conclude
<1>7. ASSUME NEW q \in Task, q.starved <= MaxStarved, Pulse(t, q) PROVE TasksFit'
  BY <1>1, <1>7, UpdateFits DEF Pulse
<1>8. CASE TaskStart(t)
  BY <1>4, <1>7, <1>8 DEF TaskStart, TaskPc
<1>9. CASE TaskSettle(t)
  <2>1. PICK pc \in TaskPc : Pulse(t, [r EXCEPT !.pc = pc, !.probing = host_])
    BY <1>9 DEF TaskSettle, TaskPc
  <2>2. [r EXCEPT !.pc = pc, !.probing = host_] \in Task
    BY <1>1, <1>2 DEF Task
  <2>3. [r EXCEPT !.pc = pc, !.probing = host_].starved <= MaxStarved
    BY <1>2 DEF Task
  <2>4. QED
    BY <1>7, <2>1, <2>2, <2>3
<1>10. CASE TaskKnown(t)
  <2>1. [r EXCEPT !.pc = "sweep", !.probing = NoHost] \in Task
    BY <1>2 DEF Task, TaskPc, Host
  <2>2. [r EXCEPT !.pc = "sweep", !.probing = NoHost].starved <= MaxStarved
    BY <1>2 DEF Task
  <2>3. \/ Conclude(t, "found") /\ UNCHANGED hb_age
        \/ Pulse(t, [r EXCEPT !.pc = "sweep", !.probing = NoHost])
    BY <1>10 DEF TaskKnown
  <2>4. QED
    BY <1>6, <1>7, <2>1, <2>2, <2>3 DEF TaskPc
<1>11. CASE TaskSweepEnds(t)
  BY <1>6, <1>11 DEF TaskSweepEnds, TaskPc
<1>12. CASE TaskBatch(t)
  <2>1. PICK last \in r.next..LastOctet :
          \E open \in SUBSET ((r.next..last) \ {Self}) :
            Pulse(t, [r EXCEPT !.pc = "verify", !.next = SkipSelf(last + 1),
                               !.cand = open, !.starved = 0])
    BY <1>12 DEF TaskBatch
  <2>2. PICK open \in SUBSET ((r.next..last) \ {Self}) :
          Pulse(t, [r EXCEPT !.pc = "verify", !.next = SkipSelf(last + 1),
                             !.cand = open, !.starved = 0])
    BY <2>1
  <2>3. last \in Nat /\ SkipSelf(last + 1) \in Nat \ {0}
    BY <1>3, <1>5, ScanAssumption DEF ScanAssumption
  <2>4. open \in SUBSET Octet
    BY <1>3, <2>3, ScanAssumption DEF ScanAssumption, Octet
  <2>5. [r EXCEPT !.pc = "verify", !.next = SkipSelf(last + 1), !.cand = open, !.starved = 0] \in Task
    BY <1>2, <2>3, <2>4 DEF Task, TaskPc
  <2>6. [r EXCEPT !.pc = "verify", !.next = SkipSelf(last + 1), !.cand = open, !.starved = 0].starved <= MaxStarved
    BY <1>2, ScanAssumption DEF ScanAssumption, Task
  <2>7. QED
    BY <1>7, <2>2, <2>5, <2>6
<1>13. CASE TaskStarved(t)
  <2>1. CASE r.starved + 1 > MaxStarved
    BY <1>6, <1>13, <2>1 DEF TaskStarved, TaskPc
  <2>2. CASE ~(r.starved + 1 > MaxStarved)
    <3>0. SkipSelf(r.next) \in Nat \ {0} /\ r.starved + 1 \in Nat
      BY <1>3, <1>5
    <3>1. [r EXCEPT !.next = SkipSelf(@), !.starved = @ + 1] \in Task
      BY <1>2, <3>0 DEF Task
    <3>2. [r EXCEPT !.next = SkipSelf(@), !.starved = @ + 1].starved <= MaxStarved
      BY <1>2, <1>3, <2>2, ScanAssumption DEF ScanAssumption, Task
    <3>3. QED
      BY <1>7, <1>13, <2>2, <3>1, <3>2 DEF TaskStarved
  <2>3. QED
    BY <2>1, <2>2
<1>14. CASE TaskVerify(t)
  <2>1. PICK c \in r.cand :
          \/ Conclude(t, "found") /\ UNCHANGED hb_age
          \/ Pulse(t, [NoTask EXCEPT !.pc = "notfound"])
          \/ Pulse(t, [r EXCEPT !.cand = @ \ {c}])
    BY <1>14 DEF TaskVerify
  <2>2. [r EXCEPT !.cand = @ \ {c}] \in Task /\ [r EXCEPT !.cand = @ \ {c}].starved <= MaxStarved
    BY <1>2 DEF Task
  <2>3. QED
    BY <1>6, <1>7, <2>1, <2>2, NoTaskFits DEF TaskPc
<1>15. CASE TaskVerified(t)
  <2>1. task' = [task EXCEPT ![t] = [r EXCEPT !.pc = "sweep"]] /\ hb_age' = hb_age
    BY <1>15 DEF TaskVerified
  <2>2. QED
    BY <1>1, <1>4, <2>1, UpdateFits DEF TaskPc
<1>16. CASE TaskFinish(t)
  <2>1. task' = [task EXCEPT ![t] = [r EXCEPT !.pc = "signal"]] /\ hb_age' = hb_age
    BY <1>16 DEF TaskFinish
  <2>2. QED
    BY <1>1, <1>4, <2>1, UpdateFits DEF TaskPc
<1>17. CASE TaskSignal(t)
  <2>1. NoTask = [NoTask EXCEPT !.pc = "none"]
    BY DEF NoTask
  <2>2. Conclude(t, "none") /\ hb_age' = hb_age
    BY <1>17, <2>1 DEF TaskSignal, Conclude
  <2>3. QED
    BY <1>6, <2>2 DEF TaskPc
<1>18. QED
  BY <1>8, <1>9, <1>10, <1>11, <1>12, <1>13, <1>14, <1>15, <1>16, <1>17 DEF TaskStep

LEMMA NextTypeOK == TypeOK /\ [Next]_vars => TypeOK'
<1> SUFFICES ASSUME TypeOK, [Next]_vars PROVE TypeOK'
  OBVIOUS
<1>1. Typed \subseteq Host /\ NoHost \in Host
  BY ScanAssumption DEF ScanAssumption, Octet, Host
<1>2. CASE TypeHost
  BY <1>1, <1>2 DEF TypeOK, TypeHost, set_host, flagVars, loopVars
<1>3. CASE TypeSerials
  BY <1>1, <1>3 DEF TypeOK, TypeSerials, flagVars, loopVars
<1>4. CASE PushConfig
  <2>1. ui_host \in Host /\ host_ \in Host /\ nvs_host \in Host /\ serials \in BOOLEAN /\ socket \in Host
    BY DEF TypeOK
  <2>2. host_' \in Host /\ nvs_host' \in Host
    BY <1>4, <2>1 DEF PushConfig, set_host
  <2>3. serials' \in BOOLEAN /\ socket' \in Host
    BY <1>1, <1>4, <2>1 DEF PushConfig
  <2>4. UNCHANGED <<task, hb_age>>
    BY <1>4 DEF PushConfig
  <2>5. QED
    BY <1>4, <2>2, <2>3, <2>4, TasksStay DEF PushConfig, TypeOK, TasksFit, flagVars, loopVars
<1>5. CASE Reboot
  <2>1. NoTask \in Task /\ NoTask.starved <= MaxStarved
    BY ScanAssumption DEF ScanAssumption, NoTask, Task, TaskPc, Host
  <2>2. 0 \in 0..MaxQuiet
    BY TimeAssumption DEF TimeAssumption
  <2>3. QED
    BY <1>1, <1>5, <2>1, <2>2 DEF TypeOK, Reboot
<1>6. CASE action_scan_dongle
  <2>1. \A pc \in {"created"} : [NoTask EXCEPT !.pc = pc] \in Task /\ [NoTask EXCEPT !.pc = pc].starved <= MaxStarved
    BY NoTaskFits DEF TaskPc
  <2>2. TasksFit'
    <3>1. TasksFit /\ hb_age' = 0
      BY <1>6 DEF TypeOK, TasksFit, action_scan_dongle
    <3>2. CASE UNCHANGED task
      BY <3>1, <3>2, TimeAssumption DEF TasksFit, TimeAssumption
    <3>3. CASE \E t \in Tasks : task' = [task EXCEPT ![t] = [NoTask EXCEPT !.pc = "created"]]
      BY <2>1, <3>1, <3>3, UpdateFits
    <3>4. QED
      BY <1>6, <3>2, <3>3 DEF action_scan_dongle
  <2>3. QED
    BY <1>1, <1>6, <2>2 DEF TypeOK, TasksFit, action_scan_dongle, hostVars
<1>7. CASE LoopStart
  BY <1>7 DEF TypeOK, LoopStart, flagVars, hostVars
<1>8. CASE Watchdog
  <2>1. /\ scan_abort_' \in BOOLEAN /\ scanning_' \in BOOLEAN /\ stalled' \in BOOLEAN
        /\ status' \in {"Unknown", "Scanning", "Found", "Not found",
                        "Error: scan stalled", "Error: task create failed", "Error: set serial first"}
    BY <1>8 DEF TypeOK, Watchdog, DeclareStalled
  <2>2. UNCHANGED <<task, hb_age>>
    BY <1>8 DEF Watchdog
  <2>3. QED
    BY <1>8, <2>1, <2>2, TasksStay DEF Watchdog, TypeOK, TasksFit, hostVars
<1>9. CASE Pickup
  BY <1>9 DEF TypeOK, Pickup, hostVars
<1>10. CASE Result
  BY <1>10 DEF TypeOK, Result, flagVars, hostVars
<1>11. CASE Rest
  <2>1. CASE Apply
    BY <1>1, <1>11, <2>1 DEF TypeOK, Rest, Apply, set_host, flagVars
  <2>2. CASE ~Apply
    BY <1>1, <1>11, <2>2 DEF TypeOK, Rest, Poll, flagVars
  <2>3. QED
    BY <2>1, <2>2
<1>12. CASE \E t \in Tasks : TaskStep(t)
  <2>1. PICK t \in Tasks : TaskStep(t)
    BY <1>12
  <2>2. TasksFit'
    BY <2>1, TaskStepFits
  <2>3. /\ scanning_' \in BOOLEAN /\ scan_result_pending_' \in BOOLEAN
        /\ scan_found_' \in BOOLEAN /\ scan_abort_' \in BOOLEAN
    BY <2>1 DEF TypeOK, TaskStep, TaskStart, TaskSettle, TaskKnown, TaskSweepEnds, TaskBatch,
                TaskStarved, TaskVerify, TaskVerified, TaskFinish, TaskSignal, flagVars
  <2>4. found_ip_buf_' \in Host
    <3>1. task[t].cand \subseteq Host
      BY DEF TypeOK, Task, Host
    <3>2. QED
      BY <1>1, <2>1, <3>1
         DEF TypeOK, TaskStep, TaskStart, TaskSettle, TaskKnown, TaskSweepEnds, TaskBatch,
             TaskStarved, TaskVerify, TaskVerified, TaskFinish, TaskSignal, flagVars
  <2>5. QED
    <3>1. UNCHANGED <<deferred_apply_, deferred_ip_, loop_pc, now_age, status, socket, stalled, edited>>
      BY <2>1 DEF TaskStep, loopVars
    <3>2. HostsFit'
      BY <2>1, HostsStay DEF TaskStep
    <3>3. QED
      BY <2>2, <2>3, <2>4, <3>1, <3>2 DEF TypeOK, TasksFit, HostsFit
<1>13. CASE Tick
  <2>1. hb_age' \in 0..MaxQuiet /\ now_age' \in Nat
    <3>1. hb_age \in 0..MaxQuiet /\ now_age \in Nat /\ MaxQuiet \in Nat
      BY TimeAssumption DEF TimeAssumption, TypeOK
    <3>2. /\ hb_age < MaxQuiet /\ hb_age' = hb_age + 1
          /\ now_age' = now_age + 1 \/ now_age' = now_age
      BY <1>13 DEF Tick
    <3>3. QED
      BY <3>1, <3>2
  <2>2. task' = task
    BY <1>13 DEF Tick
  <2>3. TasksFit'
    BY <2>1, <2>2 DEF TypeOK, TasksFit
  <2>4. QED
    <3>1. UNCHANGED <<deferred_apply_, deferred_ip_, loop_pc, status, socket, stalled, edited>>
      BY <1>13 DEF Tick
    <3>2. HostsFit' /\ FlagsFit'
      BY <1>13, HostsStay, FlagsStay DEF Tick
    <3>3. QED
      BY <2>1, <2>3, <3>1, <3>2 DEF TypeOK, TasksFit, HostsFit, FlagsFit
<1>14. CASE UNCHANGED vars
  <2>1. UNCHANGED <<task, hb_age>>
    BY <1>14 DEF vars
  <2>2. UNCHANGED <<deferred_apply_, deferred_ip_, loop_pc, status, socket, stalled, edited>>
    BY <1>14 DEF vars, loopVars
  <2>3. TasksFit' /\ HostsFit' /\ FlagsFit'
    BY <1>14, <2>1, TasksStay, HostsStay, FlagsStay DEF vars
  <2>4. now_age' \in Nat
    BY <1>14 DEF TypeOK, vars, loopVars
  <2>5. QED
    BY <2>2, <2>3, <2>4 DEF TypeOK, TasksFit, HostsFit, FlagsFit
<1>15. CASE ScanRefused
  <2>1. UNCHANGED <<task, hb_age, deferred_apply_, deferred_ip_, loop_pc, now_age, socket, stalled, edited>>
    BY <1>15 DEF ScanRefused, loopVars
  <2>2. TasksFit' /\ HostsFit' /\ FlagsFit'
    BY <1>15, <2>1, TasksStay, HostsStay, FlagsStay DEF ScanRefused
  <2>3. QED
    BY <1>15, <2>1, <2>2 DEF ScanRefused, TypeOK, TasksFit, HostsFit, FlagsFit
<1>16. QED
  BY <1>2, <1>3, <1>4, <1>5, <1>6, <1>7, <1>8, <1>9, <1>10, <1>11, <1>12, <1>13, <1>14, <1>15 DEF Next

LEMMA InitTypeOK == Init => TypeOK
<1>1. NoTask \in Task /\ NoTask.starved <= MaxStarved
  BY ScanAssumption DEF ScanAssumption, NoTask, Task, TaskPc, NoHost, Host
<1>2. QED
  <2> SUFFICES ASSUME Init PROVE TypeOK
    OBVIOUS
  <2>1. NoHost \in Host /\ 0 \in 0..MaxQuiet
    BY TimeAssumption DEF TimeAssumption, Host
  <2>2. task \in [Tasks -> Task] /\ \A t \in Tasks : task[t].starved <= MaxStarved
    BY <1>1 DEF Init
  <2>3. QED
    BY <2>1, <2>2 DEF Init, TypeOK

(* Type correctness, with the bound on a starved task's patience.          *)
THEOREM ScanTypeCorrect == SafetySpec => []TypeOK
  BY InitTypeOK, NextTypeOK, PTL DEF SafetySpec

(* Only its last step ends a task.                                         *)
LEMMA TaskLivesOn ==
  ASSUME TypeOK, NEW t \in Tasks, TaskStep(t), ~TaskSignal(t)
  PROVE  task'[t].pc /= "none"
<1> DEFINE r == task[t]
<1>1. task \in [Tasks -> Task] /\ r \in Task /\ r.pc /= "none"
  BY TaskStepTask DEF TypeOK, Live
<1>2. ASSUME NEW q, task' = [task EXCEPT ![t] = q] PROVE task'[t] = q
  BY <1>1, <1>2
<1>3. ASSUME NEW pc \in TaskPc \ {"none"}, Conclude(t, pc) PROVE task'[t].pc /= "none"
  BY <1>2, <1>3 DEF Conclude, NoTask
<1>4. ASSUME NEW q, q.pc /= "none", Pulse(t, q) PROVE task'[t].pc /= "none"
  BY <1>2, <1>4 DEF Pulse
<1>5. CASE TaskStart(t) \/ TaskBatch(t)
  <2>1. CASE TaskStart(t)
    BY <1>1, <1>4, <2>1 DEF TaskStart, Task
  <2>2. CASE TaskBatch(t)
    <3>1. PICK n, open : Pulse(t, [r EXCEPT !.pc = "verify", !.next = n, !.cand = open, !.starved = 0])
      BY <2>2 DEF TaskBatch
    <3>2. QED
      BY <1>1, <1>4, <3>1 DEF Task
  <2>3. QED
    BY <1>5, <2>1, <2>2
<1>6. CASE TaskSettle(t)
  <2>1. PICK pc \in {"known", "sweep"} : Pulse(t, [r EXCEPT !.pc = pc, !.probing = host_])
    BY <1>6 DEF TaskSettle
  <2>2. QED
    BY <1>1, <1>4, <2>1 DEF Task
<1>7. CASE TaskKnown(t)
  <2>1. CASE Conclude(t, "found")
    BY <1>3, <2>1 DEF TaskPc
  <2>2. CASE Pulse(t, [r EXCEPT !.pc = "sweep", !.probing = NoHost])
    BY <1>1, <1>4, <2>2 DEF Task
  <2>3. QED
    BY <1>7, <2>1, <2>2 DEF TaskKnown
<1>8. CASE TaskSweepEnds(t)
  BY <1>3, <1>8 DEF TaskSweepEnds, TaskPc
<1>9. CASE TaskStarved(t)
  <2>1. CASE Conclude(t, "notfound")
    BY <1>3, <2>1 DEF TaskPc
  <2>2. CASE Pulse(t, [r EXCEPT !.next = SkipSelf(@), !.starved = @ + 1])
    BY <1>1, <1>4, <2>2 DEF Task
  <2>3. QED
    BY <1>9, <2>1, <2>2 DEF TaskStarved
<1>10. CASE TaskVerify(t)
  <2>1. CASE Conclude(t, "found")
    BY <1>3, <2>1 DEF TaskPc
  <2>2. CASE Pulse(t, [NoTask EXCEPT !.pc = "notfound"])
    BY <1>4, <2>2 DEF NoTask
  <2>3. CASE \E c : Pulse(t, [r EXCEPT !.cand = @ \ {c}])
    BY <1>1, <1>4, <2>3 DEF Task
  <2>4. QED
    BY <1>10, <2>1, <2>2, <2>3 DEF TaskVerify
<1>11. CASE TaskVerified(t) \/ TaskFinish(t)
  BY <1>1, <1>11 DEF TaskVerified, TaskFinish, Task
<1>12. QED
  BY <1>5, <1>6, <1>7, <1>8, <1>9, <1>10, <1>11 DEF TaskStep

-----------------------------------------------------------------------------
(* The address.                                                            *)

(* The address in use is the one a restart would load.                     *)
HostIsSaved == host_ /= NoHost => nvs_host = host_

LEMMA SetHostSaves ==
  ASSUME HostIsSaved, NEW h, set_host(h)
  PROVE  HostIsSaved'
  BY DEF HostIsSaved, set_host

LEMMA NextHostIsSaved == HostIsSaved /\ [Next]_vars => HostIsSaved'
<1> SUFFICES ASSUME HostIsSaved, [Next]_vars PROVE HostIsSaved'
  OBVIOUS
<1>1. CASE UNCHANGED <<host_, nvs_host>>
  BY <1>1 DEF HostIsSaved
<1>2. CASE TypeHost
  BY <1>2, SetHostSaves DEF TypeHost
<1>3. CASE PushConfig
  BY <1>1, <1>3, SetHostSaves DEF PushConfig
<1>4. CASE Reboot
  BY <1>4 DEF HostIsSaved, Reboot
<1>5. CASE Rest
  BY <1>1, <1>5, SetHostSaves DEF Rest, Apply
<1>6. CASE TypeSerials \/ action_scan_dongle \/ ScanRefused \/ LoopStart \/ Watchdog \/ Pickup \/ Result
  BY <1>1, <1>6 DEF TypeSerials, action_scan_dongle, ScanRefused, LoopStart, Watchdog, Pickup, Result, hostVars
<1>7. CASE Tick \/ \E t \in Tasks : TaskStep(t)
  BY <1>1, <1>7 DEF Tick, TaskStep, hostVars
<1>8. CASE UNCHANGED vars
  BY <1>1, <1>8 DEF vars, hostVars
<1>9. QED
  BY <1>2, <1>3, <1>4, <1>5, <1>6, <1>7, <1>8 DEF Next

(* No step but the applying of a scan's result gives an address in use up  *)
(* for another than the one in the text entity, a restart included: what   *)
(* it loads is what was in use, since every set_host saves.                *)
THEOREM AddressesSurvive == SafetySpec => AddressSurvives
<1>1. Init => HostIsSaved
  BY DEF Init, HostIsSaved
<1>2. ASSUME HostIsSaved, [Next]_vars, host_ /= NoHost, host_' \notin {host_, ui_host'}
      PROVE  deferred_apply_ /\ host_' = deferred_ip_
  <2>1. CASE TypeHost
    BY <1>2, <2>1 DEF TypeHost, set_host
  <2>2. CASE PushConfig
    BY <1>2, <2>2 DEF PushConfig, set_host
  <2>3. CASE Reboot
    BY <1>2, <2>3 DEF HostIsSaved, Reboot
  <2>4. CASE Rest
    BY <1>2, <2>4 DEF Rest, Apply, set_host
  <2>5. CASE TypeSerials \/ action_scan_dongle \/ ScanRefused \/ LoopStart \/ Watchdog \/ Pickup \/ Result
    BY <1>2, <2>5 DEF TypeSerials, action_scan_dongle, ScanRefused, LoopStart, Watchdog, Pickup, Result, hostVars
  <2>6. CASE Tick \/ \E t \in Tasks : TaskStep(t)
    BY <1>2, <2>6 DEF Tick, TaskStep, hostVars
  <2>7. CASE UNCHANGED vars
    BY <1>2, <2>7 DEF vars, hostVars
  <2> QED
    BY <1>2, <2>1, <2>2, <2>3, <2>4, <2>5, <2>6, <2>7 DEF Next
<1>3. QED
  BY <1>1, <1>2, NextHostIsSaved, PTL DEF SafetySpec, AddressSurvives

-----------------------------------------------------------------------------
(* The status line.                                                        *)

LEMMA NextStatusTellsTheEnd == StatusTellsTheEnd /\ [Next]_vars => StatusTellsTheEnd'
<1> SUFFICES ASSUME StatusTellsTheEnd, [Next]_vars PROVE StatusTellsTheEnd'
  OBVIOUS
<1>1. CASE UNCHANGED <<scanning_, loop_pc, status>>
  BY <1>1 DEF StatusTellsTheEnd
<1>2. CASE Reboot
  BY <1>2 DEF Reboot, StatusTellsTheEnd
<1>3. CASE action_scan_dongle
  BY <1>3 DEF action_scan_dongle, StatusTellsTheEnd
<1>4. CASE LoopStart
  BY <1>4 DEF LoopStart, flagVars, StatusTellsTheEnd
<1>5. CASE Watchdog
  <2>1. CASE DeclareStalled
    BY <2>1 DEF DeclareStalled, StatusTellsTheEnd
  <2>2. CASE Supervised /\ UNCHANGED scanning_
    BY <2>2 DEF Supervised, StatusTellsTheEnd
  <2>3. CASE UNCHANGED <<scanning_, status>>
    BY <1>5, <2>3 DEF Watchdog, StatusTellsTheEnd
  <2>4. QED
    BY <1>5, <2>1, <2>2, <2>3 DEF Watchdog
<1>6. CASE Pickup
  BY <1>6 DEF Pickup, StatusTellsTheEnd
<1>7. CASE Result
  BY <1>7 DEF Result, StatusTellsTheEnd
<1>8. CASE Rest
  BY <1>8 DEF Rest, flagVars, StatusTellsTheEnd
<1>9. CASE TypeHost \/ TypeSerials \/ PushConfig
  BY <1>1, <1>9 DEF TypeHost, TypeSerials, PushConfig, flagVars, loopVars
<1>10. CASE \E t \in Tasks : TaskStep(t)
  <2>1. UNCHANGED scanning_
    BY <1>10 DEF TaskStep, TaskStart, TaskSettle, TaskKnown, TaskSweepEnds, TaskBatch, TaskStarved,
                 TaskVerify, TaskVerified, TaskFinish, TaskSignal, flagVars
  <2>2. QED
    BY <1>1, <1>10, <2>1 DEF TaskStep, loopVars
<1>11. CASE Tick
  BY <1>1, <1>11 DEF Tick, flagVars
<1>12. CASE UNCHANGED vars
  BY <1>1, <1>12 DEF vars, flagVars, loopVars
<1>13. CASE ScanRefused
  BY <1>13 DEF ScanRefused, StatusTellsTheEnd
<1>14. QED
  BY <1>2, <1>3, <1>4, <1>5, <1>6, <1>7, <1>8, <1>9, <1>10, <1>11, <1>12, <1>13 DEF Next

(* The status line never says "Scanning" once the scan is over.            *)
THEOREM StatusIsHonest == SafetySpec => []StatusTellsTheEnd
<1>1. Init => StatusTellsTheEnd
  BY DEF Init, StatusTellsTheEnd
<1>2. QED
  BY <1>1, NextStatusTellsTheEnd, PTL DEF SafetySpec

-----------------------------------------------------------------------------
(* The end of the scan.                                                    *)

LEMMA NextScanIsAlive == TypeOK /\ ScanIsAlive /\ [Next]_vars => ScanIsAlive'
<1> SUFFICES ASSUME TypeOK, ScanIsAlive, [Next]_vars PROVE ScanIsAlive'
  OBVIOUS
<1>1. CASE UNCHANGED <<scanning_, scan_result_pending_, task>>
  BY <1>1 DEF ScanIsAlive, Live
<1>2. CASE Reboot
  BY <1>2 DEF Reboot, ScanIsAlive
<1>3. CASE action_scan_dongle
  <2>1. CASE scanning_' = FALSE
    BY <2>1 DEF ScanIsAlive
  <2>2. CASE \E t \in Tasks : task' = [task EXCEPT ![t] = [NoTask EXCEPT !.pc = "created"]]
    <3>1. PICK t \in Tasks : task' = [task EXCEPT ![t] = [NoTask EXCEPT !.pc = "created"]]
      BY <2>2
    <3>2. task'[t].pc = "created"
      BY <3>1 DEF TypeOK, NoTask
    <3>3. QED
      BY <3>2 DEF ScanIsAlive, Live
  <2>3. QED
    BY <1>3, <2>1, <2>2 DEF action_scan_dongle
<1>4. CASE Watchdog
  <2>1. CASE DeclareStalled
    BY <2>1 DEF DeclareStalled, ScanIsAlive
  <2>2. CASE UNCHANGED scanning_
    BY <1>1, <1>4, <2>2 DEF Watchdog
  <2>3. QED
    BY <1>4, <2>1, <2>2 DEF Watchdog
<1>5. CASE Pickup
  BY <1>1, <1>5 DEF Pickup, ScanIsAlive
<1>6. CASE TypeHost \/ TypeSerials \/ PushConfig \/ ScanRefused \/ LoopStart \/ Result \/ Rest \/ Tick
  BY <1>1, <1>6 DEF TypeHost, TypeSerials, PushConfig, ScanRefused, LoopStart, Result, Rest, Tick, flagVars
<1>7. ASSUME NEW t \in Tasks, TaskStep(t) PROVE ScanIsAlive'
  <2>1. CASE TaskSignal(t)
    BY <2>1 DEF TaskSignal, ScanIsAlive
  <2>2. CASE ~TaskSignal(t)
    BY <1>7, <2>2, TaskLivesOn DEF ScanIsAlive, Live
  <2>3. QED
    BY <2>1, <2>2
<1>8. CASE UNCHANGED vars
  BY <1>1, <1>8 DEF vars, flagVars
<1>9. QED
  BY <1>2, <1>3, <1>4, <1>5, <1>6, <1>7, <1>8 DEF Next

(* While the component is scanning, some task will tell it the result, or  *)
(* has told it.                                                            *)
THEOREM ScanStaysAlive == SafetySpec => []ScanIsAlive
<1>1. Init => ScanIsAlive
  BY DEF Init, ScanIsAlive
<1>2. QED
  BY <1>1, ScanTypeCorrect, NextScanIsAlive, PTL DEF SafetySpec

-----------------------------------------------------------------------------
(* One task, and the poller out of its way.                                *)

(* Until the watchdog fires, a live task is alone, the component is        *)
(* scanning, no result is under way and the poller has no connection.      *)
Alone(t) ==
  /\ \A u \in Tasks : Live(u) => u = t
  /\ scanning_ /\ ~scan_result_pending_
  /\ loop_pc /= "result" /\ ~deferred_apply_
  /\ serials /\ socket = NoHost

TasksAlone == ~stalled => \A t \in Tasks : Live(t) => Alone(t)

LEMMA NextTasksAlone == TypeOK /\ TasksAlone /\ [Next]_vars => TasksAlone'
<1> SUFFICES ASSUME TypeOK, TasksAlone, [Next]_vars, ~stalled', NEW t \in Tasks, Live(t)' PROVE Alone(t)'
  BY DEF TasksAlone
<1>1. CASE Reboot
  BY <1>1 DEF Reboot, Live, NoTask
<1>2. CASE action_scan_dongle
  <2>1. ~stalled /\ ~scanning_
    BY <1>2 DEF action_scan_dongle
  <2>2. \A u \in Tasks : ~Live(u)
    BY <2>1 DEF TasksAlone, Alone
  <2>3. ~(UNCHANGED task)
    BY <2>2 DEF Live
  <2>4. PICK v \in Tasks : task' = [task EXCEPT ![v] = [NoTask EXCEPT !.pc = "created"]]
    BY <1>2, <2>3 DEF action_scan_dongle
  <2>5. \A u \in Tasks : Live(u)' => u = v
    BY <2>2, <2>4 DEF TypeOK, Live
  <2>6. scanning_' /\ ~scan_result_pending_' /\ loop_pc' /= "result" /\ ~deferred_apply_'
    BY <1>2, <2>3 DEF action_scan_dongle
  <2>7. serials' /\ socket' = NoHost
    BY <1>2 DEF action_scan_dongle, hostVars
  <2>8. QED
    BY <2>5, <2>6, <2>7 DEF Alone
<1>3. CASE \E u \in Tasks : TaskStep(u)
  <2>1. PICK v \in Tasks : TaskStep(v)
    BY <1>3
  <2>2. ~stalled /\ Live(v)
    BY <2>1, TaskStepTask DEF TaskStep
  <2>3. Alone(v)
    BY <2>2 DEF TasksAlone
  <2>4. \A u \in Tasks : Live(u)' => u = v
    BY <2>1, <2>3, TaskStepTask DEF Alone, Live
  <2>5. t = v
    BY <2>4
  <2>6. ~TaskSignal(v)
    <3>1. ASSUME TaskSignal(v) PROVE task'[v] = NoTask
      BY <3>1 DEF TaskSignal, TypeOK
    <3>2. QED
      BY <2>5, <3>1 DEF Live, NoTask
  <2>7. UNCHANGED <<scanning_, scan_result_pending_>>
    BY <2>1, <2>6 DEF TaskStep, TaskStart, TaskSettle, TaskKnown, TaskSweepEnds, TaskBatch, TaskStarved,
                      TaskVerify, TaskVerified, TaskFinish, flagVars
  <2>8. UNCHANGED <<loop_pc, deferred_apply_, serials, socket>>
    BY <2>1 DEF TaskStep, loopVars, hostVars
  <2>9. QED
    BY <2>3, <2>4, <2>5, <2>7, <2>8 DEF Alone
<1>4. ASSUME UNCHANGED <<task, stalled>> PROVE Alone(t)
  BY <1>4 DEF TasksAlone, Live
<1>5. ASSUME UNCHANGED <<task, scanning_, scan_result_pending_, loop_pc, deferred_apply_, serials, socket>>, Alone(t)
      PROVE  Alone(t)'
  BY <1>5 DEF Alone, Live
<1>6. CASE TypeHost
  BY <1>4, <1>6 DEF TypeHost, Alone, Live, flagVars, loopVars
<1>7. CASE TypeSerials
  BY <1>4, <1>7 DEF TypeSerials, Alone, Live, flagVars, loopVars
<1>8. CASE PushConfig
  <2>1. Alone(t) /\ UNCHANGED <<task, scanning_, scan_result_pending_, loop_pc, deferred_apply_>>
    BY <1>4, <1>8 DEF PushConfig, flagVars, loopVars
  <2>2. serials' /\ socket' = NoHost
    BY <1>8, <2>1 DEF PushConfig, Alone, TypeOK
  <2>3. QED
    BY <2>1, <2>2 DEF Alone, Live
<1>9. CASE LoopStart
  BY <1>4, <1>9 DEF LoopStart, Alone, Live, flagVars, hostVars
<1>10. CASE Watchdog
  <2>1. UNCHANGED <<task, serials, socket, deferred_apply_, scan_result_pending_>> /\ loop_pc' = "pickup"
    BY <1>10 DEF Watchdog, hostVars
  <2>2. UNCHANGED <<scanning_, stalled>>
    BY <1>10 DEF Watchdog, DeclareStalled
  <2>3. QED
    BY <1>4, <2>1, <2>2 DEF Alone, Live
<1>11. CASE Pickup
  <2>1. Alone(t) /\ UNCHANGED <<task, serials, socket, deferred_apply_>>
    BY <1>4, <1>11 DEF Pickup, hostVars
  <2>2. UNCHANGED <<scan_result_pending_, scanning_>> /\ loop_pc' = "rest"
    BY <1>11, <2>1 DEF Pickup, Alone
  <2>3. QED
    BY <2>1, <2>2 DEF Alone, Live
<1>12. CASE Result
  BY <1>4, <1>12 DEF Result, Alone
<1>13. CASE Rest
  <2>1. Alone(t) /\ UNCHANGED <<task, serials, scanning_, scan_result_pending_>> /\ loop_pc' = "out"
    BY <1>4, <1>13 DEF Rest, flagVars
  <2>2. UNCHANGED <<deferred_apply_, socket>>
    BY <1>13, <2>1 DEF Rest, Apply, Poll, Alone
  <2>3. QED
    BY <2>1, <2>2 DEF Alone, Live
<1>14. CASE Tick
  BY <1>4, <1>5, <1>14 DEF Tick, flagVars, hostVars
<1>15. CASE UNCHANGED vars
  BY <1>4, <1>5, <1>15 DEF vars, flagVars, hostVars, loopVars
<1>16. CASE ScanRefused
  BY <1>4, <1>5, <1>16 DEF ScanRefused, flagVars, hostVars, loopVars
<1>17. QED
  BY <1>1, <1>2, <1>3, <1>6, <1>7, <1>8, <1>9, <1>10, <1>11, <1>12, <1>13, <1>14, <1>15, <1>16 DEF Next

LEMMA AlwaysAlone == SafetySpec => []TasksAlone
<1>1. Init => TasksAlone
  BY DEF Init, TasksAlone, Live, NoTask
<1>2. QED
  BY <1>1, ScanTypeCorrect, NextTasksAlone, PTL DEF SafetySpec

(* The members the task and the main loop share have one writing task.     *)
THEOREM OneTaskAtATime == SafetySpec => []OneTask
<1>1. TasksAlone => OneTask
  BY DEF TasksAlone, Alone, OneTask
<1>2. QED
  BY <1>1, AlwaysAlone, PTL

(* The poller never takes the dongle's one connection from a scan.         *)
THEOREM PollerKeepsOffTheScan == SafetySpec => []PollerKeepsOff
<1>1. TasksAlone => PollerKeepsOff
  BY DEF TasksAlone, Alone, PollerKeepsOff
<1>2. QED
  BY <1>1, AlwaysAlone, PTL

-----------------------------------------------------------------------------
(* The address found.                                                      *)

(* What task t has found so far is true: the address it probes first is    *)
(* the hub's, and a found address is the dongle's.                         *)
TaskIsTrue(t) ==
  /\ task[t].pc = "known" => task[t].probing = host_ /\ host_ /= NoHost
  /\ task[t].pc = "found" => found_ip_buf_ = Dongle
  /\ task[t].pc = "signal" /\ scan_found_ => found_ip_buf_ = Dongle

(* From the task to the address applied: it is the dongle's all the way.   *)
ResultIsTrue ==
  /\ (scan_result_pending_ \/ loop_pc = "result") /\ scan_found_ => found_ip_buf_ = Dongle
  /\ deferred_apply_ => deferred_ip_ = Dongle

FoundStaysTrue ==
  ~stalled /\ ~edited => ResultIsTrue /\ \A t \in Tasks : TaskIsTrue(t)

(* A task's step to rec that proves nothing.                               *)
LEMMA StepIsTrue ==
  ASSUME TypeOK, NEW t \in Tasks, NEW q, task' = [task EXCEPT ![t] = q],
         \/ q.pc \notin {"known", "found", "signal"}
         \/ q.pc = "known" /\ q.probing = host_' /\ host_' /= NoHost
         \/ q.pc = "found" /\ found_ip_buf_' = Dongle
         \/ q.pc = "signal" /\ (scan_found_' => found_ip_buf_' = Dongle)
  PROVE  TaskIsTrue(t)'
<1>1. task'[t] = q
  BY DEF TypeOK
<1>2. QED
  BY <1>1 DEF TaskIsTrue

LEMMA TaskStepIsTrue ==
  ASSUME TypeOK, NEW t \in Tasks, TaskStep(t), TaskIsTrue(t)
  PROVE  TaskIsTrue(t)'
<1> DEFINE r == task[t]
<1>1. r \in Task /\ UNCHANGED host_
  BY DEF TypeOK, TaskStep, hostVars
<1>2. ASSUME NEW pc, Conclude(t, pc),
             \/ pc \notin {"known", "found", "signal"}
             \/ pc = "found" /\ found_ip_buf_' = Dongle
      PROVE  TaskIsTrue(t)'
  <2>1. [NoTask EXCEPT !.pc = pc].pc = pc
    BY DEF NoTask
  <2>2. QED
    BY <1>2, <2>1, StepIsTrue DEF Conclude
<1>3. CASE TaskStart(t)
  <2>1. [r EXCEPT !.pc = "settle"].pc = "settle"
    BY <1>1 DEF Task
  <2>2. QED
    BY <1>3, <2>1, StepIsTrue DEF TaskStart, Pulse
<1>4. CASE TaskSettle(t)
  <2>1. CASE host_ = NoHost
    <3>1. [r EXCEPT !.pc = "sweep", !.probing = host_].pc = "sweep"
      BY <1>1 DEF Task
    <3>2. QED
      BY <1>4, <2>1, <3>1, StepIsTrue DEF TaskSettle, Pulse
  <2>2. CASE host_ /= NoHost
    <3>1. /\ [r EXCEPT !.pc = "known", !.probing = host_].pc = "known"
          /\ [r EXCEPT !.pc = "known", !.probing = host_].probing = host_
      BY <1>1 DEF Task
    <3>2. QED
      BY <1>1, <1>4, <2>2, <3>1, StepIsTrue DEF TaskSettle, Pulse
  <2>3. QED
    BY <2>1, <2>2
<1>5. CASE TaskKnown(t)
  <2>1. CASE Conclude(t, "found") /\ Answers(r.probing) /\ found_ip_buf_' = host_
    <3>1. found_ip_buf_' = Dongle
      BY <1>5, <2>1 DEF TaskKnown, TaskIsTrue, Answers
    <3>2. QED
      BY <1>2, <2>1, <3>1
  <2>2. CASE Pulse(t, [r EXCEPT !.pc = "sweep", !.probing = NoHost])
    <3>1. [r EXCEPT !.pc = "sweep", !.probing = NoHost].pc = "sweep"
      BY <1>1 DEF Task
    <3>2. QED
      BY <2>2, <3>1, StepIsTrue DEF Pulse
  <2>3. QED
    BY <1>5, <2>1, <2>2 DEF TaskKnown
<1>6. CASE TaskSweepEnds(t)
  BY <1>2, <1>6 DEF TaskSweepEnds
<1>7. CASE TaskBatch(t)
  <2>1. PICK n, open : Pulse(t, [r EXCEPT !.pc = "verify", !.next = n, !.cand = open, !.starved = 0])
    BY <1>7 DEF TaskBatch
  <2>2. [r EXCEPT !.pc = "verify", !.next = n, !.cand = open, !.starved = 0].pc = "verify"
    BY <1>1 DEF Task
  <2>3. QED
    BY <2>1, <2>2, StepIsTrue DEF Pulse
<1>8. CASE TaskStarved(t)
  <2>1. CASE Conclude(t, "notfound")
    BY <1>2, <2>1
  <2>2. CASE Pulse(t, [r EXCEPT !.next = SkipSelf(@), !.starved = @ + 1])
    <3>1. [r EXCEPT !.next = SkipSelf(@), !.starved = @ + 1].pc = "sweep"
      BY <1>1, <1>8 DEF Task, TaskStarved
    <3>2. QED
      BY <2>2, <3>1, StepIsTrue DEF Pulse
  <2>3. QED
    BY <1>8, <2>1, <2>2 DEF TaskStarved
<1>9. CASE TaskVerify(t)
  <2>1. CASE Conclude(t, "found") /\ \E c : Answers(c) /\ found_ip_buf_' = c
    <3>1. found_ip_buf_' = Dongle
      BY <2>1 DEF Answers
    <3>2. QED
      BY <1>2, <2>1, <3>1
  <2>2. CASE Pulse(t, [NoTask EXCEPT !.pc = "notfound"])
    BY <1>2, <2>2 DEF Pulse, Conclude
  <2>3. CASE \E c : Pulse(t, [r EXCEPT !.cand = @ \ {c}])
    <3>1. PICK c : Pulse(t, [r EXCEPT !.cand = @ \ {c}])
      BY <2>3
    <3>2. [r EXCEPT !.cand = @ \ {c}].pc = "verify"
      BY <1>1, <1>9 DEF Task, TaskVerify
    <3>3. QED
      BY <3>1, <3>2, StepIsTrue DEF Pulse
  <2>4. QED
    BY <1>9, <2>1, <2>2, <2>3 DEF TaskVerify
<1>10. CASE TaskVerified(t)
  <2>1. [r EXCEPT !.pc = "sweep"].pc = "sweep"
    BY <1>1 DEF Task
  <2>2. task' = [task EXCEPT ![t] = [r EXCEPT !.pc = "sweep"]]
    BY <1>10 DEF TaskVerified
  <2>3. QED
    BY <2>1, <2>2, StepIsTrue
<1>11. CASE TaskFinish(t)
  <2>1. [r EXCEPT !.pc = "signal"].pc = "signal"
    BY <1>1 DEF Task
  <2>2. task' = [task EXCEPT ![t] = [r EXCEPT !.pc = "signal"]]
    BY <1>11 DEF TaskFinish
  <2>3. scan_found_' => found_ip_buf_' = Dongle
    BY <1>11 DEF TaskFinish, TaskIsTrue
  <2>4. QED
    BY <2>1, <2>2, <2>3, StepIsTrue
<1>12. CASE TaskSignal(t)
  BY <1>12, StepIsTrue DEF TaskSignal, NoTask
<1>13. QED
  BY <1>3, <1>4, <1>5, <1>6, <1>7, <1>8, <1>9, <1>10, <1>11, <1>12 DEF TaskStep

LEMMA NextFoundStaysTrue == TypeOK /\ TasksAlone /\ FoundStaysTrue /\ [Next]_vars => FoundStaysTrue'
<1> SUFFICES ASSUME TypeOK, TasksAlone, FoundStaysTrue, [Next]_vars, ~stalled', ~edited'
             PROVE  ResultIsTrue' /\ \A t \in Tasks : TaskIsTrue(t)'
  BY DEF FoundStaysTrue
<1>1. ASSUME NEW t \in Tasks, ~Live(t), UNCHANGED task PROVE TaskIsTrue(t)'
  BY <1>1 DEF TaskIsTrue, Live
<1>2. ASSUME NEW t \in Tasks, TaskIsTrue(t), UNCHANGED <<task, host_, scan_found_, found_ip_buf_>> PROVE TaskIsTrue(t)'
  BY <1>2 DEF TaskIsTrue
<1>3. ASSUME ResultIsTrue,
             UNCHANGED <<scan_result_pending_, scan_found_, found_ip_buf_, deferred_apply_, deferred_ip_>>,
             loop_pc' = loop_pc \/ loop_pc' /= "result"
      PROVE  ResultIsTrue'
  BY <1>3 DEF ResultIsTrue
<1>4. ASSUME UNCHANGED <<stalled, edited>> PROVE ResultIsTrue /\ \A t \in Tasks : TaskIsTrue(t)
  BY <1>4 DEF FoundStaysTrue
<1>5. CASE TypeHost
  <2>1. ~stalled /\ ~edited /\ ~scanning_
    BY <1>5 DEF TypeHost
  <2>2. \A t \in Tasks : ~Live(t)
    BY <2>1 DEF TasksAlone, Alone
  <2>3. ResultIsTrue'
    BY <1>3, <1>5, <2>1 DEF TypeHost, FoundStaysTrue, flagVars, loopVars
  <2>4. QED
    BY <1>1, <1>5, <2>2, <2>3 DEF TypeHost
<1>6. CASE TypeSerials
  BY <1>2, <1>3, <1>4, <1>6 DEF TypeSerials, flagVars, loopVars
<1>7. CASE PushConfig
  <2>1. ResultIsTrue /\ \A t \in Tasks : TaskIsTrue(t)
    BY <1>4, <1>7 DEF PushConfig
  <2>2. ResultIsTrue'
    BY <1>3, <1>7, <2>1 DEF PushConfig, flagVars, loopVars
  <2>3. ASSUME NEW t \in Tasks PROVE TaskIsTrue(t)'
    <3>1. ~stalled /\ UNCHANGED <<task, scan_found_, found_ip_buf_>>
      BY <1>7 DEF PushConfig, flagVars
    <3>2. Live(t) => serials
      BY <3>1 DEF TasksAlone, Alone
    <3>3. task[t].pc /= "known"
      BY <1>7, <2>1, <3>2 DEF PushConfig, is_config_ready, Live, TaskIsTrue
    <3>4. QED
      BY <2>1, <3>1, <3>3 DEF TaskIsTrue
  <2>4. QED
    BY <2>2, <2>3
<1>8. CASE Reboot
  BY <1>8 DEF Reboot, ResultIsTrue, TaskIsTrue, NoTask
<1>9. CASE action_scan_dongle
  <2>1. ~stalled /\ ~scanning_
    BY <1>9 DEF action_scan_dongle
  <2>2. \A t \in Tasks : task[t].pc = "none"
    BY <2>1 DEF TasksAlone, Alone, Live
  <2>3. ResultIsTrue'
    BY <1>9 DEF action_scan_dongle, ResultIsTrue
  <2>4. \A t \in Tasks : task'[t].pc \in {"none", "created"}
    <3>1. CASE UNCHANGED task
      BY <2>2, <3>1
    <3>2. CASE \E t \in Tasks : task' = [task EXCEPT ![t] = [NoTask EXCEPT !.pc = "created"]]
      BY <2>2, <3>2 DEF TypeOK, NoTask
    <3>3. QED
      BY <1>9, <3>1, <3>2 DEF action_scan_dongle
  <2>5. QED
    BY <2>3, <2>4 DEF TaskIsTrue
<1>10. CASE LoopStart
  BY <1>2, <1>3, <1>4, <1>10 DEF LoopStart, flagVars, hostVars
<1>11. CASE Watchdog
  <2>1. UNCHANGED <<stalled, edited>>
    BY <1>11 DEF Watchdog, DeclareStalled
  <2>2. QED
    BY <1>2, <1>3, <1>4, <1>11, <2>1 DEF Watchdog, hostVars
<1>12. CASE Pickup
  <2>1. ResultIsTrue /\ \A t \in Tasks : TaskIsTrue(t)
    BY <1>4, <1>12 DEF Pickup
  <2>2. ResultIsTrue'
    BY <1>12, <2>1 DEF Pickup, ResultIsTrue
  <2>3. QED
    BY <1>2, <1>12, <2>1, <2>2 DEF Pickup, hostVars
<1>13. CASE Result
  <2>1. ResultIsTrue /\ \A t \in Tasks : TaskIsTrue(t)
    BY <1>4, <1>13 DEF Result
  <2>2. ResultIsTrue'
    BY <1>13, <2>1 DEF Result, ResultIsTrue, flagVars
  <2>3. QED
    BY <1>2, <1>13, <2>1, <2>2 DEF Result, flagVars, hostVars
<1>14. CASE Rest
  <2>1. /\ ResultIsTrue /\ \A t \in Tasks : TaskIsTrue(t)
        /\ ~stalled /\ UNCHANGED <<task, scan_result_pending_, scan_found_, found_ip_buf_>> /\ loop_pc' = "out"
    BY <1>4, <1>14 DEF Rest, flagVars
  <2>2. CASE Apply
    <3>1. \A t \in Tasks : ~Live(t)
      BY <2>1, <2>2 DEF Apply, TasksAlone, Alone
    <3>2. ResultIsTrue'
      BY <2>1, <2>2 DEF Apply, ResultIsTrue
    <3>3. QED
      BY <1>1, <2>1, <3>1, <3>2
  <2>3. CASE UNCHANGED <<deferred_apply_, deferred_ip_, host_, nvs_host>>
    BY <1>2, <1>3, <2>1, <2>3
  <2>4. QED
    BY <1>14, <2>2, <2>3 DEF Rest
<1>15. CASE \E t \in Tasks : TaskStep(t)
  <2>1. PICK t \in Tasks : TaskStep(t)
    BY <1>15
  <2>2. /\ ResultIsTrue /\ TaskIsTrue(t) /\ ~stalled
        /\ UNCHANGED <<deferred_apply_, deferred_ip_, loop_pc>>
    BY <1>4, <2>1 DEF TaskStep, loopVars
  <2>3. Live(t) /\ Alone(t)
    BY <2>1, <2>2, TaskStepTask DEF TasksAlone
  <2>4. TaskIsTrue(t)'
    BY <2>1, <2>2, TaskStepIsTrue
  <2>5. ASSUME NEW u \in Tasks, u /= t PROVE TaskIsTrue(u)'
    <3>1. task'[u].pc = "none"
      BY <2>1, <2>3, <2>5, TaskStepTask DEF Alone, Live
    <3>2. QED
      BY <3>1 DEF TaskIsTrue
  <2>6. ResultIsTrue'
    <3>1. CASE TaskSignal(t)
      BY <2>2, <2>3, <3>1 DEF TaskSignal, TaskIsTrue, ResultIsTrue, Alone
    <3>2. CASE ~TaskSignal(t)
      <4>1. UNCHANGED scan_result_pending_
        BY <2>1, <3>2 DEF TaskStep, TaskStart, TaskSettle, TaskKnown, TaskSweepEnds, TaskBatch,
                          TaskStarved, TaskVerify, TaskVerified, TaskFinish, flagVars
      <4>2. QED
        BY <2>2, <2>3, <4>1 DEF ResultIsTrue, Alone
    <3>3. QED
      BY <3>1, <3>2
  <2>7. QED
    BY <2>4, <2>5, <2>6
<1>16. CASE Tick
  BY <1>2, <1>3, <1>4, <1>16 DEF Tick, flagVars, hostVars
<1>17. CASE UNCHANGED vars
  BY <1>2, <1>3, <1>4, <1>17 DEF vars, flagVars, loopVars, hostVars
<1>18. CASE ScanRefused
  BY <1>2, <1>3, <1>4, <1>18 DEF ScanRefused, flagVars, loopVars, hostVars
<1>19. QED
  BY <1>5, <1>6, <1>7, <1>8, <1>9, <1>10, <1>11, <1>12, <1>13, <1>14, <1>15, <1>16, <1>17, <1>18 DEF Next

(* What a scan hands to the hub is the dongle's address, whichever way it  *)
(* was found, unless the watchdog or the user interfered.                  *)
THEOREM FoundIsTheDongle == SafetySpec => []FoundIsVerified
<1>1. Init => FoundStaysTrue
  BY DEF Init, FoundStaysTrue, ResultIsTrue, TaskIsTrue, NoTask
<1>2. FoundStaysTrue => FoundIsVerified
  BY DEF FoundStaysTrue, ResultIsTrue, FoundIsVerified
<1>3. QED
  BY <1>1, <1>2, ScanTypeCorrect, AlwaysAlone, NextFoundStaysTrue, PTL DEF SafetySpec
=============================================================================
