-------------------------- MODULE CloudTaskProofs ---------------------------
(***************************************************************************)
(* What CloudTask's run checks of its states, for any number of banks, any *)
(* periods and any frames received.                                        *)
(***************************************************************************)
EXTENDS CloudTask, FiniteSetTheorems, SequenceTheorems, WellFoundedInduction, TLAPS

Polling == {"initial", "input", "input_recv", "hold", "hold_recv"}
Banks   == 0..(HoldBanks - 1)

(* The times, without the queue.                                           *)
Times ==
  /\ late \in Nat
  /\ since \in [beat: 0..Heartbeat, input: 0..PollInput, hold: 0..PollHold, change: Int]
  /\ since.change <= Settle
  /\ quiet \in 0..(MaxQuiet + 1) /\ calm \in 0..Settle

(* The banks below hold_bank have been asked for, or all of them.          *)
Initially ==
  /\ hold_bank \in Banks
  /\ asked = IF initial_hold_done THEN Banks ELSE 0..(hold_bank - 1)
  /\ pc \in {"input", "input_recv", "hold", "hold_recv"} => initial_hold_done
  /\ pc = "initial" => ~initial_hold_done

(* since.change and late are the time since the change, in two pieces; the *)
(* first is negative only for a change seen after `now' was read.          *)
Settling ==
  /\ -late <= since.change
  /\ calm = UpTo(since.change + late, Settle)
  /\ since.change < 0 => changed
  /\ pc \in Polling => calm = Settle \/ changed

(* A silence began no earlier than the last heartbeat's pass; a poll that  *)
(* waits has just sent something, and only the receive at the head of the  *)
(* loop waits without having done so.                                      *)
Silent ==
  /\ pc # "connect" /\ since.beat < Heartbeat => quiet <= since.beat + late
  /\ pc \in {"flush", "beat"} => late <= RecvTimeout /\ quiet <= MaxQuiet
  /\ pc \notin {"connect", "flush", "beat"} => quiet <= MaxQuiet - RecvTimeout
  /\ pc \in {"greet", "input_recv", "hold_recv"} => quiet = 0

CloudInv == Times /\ Initially /\ Settling /\ Silent

-----------------------------------------------------------------------------
LEMMA Constants ==
  /\ InputBanks \in Nat \ {0} /\ HoldBanks \in Nat \ {0} /\ RecvTimeout \in Nat \ {0}
  /\ Heartbeat \in Nat \ {0} /\ PollInput \in Nat \ {0} /\ PollHold \in Nat \ {0}
  /\ Settle \in Nat \ {0}
  /\ MaxQuiet \in Nat /\ MaxQuiet = Heartbeat - 1 + 2 * RecvTimeout
  BY CloudAssumption DEF CloudAssumption, MaxQuiet

LEMMA UpToType ==
  ASSUME NEW t \in Int, NEW top \in Nat
  PROVE  /\ UpTo(t, top) \in Int /\ UpTo(t, top) <= top /\ UpTo(t, top) <= t
         /\ t >= 0 => UpTo(t, top) \in 0..top
         /\ t < top => UpTo(t, top) = t
         /\ t >= top => UpTo(t, top) = top
  BY DEF UpTo

LEMMA CloudInit == Init => CloudInv
  <1> SUFFICES ASSUME Init PROVE CloudInv OBVIOUS
  <1> USE Constants
  <1>1. since = [beat |-> 0, input |-> PollInput, hold |-> PollHold, change |-> Settle]
    BY DEF Init
  <1>2. 0 \in 0..Heartbeat /\ PollInput \in 0..PollInput /\ PollHold \in 0..PollHold
    OBVIOUS
  <1>3. since \in [beat: 0..Heartbeat, input: 0..PollInput, hold: 0..PollHold, change: Int]
    BY <1>1, <1>2
  <1>4. since.change = Settle /\ since.beat = 0 BY <1>1
  <1>5. Times BY <1>3, <1>4 DEF Init, Times
  <1>6. Initially BY DEF Init, Initially, Banks
  <1>7. Settling BY <1>4 DEF Init, Settling, UpTo, Polling
  <1>8. Silent BY <1>4 DEF Init, Silent
  <1> QED BY <1>5, <1>6, <1>7, <1>8 DEF CloudInv

-----------------------------------------------------------------------------
(* A new connection starts all over.                                       *)
LEMMA ConnectKeeps == ASSUME CloudInv, Connect PROVE CloudInv'
  <1> USE Constants
  <1>1. since' = [beat |-> 0, input |-> PollInput, hold |-> PollHold, change |-> Settle]
    BY DEF Connect
  <1>2. 0 \in 0..Heartbeat /\ PollInput \in 0..PollInput /\ PollHold \in 0..PollHold
    OBVIOUS
  <1>3. since' \in [beat: 0..Heartbeat, input: 0..PollInput, hold: 0..PollHold, change: Int]
    BY <1>1, <1>2
  <1>4. since'.change = Settle /\ since'.beat = 0 BY <1>1
  <1>5. Times' BY <1>3, <1>4 DEF Connect, Times
  <1>6. Initially' BY DEF Connect, Initially, Banks
  <1>7. Settling' BY <1>4 DEF Connect, Settling, UpTo, Polling
  <1>8. Silent' BY <1>4 DEF Connect, Silent
  <1> QED BY <1>5, <1>6, <1>7, <1>8 DEF CloudInv

(* Actions that neither wait nor set a time stamp.                         *)
LEMMA ControlKeeps ==
  ASSUME CloudInv, Greet \/ ReceiveFails \/ Flushed \/ Guard \/ MqttQueues \/ Cut \/ UNCHANGED vars
  PROVE  CloudInv'
  <1> USE Constants DEF CloudInv
  <1>1. /\ late' = late /\ since' = since /\ calm' = calm /\ changed' = changed /\ asked' = asked
        /\ hold_bank' = hold_bank /\ initial_hold_done' = initial_hold_done
    BY DEF Greet, ReceiveFails, Flushed, Guard, MqttQueues, Cut, vars, schedule, history
  <1>2. quiet' = quiet \/ (pc = "greet" /\ quiet' = 0)
    BY DEF Greet, ReceiveFails, Flushed, Guard, MqttQueues, Cut, vars, history, SendOk, SendFails
  <1>3. \/ pc' = pc
        \/ pc = "greet" /\ pc' \in {"recv", "connect"}
        \/ pc = "recv" /\ pc' = "connect"
        \/ pc = "flush" /\ pc' = "beat"
        \/ pc = "guard" /\ battery_settling /\ pc' = "recv"
        \/ pc = "guard" /\ ~battery_settling /\ initial_hold_done /\ pc' = "input"
        \/ pc = "guard" /\ ~battery_settling /\ ~initial_hold_done /\ pc' = "initial"
    BY DEF Greet, ReceiveFails, Flushed, Guard, MqttQueues, Cut, vars, Close
  <1>4. Times' BY <1>1, <1>2 DEF Times
  <1>5. Initially' BY <1>1, <1>3 DEF Initially
  <1>6. Settling'
    <2>1. since.change \in Int /\ since.change <= Settle /\ late \in Nat BY DEF Times
    <2>2. pc = "guard" /\ ~battery_settling => calm = Settle \/ changed
      <3> SUFFICES ASSUME pc = "guard", ~battery_settling PROVE calm = Settle \/ changed
        OBVIOUS
      <3>1. since.change < 0 \/ since.change = Settle BY <2>1 DEF battery_settling
      <3>2. CASE since.change < 0 BY <3>2 DEF Settling
      <3>3. CASE since.change = Settle BY <2>1, <3>3, UpToType DEF Settling
      <3> QED BY <3>1, <3>2, <3>3
    <2>3. pc' \in Polling => calm' = Settle \/ changed'
      BY <1>1, <1>3, <2>2 DEF Settling, Polling
    <2> QED BY <1>1, <2>3 DEF Settling
  <1>7. Silent'
    <2>1. since.beat \in Nat /\ late \in Nat /\ quiet \in Nat BY DEF Times
    <2>2. pc' # "connect" => pc # "connect" \/ pc' = pc BY <1>3
    <2>3. pc' # "connect" /\ since'.beat < Heartbeat => quiet' <= since'.beat + late'
      BY <1>1, <1>2, <1>3, <2>1 DEF Silent
    <2>4. /\ pc' \in {"flush", "beat"} => late' <= RecvTimeout /\ quiet' <= MaxQuiet
          /\ pc' \notin {"connect", "flush", "beat"} => quiet' <= MaxQuiet - RecvTimeout
          /\ pc' \in {"greet", "input_recv", "hold_recv"} => quiet' = 0
      BY <1>1, <1>2, <1>3, <2>1 DEF Silent
    <2> QED BY <2>3, <2>4 DEF Silent
  <1> QED BY <1>4, <1>5, <1>6, <1>7

LEMMA FlushKeeps == ASSUME CloudInv, Flush PROVE CloudInv'
  <1> USE Constants DEF CloudInv
  <1>1. UNCHANGED <<pc, bank, late, initial_hold_done, hold_bank, asked>> BY DEF Flush
  <1>2. quiet' \in {0, quiet} BY DEF Flush, SendOk, SendFails
  <1>3. pc = "flush" BY DEF Flush
  <1>4. \/ UNCHANGED <<since, calm, changed>>
        \/ since' = [since EXCEPT !.change = -late] /\ calm' = 0 /\ changed' = TRUE
    BY DEF Flush
  <1>5. /\ since' \in [beat: 0..Heartbeat, input: 0..PollInput, hold: 0..PollHold, change: Int]
        /\ since'.beat = since.beat
    BY <1>4 DEF Times
  <1>6. \/ UNCHANGED <<since, calm, changed>>
        \/ since'.change = -late /\ calm' = 0 /\ changed' = TRUE
    BY <1>4 DEF Times
  <1>7. late \in Nat /\ since.change \in Int /\ since.beat \in Nat /\ quiet \in Nat BY DEF Times
  <1>8. since'.change <= Settle BY <1>6, <1>7 DEF Times
  <1>9. calm' \in 0..Settle BY <1>6 DEF Times
  <1>10. Times' BY <1>1, <1>2, <1>5, <1>8, <1>9 DEF Times
  <1>11. Initially' BY <1>1 DEF Initially
  <1>12. Settling'
    <2>1. CASE UNCHANGED <<since, calm, changed>> BY <1>1, <2>1 DEF Settling
    <2>2. CASE since'.change = -late /\ calm' = 0 /\ changed' = TRUE
      <3>1. since'.change + late' = 0 BY <1>1, <1>7, <2>2
      <3>2. calm' = UpTo(since'.change + late', Settle) BY <3>1, <2>2 DEF UpTo
      <3> QED BY <1>1, <1>7, <2>2, <3>2 DEF Settling
    <2> QED BY <1>6, <2>1, <2>2
  <1>13. Silent' BY <1>1, <1>2, <1>3, <1>5, <1>7 DEF Silent
  <1> QED BY <1>10, <1>11, <1>12, <1>13

LEMMA BeatKeeps == ASSUME CloudInv, Beat PROVE CloudInv'
  <1> USE Constants DEF CloudInv
  <1>1. UNCHANGED <<late, initial_hold_done, hold_bank, calm, changed, asked>> BY DEF Beat
  <1>2. pc = "beat" /\ pc' \in {"guard", "connect"} BY DEF Beat, Close
  <1>3. since' = since \/ since' = [since EXCEPT !.beat = 0] BY DEF Beat
  <1>4. /\ since' \in [beat: 0..Heartbeat, input: 0..PollInput, hold: 0..PollHold, change: Int]
        /\ since'.change = since.change
    <2>1. 0 \in 0..Heartbeat OBVIOUS
    <2> QED BY <1>3, <2>1 DEF Times
  <1>5. pc' = "guard" =>
          \/ since.beat < Heartbeat /\ since' = since /\ quiet' = quiet
          \/ quiet' = 0
    BY DEF Beat, SendOk, Close
  <1>6. quiet' \in {quiet, 0} BY DEF Beat, SendOk, SendFails
  <1>7. late \in Nat /\ since.beat \in Nat /\ since'.beat \in Nat /\ quiet \in Nat
    BY <1>4 DEF Times
  <1>8. Times' BY <1>1, <1>4, <1>6 DEF Times
  <1>9. Initially' BY <1>1, <1>2 DEF Initially
  <1>10. Settling' BY <1>1, <1>2, <1>4 DEF Settling, Polling
  <1>11. Silent'
    <2>1. late <= RecvTimeout /\ (since.beat < Heartbeat => quiet <= since.beat + late)
      BY <1>2 DEF Silent
    <2>2. CASE since.beat < Heartbeat /\ since' = since /\ quiet' = quiet
      BY <1>1, <1>2, <1>7, <2>1, <2>2 DEF Silent
    <2>3. CASE quiet' = 0
      BY <1>1, <1>2, <1>7, <2>3 DEF Silent
    <2>4. CASE pc' = "connect" BY <2>4 DEF Silent
    <2> QED BY <1>2, <1>5, <2>2, <2>3, <2>4
  <1> QED BY <1>8, <1>9, <1>10, <1>11

(* Polls that send: the initial one, and the head of the two loops.        *)
LEMMA AsksKeep ==
  ASSUME CloudInv,
         InitialHold \/ Asks("input", "input_recv", InputBanks, InputDue)
                     \/ Asks("hold", "hold_recv", HoldBanks, HoldDue)
  PROVE  CloudInv'
  <1> USE Constants DEF CloudInv
  <1>1. UNCHANGED <<late, calm, changed>> BY DEF InitialHold, Asks, schedule
  <1>2. pc' = "connect" \/ quiet' = 0 BY DEF InitialHold, Asks, SendOk, Close
  <1>3. quiet' \in {quiet, 0} BY DEF InitialHold, Asks, SendOk, SendFails
  <1>4. \/ since' = since
        \/ since' = [since EXCEPT !.hold = 0]
    BY DEF InitialHold, Asks, schedule
  <1>5. /\ since' \in [beat: 0..Heartbeat, input: 0..PollInput, hold: 0..PollHold, change: Int]
        /\ since'.change = since.change /\ since'.beat = since.beat
    <2>1. 0 \in 0..PollHold OBVIOUS
    <2> QED BY <1>4, <2>1 DEF Times
  <1>6. late \in Nat /\ since.beat \in Nat /\ quiet \in Nat BY DEF Times
  <1>7. pc \in {"initial", "input", "hold"} BY DEF InitialHold, Asks
  <1>8. Times' BY <1>1, <1>3, <1>5 DEF Times
  <1>9. Initially'
    <2>1. CASE InitialHold
      <3>1. hold_bank \in Banks /\ asked = 0..(hold_bank - 1) /\ ~initial_hold_done
        BY <2>1 DEF InitialHold, Initially
      <3>2. CASE asked' = asked /\ pc' = "connect" /\ UNCHANGED <<hold_bank, initial_hold_done>>
        BY <3>1, <3>2 DEF Initially
      <3>3. CASE asked' = asked \cup {hold_bank} /\ pc' = "recv"
        <4>1. asked' = 0..hold_bank BY <3>1, <3>3 DEF Banks
        <4>2. CASE hold_bank + 1 >= HoldBanks
          <5>1. hold_bank' = 0 /\ initial_hold_done'
            BY <2>1, <3>3, <4>2 DEF InitialHold, Close
          <5>2. asked' = Banks BY <3>1, <4>1, <4>2 DEF Banks
          <5> QED BY <3>3, <5>1, <5>2 DEF Initially, Banks
        <4>3. CASE ~(hold_bank + 1 >= HoldBanks)
          <5>1. hold_bank' = hold_bank + 1 /\ ~initial_hold_done'
            BY <2>1, <3>1, <3>3, <4>3 DEF InitialHold, Close
          <5>2. hold_bank' \in Banks /\ asked' = 0..(hold_bank' - 1)
            BY <3>1, <4>1, <4>3, <5>1 DEF Banks
          <5> QED BY <3>3, <5>1, <5>2 DEF Initially
        <4> QED BY <4>2, <4>3
      <3> QED BY <2>1, <3>2, <3>3 DEF InitialHold, Close
    <2>2. CASE ~InitialHold
      <3>1. UNCHANGED <<initial_hold_done, hold_bank, asked>> BY <2>2 DEF Asks, schedule
      <3>2. pc \in {"input", "hold"} /\ pc' \in {"input_recv", "hold_recv", "connect"}
        BY <2>2 DEF Asks, Close
      <3> QED BY <3>1, <3>2 DEF Initially
    <2> QED BY <2>1, <2>2
  <1>10. Settling' BY <1>1, <1>5, <1>7 DEF Settling, Polling
  <1>11. Silent'
    <2>1. pc' \in {"connect", "recv", "input_recv", "hold_recv"} BY DEF InitialHold, Asks, Close
    <2> QED BY <1>1, <1>2, <1>5, <1>6, <2>1 DEF Silent
  <1> QED BY <1>8, <1>9, <1>10, <1>11

(* The ends of the two loops.                                              *)
LEMMA EndsKeep == ASSUME CloudInv, EndInput \/ EndHold PROVE CloudInv'
  <1> USE Constants DEF CloudInv
  <1>1. UNCHANGED <<late, initial_hold_done, hold_bank, quiet, calm, changed, asked>>
    BY DEF EndInput, EndHold, history
  <1>2. (pc = "input" /\ pc' = "hold") \/ (pc = "hold" /\ pc' = "recv") BY DEF EndInput, EndHold
  <1>3. \E t \in {0, since.input} : since' = [since EXCEPT !.input = t]
        \/ \E u \in {0, since.hold} : since' = [since EXCEPT !.hold = u]
    BY DEF EndInput, EndHold
  <1>4. /\ since' \in [beat: 0..Heartbeat, input: 0..PollInput, hold: 0..PollHold, change: Int]
        /\ since'.change = since.change /\ since'.beat = since.beat
    <2>1. 0 \in 0..PollHold /\ 0 \in 0..PollInput OBVIOUS
    <2> QED BY <1>3, <2>1 DEF Times
  <1>5. Times' BY <1>1, <1>4 DEF Times
  <1>6. Initially' BY <1>1, <1>2 DEF Initially
  <1>7. Settling' BY <1>1, <1>2, <1>4 DEF Settling, Polling
  <1>8. Silent' BY <1>1, <1>2, <1>4 DEF Silent
  <1> QED BY <1>5, <1>6, <1>7, <1>8

-----------------------------------------------------------------------------
(* Waiting adds to the silence and to the calm, unless something is heard. *)
LEMMA Waiting ==
  ASSUME Times, NEW batch, NEW waited \in 0..RecvTimeout, Hears(batch, waited)
  PROVE  /\ quiet' \in 0..(MaxQuiet + 1) /\ quiet' <= quiet + waited
         /\ calm' = IF "multi" \in ToSet(batch) THEN 0 ELSE UpTo(calm + waited, Settle)
         /\ calm' \in 0..Settle
  <1> USE Constants
  <1>1. quiet \in Nat /\ calm \in Nat /\ waited \in Nat BY DEF Times
  <1>2. UpTo(quiet + waited, MaxQuiet + 1) \in 0..(MaxQuiet + 1)
        /\ UpTo(quiet + waited, MaxQuiet + 1) <= quiet + waited
    BY <1>1 DEF UpTo
  <1>3. UpTo(calm + waited, Settle) \in 0..Settle BY <1>1 DEF UpTo
  <1> QED BY <1>1, <1>2, <1>3 DEF Hears

LEMMA ReceivesKeeps ==
  ASSUME CloudInv, NEW waited \in 0..RecvTimeout, ReceivesAfter(waited)
  PROVE  CloudInv'
  <1> USE Constants DEF CloudInv
  <1>1. PICK batch \in Arrivals(waited) :
          /\ Hears(batch, waited)
          /\ changed' = ("multi" \in ToSet(batch))
          /\ since' = IF changed' THEN [NextNow EXCEPT !.change = -waited] ELSE NextNow
    BY DEF ReceivesAfter
  <1>2. UNCHANGED <<initial_hold_done, hold_bank, asked>> /\ late' = waited
        /\ pc = "recv" /\ pc' = "flush"
    BY DEF ReceivesAfter
  <1>3. /\ late \in Nat /\ waited \in Nat /\ quiet \in Nat /\ calm \in 0..Settle
        /\ since.beat \in 0..Heartbeat /\ since.input \in 0..PollInput
        /\ since.hold \in 0..PollHold /\ since.change \in Int
    BY DEF Times
  <1>4. /\ UpTo(since.beat + late, Heartbeat) \in 0..Heartbeat
        /\ UpTo(since.input + late, PollInput) \in 0..PollInput
        /\ UpTo(since.hold + late, PollHold) \in 0..PollHold
        /\ UpTo(since.change + late, Settle) = calm
    BY <1>3 DEF UpTo, Settling
  <1>5. /\ NextNow \in [beat: 0..Heartbeat, input: 0..PollInput, hold: 0..PollHold, change: Int]
        /\ NextNow.beat = UpTo(since.beat + late, Heartbeat)
        /\ NextNow.change = calm
    BY <1>3, <1>4 DEF NextNow
  <1>6. /\ since' \in [beat: 0..Heartbeat, input: 0..PollInput, hold: 0..PollHold, change: Int]
        /\ since'.beat = UpTo(since.beat + late, Heartbeat)
        /\ since'.change = IF "multi" \in ToSet(batch) THEN -waited ELSE calm
    <2>1. CASE "multi" \in ToSet(batch)
      <3>1. since' = [NextNow EXCEPT !.change = -waited] BY <1>1, <2>1
      <3> QED BY <1>3, <1>5, <2>1, <3>1
    <2>2. CASE "multi" \notin ToSet(batch)
      <3>1. since' = NextNow BY <1>1, <2>2
      <3> QED BY <1>5, <2>2, <3>1
    <2> QED BY <2>1, <2>2
  <1>7. /\ quiet' \in 0..(MaxQuiet + 1) /\ quiet' <= quiet + waited
        /\ calm' = IF "multi" \in ToSet(batch) THEN 0 ELSE UpTo(calm + waited, Settle)
        /\ calm' \in 0..Settle
    BY <1>1, Waiting
  <1>8. Times' BY <1>2, <1>3, <1>6, <1>7 DEF Times
  <1>9. Initially' BY <1>2 DEF Initially
  <1>10. Settling'
    <2>1. CASE "multi" \in ToSet(batch)
      <3>1. since'.change + late' = 0 /\ since'.change = -late' BY <1>2, <1>3, <1>6, <2>1
      <3>2. calm' = UpTo(since'.change + late', Settle) BY <1>7, <2>1, <3>1 DEF UpTo
      <3>3. changed' BY <1>1, <2>1
      <3> QED BY <1>2, <1>3, <3>1, <3>2, <3>3 DEF Settling, Polling
    <2>2. CASE "multi" \notin ToSet(batch)
      BY <1>2, <1>3, <1>6, <1>7, <2>2 DEF Settling, Polling
    <2> QED BY <2>1, <2>2
  <1>11. Silent'
    <2>1. since.beat < Heartbeat => quiet <= since.beat + late BY <1>2 DEF Silent
    <2>2. since'.beat < Heartbeat => since'.beat = since.beat + late /\ since.beat < Heartbeat
      BY <1>3, <1>6 DEF UpTo
    <2>3. since'.beat < Heartbeat => quiet' <= since'.beat + late'
      BY <1>2, <1>3, <1>7, <2>1, <2>2
    <2>4. quiet <= MaxQuiet - RecvTimeout BY <1>2 DEF Silent
    <2>5. late' <= RecvTimeout /\ quiet' <= MaxQuiet BY <1>2, <1>3, <1>7, <2>4
    <2> QED BY <1>2, <2>3, <2>5 DEF Silent
  <1> QED BY <1>8, <1>9, <1>10, <1>11

LEMMA ListensKeeps ==
  ASSUME CloudInv, Listens("input_recv", "input") \/ Listens("hold_recv", "hold")
  PROVE  CloudInv'
  <1> USE Constants DEF CloudInv
  <1>1. UNCHANGED <<initial_hold_done, hold_bank, asked>> BY DEF Listens
  <1>2. (pc = "input_recv" /\ pc' = "input") \/ (pc = "hold_recv" /\ pc' = "hold")
    BY DEF Listens
  <1>3. Initially' BY <1>1, <1>2 DEF Initially
  <1>4. CASE UNCHANGED <<late, since, queue, quiet, calm, changed>>
    <2>1. Times' BY <1>4 DEF Times
    <2>2. Settling' BY <1>2, <1>4 DEF Settling, Polling
    <2>3. Silent' BY <1>2, <1>4 DEF Silent
    <2> QED BY <1>3, <2>1, <2>2, <2>3
  <1>5. ASSUME NEW waited \in 0..RecvTimeout, NEW batch \in Arrivals(waited),
               Hears(batch, waited),
               changed' = (changed \/ "multi" \in ToSet(batch)),
               late' = late + waited,
               since' = IF "multi" \in ToSet(batch) THEN [since EXCEPT !.change = -late'] ELSE since
        PROVE  CloudInv'
    <2>1. /\ late \in Nat /\ waited \in Nat /\ quiet \in Nat /\ calm \in 0..Settle
          /\ since.beat \in 0..Heartbeat /\ since.change \in Int
      BY DEF Times
    <2>2. /\ since' \in [beat: 0..Heartbeat, input: 0..PollInput, hold: 0..PollHold, change: Int]
          /\ since'.beat = since.beat
          /\ since'.change = IF "multi" \in ToSet(batch) THEN -late' ELSE since.change
      BY <1>5, <2>1 DEF Times
    <2>3. /\ quiet' \in 0..(MaxQuiet + 1) /\ quiet' <= quiet + waited
          /\ calm' = IF "multi" \in ToSet(batch) THEN 0 ELSE UpTo(calm + waited, Settle)
          /\ calm' \in 0..Settle
      BY <1>5, Waiting
    <2>4. Times' BY <1>5, <2>1, <2>2, <2>3 DEF Times
    <2>5. Settling'
      <3>1. CASE "multi" \in ToSet(batch)
        <4>1. since'.change + late' = 0 /\ since'.change = -late' BY <1>5, <2>1, <2>2, <3>1
        <4>2. calm' = UpTo(since'.change + late', Settle) BY <2>3, <3>1, <4>1 DEF UpTo
        <4>3. changed' BY <1>5, <3>1
        <4> QED BY <1>5, <2>1, <4>1, <4>2, <4>3 DEF Settling, Polling
      <3>2. CASE "multi" \notin ToSet(batch)
        <4>1. since'.change = since.change /\ (changed' <=> changed) BY <1>5, <2>2, <3>2
        <4>2. calm = UpTo(since.change + late, Settle) BY DEF Settling
        <4>3. calm' = UpTo(since'.change + late', Settle)
          BY <1>5, <2>1, <2>3, <3>2, <4>1, <4>2 DEF UpTo
        <4>4. calm = Settle => calm' = Settle BY <2>1, <2>3, <3>2 DEF UpTo
        <4>5. calm = Settle \/ changed BY <1>2 DEF Settling, Polling
        <4>6. -late <= since.change /\ (since.change < 0 => changed) BY DEF Settling
        <4> QED BY <1>5, <2>1, <4>1, <4>3, <4>4, <4>5, <4>6 DEF Settling
      <3> QED BY <3>1, <3>2
    <2>6. Silent'
      <3>1. quiet = 0 /\ quiet' <= RecvTimeout BY <1>2, <2>1, <2>3 DEF Silent
      <3>2. since.beat < Heartbeat => quiet' <= since'.beat + late'
        BY <1>5, <2>1, <2>2, <2>3, <3>1
      <3> QED BY <1>2, <2>1, <2>2, <2>3, <3>1, <3>2 DEF Silent
    <2> QED BY <1>3, <2>4, <2>5, <2>6
  <1> QED BY <1>4, <1>5 DEF Listens

-----------------------------------------------------------------------------
LEMMA CloudStep == CloudInv /\ [Next]_vars => CloudInv'
  <1> SUFFICES ASSUME CloudInv, [Next]_vars PROVE CloudInv' OBVIOUS
  <1> QED
    BY ConnectKeeps, ControlKeeps, FlushKeeps, BeatKeeps, AsksKeep, EndsKeep, ReceivesKeeps,
       ListensKeeps
    DEF Next, Task, Receives, PollsInput, PollsHold

LEMMA CloudAlways == SafetySpec => []CloudInv
  BY CloudInit, CloudStep, PTL DEF SafetySpec

(* lux_cloud_task: on every connection, all the holding registers are      *)
(* asked for before the periodic polls begin.                              *)
THEOREM HoldsComeFirst == SafetySpec => []AllHoldsFirst
  <1>1. CloudInv => AllHoldsFirst BY DEF CloudInv, Initially, AllHoldsFirst, Banks
  <1> QED BY <1>1, CloudAlways, PTL

(* The guard after a change of the battery type holds polls back, but for  *)
(* the rest of the pass in which the change was made.                      *)
THEOREM PollsDoWait == SafetySpec => []PollsWait
  <1>1. CloudInv => PollsWait
    <2> SUFFICES ASSUME CloudInv, pc \in Polling PROVE calm >= Settle \/ changed
      BY DEF PollsWait, Polling
    <2>1. calm = Settle \/ changed BY DEF CloudInv, Settling
    <2> QED BY <2>1, Constants
  <1> QED BY <1>1, CloudAlways, PTL

(* The heartbeat: however long the cloud is silent, and whatever it makes  *)
(* the task do, the task is not silent for longer than MaxQuiet.           *)
THEOREM AlwaysHeard == SafetySpec => []NeverSilent
  <1>1. ASSUME CloudInv, pc # "connect" PROVE quiet <= MaxQuiet
    <2>1. quiet \in Nat /\ since.beat \in Nat BY <1>1 DEF CloudInv, Times
    <2> QED BY <1>1, <2>1, Constants DEF CloudInv, Silent
  <1>2. CloudInv => NeverSilent BY <1>1 DEF NeverSilent
  <1> QED BY <1>2, CloudAlways, PTL

-----------------------------------------------------------------------------
(* Types, and the bound on the command queue.                              *)

(* The queue after one more frame.                                         *)
Taken(q, f) == IF f \in Writes /\ Len(q) < QueueLen THEN Append(q, f) ELSE q

IsAfter(g, q, batch, n) == g = [i \in 0..n |-> IF i = 0 THEN q ELSE Taken(g[i - 1], batch[i])]

LEMMA Least ==
  ASSUME NEW T, T \subseteq Nat, T # {}
  PROVE  \E n \in T : \A m \in T : n <= m
  <1>1. PICK x \in T : \A y \in T : ~ (<<y, x>> \in OpToRel(<, Nat))
    BY NatLessThanWellFounded, WFMin
  <1>2. \A y \in T : ~(y < x) BY <1>1 DEF OpToRel
  <1> QED BY <1>2

LEMMA AftersExist == ASSUME NEW q, NEW batch PROVE \A n \in Nat : \E g : IsAfter(g, q, batch, n)
  <1> DEFINE T == {n \in Nat : ~ \E g : IsAfter(g, q, batch, n)}
  <1> SUFFICES ASSUME T # {} PROVE FALSE OBVIOUS
  <1>1. PICK n \in T : \A m \in T : n <= m BY Least
  <1>2. n \in Nat /\ ~ \E g : IsAfter(g, q, batch, n) BY <1>1
  <1>3. n # 0
    <2> SUFFICES ASSUME n = 0 PROVE FALSE OBVIOUS
    <2>1. PICK g : g = [i \in 0..0 |-> q] OBVIOUS
    <2>2. IsAfter(g, q, batch, 0) BY <2>1 DEF IsAfter
    <2> QED BY <1>2, <2>2
  <1>4. n - 1 \in Nat /\ n - 1 \notin T BY <1>1, <1>2, <1>3
  <1>5. PICK h : IsAfter(h, q, batch, n - 1) BY <1>4
  <1>6. PICK g : g = [i \in 0..n |-> IF i = n THEN Taken(h[n - 1], batch[n]) ELSE h[i]] OBVIOUS
  <1>7. \A i \in 0..(n - 1) : h[i] = IF i = 0 THEN q ELSE Taken(h[i - 1], batch[i])
    BY <1>5 DEF IsAfter
  <1>8. ASSUME NEW i \in 0..n PROVE g[i] = IF i = 0 THEN q ELSE Taken(g[i - 1], batch[i])
    <2>1. CASE i = n
      <3>1. n - 1 \in 0..n /\ n - 1 # n BY <1>2, <1>3
      <3>2. g[n - 1] = h[n - 1] BY <1>6, <3>1
      <3> QED BY <1>2, <1>3, <1>6, <2>1, <3>2
    <2>2. CASE i # n
      <3>1. i \in 0..(n - 1) /\ (i # 0 => i - 1 \in 0..n /\ i - 1 # n) BY <1>2, <2>2
      <3>2. g[i] = h[i] /\ (i # 0 => g[i - 1] = h[i - 1]) BY <1>6, <2>2, <3>1
      <3> QED BY <1>7, <3>1, <3>2
    <2> QED BY <2>1, <2>2
  <1>9. g = [i \in 0..n |-> g[i]] BY <1>6
  <1>10. IsAfter(g, q, batch, n)
    <2>1. [i \in 0..n |-> g[i]] = [i \in 0..n |-> IF i = 0 THEN q ELSE Taken(g[i - 1], batch[i])]
      BY <1>8
    <2> QED BY <1>9, <2>1 DEF IsAfter
  <1> QED BY <1>2, <1>10

Queues == {q \in Seq(Writes) : Len(q) <= QueueLen}

LEMMA QueueLenType == QueueLen \in Nat \ {0} /\ MaxWrites \in Nat /\ MaxFrames \in Nat
  BY CloudAssumption DEF CloudAssumption

LEMMA Pushes ==
  ASSUME NEW q \in Queues, NEW w \in Writes, Len(q) < QueueLen
  PROVE  Append(q, w) \in Queues
  <1>1. q \in Seq(Writes) /\ Len(q) \in Nat BY LenProperties DEF Queues
  <1>2. Append(q, w) \in Seq(Writes) /\ Len(Append(q, w)) = Len(q) + 1 BY <1>1, AppendProperties
  <1> QED BY <1>1, <1>2, QueueLenType DEF Queues

(* However many writes a batch holds, the queue takes what it has room for *)
(* and nothing else.                                                       *)
LEMMA QueuedType ==
  ASSUME NEW q \in Queues, NEW batch \in Seq(Frames)
  PROVE  Queued(q, batch) \in Queues
  <1> DEFINE after == CHOOSE g : IsAfter(g, q, batch, Len(batch))
  <1>1. Len(batch) \in Nat BY LenProperties
  <1>2. IsAfter(after, q, batch, Len(batch)) BY <1>1, AftersExist
  <1>3. Queued(q, batch) = after[Len(batch)] BY DEF Queued, IsAfter, Taken
  <1> HIDE DEF after
  <1>4. \A i \in 0..Len(batch) : after[i] = IF i = 0 THEN q ELSE Taken(after[i - 1], batch[i])
    BY <1>2 DEF IsAfter
  <1> DEFINE T == {i \in 0..Len(batch) : after[i] \notin Queues}
  <1>5. T = {}
    <2> SUFFICES ASSUME T # {} PROVE FALSE OBVIOUS
    <2>0. T \subseteq Nat BY <1>1
    <2> HIDE DEF T
    <2>1. PICK i \in T : \A j \in T : i <= j BY <2>0, Least
    <2> USE DEF T
    <2>2. i \in 0..Len(batch) /\ after[i] \notin Queues BY <2>1
    <2>3. i # 0 BY <1>1, <1>4, <2>2
    <2>4. i - 1 \in 0..Len(batch) /\ i - 1 \notin T BY <1>1, <2>1, <2>2, <2>3
    <2>5. after[i - 1] \in Queues /\ after[i] = Taken(after[i - 1], batch[i]) BY <1>4, <2>2, <2>3, <2>4
    <2> QED BY <2>2, <2>5, Pushes DEF Taken
  <1> QED BY <1>1, <1>3, <1>5

LEMMA WritesInType == ASSUME NEW batch \in Seq(Frames) PROVE WritesIn(batch) \in Nat
  <1>1. Len(batch) \in Nat /\ DOMAIN batch = 1..Len(batch) BY LenProperties
  <1>2. IsFiniteSet(1..Len(batch)) BY <1>1, FS_Interval
  <1>3. IsFiniteSet({n \in DOMAIN batch : batch[n] \in Writes}) BY <1>1, <1>2, FS_Subset
  <1> QED BY <1>3, FS_CardinalityType DEF WritesIn

LEMMA ArrivalType == ASSUME NEW waited, NEW batch \in Arrivals(waited) PROVE batch \in Seq(Frames)
  <1>1. <<>> \in Seq(Frames) BY EmptySeq
  <1>2. batch \in SeqOf(Frames, MaxFrames) => batch \in Seq(Frames)
    <2> SUFFICES ASSUME batch \in SeqOf(Frames, MaxFrames) PROVE batch \in Seq(Frames) OBVIOUS
    <2>1. PICK m \in 0..MaxFrames : batch \in [1..m -> Frames] BY DEF SeqOf
    <2>2. m \in Nat BY <2>1, QueueLenType
    <2> QED BY <2>1, <2>2, SeqDef
  <1> QED BY <1>1, <1>2 DEF Arrivals, Batches

(* Where the polling loops stand: they begin at the first bank, and their  *)
(* body never runs beyond the last.                                        *)
Looping ==
  /\ bank \in 0..(InputBanks + HoldBanks)
  /\ pc = "input" => bank \in 0..InputBanks
  /\ pc = "input_recv" => bank \in 0..(InputBanks - 1)
  /\ pc = "hold" => bank \in 0..HoldBanks
  /\ pc = "hold_recv" => bank \in 0..(HoldBanks - 1)
  /\ pc \notin {"connect", "input", "input_recv", "hold", "hold_recv"} => bank = 0

Placed ==
  /\ pc \in Stages /\ link \in BOOLEAN
  /\ initial_hold_done \in BOOLEAN /\ changed \in BOOLEAN
  /\ g_write_queue \in Queues /\ writes \in 0..MaxWrites
  /\ Looping

LEMMA PlacedInit == Init => Placed
  <1> SUFFICES ASSUME Init PROVE Placed OBVIOUS
  <1>1. <<>> \in Queues BY EmptySeq, QueueLenType DEF Queues
  <1>2. link \in BOOLEAN /\ initial_hold_done \in BOOLEAN /\ changed \in BOOLEAN BY DEF Init
  <1>3. Looping BY Constants DEF Init, Looping
  <1>4. writes \in 0..MaxWrites BY QueueLenType DEF Init
  <1> QED BY <1>1, <1>2, <1>3, <1>4 DEF Init, Placed, Stages

LEMMA HearsPlaced ==
  ASSUME Placed, NEW waited, NEW batch \in Arrivals(waited), Hears(batch, waited)
  PROVE  g_write_queue' \in Queues /\ writes' \in 0..MaxWrites
  <1>1. batch \in Seq(Frames) /\ WritesIn(batch) \in Nat BY ArrivalType, WritesInType
  <1>2. g_write_queue' \in Queues BY <1>1, QueuedType DEF Hears, Placed
  <1> QED BY <1>1, <1>2, QueueLenType DEF Hears, Placed

LEMMA PlacedStep == CloudInv /\ Placed /\ [Next]_vars => Placed'
  <1> SUFFICES ASSUME CloudInv, Placed, [Next]_vars PROVE Placed' OBVIOUS
  <1> USE Constants, QueueLenType
  <1>1. CASE Connect
    <2>1. bank' = 0 /\ pc' = "greet" /\ UNCHANGED <<g_write_queue, writes>> BY <1>1 DEF Connect, queue
    <2>2. link' \in BOOLEAN /\ initial_hold_done' \in BOOLEAN /\ changed' \in BOOLEAN
      BY <1>1 DEF Connect
    <2>3. Looping' BY <2>1 DEF Looping
    <2> QED BY <2>1, <2>2, <2>3 DEF Placed, Stages
  <1>2. CASE Greet BY <1>2 DEF Greet, Placed, Looping, Stages, queue, schedule, Close
  <1>3. CASE Receives
    <2>1. PICK waited \in 0..RecvTimeout : ReceivesAfter(waited) BY <1>3 DEF Receives
    <2>2. PICK batch \in Arrivals(waited) :
            Hears(batch, waited) /\ changed' = ("multi" \in ToSet(batch))
      BY <2>1 DEF ReceivesAfter
    <2>3. g_write_queue' \in Queues /\ writes' \in 0..MaxWrites BY <2>2, HearsPlaced
    <2>4. changed' \in BOOLEAN BY <2>2
    <2>5. UNCHANGED <<link, bank, initial_hold_done>> /\ pc = "recv" /\ pc' = "flush"
      BY <2>1 DEF ReceivesAfter
    <2> QED BY <2>3, <2>4, <2>5 DEF Placed, Looping, Stages
  <1>4. CASE ReceiveFails
    BY <1>4 DEF ReceiveFails, Placed, Looping, Stages, queue, schedule, history, Close
  <1>5. CASE Flush
    <2>1. g_write_queue' \in Queues
      <3>1. /\ g_write_queue \in Seq(Writes) /\ Len(g_write_queue) <= QueueLen
            /\ g_write_queue # <<>> /\ g_write_queue' = Tail(g_write_queue)
        BY <1>5 DEF Flush, Placed, Queues
      <3>2. /\ Tail(g_write_queue) \in Seq(Writes) /\ Len(g_write_queue) \in Nat
            /\ Len(Tail(g_write_queue)) = Len(g_write_queue) - 1
        BY <3>1, HeadTailProperties, LenProperties
      <3> QED BY <3>1, <3>2 DEF Queues
    <2>2. changed' \in BOOLEAN BY <1>5 DEF Flush, Placed
    <2> QED BY <1>5, <2>1, <2>2 DEF Flush, Placed, Looping
  <1>6. CASE Flushed BY <1>6 DEF Flushed, Placed, Looping, Stages, queue, schedule, history
  <1>7. CASE Beat BY <1>7 DEF Beat, Placed, Looping, Stages, queue, Close
  <1>8. CASE Guard BY <1>8 DEF Guard, Placed, Looping, Stages, queue, schedule, history
  <1>9. CASE InitialHold
    <2>1. initial_hold_done' \in BOOLEAN BY <1>9 DEF InitialHold, Placed
    <2>2. UNCHANGED <<link, bank, queue, changed>> /\ pc = "initial" /\ pc' \in {"recv", "connect"}
      BY <1>9 DEF InitialHold, Close
    <2> QED BY <2>1, <2>2 DEF Placed, Looping, Stages, queue
  <1>10. CASE Asks("input", "input_recv", InputBanks, InputDue) \/ Asks("hold", "hold_recv", HoldBanks, HoldDue)
    BY <1>10 DEF Asks, Placed, Looping, Stages, queue, schedule, Close
  <1>11. CASE Listens("input_recv", "input") \/ Listens("hold_recv", "hold")
    <2>1. /\ UNCHANGED <<link, initial_hold_done>> /\ bank' = bank + 1
          /\ \/ pc = "input_recv" /\ pc' = "input"
             \/ pc = "hold_recv" /\ pc' = "hold"
      BY <1>11 DEF Listens
    <2>2. Looping' /\ pc' \in Stages BY <2>1 DEF Placed, Looping, Stages
    <2>3. g_write_queue' \in Queues /\ writes' \in 0..MaxWrites /\ changed' \in BOOLEAN
      <3>1. CASE UNCHANGED <<queue, changed>> BY <3>1 DEF Placed, queue
      <3>2. ASSUME NEW waited \in 0..RecvTimeout, NEW batch \in Arrivals(waited),
                   Hears(batch, waited), changed' = (changed \/ "multi" \in ToSet(batch))
            PROVE  g_write_queue' \in Queues /\ writes' \in 0..MaxWrites /\ changed' \in BOOLEAN
        BY <3>2, HearsPlaced
      <3> QED BY <1>11, <3>1, <3>2 DEF Listens
    <2> QED BY <2>1, <2>2, <2>3 DEF Placed
  <1>12. CASE EndInput BY <1>12 DEF EndInput, Placed, Looping, Stages, queue, history
  <1>13. CASE EndHold BY <1>13 DEF EndHold, Placed, Looping, Stages, queue, history
  <1>14. CASE MqttQueues
    <2>1. g_write_queue' \in Queues BY <1>14, Pushes DEF MqttQueues, Placed
    <2>2. writes' \in 0..MaxWrites BY <1>14 DEF MqttQueues, Placed
    <2> QED BY <1>14, <2>1, <2>2 DEF MqttQueues, Placed, Looping, schedule, history
  <1>15. CASE Cut BY <1>15 DEF Cut, Placed, Looping, queue, schedule, history
  <1>16. CASE UNCHANGED vars BY <1>16 DEF vars, Placed, Looping, queue, schedule, history
  <1> QED BY <1>1, <1>2, <1>3, <1>4, <1>5, <1>6, <1>7, <1>8, <1>9, <1>10, <1>11, <1>12, <1>13,
             <1>14, <1>15, <1>16 DEF Next, Task, PollsInput, PollsHold

(* Type correctness, and with it that whatever the cloud and MQTT ask for, *)
(* the command queue stays within its length, the polling loops within     *)
(* their banks, and no time stamp is further ahead of `now' than the pass  *)
(* has lasted.                                                             *)
THEOREM CloudTypeCorrect == SafetySpec => []TypeOK
  <1>1. CloudInv /\ Placed => TypeOK
    <2> SUFFICES ASSUME CloudInv, Placed PROVE TypeOK OBVIOUS
    <2>1. asked \subseteq 0..(HoldBanks - 1)
      BY Constants DEF CloudInv, Initially, Banks
    <2> QED BY <2>1 DEF TypeOK, CloudInv, Placed, Looping, Times, Initially, Settling, Banks, Queues
  <1>2. SafetySpec => []Placed BY PlacedInit, PlacedStep, CloudAlways, PTL DEF SafetySpec
  <1> QED BY <1>1, <1>2, CloudAlways, PTL
=============================================================================
