-------------------------- MODULE DongleMqttProofs --------------------------
(***************************************************************************)
(* What the dongle owes the home automation, for any number of registers,  *)
(* any queue length and publishing period, and any number of updates,      *)
(* topics, commands and lost connections: the commands of a topic reach    *)
(* the inverter's queue in the order they were issued, the last one is on  *)
(* its way or done, and an input register that is not shown yet is about   *)
(* to be.  The runs check the liveness these are the safety half of.       *)
(***************************************************************************)
EXTENDS DongleMqtt, SequenceTheorems, TLAPS

LEMMA Places == Idle \in Nat \ {0} /\ NoValue \in Nat /\ NoValue \notin 0..MaxUpdates /\ Idle \notin Regs
  BY SharedAssumption DEF SharedAssumption, Idle, NoValue, Regs

-----------------------------------------------------------------------------
(* Types.                                                                  *)
Publisher == [pos : 1..Idle, val : 0..NoValue]

LEMMA InitTypeOK == Init => TypeOK
  <1> SUFFICES ASSUME Init PROVE TypeOK
    OBVIOUS
  <1>1. At(Idle) \in Publisher /\ 0 \in 0..MaxUpdates
    BY Places, SharedAssumption DEF SharedAssumption, At, Publisher
  <1>2. <<>> \in Seq(Commands) /\ Len(<<>>) <= QueueLen
    BY EmptySeq, SharedAssumption DEF SharedAssumption
  <1>3. /\ 0 \in 0..MaxLosses /\ 0 \in 0..Period /\ 0 \in 0..MaxCommands /\ 0 \in 0..TopicCount
        /\ None \in [Topics -> 0..MaxCommands]
    BY SharedAssumption DEF SharedAssumption, None
  <1> QED BY <1>1, <1>2, <1>3 DEF Init, TypeOK, Publisher

LEMMA PublisherType ==
  ASSUME NEW p \in Publisher, p.pos # Idle
  PROVE  /\ p.pos \in Regs /\ At(p.pos + 1) \in Publisher
         /\ p.val # NoValue => p.val \in 0..MaxUpdates
  BY SharedAssumption, Places DEF SharedAssumption, Publisher, At, Regs, Idle, NoValue

LEMMA ReadType ==
  ASSUME TypeOK, NEW p \in Publisher, p.pos # Idle
  PROVE  [p EXCEPT !.val = regs[p.pos]] \in Publisher
  <1>1. regs[p.pos] \in 0..NoValue
    BY PublisherType, SharedAssumption DEF SharedAssumption, TypeOK, NoValue
  <1> QED BY <1>1 DEF Publisher

LEMMA ShownType ==
  ASSUME TypeOK, NEW p \in Publisher, Publishes(p)
  PROVE  shown' \in [Regs -> 0..MaxUpdates]
  <1>1. p.pos \in Regs /\ p.val \in 0..MaxUpdates BY PublisherType DEF Publishes
  <1>2. shown \in [Regs -> 0..MaxUpdates] BY DEF TypeOK
  <1> QED BY <1>1, <1>2 DEF Publishes

(* What a topic's last command is set to. *)
LEMMA SetType ==
  ASSUME NEW f \in [Topics -> 0..MaxCommands], NEW t \in Topics, NEW n \in 0..MaxCommands
  PROVE  [f EXCEPT ![t] = n] \in [Topics -> 0..MaxCommands]
  OBVIOUS

LEMMA NextTypeOK == TypeOK /\ [Next]_vars => TypeOK'
  <1> SUFFICES ASSUME TypeOK, [Next]_vars PROVE TypeOK'
    OBVIOUS
  <1>p. task \in Publisher /\ handler \in Publisher /\ At(1) \in Publisher
    BY Places, SharedAssumption DEF SharedAssumption, TypeOK, Publisher, At
  <1>q. /\ inbox \in Seq(Commands) /\ g_write_queue \in Seq(Commands)
        /\ applied \in [Topics -> 0..MaxCommands] /\ refused \in [Topics -> 0..MaxCommands]
        /\ last \in [Topics -> 0..MaxCommands]
    BY DEF TypeOK
  <1>1. ASSUME NEW bank, NEW then \in {"input", "hold"}, reg_update(bank, then) PROVE TypeOK'
    <2>1. regs' \in [Regs -> 0..MaxUpdates]
      BY <1>1, SharedAssumption DEF SharedAssumption, reg_update, TypeOK
    <2> QED BY <1>1, <2>1 DEF reg_update, TypeOK, broker, home, writes, workers
  <1>2. CASE RaiseFlag BY <1>2 DEF RaiseFlag, TypeOK, broker, home, writes, workers
  <1>3. CASE DrainQueue
    <2>1. g_write_queue' \in Seq(Commands) /\ Len(g_write_queue') <= QueueLen
      BY <1>q, <1>3, HeadTailProperties, SharedAssumption DEF SharedAssumption, DrainQueue, TypeOK
    <2> QED BY <1>3, <2>1 DEF DrainQueue, TypeOK, cache, broker, home, workers
  <1>4. CASE lux_mqtt_task
    <2>1. passes' \in 0..Period /\ task' \in Publisher
      BY <1>p, <1>4, SharedAssumption DEF SharedAssumption, lux_mqtt_task, TypeOK
    <2> QED BY <1>4, <2>1 DEF lux_mqtt_task, TypeOK, broker, home, writes, Publisher
  <1>5. CASE TaskReads
    <2>1. task' \in Publisher BY <1>p, <1>5, ReadType DEF TaskReads, Reads
    <2> QED BY <1>5, <2>1 DEF TaskReads, Reads, TypeOK, cache, broker, home, writes, Publisher
  <1>6. CASE TaskPublishes
    <2>1. task' \in Publisher /\ shown' \in [Regs -> 0..MaxUpdates]
      BY <1>p, <1>6, PublisherType, ShownType DEF TaskPublishes, Publishes
    <2> QED BY <1>6, <2>1 DEF TaskPublishes, Publishes, TypeOK, cache, writes, home, Publisher
  <1>7. CASE HandlerReads
    <2>1. handler' \in Publisher BY <1>p, <1>7, ReadType DEF HandlerReads, Reads
    <2> QED BY <1>7, <2>1 DEF HandlerReads, Reads, TypeOK, cache, broker, home, writes, Publisher
  <1>8. CASE HandlerPublishes
    <2>1. handler' \in Publisher /\ shown' \in [Regs -> 0..MaxUpdates]
      BY <1>p, <1>8, PublisherType, ShownType DEF HandlerPublishes, Publishes
    <2> QED BY <1>8, <2>1 DEF HandlerPublishes, Publishes, TypeOK, cache, writes, home, Publisher
  <1>9. CASE Connected
    <2>1. subscribed' \in 0..TopicCount /\ inbox' \in Seq(Commands)
      BY <1>9, EmptySeq, SharedAssumption DEF SharedAssumption, Connected
    <2> QED BY <1>p, <1>9, <2>1 DEF Connected, TypeOK, cache, writes, home, Publisher
  <1>10. CASE Disconnected BY <1>10 DEF Disconnected, TypeOK, cache, writes, home, workers
  <1>11. CASE HandleCommand
    <2>1. PICK d : d = Head(inbox) OBVIOUS
    <2>2. d \in Commands /\ inbox' \in Seq(Commands)
      BY <1>q, <1>11, <2>1, HeadTailProperties DEF HandleCommand
    <2>3. d.topic \in Topics /\ d.num \in 0..MaxCommands
      BY <2>2, SharedAssumption DEF SharedAssumption, Commands
    <2>4. CASE Len(g_write_queue) < QueueLen
      <3>1. /\ g_write_queue' = Append(g_write_queue, d) /\ refused' = refused
            /\ applied' = [applied EXCEPT ![d.topic] = d.num]
        BY <1>11, <2>1, <2>4 DEF HandleCommand
      <3>2. g_write_queue' \in Seq(Commands) /\ Len(g_write_queue') = Len(g_write_queue) + 1
        BY <1>q, <2>2, <3>1, AppendProperties
      <3>3. Len(g_write_queue') <= QueueLen
        BY <1>q, <2>4, <3>2, LenProperties, SharedAssumption DEF SharedAssumption
      <3>4. applied' \in [Topics -> 0..MaxCommands] BY <1>q, <2>3, <3>1, SetType
      <3> QED BY <1>q, <1>11, <2>2, <3>1, <3>2, <3>3, <3>4
              DEF HandleCommand, TypeOK, cache, home, workers
    <2>5. CASE ~(Len(g_write_queue) < QueueLen)
      <3>1. /\ g_write_queue' = g_write_queue /\ applied' = applied
            /\ refused' = [refused EXCEPT ![d.topic] = d.num]
        BY <1>11, <2>1, <2>5 DEF HandleCommand
      <3>2. refused' \in [Topics -> 0..MaxCommands] BY <1>q, <2>3, <3>1, SetType
      <3> QED BY <1>q, <1>11, <2>2, <3>1, <3>2 DEF HandleCommand, TypeOK, cache, home, workers
    <2> QED BY <2>4, <2>5
  <1>12. CASE LinkLost
    <2>1. losses' \in 0..MaxLosses /\ inbox' \in Seq(Commands) /\ subscribed' \in 0..TopicCount
      BY <1>12, EmptySeq, SharedAssumption DEF SharedAssumption, LinkLost, TypeOK
    <2> QED BY <1>12, <2>1 DEF LinkLost, TypeOK, cache, writes, home, workers
  <1>13. ASSUME NEW t \in Topics, HomeCommands(t) PROVE TypeOK'
    <2>1. issued' = issued + 1 /\ issued' \in 1..MaxCommands /\ issued' \in 0..MaxCommands
      BY <1>13, SharedAssumption DEF SharedAssumption, HomeCommands, TypeOK
    <2>2. last' \in [Topics -> 0..MaxCommands] BY <1>q, <1>13, <2>1, SetType DEF HomeCommands
    <2>3. [topic |-> t, num |-> issued + 1, again |-> FALSE] \in Commands BY <2>1 DEF Commands
    <2>4. inbox' \in Seq(Commands)
      BY <1>q, <1>13, <2>3, AppendProperties DEF HomeCommands
    <2> QED BY <1>13, <2>1, <2>2, <2>4 DEF HomeCommands, TypeOK, cache, writes, workers
  <1>15. CASE Subscribe
    <2>1. PICK t : t = subscribed + 1 OBVIOUS
    <2>2. t \in Topics /\ subscribed' = t /\ subscribed' \in 0..TopicCount
      BY <1>15, <2>1, SharedAssumption DEF SharedAssumption, Subscribe, TypeOK, Topics
    <2>3. last[t] # 0 => [topic |-> t, num |-> last[t], again |-> TRUE] \in Commands
      BY <1>q, <2>2, SharedAssumption DEF SharedAssumption, Commands
    <2>4. inbox' \in Seq(Commands)
      BY <1>q, <1>15, <2>1, <2>3, AppendProperties DEF Subscribe
    <2> QED BY <1>15, <2>2, <2>4 DEF Subscribe, TypeOK, cache, writes, home, workers
  <1>14. CASE UNCHANGED vars
    BY <1>14 DEF TypeOK, vars, cache, broker, home, writes, workers
  <1> QED BY <1>1, <1>2, <1>3, <1>4, <1>5, <1>6, <1>7, <1>8, <1>9, <1>10, <1>11, <1>12, <1>13, <1>14,
          <1>15 DEF Next, reg_update_input, reg_update_hold, MqttTask, mqtt_event_handler

(* Type correctness, and with it that the command queue never exceeds its  *)
(* length, for every value of the constants.                               *)
THEOREM MqttTypeCorrect == Spec => []TypeOK
  BY InitTypeOK, NextTypeOK, PTL DEF Spec

-----------------------------------------------------------------------------
(* Commands.                                                               *)
(* While the connection works, the last command of a retained topic was    *)
(* queued, was refused by a full queue, or is still to be handled.         *)
Accounted == \A t \in Retained : link /\ t <= subscribed =>
  \/ applied[t] = last[t] \/ refused[t] = last[t]
  \/ \E i \in 1..Len(inbox) : inbox[i].topic = t /\ inbox[i].num = last[t]

(* What f says of each topic is not newer than anything of it to come.     *)
Behind(f) == \A t \in Topics :
  f[t] <= last[t] /\ \A i \in 1..Len(inbox) : Follows(t, f[t], inbox[i])

Issued ==
  /\ \A t \in Topics : last[t] <= issued
  /\ \A i \in 1..Len(inbox) : inbox[i].num <= last[inbox[i].topic]

Queued == \A i \in 1..Len(g_write_queue) : g_write_queue[i].num <= applied[g_write_queue[i].topic]

Ordered ==
  /\ TypeOK /\ Issued /\ Queued /\ Accounted
  /\ InLine(g_write_queue) /\ InLine(inbox)
  /\ Behind(applied) /\ Behind(refused)

LEMMA Popped ==
  ASSUME NEW A, NEW s \in Seq(A), s # <<>>
  PROVE  /\ 1 \in 1..Len(s) /\ Head(s) = s[1] /\ Len(Tail(s)) = Len(s) - 1 /\ Len(s) \in Nat
         /\ \A i \in 1..Len(Tail(s)) : i + 1 \in 1..Len(s) /\ Tail(s)[i] = s[i + 1]
  BY HeadTailProperties, EmptySeq, LenProperties

LEMMA Pushed ==
  ASSUME NEW A, NEW s \in Seq(A), NEW x \in A, NEW u, u = Append(s, x)
  PROVE  /\ Len(u) = Len(s) + 1 /\ Len(s) \in Nat /\ u[Len(s) + 1] = x
         /\ \A i \in 1..Len(s) : u[i] = s[i]
         /\ \A i \in 1..Len(u) : i \in 1..Len(s) \/ i = Len(s) + 1
  BY AppendProperties, LenProperties

LEMMA CommandIs ==
  ASSUME NEW d \in Commands
  PROVE  d.topic \in Topics /\ d.num \in Nat /\ d.num # 0 /\ d.again \in BOOLEAN
  BY SharedAssumption DEF SharedAssumption, Commands

LEMMA FollowsOlder ==
  ASSUME NEW t, NEW m \in Nat, NEW n \in Nat, NEW d \in Commands, m <= n, Follows(t, n, d)
  PROVE  Follows(t, m, d)
  BY CommandIs DEF Follows

LEMMA PoppedInLine ==
  ASSUME NEW q \in Seq(Commands), q # <<>>, InLine(q)
  PROVE  /\ InLine(Tail(q))
         /\ \A i \in 1..Len(Tail(q)) : Follows(Head(q).topic, Head(q).num, Tail(q)[i])
  <1>1. PICK u : u = Tail(q) OBVIOUS
  <1>2. /\ 1 \in 1..Len(q) /\ Head(q) = q[1] /\ Len(u) = Len(q) - 1 /\ Len(q) \in Nat
        /\ \A i \in 1..Len(u) : i + 1 \in 1..Len(q) /\ u[i] = q[i + 1]
    BY <1>1, Popped
  <1>3. ASSUME NEW j \in 1..Len(u), NEW i \in 1..(j - 1) PROVE Follows(u[i].topic, u[i].num, u[j])
    <2>1. i \in 1..Len(u) /\ i + 1 \in 1..(j + 1 - 1) /\ j + 1 \in 1..Len(q) BY <1>2
    <2> QED BY <1>2, <2>1 DEF InLine
  <1>4. ASSUME NEW i \in 1..Len(u) PROVE Follows(q[1].topic, q[1].num, u[i])
    <2>1. 1 \in 1..(i + 1 - 1) /\ i + 1 \in 1..Len(q) BY <1>2
    <2> QED BY <1>2, <2>1 DEF InLine
  <1> QED BY <1>1, <1>2, <1>3, <1>4 DEF InLine

LEMMA PushedInLine ==
  ASSUME NEW q \in Seq(Commands), NEW d \in Commands, InLine(q),
         \A i \in 1..Len(q) : Follows(q[i].topic, q[i].num, d)
  PROVE  InLine(Append(q, d))
  <1>1. PICK u : u = Append(q, d) OBVIOUS
  <1>2. /\ Len(u) = Len(q) + 1 /\ Len(q) \in Nat /\ u[Len(q) + 1] = d
        /\ \A i \in 1..Len(q) : u[i] = q[i]
        /\ \A i \in 1..Len(u) : i \in 1..Len(q) \/ i = Len(q) + 1
    BY <1>1, Pushed
  <1>3. ASSUME NEW j \in 1..Len(u), NEW i \in 1..(j - 1) PROVE Follows(u[i].topic, u[i].num, u[j])
    <2>1. i \in 1..Len(q) /\ u[i] = q[i] BY <1>2
    <2>2. CASE j \in 1..Len(q) BY <1>2, <2>1, <2>2 DEF InLine
    <2>3. CASE j = Len(q) + 1 BY <1>2, <2>1, <2>3
    <2> QED BY <1>2, <2>2, <2>3
  <1> QED BY <1>1, <1>3 DEF InLine

LEMMA Numbers ==
  ASSUME TypeOK
  PROVE  /\ inbox \in Seq(Commands) /\ g_write_queue \in Seq(Commands)
         /\ \A i \in 1..Len(inbox) : inbox[i] \in Commands
         /\ \A i \in 1..Len(g_write_queue) : g_write_queue[i] \in Commands
         /\ applied \in [Topics -> Nat] /\ refused \in [Topics -> Nat] /\ last \in [Topics -> Nat]
         /\ issued \in Nat /\ subscribed \in Nat
  <1>1. inbox \in Seq(Commands) /\ g_write_queue \in Seq(Commands) BY DEF TypeOK
  <1>2. /\ \A i \in 1..Len(inbox) : inbox[i] \in Commands
        /\ \A i \in 1..Len(g_write_queue) : g_write_queue[i] \in Commands
    BY <1>1, ElementOfSeq
  <1>3. 0..MaxCommands \subseteq Nat BY SharedAssumption DEF SharedAssumption
  <1>4. \A f \in [Topics -> 0..MaxCommands] : f \in [Topics -> Nat] BY <1>3
  <1>5. issued \in Nat /\ subscribed \in Nat BY SharedAssumption DEF SharedAssumption, TypeOK
  <1> QED BY <1>1, <1>2, <1>4, <1>5 DEF TypeOK

(* An empty inbox, after a connection came or went.                        *)
LEMMA Emptied ==
  ASSUME TypeOK, Ordered, inbox' = <<>>, subscribed' = 0, UNCHANGED <<writes, home>>
  PROVE  Issued' /\ Queued' /\ Accounted' /\ InLine(g_write_queue)' /\ InLine(inbox)'
         /\ Behind(applied)' /\ Behind(refused)' /\ applied' = applied
  <1>1. Len(inbox') = 0 BY EmptySeq
  <1>2. /\ g_write_queue' = g_write_queue /\ applied' = applied /\ refused' = refused
        /\ last' = last /\ issued' = issued
    BY DEF writes, home
  <1>3. \A t \in Retained : ~(t <= subscribed')
    BY SharedAssumption DEF SharedAssumption
  <1>4. InLine(inbox)' BY <1>1 DEF InLine
  <1>5. Issued' /\ Behind(applied)' /\ Behind(refused)' BY <1>1, <1>2 DEF Ordered, Issued, Behind
  <1>6. Queued' /\ InLine(g_write_queue)' BY <1>2 DEF Ordered, Queued, InLine
  <1>7. Accounted' BY <1>3 DEF Accounted
  <1> QED BY <1>2, <1>4, <1>5, <1>6, <1>7

LEMMA InitOrdered == Init => Ordered
  <1> SUFFICES ASSUME Init PROVE Ordered OBVIOUS
  <1>1. Len(inbox) = 0 /\ Len(g_write_queue) = 0 BY EmptySeq DEF Init
  <1>2. \A t \in Topics : last[t] = 0 /\ applied[t] = 0 /\ refused[t] = 0 BY DEF Init, None
  <1>3. issued = 0 /\ ~link BY DEF Init
  <1> QED BY <1>1, <1>2, <1>3, InitTypeOK
          DEF Ordered, Issued, Queued, Accounted, Behind, InLine

LEMMA HandleCommandOrdered ==
  ASSUME Ordered, HandleCommand
  PROVE  /\ Issued' /\ Queued' /\ Accounted' /\ InLine(g_write_queue)' /\ InLine(inbox)'
         /\ Behind(applied)' /\ Behind(refused)' /\ \A t \in Topics : applied[t] <= applied'[t]
  <1>n. /\ inbox \in Seq(Commands) /\ g_write_queue \in Seq(Commands)
        /\ \A i \in 1..Len(inbox) : inbox[i] \in Commands
        /\ \A i \in 1..Len(g_write_queue) : g_write_queue[i] \in Commands
        /\ applied \in [Topics -> Nat] /\ refused \in [Topics -> Nat] /\ last \in [Topics -> Nat]
    BY Numbers DEF Ordered
  <1>r. Retained \subseteq Topics BY SharedAssumption DEF SharedAssumption, Topics
  <1>1. PICK d, u : d = Head(inbox) /\ u = Tail(inbox) OBVIOUS
  <1>2. /\ inbox # <<>> /\ inbox' = u /\ last' = last /\ issued' = issued
        /\ link' = link /\ subscribed' = subscribed
    BY <1>1 DEF HandleCommand, home
  <1>3. /\ Len(inbox) \in Nat /\ 1 \in 1..Len(inbox) /\ d = inbox[1] /\ Len(u) = Len(inbox) - 1
        /\ \A i \in 1..Len(u) : i + 1 \in 1..Len(inbox) /\ u[i] = inbox[i + 1]
    BY <1>n, <1>1, <1>2, Popped
  <1>4. InLine(u) /\ \A i \in 1..Len(u) : Follows(d.topic, d.num, u[i])
    BY <1>n, <1>1, <1>2, PoppedInLine DEF Ordered
  <1>5. d \in Commands /\ d.topic \in Topics /\ d.num \in Nat /\ d.num <= last[d.topic]
    BY <1>n, <1>3, CommandIs DEF Ordered, Issued
  <1>6. Issued' BY <1>2, <1>3 DEF Ordered, Issued
  (* What was handled before is not newer than d, and d is not newer than  *)
  (* what is to come.                                                      *)
  <1>7. ASSUME NEW f \in [Topics -> Nat], Behind(f)
        PROVE  /\ f[d.topic] <= d.num
               /\ \A t \in Topics : f[t] <= last[t] /\ \A i \in 1..Len(u) : Follows(t, f[t], u[i])
               /\ \A t \in Topics : LET g == [f EXCEPT ![d.topic] = d.num] IN
                    g[t] <= last[t] /\ \A i \in 1..Len(u) : Follows(t, g[t], u[i])
    <2>1. Follows(d.topic, f[d.topic], d) BY <1>3, <1>5, <1>7 DEF Behind
    <2>2. f[d.topic] <= d.num BY <1>5, <2>1 DEF Follows
    <2>3. \A t \in Topics : f[t] <= last[t] /\ \A i \in 1..Len(u) : Follows(t, f[t], u[i])
      BY <1>3, <1>7 DEF Behind
    <2>4. \A t \in Topics : LET g == [f EXCEPT ![d.topic] = d.num] IN
            g[t] <= last[t] /\ \A i \in 1..Len(u) : Follows(t, g[t], u[i])
      BY <1>4, <1>5, <2>3
    <2> QED BY <2>2, <2>3, <2>4
  <1>8. Behind(applied) /\ Behind(refused) BY DEF Ordered
  (* The topic's last command: in the rest of the inbox, or it is d, or it *)
  (* was handled before and d repeats it.                                  *)
  <1>9. ASSUME NEW t \in Retained, link, t <= subscribed
        PROVE  \/ \E i \in 1..Len(u) : u[i].topic = t /\ u[i].num = last[t]
               \/ d.topic = t /\ d.num = last[t]
               \/ d.topic # t /\ (applied[t] = last[t] \/ refused[t] = last[t])
    <2>0. t \in Topics BY <1>r
    <2>1. CASE applied[t] = last[t] \/ refused[t] = last[t]
      <3>1. d.topic = t => applied[t] <= d.num /\ refused[t] <= d.num BY <1>n, <1>7, <1>8
      <3>2. d.topic = t => d.num = last[t] BY <1>n, <1>5, <2>0, <2>1, <3>1
      <3> QED BY <2>1, <3>2
    <2>2. ASSUME NEW i \in 1..Len(inbox), inbox[i].topic = t, inbox[i].num = last[t]
          PROVE  (d.topic = t /\ d.num = last[t])
                 \/ \E k \in 1..Len(u) : u[k].topic = t /\ u[k].num = last[t]
      <3>1. i = 1 \/ (i - 1 \in 1..Len(u) /\ i - 1 + 1 = i) BY <1>3
      <3> QED BY <1>3, <2>2, <3>1
    <2> QED BY <1>9, <2>1, <2>2 DEF Ordered, Accounted
  <1>10. CASE Len(g_write_queue) < QueueLen
    <2>1. /\ g_write_queue' = Append(g_write_queue, d) /\ refused' = refused
          /\ applied' = [applied EXCEPT ![d.topic] = d.num]
      BY <1>1, <1>10 DEF HandleCommand
    <2>2. Behind(applied)' /\ Behind(refused)' BY <1>n, <1>2, <1>7, <1>8, <2>1 DEF Behind
    <2>3. \A t \in Topics : applied[t] <= applied'[t] BY <1>n, <1>5, <1>7, <1>8, <2>1
    <2>4. ASSUME NEW i \in 1..Len(g_write_queue)
          PROVE  Follows(g_write_queue[i].topic, g_write_queue[i].num, d)
      <3>1. PICK t \in Topics : t = g_write_queue[i].topic BY <1>n, CommandIs
      <3>2. g_write_queue[i].num \in Nat /\ g_write_queue[i].num <= applied[t] /\ applied[t] \in Nat
        BY <1>n, <3>1, CommandIs DEF Ordered, Queued
      <3>3. Follows(t, applied[t], d) BY <1>3, <1>8 DEF Behind
      <3> QED BY <1>5, <3>1, <3>2, <3>3, FollowsOlder
    <2>5. InLine(g_write_queue') BY <1>n, <1>5, <2>1, <2>4, PushedInLine DEF Ordered
    <2>6. Queued'
      <3>1. /\ Len(g_write_queue') = Len(g_write_queue) + 1
            /\ g_write_queue'[Len(g_write_queue) + 1] = d
            /\ \A i \in 1..Len(g_write_queue) : g_write_queue'[i] = g_write_queue[i]
            /\ \A i \in 1..Len(g_write_queue') :
                 i \in 1..Len(g_write_queue) \/ i = Len(g_write_queue) + 1
        BY <1>n, <1>5, <2>1, Pushed
      <3>2. ASSUME NEW i \in 1..Len(g_write_queue)
            PROVE  g_write_queue[i].num <= applied'[g_write_queue[i].topic]
        <4>1. PICK t \in Topics, n \in Nat : t = g_write_queue[i].topic /\ n = g_write_queue[i].num
          BY <1>n, CommandIs
        <4>2. n <= applied[t] /\ applied[t] <= applied'[t] BY <2>3, <4>1 DEF Ordered, Queued
        <4>3. applied[t] \in Nat /\ applied'[t] \in Nat BY <1>n, <1>5, <2>1
        <4> QED BY <4>1, <4>2, <4>3
      <3>3. d.num <= applied'[d.topic] BY <1>n, <1>5, <2>1
      <3> QED BY <3>1, <3>2, <3>3 DEF Queued
    <2>7. \A t \in Topics : applied'[t] = IF t = d.topic THEN d.num ELSE applied[t]
      BY <1>n, <1>5, <2>1
    <2>8. Accounted' BY <1>2, <1>r, <1>9, <2>1, <2>7 DEF Accounted
    <2> QED BY <1>2, <1>4, <1>6, <2>2, <2>3, <2>5, <2>6, <2>8 DEF InLine
  <1>11. CASE ~(Len(g_write_queue) < QueueLen)
    <2>1. /\ g_write_queue' = g_write_queue /\ applied' = applied
          /\ refused' = [refused EXCEPT ![d.topic] = d.num]
      BY <1>1, <1>11 DEF HandleCommand
    <2>2. Behind(applied)' /\ Behind(refused)' BY <1>n, <1>2, <1>7, <1>8, <2>1 DEF Behind
    <2>3. Queued' /\ InLine(g_write_queue)' BY <2>1 DEF Ordered, Queued, InLine
    <2>4. \A t \in Topics : applied[t] <= applied'[t] BY <1>n, <2>1
    <2>5. \A t \in Topics : refused'[t] = IF t = d.topic THEN d.num ELSE refused[t]
      BY <1>n, <1>5, <2>1
    <2>6. Accounted' BY <1>2, <1>r, <1>9, <2>1, <2>5 DEF Accounted
    <2> QED BY <1>2, <1>4, <1>6, <2>2, <2>3, <2>4, <2>6 DEF InLine
  <1> QED BY <1>10, <1>11

(* A command is delivered: after everything of its topic, and, if it is    *)
(* not a repetition, after everything.                                     *)
LEMMA DeliveredOrdered ==
  ASSUME Ordered, NEW d \in Commands, inbox' = Append(inbox, d), UNCHANGED <<writes, link>>,
         \A t \in Topics : \A n \in Nat : n <= last[t] => Follows(t, n, d),
         last' \in [Topics -> Nat], issued' \in Nat, d.num <= last'[d.topic],
         \A t \in Topics : last[t] <= last'[t] /\ last'[t] <= issued',
         \A t \in Retained : link /\ t <= subscribed' =>
           (d.topic = t /\ d.num = last'[t]) \/ (last'[t] = last[t] /\ t <= subscribed)
           \/ applied[t] = last'[t]
  PROVE  /\ Issued' /\ Queued' /\ Accounted' /\ InLine(g_write_queue)' /\ InLine(inbox)'
         /\ Behind(applied)' /\ Behind(refused)' /\ applied' = applied
  <1>n. /\ inbox \in Seq(Commands) /\ \A i \in 1..Len(inbox) : inbox[i] \in Commands
        /\ applied \in [Topics -> Nat] /\ refused \in [Topics -> Nat] /\ last \in [Topics -> Nat]
    BY Numbers DEF Ordered
  <1>1. g_write_queue' = g_write_queue /\ applied' = applied /\ refused' = refused /\ link' = link
    BY DEF writes
  <1>2. /\ Len(inbox') = Len(inbox) + 1 /\ Len(inbox) \in Nat /\ inbox'[Len(inbox) + 1] = d
        /\ \A i \in 1..Len(inbox) : inbox'[i] = inbox[i] /\ i \in 1..Len(inbox')
        /\ \A i \in 1..Len(inbox') : i \in 1..Len(inbox) \/ i = Len(inbox) + 1
        /\ Len(inbox) + 1 \in 1..Len(inbox')
    BY <1>n, Pushed
  <1>3. ASSUME NEW i \in 1..Len(inbox)
        PROVE  /\ inbox[i].topic \in Topics /\ inbox[i].num \in Nat
               /\ inbox[i].num <= last[inbox[i].topic]
    BY <1>n, CommandIs DEF Ordered, Issued
  <1>4. InLine(inbox')
    <2>1. \A i \in 1..Len(inbox) : Follows(inbox[i].topic, inbox[i].num, d) BY <1>3
    <2> QED BY <1>n, <2>1, PushedInLine DEF Ordered
  <1>5. ASSUME NEW f \in [Topics -> Nat], Behind(f), NEW t \in Topics
        PROVE  f[t] <= last'[t] /\ \A i \in 1..Len(inbox') : Follows(t, f[t], inbox'[i])
    <2>1. f[t] \in Nat /\ f[t] <= last[t] /\ last[t] \in Nat /\ last'[t] \in Nat /\ last[t] <= last'[t]
      BY <1>n, <1>5 DEF Behind
    <2>2. \A i \in 1..Len(inbox) : Follows(t, f[t], inbox'[i]) BY <1>2, <1>5 DEF Behind
    <2>3. Follows(t, f[t], inbox'[Len(inbox) + 1]) BY <1>2, <2>1
    <2> QED BY <1>2, <2>1, <2>2, <2>3
  <1>6. Behind(applied)' /\ Behind(refused)' BY <1>n, <1>1, <1>5 DEF Ordered, Behind
  <1>7. Queued' /\ InLine(g_write_queue)' BY <1>1 DEF Ordered, Queued, InLine
  <1>8. Issued'
    <2>1. ASSUME NEW i \in 1..Len(inbox) PROVE inbox'[i].num <= last'[inbox'[i].topic]
      <3>1. PICK t \in Topics, n \in Nat : t = inbox[i].topic /\ n = inbox[i].num BY <1>3
      <3>2. n <= last[t] /\ last[t] \in Nat /\ last'[t] \in Nat /\ last[t] <= last'[t]
        BY <1>n, <1>3, <3>1
      <3>3. n <= last'[t] BY <3>2
      <3> QED BY <1>2, <3>1, <3>3
    <2> QED BY <1>2, <2>1 DEF Issued
  <1>9. Accounted'
    <2> SUFFICES ASSUME NEW t \in Retained, link, t <= subscribed'
                 PROVE  \/ applied[t] = last'[t] \/ refused[t] = last'[t]
                        \/ \E i \in 1..Len(inbox') : inbox'[i].topic = t /\ inbox'[i].num = last'[t]
      BY <1>1 DEF Accounted
    <2>1. CASE d.topic = t /\ d.num = last'[t] BY <1>2, <2>1
    <2>2. CASE last'[t] = last[t] /\ t <= subscribed
      <3>1. CASE applied[t] = last[t] \/ refused[t] = last[t] BY <2>2, <3>1
      <3>2. ASSUME NEW i \in 1..Len(inbox), inbox[i].topic = t, inbox[i].num = last[t]
            PROVE  \E k \in 1..Len(inbox') : inbox'[k].topic = t /\ inbox'[k].num = last'[t]
        BY <1>2, <2>2, <3>2
      <3> QED BY <2>2, <3>1, <3>2 DEF Ordered, Accounted
    <2> QED BY <2>1, <2>2
  <1> QED BY <1>1, <1>4, <1>6, <1>7, <1>8, <1>9

LEMMA HomeCommandsOrdered ==
  ASSUME Ordered, NEW t \in Topics, HomeCommands(t)
  PROVE  /\ Issued' /\ Queued' /\ Accounted' /\ InLine(g_write_queue)' /\ InLine(inbox)'
         /\ Behind(applied)' /\ Behind(refused)' /\ applied' = applied
  <1>n. /\ \A i \in 1..Len(inbox) : inbox[i] \in Commands
        /\ applied \in [Topics -> Nat] /\ refused \in [Topics -> Nat] /\ last \in [Topics -> Nat]
        /\ issued \in Nat
    BY Numbers DEF Ordered
  <1>1. /\ issued' = issued + 1 /\ last' = [last EXCEPT ![t] = issued + 1]
        /\ UNCHANGED <<writes, link, subscribed>> /\ issued < MaxCommands
    BY DEF HomeCommands
  <1>2. \A u \in Topics : last[u] \in Nat /\ last[u] <= issued BY <1>n DEF Ordered, Issued
  <1>3. \A u \in Topics : last[u] <= last'[u] /\ last'[u] <= issued' BY <1>n, <1>1, <1>2
  <1>4. last' \in [Topics -> Nat] /\ issued' \in Nat BY <1>n, <1>1
  <1>5. \A u \in Topics : u # t => last'[u] = last[u] BY <1>n, <1>1
  <1>6. Retained \subseteq Topics BY SharedAssumption DEF SharedAssumption, Topics
  <1>7. CASE link /\ t <= subscribed
    <2>1. PICK d : d = [topic |-> t, num |-> issued + 1, again |-> FALSE] OBVIOUS
    <2>2. d \in Commands /\ d.topic = t /\ d.num = issued + 1 /\ d.again = FALSE
      BY <1>n, <1>1, <2>1, SharedAssumption DEF SharedAssumption, Commands
    <2>3. inbox' = Append(inbox, d) BY <1>7, <2>1 DEF HomeCommands
    <2>4. \A u \in Topics : \A n \in Nat : n <= last[u] => Follows(u, n, d)
      BY <1>n, <1>2, <2>2 DEF Follows
    <2>5. d.num <= last'[d.topic] /\ d.num = last'[t] BY <1>n, <1>1, <2>2
    <2>6. \A u \in Retained : link /\ u <= subscribed' =>
            (d.topic = u /\ d.num = last'[u]) \/ (last'[u] = last[u] /\ u <= subscribed)
            \/ applied[u] = last'[u]
      BY <1>1, <1>5, <1>6, <2>2, <2>5
    <2> QED BY <1>1, <1>3, <1>4, <2>2, <2>3, <2>4, <2>5, <2>6, DeliveredOrdered
  <1>8. CASE ~(link /\ t <= subscribed)
    <2>1. inbox' = inbox BY <1>8 DEF HomeCommands
    <2>2. g_write_queue' = g_write_queue /\ applied' = applied /\ refused' = refused
      BY <1>1 DEF writes
    <2>3. Issued'
      <3>1. ASSUME NEW i \in 1..Len(inbox) PROVE inbox[i].num <= last'[inbox[i].topic]
        <4>1. PICK u \in Topics, n \in Nat : u = inbox[i].topic /\ n = inbox[i].num
          BY <1>n, CommandIs
        <4>2. n <= last[u] BY <4>1 DEF Ordered, Issued
        <4>3. last[u] \in Nat /\ last'[u] \in Nat /\ last[u] <= last'[u] BY <1>2, <1>3, <1>4
        <4>4. n <= last'[u] BY <4>2, <4>3
        <4> QED BY <4>1, <4>4
      <3> QED BY <1>3, <2>1, <3>1 DEF Issued
    <2>4. ASSUME NEW f \in [Topics -> Nat], Behind(f), NEW u \in Topics
          PROVE  f[u] <= last'[u] /\ \A i \in 1..Len(inbox) : Follows(u, f[u], inbox[i])
      <3>1. /\ f[u] \in Nat /\ f[u] <= last[u]
            /\ last[u] \in Nat /\ last'[u] \in Nat /\ last[u] <= last'[u]
        BY <1>2, <1>3, <1>4, <2>4 DEF Behind
      <3>2. f[u] <= last'[u] BY <3>1
      <3> QED BY <2>4, <3>2 DEF Behind
    <2>5. Behind(applied)' /\ Behind(refused)' BY <1>n, <2>1, <2>2, <2>4 DEF Ordered, Behind
    <2>6. Queued' /\ InLine(g_write_queue)' /\ InLine(inbox)'
      BY <2>1, <2>2 DEF Ordered, Queued, InLine
    <2>7. Accounted' BY <1>1, <1>5, <1>6, <1>8, <2>1, <2>2 DEF Ordered, Accounted
    <2> QED BY <2>2, <2>3, <2>5, <2>6, <2>7
  <1> QED BY <1>7, <1>8

LEMMA SubscribeOrdered ==
  ASSUME Ordered, Subscribe
  PROVE  /\ Issued' /\ Queued' /\ Accounted' /\ InLine(g_write_queue)' /\ InLine(inbox)'
         /\ Behind(applied)' /\ Behind(refused)' /\ applied' = applied
  <1>n. /\ applied \in [Topics -> Nat] /\ refused \in [Topics -> Nat] /\ last \in [Topics -> Nat]
        /\ issued \in Nat /\ subscribed \in Nat
    BY Numbers DEF Ordered
  <1>1. PICK t : t = subscribed + 1 OBVIOUS
  <1>2. /\ t \in Topics /\ subscribed' = t /\ last' = last /\ issued' = issued
        /\ UNCHANGED <<writes, link>>
    BY <1>n, <1>1, SharedAssumption DEF SharedAssumption, Subscribe, Topics, home
  <1>3. \A u \in Topics : last[u] \in Nat /\ last[u] <= issued BY <1>n DEF Ordered, Issued
  <1>4. Retained \subseteq Topics /\ \A u \in Retained : u <= subscribed' => u = t \/ u <= subscribed
    BY <1>n, <1>1, <1>2, SharedAssumption DEF SharedAssumption, Topics
  <1>5. CASE t \in Retained /\ last[t] # 0
    <2>1. PICK d : d = [topic |-> t, num |-> last[t], again |-> TRUE] OBVIOUS
    <2>2. d \in Commands /\ d.topic = t /\ d.num = last[t] /\ d.again = TRUE
      <3>1. last[t] \in 1..MaxCommands
        BY <1>2, <1>5, SharedAssumption DEF SharedAssumption, Ordered, TypeOK
      <3> QED BY <1>2, <2>1, <3>1 DEF Commands
    <2>3. inbox' = Append(inbox, d) BY <1>1, <1>5, <2>1 DEF Subscribe
    <2>4. \A u \in Topics : \A n \in Nat : n <= last[u] => Follows(u, n, d) BY <2>2 DEF Follows
    <2>5. \A u \in Retained : link /\ u <= subscribed' =>
            (d.topic = u /\ d.num = last'[u]) \/ (last'[u] = last[u] /\ u <= subscribed)
            \/ applied[u] = last'[u]
      BY <1>2, <1>4, <2>2
    <2>6. d.num <= last'[d.topic] /\ \A u \in Topics : last[u] <= last'[u] /\ last'[u] <= issued'
      BY <1>2, <1>3, <2>2
    <2> QED BY <1>n, <1>2, <2>2, <2>3, <2>4, <2>5, <2>6, DeliveredOrdered
  <1>6. CASE ~(t \in Retained /\ last[t] # 0)
    <2>1. inbox' = inbox BY <1>1, <1>6 DEF Subscribe
    <2>2. g_write_queue' = g_write_queue /\ applied' = applied /\ refused' = refused /\ link' = link
      BY <1>2 DEF writes
    <2>3. t \in Retained => applied[t] = last[t]
      BY <1>n, <1>2, <1>6 DEF Ordered, Behind
    <2>4. Accounted' BY <1>2, <1>4, <2>1, <2>2, <2>3 DEF Ordered, Accounted
    <2> QED BY <1>2, <2>1, <2>2, <2>4 DEF Ordered, Issued, Queued, Behind, InLine
  <1> QED BY <1>5, <1>6

LEMMA NextOrdered == Ordered /\ [Next]_vars => Ordered' /\ \A t \in Topics : applied[t] <= applied'[t]
  <1> DEFINE Kept == /\ Issued' /\ Queued' /\ Accounted' /\ InLine(g_write_queue)' /\ InLine(inbox)'
                     /\ Behind(applied)' /\ Behind(refused)'
  <1> SUFFICES ASSUME Ordered, [Next]_vars PROVE Kept /\ \A t \in Topics : applied[t] <= applied'[t]
    BY NextTypeOK DEF Ordered
  <1>n. /\ g_write_queue \in Seq(Commands) /\ \A t \in Topics : applied[t] \in Nat
    BY Numbers DEF Ordered
  <1>0. applied' = applied => \A t \in Topics : applied[t] <= applied'[t] BY <1>n
  <1>1. ASSUME UNCHANGED <<writes, link, home, subscribed, inbox>> PROVE Kept /\ applied' = applied
    BY <1>1 DEF Ordered, Issued, Queued, Accounted, Behind, InLine, writes, home
  <1>2. CASE DrainQueue
    <2>1. /\ g_write_queue # <<>> /\ g_write_queue' = Tail(g_write_queue)
          /\ applied' = applied /\ refused' = refused /\ UNCHANGED broker
      BY <1>2 DEF DrainQueue
    <2>2. InLine(g_write_queue') BY <1>n, <2>1, PoppedInLine DEF Ordered
    <2>3. Queued' BY <1>n, <2>1, Popped DEF Ordered, Queued
    <2>4. Issued' /\ Accounted' /\ InLine(inbox)' /\ Behind(applied)' /\ Behind(refused)'
      BY <2>1 DEF Ordered, Issued, Accounted, InLine, Behind, broker, home
    <2> QED BY <1>0, <2>1, <2>2, <2>3, <2>4
  <1>3. CASE Connected \/ LinkLost
    <2>1. inbox' = <<>> /\ subscribed' = 0 /\ UNCHANGED <<writes, home>>
      BY <1>3 DEF Connected, LinkLost
    <2> QED BY <1>0, <2>1, Emptied DEF Ordered
  <1>4. CASE HandleCommand BY <1>4, HandleCommandOrdered
  <1>5. CASE Subscribe BY <1>0, <1>5, SubscribeOrdered
  <1>6. ASSUME NEW t \in Topics, HomeCommands(t) PROVE Kept /\ applied' = applied
    BY <1>6, HomeCommandsOrdered
  <1>7. ASSUME NEW bank, NEW then, reg_update(bank, then)
        PROVE  UNCHANGED <<writes, link, home, subscribed, inbox>>
    BY <1>7 DEF reg_update, broker
  <1>8. RaiseFlag \/ MqttTask \/ Disconnected \/ HandlerReads \/ HandlerPublishes \/ UNCHANGED vars
          => UNCHANGED <<writes, link, home, subscribed, inbox>>
    BY DEF RaiseFlag, MqttTask, lux_mqtt_task, TaskReads, TaskPublishes, Disconnected, HandlerReads,
           HandlerPublishes, Reads, Publishes, vars, broker
  <1> QED BY <1>0, <1>1, <1>2, <1>3, <1>4, <1>5, <1>6, <1>7, <1>8
          DEF Next, reg_update_input, reg_update_hold, mqtt_event_handler

(* Commands overtake one another neither in the queue nor before it, but   *)
(* for the repetitions of other topics, and of one topic what is queued    *)
(* next is never older than what was queued last.                          *)
THEOREM CommandsKeepOrder ==
  Spec => []CommandsInOrder /\ [][\A t \in Topics : applied[t] <= applied'[t]]_vars
  <1>1. Ordered => CommandsInOrder BY DEF Ordered, CommandsInOrder, Behind
  <1> QED BY <1>1, InitOrdered, NextOrdered, PTL DEF Spec

(* No command of a retained topic is lost silently: while the connection   *)
(* works, the last one was queued, is still to be handled, or met a full   *)
(* queue.                                                                  *)
THEOREM CommandsAccounted == Spec => []Accounted
  <1>1. Ordered => Accounted BY DEF Ordered
  <1> QED BY <1>1, InitOrdered, NextOrdered, PTL DEF Spec

-----------------------------------------------------------------------------
(* Input registers.                                                        *)

(* Publisher p will still publish what register r now holds, or will       *)
(* publish an older value of it.                                           *)
WillShow(p, r) == p.pos < r \/ (p.pos = r /\ p.val \in {NoValue, regs[r]})
Stale(p, r)    == p.pos = r /\ p.val \notin {NoValue, regs[r]}

(* A value the task read too early is known to be old; while connected, a  *)
(* register is shown, or a publisher gets there, or the flag says so.      *)
Current(r) ==
  /\ Stale(task, r) => Flagged
  /\ link /\ s_connected =>
       \/ Flagged
       \/ WillShow(task, r) \/ WillShow(handler, r)
       \/ shown[r] = regs[r] /\ ~Stale(handler, r)

ShowInv == TypeOK /\ \A r \in 1..Input : Current(r)

LEMMA InputRegister ==
  ASSUME NEW r \in 1..Input
  PROVE  r \in Regs /\ r \in Nat /\ r < Idle /\ 1 <= r /\ r # Idle /\ ~(Idle < r)
  BY SharedAssumption DEF SharedAssumption, Regs, Idle

LEMMA InitShown == Init => ShowInv
  BY InitTypeOK, InputRegister DEF Init, ShowInv, Current, Stale, At

LEMMA NextShown == ShowInv /\ [Next]_vars => ShowInv'
  <1> SUFFICES ASSUME ShowInv, [Next]_vars, NEW r \in 1..Input PROVE Current(r)'
    BY NextTypeOK DEF ShowInv
  <1>r. r \in Regs /\ r \in Nat /\ r < Idle /\ 1 <= r /\ r # Idle /\ ~(Idle < r) BY InputRegister
  <1>i. Current(r) BY DEF ShowInv
  <1>t. /\ task.pos \in Nat /\ handler.pos \in Nat /\ Idle \in Nat
        /\ shown \in [Regs -> 0..MaxUpdates] /\ regs[r] # NoValue
    BY <1>r, Places DEF ShowInv, TypeOK
  <1>1. CASE reg_update_input
    BY <1>1 DEF reg_update_input, reg_update, Current, Flagged
  <1>2. CASE reg_update_hold
    <2>1. regs'[r] = regs[r]
      BY <1>2, <1>r, SharedAssumption DEF SharedAssumption, reg_update_hold, reg_update
    <2> QED BY <1>2, <1>i, <2>1
            DEF reg_update_hold, reg_update, Current, Flagged, WillShow, Stale, broker, workers
  <1>3. CASE RaiseFlag
    BY <1>3, <1>i DEF RaiseFlag, ShowInv, TypeOK, Current, Flagged, WillShow, Stale, broker, workers
  <1>4. CASE DrainQueue
    BY <1>4, <1>i DEF DrainQueue, Current, Flagged, WillShow, Stale, cache, broker, workers
  <1>5. CASE lux_mqtt_task
    <2>1. UNCHANGED <<regs, feeding, broker, handler>> /\ task.pos = Idle BY <1>5 DEF lux_mqtt_task
    <2>2. task' = task \/ task' = At(1) BY <1>5 DEF lux_mqtt_task
    <2>3. ~Stale(task, r)' BY <1>r, <2>1, <2>2 DEF Stale, At
    <2>4. input_updated /\ s_connected => WillShow(task, r)'
      BY <1>5, <1>r DEF lux_mqtt_task, WillShow, At
    <2>5. ~WillShow(task, r) BY <1>r, <2>1 DEF WillShow
    <2> QED BY <1>i, <2>1, <2>3, <2>4, <2>5
            DEF Current, Flagged, WillShow, Stale, broker
  <1>6. CASE TaskReads
    <2>1. UNCHANGED <<cache, broker, handler>> BY <1>6 DEF TaskReads, Reads
    <2>2. task'.pos = task.pos /\ task'.val = regs[task.pos] /\ task.val = NoValue
      BY <1>6 DEF TaskReads, Reads, ShowInv, TypeOK
    <2>3. ~Stale(task, r)' BY <2>1, <2>2 DEF Stale, cache
    <2>4. WillShow(task, r)' <=> WillShow(task, r) BY <2>1, <2>2 DEF WillShow, cache
    <2> QED BY <1>i, <2>1, <2>3, <2>4 DEF Current, Flagged, WillShow, Stale, cache, broker
  <1>7. CASE TaskPublishes
    <2>1. /\ UNCHANGED <<cache, link, s_connected, handler>> /\ handler.pos = Idle
          /\ task.pos # Idle /\ task.val # NoValue /\ task' = At(task.pos + 1)
          /\ link /\ s_connected => shown' = [shown EXCEPT ![task.pos] = task.val]
      BY <1>7 DEF TaskPublishes, Publishes
    <2>2. ~Stale(task, r)' BY <2>1 DEF Stale, At
    <2>3. task.pos < r => WillShow(task, r)' BY <1>t, <1>r, <2>1 DEF WillShow, At
    <2>4. link /\ s_connected /\ task.pos # r => shown'[r] = shown[r] BY <1>t, <1>r, <2>1
    <2>5. link /\ s_connected /\ task.pos = r => shown'[r] = task.val BY <1>t, <1>r, <2>1
    <2>6. ~Stale(handler, r)' /\ ~WillShow(handler, r) BY <1>r, <2>1 DEF Stale, WillShow
    <2> QED BY <1>i, <2>1, <2>2, <2>3, <2>4, <2>5, <2>6 DEF Current, Flagged, WillShow, Stale, cache
  <1>8. CASE HandlerReads
    <2>1. UNCHANGED <<cache, broker, task>> BY <1>8 DEF HandlerReads, Reads
    <2>2. handler'.pos = handler.pos /\ handler'.val = regs[handler.pos] /\ handler.val = NoValue
      BY <1>8 DEF HandlerReads, Reads, ShowInv, TypeOK
    <2>3. ~Stale(handler, r)' BY <2>1, <2>2 DEF Stale, cache
    <2>4. WillShow(handler, r)' <=> WillShow(handler, r) BY <2>1, <2>2 DEF WillShow, cache
    <2> QED BY <1>i, <2>1, <2>3, <2>4 DEF Current, Flagged, WillShow, Stale, cache, broker
  <1>9. CASE HandlerPublishes
    <2>1. /\ UNCHANGED <<cache, link, s_connected, task>>
          /\ handler.pos # Idle /\ handler.val # NoValue /\ handler' = At(handler.pos + 1)
          /\ link /\ s_connected => shown' = [shown EXCEPT ![handler.pos] = handler.val]
      BY <1>9 DEF HandlerPublishes, Publishes
    <2>2. ~Stale(handler, r)' BY <2>1 DEF Stale, At
    <2>3. handler.pos < r => WillShow(handler, r)' BY <1>t, <1>r, <2>1 DEF WillShow, At
    <2>4. link /\ s_connected /\ handler.pos # r => shown'[r] = shown[r] BY <1>t, <1>r, <2>1
    <2>5. link /\ s_connected /\ handler.pos = r => shown'[r] = handler.val BY <1>t, <1>r, <2>1
    <2> QED BY <1>i, <2>1, <2>2, <2>3, <2>4, <2>5 DEF Current, Flagged, WillShow, Stale, cache
  <1>10. CASE Connected
    <2>1. WillShow(handler, r)' BY <1>10, <1>r DEF Connected, WillShow, At
    <2> QED BY <1>10, <1>i, <2>1 DEF Connected, Current, Flagged, Stale, cache
  <1>11. CASE Disconnected
    BY <1>11, <1>i DEF Disconnected, Current, Flagged, Stale, cache, workers
  <1>12. CASE HandleCommand
    BY <1>12, <1>i DEF HandleCommand, Current, Flagged, WillShow, Stale, cache, workers
  <1>13. CASE LinkLost
    BY <1>13, <1>i DEF LinkLost, Current, Flagged, Stale, cache, workers
  <1>14. ASSUME NEW t \in Topics, HomeCommands(t) PROVE Current(r)'
    BY <1>14, <1>i DEF HomeCommands, Current, Flagged, WillShow, Stale, cache, workers
  <1>16. CASE Subscribe
    BY <1>16, <1>i DEF Subscribe, Current, Flagged, WillShow, Stale, cache, workers
  <1>15. CASE UNCHANGED vars
    BY <1>15, <1>i DEF vars, Current, Flagged, WillShow, Stale, cache, broker, workers
  <1> QED BY <1>1, <1>2, <1>3, <1>4, <1>5, <1>6, <1>7, <1>8, <1>9, <1>10, <1>11, <1>12, <1>13, <1>14, <1>15,
          <1>16 DEF Next, MqttTask, mqtt_event_handler

(* Two publishers read and publish the same registers at their own pace,   *)
(* and may show an old value after a new one.  Still no update of an input *)
(* register stays unseen: once its flag is taken and both are done, the    *)
(* home automation sees what the cache holds.  It rests on the lock that   *)
(* keeps the task from publishing while the event handler does.            *)
THEOREM UpdatesAreSeen == Spec => []InputsSettled
  <1>1. ShowInv => InputsSettled
    <2> SUFFICES ASSUME ShowInv, link /\ s_connected /\ ~Flagged, task.pos = Idle, handler.pos = Idle,
                        NEW r \in 1..Input
                 PROVE  shown[r] = regs[r]
      BY DEF InputsSettled
    <2>1. ~WillShow(task, r) /\ ~WillShow(handler, r) BY InputRegister DEF WillShow
    <2> QED BY <2>1 DEF ShowInv, Current
  <1> QED BY <1>1, InitShown, NextShown, PTL DEF Spec
=============================================================================
