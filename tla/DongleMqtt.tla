----------------------------- MODULE DongleMqtt -----------------------------
(***************************************************************************)
(* The dongle firmware's register cache (shared_state.h) and its MQTT      *)
(* client (lux_mqtt.c).  Three tasks meet here: the cloud task feeds the   *)
(* cache and drains the command queue, lux_mqtt_task publishes the cache,  *)
(* and the MQTT library's own task runs mqtt_event_handler, which publishes*)
(* the cache as well and queues commands.                                  *)
(*                                                                         *)
(* A register's value is the number of its updates; 0 is what memset left. *)
(* The library runs the handler with its API lock held, so a publish of    *)
(* lux_mqtt_task waits for the handler to return: between the two stand a  *)
(* value already read and whatever the handler published meanwhile.        *)
(***************************************************************************)
EXTENDS Naturals, Sequences

CONSTANTS
  Input, Hold,  (* how many input and hold registers are published, in     *)
                (* this order                                              *)
  QueueLen,     (* xQueueCreate: 16 in the code                            *)
  Period,       (* passes of lux_mqtt_task between two periodic publishes: *)
                (* 10 in the code                                          *)
  TopicCount,   (* command topics: 6 in the code                           *)
  Retained,     (* the ones whose last command the broker keeps            *)
  MaxUpdates,   (* bound: updates of a register                            *)
  MaxCommands,  (* bound: commands the home automation issues              *)
  MaxLosses     (* bound: how often the broker connection is lost          *)

ASSUME SharedAssumption ==
  /\ Input \in Nat /\ Hold \in Nat /\ QueueLen \in Nat \ {0} /\ Period \in Nat
  /\ TopicCount \in Nat /\ Retained \subseteq 1..TopicCount
  /\ MaxUpdates \in Nat /\ MaxCommands \in Nat /\ MaxLosses \in Nat

(* In the order of mqtt_subscribe_all. *)
Topics == 1..TopicCount

(* A command: the number of its issue, and whether the broker repeats it   *)
(* for a new subscription.                                                 *)
Commands == [topic : Topics, num : 1..MaxCommands, again : BOOLEAN]

Regs == 1..(Input + Hold)
Idle == Input + Hold + 1    (* the position of a publisher that is done    *)

VARIABLES
  regs,          (* g_regs: input and hold, under its mutex                *)
  feeding,       (* the cache is updated, its event flag not yet           *)
  input_updated, (* g_events.input_updated, under a mutex of its own       *)
  g_write_queue, (* commands for the inverter                              *)
  link,          (* the TCP connection to the broker works                 *)
  losses,        (* bound: how often it was lost                           *)
  s_connected,   (* between MQTT_EVENT_CONNECTED and _DISCONNECTED         *)
  passes,        (* passes of lux_mqtt_task since last_pub                 *)
  task,          (* lux_mqtt_task in mqtt_publish_all: register and value  *)
  handler,       (* mqtt_event_handler in mqtt_publish_all, likewise       *)
  shown,         (* what the home automation last heard of each register   *)
  issued,        (* commands that the home automation issued so far        *)
  last,          (* the last one of each topic, 0 for none                 *)
  subscribed,    (* how many of the topics the broker has subscribed       *)
  inbox,         (* commands delivered to the client and not yet handled   *)
  applied,       (* history: the last command of each topic that was queued*)
  refused        (* history: the last one of each that found no room       *)

cache   == <<regs, feeding, input_updated>>
home    == <<issued, last>>
broker  == <<link, losses, s_connected, shown, home, subscribed, inbox>>
writes  == <<g_write_queue, applied, refused>>
workers == <<passes, task, handler>>
vars    == <<cache, broker, writes, workers>>

None == [t \in Topics |-> 0]

NoValue == MaxUpdates + 1
At(pos) == [pos |-> pos, val |-> NoValue]

Init ==
  /\ regs = [r \in Regs |-> 0] /\ feeding = "no" /\ input_updated = FALSE
  /\ g_write_queue = <<>>
  /\ link = FALSE /\ losses = 0 /\ s_connected = FALSE
  /\ passes = 0 /\ task = At(Idle) /\ handler = At(Idle)
  /\ shown = [r \in Regs |-> 0]
  /\ issued = 0 /\ last = None /\ subscribed = 0 /\ inbox = <<>>
  /\ applied = None /\ refused = None

(***************************************************************************)
(* reg_update_input and reg_update_hold, called by the cloud task: the     *)
(* data under one mutex, then the flag under the other.  Nobody looks at   *)
(* hold_updated.                                                           *)
(***************************************************************************)
reg_update(bank, then) ==
  /\ feeding = "no"
  /\ \A r \in bank : regs[r] < MaxUpdates
  /\ regs' = [r \in Regs |-> IF r \in bank THEN regs[r] + 1 ELSE regs[r]]
  /\ feeding' = then
  /\ UNCHANGED <<input_updated, broker, writes, workers>>

reg_update_input == reg_update(1..Input, "input")
reg_update_hold  == reg_update((Input + 1)..(Input + Hold), "hold")

RaiseFlag ==
  /\ feeding # "no"
  /\ input_updated' = (input_updated \/ feeding = "input")
  /\ feeding' = "no"
  /\ UNCHANGED <<regs, broker, writes, workers>>

(* xQueueReceive in the cloud task. *)
DrainQueue ==
  /\ g_write_queue # <<>>
  /\ g_write_queue' = Tail(g_write_queue)
  /\ UNCHANGED <<cache, broker, applied, refused, workers>>

(***************************************************************************)
(* mqtt_publish_all: register by register, each read under the cache's     *)
(* mutex and then published, if s_connected says so, to a broker that may  *)
(* not be there any more.                                                  *)
(***************************************************************************)
Reads(publisher) ==
  /\ publisher.pos # Idle /\ publisher.val = NoValue
  /\ UNCHANGED <<cache, broker, writes, passes>>

Publishes(publisher) ==
  /\ publisher.pos # Idle /\ publisher.val # NoValue
  /\ shown' = IF s_connected /\ link
              THEN [shown EXCEPT ![publisher.pos] = publisher.val] ELSE shown
  /\ UNCHANGED <<cache, writes, link, losses, s_connected, home, subscribed, inbox, passes>>

TaskReads == Reads(task) /\ task' = [task EXCEPT !.val = regs[task.pos]] /\ UNCHANGED handler

(* Mutant: the client could publish for two tasks at once.                 *)
TaskPublishesUnlocked == Publishes(task) /\ task' = At(task.pos + 1) /\ UNCHANGED handler

(* esp_mqtt_client_publish waits for the API lock. *)
TaskPublishes ==
  /\ handler.pos = Idle
  /\ Publishes(task) /\ task' = At(task.pos + 1) /\ UNCHANGED handler

HandlerReads     == Reads(handler) /\ handler' = [handler EXCEPT !.val = regs[handler.pos]] /\ UNCHANGED task
HandlerPublishes == Publishes(handler) /\ handler' = At(handler.pos + 1) /\ UNCHANGED task

(* Mutant: only news are published, never the same again.                  *)
DueNever == FALSE

Due == passes = Period

(* A pass of lux_mqtt_task: it takes the flag, publishes or not, and       *)
(* sleeps half a second.                                                   *)
lux_mqtt_task ==
  /\ task.pos = Idle
  /\ input_updated' = FALSE
  /\ passes' = IF Due THEN 0 ELSE IF passes < Period THEN passes + 1 ELSE passes
  /\ task' = IF (input_updated \/ Due) /\ s_connected THEN At(1) ELSE task
  /\ UNCHANGED <<regs, feeding, broker, writes, handler>>

(***************************************************************************)
(* The MQTT library's task: mqtt_event_handler, one event at a time.       *)
(***************************************************************************)
Handling == handler.pos # Idle

(* MQTT_EVENT_CONNECTED: the topics are subscribed, then everything is     *)
(* published.                                                              *)
Connected ==
  /\ ~Handling /\ ~link /\ ~s_connected
  /\ link' = TRUE /\ s_connected' = TRUE
  /\ subscribed' = 0 /\ inbox' = <<>>
  /\ handler' = At(1)
  /\ UNCHANGED <<cache, writes, losses, shown, home, passes, task>>

Disconnected ==
  /\ ~Handling /\ ~link /\ s_connected
  /\ s_connected' = FALSE
  /\ UNCHANGED <<cache, writes, link, losses, shown, home, subscribed, inbox, workers>>

(* Mutant: a command that finds another one waiting is ignored.            *)
HandleCommandUnlessQueueing ==
  LET d == Head(inbox) IN
  /\ ~Handling /\ inbox # <<>>
  /\ inbox' = Tail(inbox)
  /\ IF g_write_queue = <<>>
     THEN /\ g_write_queue' = Append(g_write_queue, d)
          /\ applied' = [applied EXCEPT ![d.topic] = d.num] /\ UNCHANGED refused
     ELSE UNCHANGED writes
  /\ UNCHANGED <<cache, link, losses, s_connected, shown, home, subscribed, workers>>

(* Mutant: the newest command goes first.                                  *)
HandleCommandToFront ==
  LET d == Head(inbox) IN
  /\ ~Handling /\ inbox # <<>>
  /\ inbox' = Tail(inbox)
  /\ IF Len(g_write_queue) < QueueLen
     THEN /\ g_write_queue' = <<d>> \o g_write_queue
          /\ applied' = [applied EXCEPT ![d.topic] = d.num] /\ UNCHANGED refused
     ELSE /\ refused' = [refused EXCEPT ![d.topic] = d.num]
          /\ UNCHANGED <<g_write_queue, applied>>
  /\ UNCHANGED <<cache, link, losses, s_connected, shown, home, subscribed, workers>>

(* mqtt_handle_cmd: cmd_queue_write, or xQueueSend for the battery type,   *)
(* waits a tenth of a second for room.                                     *)
HandleCommand ==
  LET d == Head(inbox) IN
  /\ ~Handling /\ inbox # <<>>
  /\ inbox' = Tail(inbox)
  /\ IF Len(g_write_queue) < QueueLen
     THEN /\ g_write_queue' = Append(g_write_queue, d)
          /\ applied' = [applied EXCEPT ![d.topic] = d.num] /\ UNCHANGED refused
     ELSE /\ refused' = [refused EXCEPT ![d.topic] = d.num]
          /\ UNCHANGED <<g_write_queue, applied>>
  /\ UNCHANGED <<cache, link, losses, s_connected, shown, home, subscribed, workers>>

(***************************************************************************)
(* The broker and the home automation.                                     *)
(***************************************************************************)
LinkLost ==
  /\ link /\ losses < MaxLosses
  /\ link' = FALSE /\ losses' = losses + 1
  /\ subscribed' = 0 /\ inbox' = <<>>
  /\ UNCHANGED <<cache, writes, s_connected, shown, home, workers>>

(* One subscription after the other is answered with the topic's last      *)
(* command, if that was published with the retain flag.                    *)
Subscribe ==
  LET t == subscribed + 1 IN
  /\ link /\ subscribed < TopicCount
  /\ subscribed' = t
  /\ inbox' = IF t \in Retained /\ last[t] # 0
              THEN Append(inbox, [topic |-> t, num |-> last[t], again |-> TRUE]) ELSE inbox
  /\ UNCHANGED <<cache, writes, link, losses, s_connected, shown, home, workers>>

(* A number entity's commands have the retain flag, a select's and a       *)
(* button's have not.                                                      *)
HomeCommands(t) ==
  /\ issued < MaxCommands
  /\ issued' = issued + 1
  /\ last' = [last EXCEPT ![t] = issued + 1]
  /\ inbox' = IF link /\ t <= subscribed
              THEN Append(inbox, [topic |-> t, num |-> issued + 1, again |-> FALSE]) ELSE inbox
  /\ UNCHANGED <<cache, writes, link, losses, s_connected, shown, subscribed, workers>>

mqtt_event_handler == Connected \/ Disconnected \/ HandleCommand \/ HandlerReads \/ HandlerPublishes
MqttTask == lux_mqtt_task \/ TaskReads \/ TaskPublishes

Next ==
  \/ reg_update_input \/ reg_update_hold \/ RaiseFlag \/ DrainQueue
  \/ MqttTask \/ mqtt_event_handler
  \/ LinkLost \/ Subscribe \/ \E t \in Topics : HomeCommands(t)

Spec == Init /\ [][Next]_vars
        /\ WF_vars(MqttTask) /\ WF_vars(mqtt_event_handler) /\ WF_vars(RaiseFlag)
        /\ WF_vars(Subscribe)

-----------------------------------------------------------------------------
TypeOK ==
  /\ regs \in [Regs -> 0..MaxUpdates] /\ shown \in [Regs -> 0..MaxUpdates]
  /\ feeding \in {"no", "input", "hold"} /\ input_updated \in BOOLEAN
  /\ task \in [pos : 1..Idle, val : 0..NoValue] /\ handler \in [pos : 1..Idle, val : 0..NoValue]
  /\ link \in BOOLEAN /\ s_connected \in BOOLEAN /\ losses \in 0..MaxLosses
  /\ passes \in 0..Period
  /\ issued \in 0..MaxCommands /\ last \in [Topics -> 0..MaxCommands]
  /\ applied \in [Topics -> 0..MaxCommands] /\ refused \in [Topics -> 0..MaxCommands]
  /\ subscribed \in 0..TopicCount
  /\ inbox \in Seq(Commands) /\ g_write_queue \in Seq(Commands)
  /\ Len(g_write_queue) <= QueueLen

(* d may come after command n of topic t: a command that is repeated after *)
(* those of its own topic that are not newer, any other after all that     *)
(* were issued before it.                                                  *)
Follows(t, n, d) == IF d.again THEN t = d.topic => n <= d.num ELSE n < d.num

InLine(q) == \A j \in 1..Len(q) : \A i \in 1..(j - 1) : Follows(q[i].topic, q[i].num, q[j])

(* Commands do not overtake one another on their way to the inverter,      *)
(* except that the broker's repetition of an old one, when the connection  *)
(* is back, may come behind newer ones of other topics: what waits in the  *)
(* queue is in that order, and no command the client has yet to handle is  *)
(* behind one of its register that was queued already.                     *)
CommandsInOrder ==
  /\ InLine(g_write_queue)
  /\ \A i \in 1..Len(inbox), t \in Topics : Follows(t, applied[t], inbox[i])

(* An update of the input registers is on record.                          *)
Flagged == feeding = "input" \/ input_updated

(* The task and the event handler publish the same registers, each at its  *)
(* own pace and each a value it may have read long ago.  Still, with no    *)
(* update on record and both of them done, the home automation sees every  *)
(* input register as the cache has it: only the connection can lose it one.*)
InputsSettled ==
  link /\ s_connected /\ ~Flagged /\ task.pos = Idle /\ handler.pos = Idle =>
    \A r \in 1..Input : shown[r] = regs[r]

(* Two publishers may overwrite a new value with an old one, hold          *)
(* registers raise no event, and a publish can vanish with the connection: *)
(* still, when the registers come to rest and the broker stays connected,  *)
(* the home automation sees the cache.                                     *)
PublishedIsCurrent == <>[]link => <>[](shown = regs)

(* A command may be issued while the dongle is away or be lost with a      *)
(* connection.  Where the broker retains it, the last command of a topic   *)
(* that was queued is in the end the last one issued, unless the queue was *)
(* full when that one came.                                                *)
LastCommandApplies == <>[]link =>
  \A t \in Retained : <>[](applied[t] = last[t] \/ refused[t] = last[t])
=============================================================================
