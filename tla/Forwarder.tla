----------------------------- MODULE Forwarder ------------------------------
(***************************************************************************)
(* The TCP server of lux_local_server.c, which lux_relay.c repeats: a task *)
(* accepts connections, each gets a task of its own that connects to the   *)
(* other end and forwards bytes both ways, one select, one recv and one    *)
(* send at a time, until either end leaves, a call fails or nothing        *)
(* arrives for a while.                                                    *)
(*                                                                         *)
(* The socket table is shared: every session takes two sockets of it.  An  *)
(* element of Sessions is one client; wire holds what has arrived from an  *)
(* end and was not received yet.                                           *)
(***************************************************************************)
EXTENDS Naturals, Sequences, FiniteSets

CONSTANTS
  Sessions, (* clients, one connection at a time each                      *)
  Sockets,  (* sockets left for the sessions: LWIP_MAX_SOCKETS is 10       *)
  PieceLen, (* the most that one recv takes: BUF_SIZE, 1024 in the code    *)
  Byte,     (* what the ends send                                          *)
  Messages, (* the pieces they send it in                                  *)
  Quiet,    (* bound: the sessions on which nothing is sent                *)
  MaxSent   (* bound: how much the ends of another session send            *)

ASSUME PieceAssumption == PieceLen \in Nat \ {0}
ASSUME MessageAssumption == Messages \subseteq Seq(Byte) \ {<<>>}
ASSUME SessionBounds == Sockets \in Nat /\ Quiet \subseteq Sessions /\ MaxSent \in Nat

VARIABLES
  pc,        (* where the session is; "orphan": its task was not created   *)
  held,      (* the open sockets, <<session, end>>                         *)
  link,      (* what the firmware's socket to an end would report          *)
  ready,     (* the ends that select reported and that are not yet served  *)
  piece,     (* received and not yet sent on                               *)
  wire,      (* sent by an end and not yet received                        *)
  sent,      (* history: what an end has sent                              *)
  delivered  (* history: what was sent on to the end opposite              *)

vars == <<pc, held, link, ready, piece, wire, sent, delivered>>

Ends  == {"client", "server"}
Other(e) == IF e = "client" THEN "server" ELSE "client"
Sending == {"select", "serve", "send"}
Paired  == {"connect"} \cup Sending

P == INSTANCE Pipe

Silence == [e \in Ends |-> <<>>]

Init ==
  /\ pc = [s \in Sessions |-> "free"]
  /\ held = {}
  /\ link = [s \in Sessions |-> [e \in Ends |-> "up"]]
  /\ ready = [s \in Sessions |-> {}]
  /\ piece = [s \in Sessions |-> <<>>]
  /\ wire = [s \in Sessions |-> Silence]
  /\ sent = [s \in Sessions |-> Silence]
  /\ delivered = [s \in Sessions |-> Silence]

Room == Cardinality(held) < Sockets
Goto(s, where) == pc' = [pc EXCEPT ![s] = where]

(* The session leaves nothing behind but the sockets in kept. *)
Leave(s, where, kept) ==
  /\ Goto(s, where)
  /\ held' = (held \ ({s} \X Ends)) \cup kept
  /\ link' = [link EXCEPT ![s] = [e \in Ends |-> "up"]]
  /\ ready' = [ready EXCEPT ![s] = {}]
  /\ piece' = [piece EXCEPT ![s] = <<>>]
  /\ wire' = [wire EXCEPT ![s] = Silence]
  /\ sent' = [sent EXCEPT ![s] = Silence]
  /\ delivered' = [delivered EXCEPT ![s] = Silence]

(* close(cs); close(ds); vTaskDelete(NULL). *)
CloseBoth(s) == Leave(s, "free", {})

(***************************************************************************)
(* The two ends.                                                           *)
(***************************************************************************)
ClientConnects(s) ==
  /\ pc[s] = "free"
  /\ Goto(s, "backlog")
  /\ UNCHANGED <<held, link, ready, piece, wire, sent, delivered>>

Present(s, e) ==
  pc[s] \in Sending \/ (e = "client" /\ pc[s] \in {"backlog", "task", "connect"})

EndSends(s, e, m) ==
  /\ Present(s, e) /\ link[s][e] = "up" /\ s \notin Quiet
  /\ Len(sent[s][e]) + Len(sent[s][Other(e)]) + Len(m) <= MaxSent
  /\ sent' = [sent EXCEPT ![s][e] = @ \o m]
  /\ wire' = [wire EXCEPT ![s][e] = @ \o m]
  /\ UNCHANGED <<pc, held, link, ready, piece, delivered>>

(* An orderly close lets what was sent before it be received; a reset does *)
(* not.                                                                    *)
EndLeaves(s, e) ==
  /\ Present(s, e) /\ link[s][e] = "up"
  /\ \E how \in {"closed", "reset"} : link' = [link EXCEPT ![s][e] = how]
  /\ UNCHANGED <<pc, held, ready, piece, wire, sent, delivered>>

(***************************************************************************)
(* server_task.                                                            *)
(***************************************************************************)
(* accept() has no socket for the connection and drops it. *)
AcceptFails(s) == pc[s] = "backlog" /\ ~Room /\ CloseBoth(s)

(* No memory for the task's argument: the socket is closed again. *)
AcceptAndClose(s) == pc[s] = "backlog" /\ Room /\ CloseBoth(s)

Accept(s) ==
  /\ pc[s] = "backlog" /\ Room
  /\ Goto(s, "task")
  /\ held' = held \cup {<<s, "client">>}
  /\ UNCHANGED <<link, ready, piece, wire, sent, delivered>>

(* xTaskCreate fails, which is not looked at: nobody will close the socket *)
(* again, and nobody reads what the client goes on to send.                *)
AcceptAndForget(s) == pc[s] = "backlog" /\ Room /\ Leave(s, "orphan", {<<s, "client">>})

(***************************************************************************)
(* conn_task.                                                              *)
(***************************************************************************)
(* The name cannot be resolved, or socket() fails. *)
NoServerSocket(s) == pc[s] = "task" /\ CloseBoth(s)

OpenSocket(s) ==
  /\ pc[s] = "task" /\ Room
  /\ Goto(s, "connect")
  /\ held' = held \cup {<<s, "server">>}
  /\ UNCHANGED <<link, ready, piece, wire, sent, delivered>>

(* Mutant: a socket that could not be connected stays open.                *)
ConnectFailsKeepsServer(s) == pc[s] = "connect" /\ Leave(s, "free", {<<s, "server">>})

(* The end does not answer, or there is no memory for the buffer. *)
ConnectFails(s) == pc[s] = "connect" /\ CloseBoth(s)

Connect(s) ==
  /\ pc[s] = "connect"
  /\ Goto(s, "select")
  /\ UNCHANGED <<held, link, ready, piece, wire, sent, delivered>>

Readable(s, e) == wire[s][e] # <<>> \/ link[s][e] # "up"

Select(s) ==
  /\ pc[s] = "select"
  /\ \E e \in Ends : Readable(s, e)
  /\ ready' = [ready EXCEPT ![s] = {e \in Ends : Readable(s, e)}]
  /\ Goto(s, "serve")
  /\ UNCHANGED <<held, link, piece, wire, sent, delivered>>

(* select() returns 0 after two minutes, ninety seconds in the relay. *)
Idle(s) ==
  /\ pc[s] = "select"
  /\ \A e \in Ends : ~Readable(s, e)
  /\ CloseBoth(s)

(* Both ends are served in a fixed order. *)
Served(s) == IF "client" \in ready[s] THEN "client" ELSE "server"

Receive(s) ==
  LET e == Served(s) IN
  /\ pc[s] = "serve" /\ link[s][e] # "reset"
  /\ \E n \in 1..PieceLen :
       /\ n <= Len(wire[s][e])
       /\ piece' = [piece EXCEPT ![s] = SubSeq(wire[s][e], 1, n)]
       /\ wire' = [wire EXCEPT ![s][e] = SubSeq(@, n + 1, Len(@))]
  /\ Goto(s, "send")
  /\ UNCHANGED <<held, link, ready, sent, delivered>>

(* Mutant: an error of recv() is taken for "nothing yet".                  *)
ReceiveFailsRetries(s) ==
  /\ pc[s] = "serve"
  /\ link[s][Served(s)] # "up"
  /\ Goto(s, "select")
  /\ ready' = [ready EXCEPT ![s] = {}]
  /\ UNCHANGED <<held, link, piece, wire, sent, delivered>>

(* recv() returns 0 or less. *)
ReceiveFails(s) ==
  LET e == Served(s) IN
  /\ pc[s] = "serve"
  /\ link[s][e] = "reset" \/ (link[s][e] = "closed" /\ wire[s][e] = <<>>)
  /\ CloseBoth(s)

(* Mutant: the piece is sent back to where it came from.                   *)
SendOnToSender(s) ==
  /\ pc[s] = "send"
  /\ delivered' = [delivered EXCEPT ![s][Other(Served(s))] = @ \o piece[s]]
  /\ piece' = [piece EXCEPT ![s] = <<>>]
  /\ ready' = [ready EXCEPT ![s] = @ \ {Served(s)}]
  /\ Goto(s, IF ready[s] \ {Served(s)} = {} THEN "select" ELSE "serve")
  /\ UNCHANGED <<held, link, wire, sent>>

(* send() returns when the other end has made room for the piece.  The     *)
(* time limit of connect() has been taken off the socket by then, so that  *)
(* nothing says when, if the other end stays and does not read.            *)
SendOn(s) ==
  LET e == Served(s) IN
  /\ pc[s] = "send"
  /\ delivered' = [delivered EXCEPT ![s][e] = @ \o piece[s]]
  /\ piece' = [piece EXCEPT ![s] = <<>>]
  /\ ready' = [ready EXCEPT ![s] = @ \ {e}]
  /\ Goto(s, IF ready[s] \ {e} = {} THEN "select" ELSE "serve")
  /\ UNCHANGED <<held, link, wire, sent>>

(* send() may fail once the other end has left. *)
SendFails(s) ==
  /\ pc[s] = "send" /\ link[s][Other(Served(s))] # "up"
  /\ CloseBoth(s)

Accepting(s)  == AcceptFails(s) \/ AcceptAndClose(s) \/ Accept(s) \/ AcceptAndForget(s)
Connecting(s) == NoServerSocket(s) \/ OpenSocket(s) \/ ConnectFails(s) \/ Connect(s)
Returns(s)    == Select(s) \/ Idle(s) \/ Receive(s) \/ ReceiveFails(s) \/ SendFails(s)
Serving(s)    == Returns(s) \/ SendOn(s)
Peers(s)      == ClientConnects(s) \/ \E e \in Ends : EndLeaves(s, e) \/ \E m \in Messages : EndSends(s, e, m)

Next == \E s \in Sessions : Accepting(s) \/ Connecting(s) \/ Serving(s) \/ Peers(s)

(* The tasks are scheduled; connect() and select() have a timeout, recv()  *)
(* has something to report, and send() does not outlive the end it sends   *)
(* to.  SendOn is not in it.                                               *)
Fairness == \A s \in Sessions :
  WF_vars(Accepting(s)) /\ WF_vars(Connecting(s)) /\ WF_vars(Returns(s))

SafetySpec == Init /\ [][Next]_vars
Spec == SafetySpec /\ Fairness

-----------------------------------------------------------------------------
TypeOK ==
  /\ pc \in [Sessions -> {"free", "backlog", "task", "orphan"} \cup Paired]
  /\ held \subseteq Sessions \X Ends
  /\ link \in [Sessions -> [Ends -> {"up", "closed", "reset"}]]
  /\ ready \in [Sessions -> SUBSET Ends]
  /\ piece \in [Sessions -> Seq(Byte)]
  /\ wire \in [Sessions -> [Ends -> Seq(Byte)]]
  /\ sent \in [Sessions -> [Ends -> Seq(Byte)]]
  /\ delivered \in [Sessions -> [Ends -> Seq(Byte)]]

(* Every open socket belongs to a session that is still running, or to a   *)
(* connection whose task could not be created: no way out of conn_task or  *)
(* server_task leaves one behind.                                          *)
HeldIn(s) == CASE pc[s] \in Paired -> {s} \X Ends
               [] pc[s] \in {"task", "orphan"} -> {<<s, "client">>}
               [] OTHER -> {}
SocketsAccounted == held = UNION {HeldIn(s) : s \in Sessions}

(* What an end has sent is what was sent on, then the piece in the task's  *)
(* buffer, then what waits at the socket.                                  *)
NothingLost == \A s \in Sessions, e \in Ends :
  sent[s][e] = delivered[s][e]
               \o (IF pc[s] = "send" /\ e = Served(s) THEN piece[s] ELSE <<>>)
               \o wire[s][e]

(* Both directions are transparent: the bytes of one end arrive at the     *)
(* other whole, in order and once, until the session is cut.               *)
Transparent == P!Spec

(* The session is in send() to an end that has not left.                   *)
Blocked(s) == pc[s] = "send" /\ link[s][Other(Served(s))] = "up"

(* The same, and what was sent does arrive, unless the session is cut or   *)
(* an end that has not left never reads what is sent to it.                *)
Forwards == P!Spec /\ \A s \in Sessions, e \in Ends : P!Delivers(s, e) \/ <>[]Blocked(s)

(* When one end leaves, the session ends: it does not serve the other end  *)
(* for ever.  Only an end that stays and never reads can keep it, in a     *)
(* send() without a time limit.                                            *)
SessionsEnd == \A s \in Sessions :
  (\E e \in Ends : link[s][e] # "up") ~> (pc[s] \in {"free", "orphan"} \/ []Blocked(s))
=============================================================================
