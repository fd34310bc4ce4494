---------------------------- MODULE RelayProofs -----------------------------
(***************************************************************************)
(* First what the forwarding promises by itself, the local server's as     *)
(* well as the relay's, for any number of clients and sockets, any piece   *)
(* length and any messages.  Then that the relay is such a forwarder:      *)
(* cutting frames out of what passes disturbs neither its sockets nor its  *)
(* bytes.  Then the cutter: that its loop ends on every buffer, what it    *)
(* leaves, and that it cuts a stream of frames where the frames end.  Last *)
(* that the relay, through the cutter, reports the frames that came.       *)
(***************************************************************************)
EXTENDS Relay, FiniteSetTheorems, SequenceTheorems, TLAPS

(* The piece in the task's buffer, in the direction it goes.               *)
Carried(s, e) == IF pc[s] = "send" /\ e = Served(s) THEN piece[s] ELSE <<>>

(* What holds of one session: whose sockets are open, and where the bytes  *)
(* are.                                                                    *)
Open(s, e) == pc[s] \in Paired \/ (e = "client" /\ pc[s] \in {"task", "orphan"})

At(s) ==
  /\ \A e \in Ends : <<s, e>> \in held <=> Open(s, e)
  /\ \A e \in Ends : sent[s][e] = delivered[s][e] \o Carried(s, e) \o wire[s][e]
  /\ pc[s] = "send" => piece[s] # <<>>

FwdInv == TypeOK /\ \A s \in Sessions : At(s)

(* A session that a step does not touch.                                   *)
Same(s) ==
  /\ pc'[s] = pc[s] /\ ready'[s] = ready[s] /\ piece'[s] = piece[s] /\ wire'[s] = wire[s]
  /\ sent'[s] = sent[s] /\ delivered'[s] = delivered[s]
  /\ \A e \in Ends : <<s, e>> \in held' <=> <<s, e>> \in held

-----------------------------------------------------------------------------
(* Sequences of bytes.                                                     *)
LEMMA Assoc ==
  \A a, b, c \in Seq(Byte) : (a \o b) \o c = a \o (b \o c) /\ a \o b \in Seq(Byte)
  OBVIOUS

LEMMA Empty ==
  <<>> \in Seq(Byte) /\ \A a \in Seq(Byte) : a \o <<>> = a /\ <<>> \o a = a
  OBVIOUS

LEMMA Split ==
  ASSUME NEW A, NEW a \in Seq(A), NEW n \in 1..Len(a)
  PROVE  /\ SubSeq(a, 1, n) \in Seq(A) /\ SubSeq(a, n + 1, Len(a)) \in Seq(A)
         /\ a = SubSeq(a, 1, n) \o SubSeq(a, n + 1, Len(a))
         /\ SubSeq(a, 1, n) # <<>>
  OBVIOUS

LEMMA Prefix ==
  ASSUME NEW A, NEW a \in Seq(A), NEW b \in Seq(A)
  PROVE  /\ SubSeq(a \o b, 1, Len(a)) = a
         /\ Len(a \o b) = Len(a) + Len(b)
         /\ b # <<>> => Len(b) > 0
  OBVIOUS

-----------------------------------------------------------------------------
LEMMA EndsAre == Ends = {"client", "server"} /\ \A s : Served(s) \in Ends
  BY DEF Ends, Served

LEMMA Elsewhere == ASSUME NEW s \in Sessions, At(s), Same(s) PROVE At(s)'
  <1>1. \A e \in Ends : Open(s, e)' <=> Open(s, e) BY DEF Same, Open
  <1>2. Served(s)' = Served(s) BY DEF Same, Served
  <1>3. \A e \in Ends : Carried(s, e)' = Carried(s, e) BY <1>2 DEF Same, Carried
  <1> QED BY <1>1, <1>3 DEF At, Same

(* A step of one session.                                                  *)
LEMMA OneSession ==
  ASSUME FwdInv, NEW s \in Sessions, TypeOK', At(s)', \A t \in Sessions \ {s} : Same(t)
  PROVE  FwdInv'
  <1>1. \A t \in Sessions \ {s} : At(t)' BY Elsewhere DEF FwdInv
  <1> QED BY <1>1 DEF FwdInv

LEMMA FwdInit == Init => FwdInv
  <1> SUFFICES ASSUME Init PROVE FwdInv OBVIOUS
  <1>1. <<>> \in Seq(Byte) /\ <<>> \o <<>> \o <<>> = <<>> BY Empty
  <1>2. Silence \in [Ends -> Seq(Byte)] BY <1>1 DEF Silence
  <1>3. TypeOK BY <1>1, <1>2 DEF Init, TypeOK
  <1>4. ASSUME NEW s \in Sessions PROVE At(s)
    <2>1. \A e \in Ends : sent[s][e] = <<>> /\ delivered[s][e] = <<>> /\ wire[s][e] = <<>>
      BY DEF Init, Silence
    <2> QED BY <1>1, <2>1 DEF Init, At, Open, Carried, Sending, Paired
  <1> QED BY <1>3, <1>4 DEF FwdInv

(* A session that ends, with or without a socket left behind.              *)
LEMMA LeaveKeeps ==
  ASSUME FwdInv, NEW s \in Sessions,
         CloseBoth(s) \/ Leave(s, "orphan", {<<s, "client">>})
  PROVE  FwdInv'
  <1>1. PICK where \in {"free", "orphan"} :
          Leave(s, where, IF where = "orphan" THEN {<<s, "client">>} ELSE {})
    BY DEF CloseBoth
  <1> DEFINE kept == IF where = "orphan" THEN {<<s, "client">>} ELSE {}
  <1>2. /\ pc' = [pc EXCEPT ![s] = where]
        /\ held' = (held \ ({s} \X Ends)) \cup kept
        /\ link' = [link EXCEPT ![s] = [e \in Ends |-> "up"]]
        /\ ready' = [ready EXCEPT ![s] = {}]
        /\ piece' = [piece EXCEPT ![s] = <<>>]
        /\ wire' = [wire EXCEPT ![s] = Silence]
        /\ sent' = [sent EXCEPT ![s] = Silence]
        /\ delivered' = [delivered EXCEPT ![s] = Silence]
    BY <1>1 DEF Leave, Goto
  <1>3. <<>> \in Seq(Byte) /\ <<>> \o <<>> \o <<>> = <<>> BY Empty
  <1>4. Silence \in [Ends -> Seq(Byte)] /\ \A e \in Ends : Silence[e] = <<>>
    BY <1>3 DEF Silence
  <1>5. kept \subseteq Sessions \X Ends /\ \A t \in Sessions \ {s}, e \in Ends : <<t, e>> \notin kept
    BY EndsAre
  <1>6. TypeOK'
    <2> USE DEF FwdInv, TypeOK
    <2>1. pc' \in [Sessions -> {"free", "backlog", "task", "orphan"} \cup Paired] BY <1>2
    <2>2. held' \subseteq Sessions \X Ends BY <1>2, <1>5
    <2>3. link' \in [Sessions -> [Ends -> {"up", "closed", "reset"}]] BY <1>2
    <2>4. ready' \in [Sessions -> SUBSET Ends] /\ piece' \in [Sessions -> Seq(Byte)]
      BY <1>2, <1>3
    <2>5. /\ wire' \in [Sessions -> [Ends -> Seq(Byte)]]
          /\ sent' \in [Sessions -> [Ends -> Seq(Byte)]]
          /\ delivered' \in [Sessions -> [Ends -> Seq(Byte)]]
      BY <1>2, <1>4
    <2> QED BY <2>1, <2>2, <2>3, <2>4, <2>5
  <1>7. ASSUME NEW t \in Sessions \ {s} PROVE Same(t)
    <2>1. \A e \in Ends : <<t, e>> \notin {s} \X Ends OBVIOUS
    <2> QED BY <1>2, <1>5, <2>1 DEF FwdInv, TypeOK, Same
  <1>8. At(s)'
    <2>1. pc'[s] = where /\ sent'[s] = Silence /\ delivered'[s] = Silence /\ wire'[s] = Silence
      BY <1>2 DEF FwdInv, TypeOK
    <2>2. \A e \in Ends : <<s, e>> \in held' <=> (e = "client" /\ where = "orphan")
      BY <1>2, EndsAre
    <2>3. \A e \in Ends : Open(s, e)' <=> (e = "client" /\ where = "orphan")
      BY <2>1 DEF Open, Sending, Paired
    <2>4. \A e \in Ends : Carried(s, e)' = <<>> BY <2>1 DEF Carried
    <2> QED BY <1>3, <1>4, <2>1, <2>2, <2>3, <2>4 DEF At
  <1> QED BY <1>6, <1>7, <1>8, OneSession

(* Steps that take the session on without touching its bytes.              *)
LEMMA ControlKeeps ==
  ASSUME FwdInv, NEW s \in Sessions,
         ClientConnects(s) \/ Accept(s) \/ OpenSocket(s) \/ Connect(s) \/ Select(s)
           \/ \E e \in Ends : EndLeaves(s, e)
  PROVE  FwdInv'
  <1>1. UNCHANGED <<piece, wire, sent, delivered>>
    BY DEF ClientConnects, Accept, OpenSocket, Connect, Select, EndLeaves
  <1>2. TypeOK' /\ (\A t \in Sessions \ {s} : Same(t)) /\ At(s)'
    <2>1. CASE ClientConnects(s)
      <3>1. TypeOK' BY <1>1, <2>1 DEF ClientConnects, Goto, FwdInv, TypeOK
      <3>2. \A t \in Sessions \ {s} : Same(t)
        BY <1>1, <2>1 DEF ClientConnects, Goto, FwdInv, TypeOK, Same
      <3>3. At(s)'
        <4>1. pc[s] = "free" /\ pc'[s] = "backlog" /\ held' = held
          BY <2>1 DEF ClientConnects, Goto, FwdInv, TypeOK
        <4> QED BY <1>1, <4>1 DEF FwdInv, At, Open, Carried, Sending, Paired
      <3> QED BY <3>1, <3>2, <3>3
    <2>2. CASE Accept(s)
      <3>1. TypeOK' BY <1>1, <2>2, EndsAre DEF Accept, Goto, FwdInv, TypeOK
      <3>2. \A t \in Sessions \ {s} : Same(t)
        BY <1>1, <2>2 DEF Accept, Goto, FwdInv, TypeOK, Same
      <3>3. At(s)'
        <4>1. pc[s] = "backlog" /\ pc'[s] = "task" /\ held' = held \cup {<<s, "client">>}
          BY <2>2 DEF Accept, Goto, FwdInv, TypeOK
        <4>2. \A e \in Ends : <<s, e>> \in held' <=> e = "client"
          BY <4>1 DEF FwdInv, At, Open, Sending, Paired
        <4> QED BY <1>1, <4>1, <4>2 DEF FwdInv, At, Open, Carried, Sending, Paired
      <3> QED BY <3>1, <3>2, <3>3
    <2>3. CASE OpenSocket(s)
      <3>1. TypeOK' BY <1>1, <2>3, EndsAre DEF OpenSocket, Goto, FwdInv, TypeOK, Paired
      <3>2. \A t \in Sessions \ {s} : Same(t)
        BY <1>1, <2>3 DEF OpenSocket, Goto, FwdInv, TypeOK, Same
      <3>3. At(s)'
        <4>1. pc[s] = "task" /\ pc'[s] = "connect" /\ held' = held \cup {<<s, "server">>}
          BY <2>3 DEF OpenSocket, Goto, FwdInv, TypeOK
        <4>2. \A e \in Ends : <<s, e>> \in held'
          BY <4>1, EndsAre DEF FwdInv, At, Open
        <4> QED BY <1>1, <4>1, <4>2 DEF FwdInv, At, Open, Carried, Paired
      <3> QED BY <3>1, <3>2, <3>3
    <2>6. CASE Connect(s)
      <3>1. TypeOK' BY <1>1, <2>6 DEF Connect, Goto, FwdInv, TypeOK, Paired, Sending
      <3>2. \A t \in Sessions \ {s} : Same(t)
        BY <1>1, <2>6 DEF Connect, Goto, FwdInv, TypeOK, Same
      <3>3. At(s)'
        <4>1. pc[s] = "connect" /\ pc'[s] = "select" /\ held' = held
          BY <2>6 DEF Connect, Goto, FwdInv, TypeOK
        <4> QED BY <1>1, <4>1 DEF FwdInv, At, Open, Carried, Paired, Sending
      <3> QED BY <3>1, <3>2, <3>3
    <2>4. CASE Select(s)
      <3>1. TypeOK' BY <1>1, <2>4 DEF Select, Goto, FwdInv, TypeOK, Sending, Paired
      <3>2. \A t \in Sessions \ {s} : Same(t)
        BY <1>1, <2>4 DEF Select, Goto, FwdInv, TypeOK, Same
      <3>3. At(s)'
        <4>1. pc[s] = "select" /\ pc'[s] = "serve" /\ held' = held
          BY <2>4 DEF Select, Goto, FwdInv, TypeOK
        <4> QED BY <1>1, <4>1 DEF FwdInv, At, Open, Carried, Sending, Paired
      <3> QED BY <3>1, <3>2, <3>3
    <2>5. ASSUME NEW e \in Ends, EndLeaves(s, e)
          PROVE  TypeOK' /\ (\A t \in Sessions \ {s} : Same(t)) /\ At(s)'
      <3>1. PICK how \in {"closed", "reset"} : link' = [link EXCEPT ![s][e] = how]
        BY <2>5 DEF EndLeaves
      <3>2. UNCHANGED <<pc, held, ready, piece, wire, sent, delivered>> BY <2>5 DEF EndLeaves
      <3>3. link' \in [Sessions -> [Ends -> {"up", "closed", "reset"}]]
        BY <3>1 DEF FwdInv, TypeOK
      <3>4. TypeOK' BY <3>2, <3>3 DEF FwdInv, TypeOK
      <3>5. \A t \in Sessions : Same(t) BY <3>2 DEF Same
      <3>6. At(s)' BY <3>5, Elsewhere DEF FwdInv
      <3> QED BY <3>4, <3>5, <3>6
    <2> QED BY <2>1, <2>2, <2>3, <2>4, <2>5, <2>6
  <1> QED BY <1>2, OneSession

(* An end sends: the bytes wait at the socket.                             *)
LEMMA SendsKeeps ==
  ASSUME FwdInv, NEW s \in Sessions, NEW e \in Ends, NEW m \in Messages, EndSends(s, e, m)
  PROVE  FwdInv'
  <1>1. sent' = [sent EXCEPT ![s][e] = @ \o m] /\ wire' = [wire EXCEPT ![s][e] = @ \o m]
        /\ UNCHANGED <<pc, held, link, ready, piece, delivered>>
    BY DEF EndSends
  <1>2. /\ sent \in [Sessions -> [Ends -> Seq(Byte)]] /\ wire \in [Sessions -> [Ends -> Seq(Byte)]]
        /\ delivered \in [Sessions -> [Ends -> Seq(Byte)]] /\ piece \in [Sessions -> Seq(Byte)]
    BY DEF FwdInv, TypeOK
  <1>3. m \in Seq(Byte) BY MessageAssumption DEF MessageAssumption
  <1>4. sent[s][e] \o m \in Seq(Byte) /\ wire[s][e] \o m \in Seq(Byte) BY <1>2, <1>3
  <1>5. sent' \in [Sessions -> [Ends -> Seq(Byte)]] /\ wire' \in [Sessions -> [Ends -> Seq(Byte)]]
    BY <1>1, <1>2, <1>4
  <1>6. TypeOK' BY <1>1, <1>5 DEF FwdInv, TypeOK
  <1>7. \A t \in Sessions \ {s} : Same(t) BY <1>1, <1>2 DEF Same
  <1>8. At(s)'
    <2>1. \A d \in Ends : (Open(s, d)' <=> Open(s, d)) /\ Carried(s, d)' = Carried(s, d)
      BY <1>1 DEF Open, Carried, Served
    <2>2. sent'[s][e] = sent[s][e] \o m /\ wire'[s][e] = wire[s][e] \o m BY <1>1, <1>2
    <2>3. \A d \in Ends \ {e} : sent'[s][d] = sent[s][d] /\ wire'[s][d] = wire[s][d]
      BY <1>1, <1>2
    <2>4. Carried(s, e) \in Seq(Byte) BY <1>2, Empty DEF Carried
    <2>5. sent[s][e] = delivered[s][e] \o Carried(s, e) \o wire[s][e] BY DEF FwdInv, At
    <2>6. sent'[s][e] = delivered[s][e] \o Carried(s, e) \o wire'[s][e]
      <3>1. delivered[s][e] \o Carried(s, e) \in Seq(Byte) /\ wire[s][e] \in Seq(Byte)
        BY <1>2, <2>4
      <3>2. (delivered[s][e] \o Carried(s, e) \o wire[s][e]) \o m
              = delivered[s][e] \o Carried(s, e) \o (wire[s][e] \o m)
        BY <1>3, <3>1, Assoc
      <3> QED BY <2>2, <2>5, <3>2
    <2> QED BY <1>1, <2>1, <2>3, <2>6 DEF FwdInv, At
  <1> QED BY <1>6, <1>7, <1>8, OneSession

(* recv(): the first bytes of the wire become the piece.                   *)
LEMMA ReceiveKeeps == ASSUME FwdInv, NEW s \in Sessions, Receive(s) PROVE FwdInv'
  <1>1. PICK e \in Ends : e = Served(s) BY EndsAre
  <1>2. PICK n \in 1..PieceLen :
          /\ n <= Len(wire[s][e])
          /\ piece' = [piece EXCEPT ![s] = SubSeq(wire[s][e], 1, n)]
          /\ wire' = [wire EXCEPT ![s][e] = SubSeq(@, n + 1, Len(@))]
    BY <1>1 DEF Receive
  <1>3. pc[s] = "serve" /\ pc' = [pc EXCEPT ![s] = "send"]
        /\ UNCHANGED <<held, link, ready, sent, delivered>>
    BY DEF Receive, Goto
  <1>4. /\ sent \in [Sessions -> [Ends -> Seq(Byte)]] /\ wire \in [Sessions -> [Ends -> Seq(Byte)]]
        /\ delivered \in [Sessions -> [Ends -> Seq(Byte)]] /\ piece \in [Sessions -> Seq(Byte)]
        /\ pc \in [Sessions -> {"free", "backlog", "task", "orphan"} \cup Paired]
    BY DEF FwdInv, TypeOK
  <1>5. wire[s][e] \in Seq(Byte) /\ n \in 1..Len(wire[s][e])
    BY <1>1, <1>2, <1>4, PieceAssumption DEF PieceAssumption
  <1> DEFINE taken == SubSeq(wire[s][e], 1, n)
             left  == SubSeq(wire[s][e], n + 1, Len(wire[s][e]))
  <1>6. taken \in Seq(Byte) /\ left \in Seq(Byte) /\ wire[s][e] = taken \o left /\ taken # <<>>
    BY <1>5, Split
  <1>7. piece' = [piece EXCEPT ![s] = taken] /\ wire' = [wire EXCEPT ![s][e] = left]
    BY <1>1, <1>2, <1>4
  <1> HIDE DEF taken, left
  <1>8. TypeOK'
    <2>1. pc' \in [Sessions -> {"free", "backlog", "task", "orphan"} \cup Paired]
      BY <1>3, <1>4 DEF Sending, Paired
    <2>2. piece' \in [Sessions -> Seq(Byte)] /\ wire' \in [Sessions -> [Ends -> Seq(Byte)]]
      BY <1>1, <1>4, <1>6, <1>7
    <2> QED BY <1>3, <2>1, <2>2 DEF FwdInv, TypeOK
  <1>9. \A t \in Sessions \ {s} : Same(t) BY <1>3, <1>4, <1>7 DEF Same
  <1>10. At(s)'
    <2>1. pc'[s] = "send" /\ piece'[s] = taken /\ wire'[s][e] = left
      BY <1>1, <1>3, <1>4, <1>7
    <2>2. \A d \in Ends \ {e} : wire'[s][d] = wire[s][d] BY <1>1, <1>4, <1>7
    <2>3. Served(s)' = e BY <1>1, <1>3 DEF Served
    <2>4. Carried(s, e)' = taken /\ \A d \in Ends \ {e} : Carried(s, d)' = <<>>
      BY <2>1, <2>3 DEF Carried
    <2>5. \A d \in Ends : Carried(s, d) = <<>> BY <1>3 DEF Carried
    <2>6. sent[s][e] = delivered[s][e] \o wire[s][e]
      <3>1. sent[s][e] = delivered[s][e] \o <<>> \o wire[s][e] BY <2>5 DEF FwdInv, At
      <3>2. delivered[s][e] \o <<>> = delivered[s][e] BY <1>4, Empty
      <3> QED BY <3>1, <3>2
    <2>7. sent'[s][e] = delivered'[s][e] \o Carried(s, e)' \o wire'[s][e]
      <3>1. delivered[s][e] \in Seq(Byte) BY <1>4
      <3>2. delivered[s][e] \o (taken \o left) = (delivered[s][e] \o taken) \o left
        BY <1>6, <3>1, Assoc
      <3> QED BY <1>3, <1>6, <2>1, <2>4, <2>6, <3>2
    <2>8. \A d \in Ends : Open(s, d)' <=> Open(s, d) BY <1>3, <2>1 DEF Open, Sending, Paired
    <2>9. ASSUME NEW d \in Ends \ {e}
          PROVE  sent'[s][d] = delivered'[s][d] \o Carried(s, d)' \o wire'[s][d]
      <3>1. sent[s][d] = delivered[s][d] \o Carried(s, d) \o wire[s][d] BY DEF FwdInv, At
      <3> QED BY <1>3, <2>2, <2>4, <2>5, <3>1
    <2>10. \A d \in Ends : <<s, d>> \in held' <=> Open(s, d)' BY <1>3, <2>8 DEF FwdInv, At
    <2> QED BY <1>6, <2>1, <2>7, <2>9, <2>10 DEF At
  <1> QED BY <1>8, <1>9, <1>10, OneSession

(* send(): the piece arrives at the other end.                             *)
LEMMA SendOnKeeps == ASSUME FwdInv, NEW s \in Sessions, SendOn(s) PROVE FwdInv'
  <1>1. PICK e \in Ends : e = Served(s) BY EndsAre
  <1> DEFINE d == delivered[s][e] \o piece[s]
             where == IF ready[s] \ {e} = {} THEN "select" ELSE "serve"
  <1>2. /\ pc[s] = "send" /\ pc' = [pc EXCEPT ![s] = where]
        /\ piece' = [piece EXCEPT ![s] = <<>>]
        /\ ready' = [ready EXCEPT ![s] = @ \ {e}]
        /\ UNCHANGED <<held, link, wire, sent>>
    BY <1>1 DEF SendOn, Goto
  <1>3. /\ sent \in [Sessions -> [Ends -> Seq(Byte)]] /\ wire \in [Sessions -> [Ends -> Seq(Byte)]]
        /\ delivered \in [Sessions -> [Ends -> Seq(Byte)]] /\ piece \in [Sessions -> Seq(Byte)]
        /\ pc \in [Sessions -> {"free", "backlog", "task", "orphan"} \cup Paired]
        /\ ready \in [Sessions -> SUBSET Ends]
    BY DEF FwdInv, TypeOK
  <1>4. delivered' = [delivered EXCEPT ![s][e] = d] BY <1>1, <1>3 DEF SendOn
  <1>5. where \in {"select", "serve"} OBVIOUS
  <1>6. d \in Seq(Byte) /\ <<>> \in Seq(Byte) BY <1>1, <1>3
  <1>7. Carried(s, e) = piece[s] /\ \A c \in Ends \ {e} : Carried(s, c) = <<>>
    BY <1>1, <1>2 DEF Carried
  <1>8. sent[s][e] = d \o wire[s][e] BY <1>1, <1>7 DEF FwdInv, At
  <1> HIDE DEF d, where
  <1>9. TypeOK'
    <2>1. pc' \in [Sessions -> {"free", "backlog", "task", "orphan"} \cup Paired]
      BY <1>2, <1>3, <1>5 DEF Sending, Paired
    <2>2. piece' \in [Sessions -> Seq(Byte)] /\ delivered' \in [Sessions -> [Ends -> Seq(Byte)]]
      BY <1>1, <1>2, <1>3, <1>4, <1>6
    <2>3. ready' \in [Sessions -> SUBSET Ends] BY <1>2, <1>3
    <2> QED BY <1>2, <2>1, <2>2, <2>3 DEF FwdInv, TypeOK
  <1>10. \A t \in Sessions \ {s} : Same(t) BY <1>2, <1>3, <1>4 DEF Same
  <1>11. At(s)'
    <2>1. pc'[s] \in {"select", "serve"} /\ delivered'[s][e] = d
      BY <1>1, <1>2, <1>3, <1>4, <1>5
    <2>2. \A c \in Ends \ {e} : delivered'[s][c] = delivered[s][c] BY <1>1, <1>3, <1>4
    <2>3. \A c \in Ends : Carried(s, c)' = <<>> BY <2>1 DEF Carried
    <2>4. sent'[s][e] = delivered'[s][e] \o Carried(s, e)' \o wire'[s][e]
      <3>1. d \o <<>> = d BY <1>6, Empty
      <3> QED BY <1>2, <1>8, <2>1, <2>3, <3>1
    <2>5. \A c \in Ends : Open(s, c)' <=> Open(s, c) BY <1>2, <2>1 DEF Open, Sending, Paired
    <2>6. ASSUME NEW c \in Ends \ {e}
          PROVE  sent'[s][c] = delivered'[s][c] \o Carried(s, c)' \o wire'[s][c]
      <3>1. sent[s][c] = delivered[s][c] \o Carried(s, c) \o wire[s][c] BY DEF FwdInv, At
      <3> QED BY <1>2, <1>7, <2>2, <2>3, <3>1
    <2>7. \A c \in Ends : <<s, c>> \in held' <=> Open(s, c)' BY <1>2, <2>5 DEF FwdInv, At
    <2> QED BY <2>1, <2>4, <2>6, <2>7 DEF At
  <1> QED BY <1>9, <1>10, <1>11, OneSession

LEMMA FwdStep == FwdInv /\ [Next]_vars => FwdInv'
  <1> SUFFICES ASSUME FwdInv, [Next]_vars PROVE FwdInv' OBVIOUS
  <1>1. CASE UNCHANGED vars
    <2>1. TypeOK' BY <1>1 DEF vars, FwdInv, TypeOK
    <2>2. \A s \in Sessions : Same(s) BY <1>1 DEF vars, Same
    <2> QED BY <2>1, <2>2, Elsewhere DEF FwdInv
  <1>2. ASSUME NEW s \in Sessions, Accepting(s) \/ Connecting(s) \/ Serving(s) PROVE FwdInv'
    BY <1>2, LeaveKeeps, ControlKeeps, ReceiveKeeps, SendOnKeeps
    DEF Accepting, Connecting, Serving, Returns, AcceptFails, AcceptAndClose, AcceptAndForget,
        NoServerSocket, ConnectFails, Idle, ReceiveFails, SendFails
  <1>3. ASSUME NEW s \in Sessions, Peers(s) PROVE FwdInv'
    BY <1>3, ControlKeeps, SendsKeeps DEF Peers
  <1> QED BY <1>1, <1>2, <1>3 DEF Next

LEMMA FwdAlways == SafetySpec => []FwdInv
  BY FwdInit, FwdStep, PTL DEF SafetySpec

-----------------------------------------------------------------------------
(* The types hold for any number of sessions.                              *)
THEOREM ForwarderTypeCorrect == SafetySpec => []TypeOK
  BY FwdAlways, PTL DEF FwdInv

(* server_task and conn_task: every way out closes what was opened, except *)
(* for the task that could not be created.                                 *)
THEOREM SocketsStayAccounted == SafetySpec => []SocketsAccounted
  <1>1. ASSUME FwdInv PROVE SocketsAccounted
    <2>1. \A s \in Sessions : HeldIn(s) = {x \in {s} \X Ends : Open(s, x[2])}
      BY EndsAre DEF HeldIn, Open, Sending, Paired
    <2>2. held \subseteq Sessions \X Ends BY <1>1 DEF FwdInv, TypeOK
    <2>3. ASSUME NEW s \in Sessions, NEW e \in Ends
          PROVE  <<s, e>> \in held <=> <<s, e>> \in UNION {HeldIn(t) : t \in Sessions}
      <3>0. <<s, e>> \in HeldIn(s) <=> Open(s, e) BY <2>1
      <3>1. <<s, e>> \in held <=> <<s, e>> \in HeldIn(s) BY <1>1, <3>0 DEF FwdInv, At
      <3>2. \A t \in Sessions : <<s, e>> \in HeldIn(t) => t = s BY <2>1
      <3> QED BY <3>1, <3>2
    <2>4. UNION {HeldIn(t) : t \in Sessions} \subseteq Sessions \X Ends BY <2>1
    <2> QED BY <2>2, <2>3, <2>4 DEF SocketsAccounted
  <1> QED BY <1>1, FwdAlways, PTL

(* What an end sent is what was delivered, what the task holds and what    *)
(* waits at the socket, in this order.                                     *)
THEOREM NothingIsLost == SafetySpec => []NothingLost
  <1>1. FwdInv => NothingLost BY DEF FwdInv, At, NothingLost, Carried
  <1> QED BY <1>1, FwdAlways, PTL

-----------------------------------------------------------------------------
(* The step simulation of Pipe: a piece that is sent on is a Deliver.      *)
LEMMA SendOnDelivers ==
  ASSUME FwdInv, NEW s \in Sessions, SendOn(s)
  PROVE  \E e \in Ends : P!Deliver(s, e)
  <1>1. PICK e \in Ends : e = Served(s) BY EndsAre
  <1>2. pc[s] = "send" /\ delivered' = [delivered EXCEPT ![s][e] = @ \o piece[s]] /\ sent' = sent
    BY <1>1 DEF SendOn
  <1>3. /\ delivered \in [Sessions -> [Ends -> Seq(Byte)]] /\ piece[s] \in Seq(Byte)
        /\ wire[s][e] \in Seq(Byte) /\ delivered[s][e] \in Seq(Byte)
    BY DEF FwdInv, TypeOK
  <1>4. piece[s] # <<>> /\ sent[s][e] = (delivered[s][e] \o piece[s]) \o wire[s][e]
    BY <1>1, <1>2 DEF FwdInv, At, Carried
  <1> DEFINE d == delivered[s][e] \o piece[s]
             n == Len(d)
  <1>5. d \in Seq(Byte) BY <1>3
  <1>6. n = Len(delivered[s][e]) + Len(piece[s]) /\ Len(piece[s]) > 0
    BY <1>3, <1>4, Prefix
  <1>7. Len(sent[s][e]) = n + Len(wire[s][e]) /\ SubSeq(sent[s][e], 1, n) = d
    BY <1>3, <1>4, <1>5, Prefix
  <1>8. n \in Len(delivered[s][e]) + 1 .. Len(sent[s][e])
    <2>1. /\ Len(delivered[s][e]) \in Nat /\ Len(piece[s]) \in Nat /\ Len(wire[s][e]) \in Nat
      BY <1>3
    <2>2. \A a, b, c \in Nat : b > 0 => a + b \in a + 1 .. a + b + c OBVIOUS
    <2>3. Len(sent[s][e]) = Len(delivered[s][e]) + Len(piece[s]) + Len(wire[s][e])
      BY <1>6, <1>7
    <2> HIDE DEF n
    <2> QED BY <1>6, <2>1, <2>2, <2>3
  <1>9. delivered' = [delivered EXCEPT ![s][e] = SubSeq(sent[s][e], 1, n)]
    BY <1>2, <1>3, <1>7
  <1> QED BY <1>2, <1>8, <1>9 DEF P!Deliver

LEMMA EndSendsSends ==
  ASSUME FwdInv, NEW s \in Sessions, NEW e \in Ends, NEW m \in Messages, EndSends(s, e, m)
  PROVE  P!Send(s, e)
  <1>1. sent' = [sent EXCEPT ![s][e] = @ \o m] /\ delivered' = delivered BY DEF EndSends
  <1>2. m \in Seq(Byte) /\ m # <<>> BY MessageAssumption DEF MessageAssumption
  <1>3. sent \in [Sessions -> [Ends -> Seq(Byte)]] BY DEF FwdInv, TypeOK
  <1>4. sent[s][e] \in Seq(Byte) /\ sent'[s][e] = sent[s][e] \o m BY <1>1, <1>3
  <1>5. sent'[s][e] \in Seq(Byte) BY <1>2, <1>4, Assoc
  <1>6. Len(sent'[s][e]) > Len(sent[s][e]) /\ SubSeq(sent'[s][e], 1, Len(sent[s][e])) = sent[s][e]
    <2>1. /\ SubSeq(sent[s][e] \o m, 1, Len(sent[s][e])) = sent[s][e]
          /\ Len(sent[s][e] \o m) = Len(sent[s][e]) + Len(m) /\ Len(m) > 0
      BY <1>2, <1>4, Prefix
    <2>2. Len(sent[s][e]) \in Nat /\ Len(m) \in Nat BY <1>2, <1>4
    <2> QED BY <1>4, <2>1, <2>2
  <1>7. sent' = [sent EXCEPT ![s][e] = sent'[s][e]] BY <1>1, <1>3, <1>4
  <1> QED BY <1>1, <1>5, <1>6, <1>7 DEF P!Send

LEMMA PipeStep == FwdInv /\ [Next]_vars => [P!Next]_P!vars
  <1> SUFFICES ASSUME FwdInv, [Next]_vars PROVE P!Next \/ UNCHANGED <<sent, delivered>>
    BY DEF P!vars
  <1>1. CASE UNCHANGED vars BY <1>1 DEF vars
  <1>2. ASSUME NEW s \in Sessions, NEW where, NEW kept, Leave(s, where, kept)
        PROVE  P!Next
    <2>1. P!Cut(s) BY <1>2 DEF Leave, P!Cut, Silence, P!Silence
    <2> QED BY <2>1 DEF P!Next
  <1>3. ASSUME NEW s \in Sessions, SendOn(s) PROVE P!Next
    BY <1>3, SendOnDelivers DEF P!Next
  <1>4. ASSUME NEW s \in Sessions, NEW e \in Ends, NEW m \in Messages, EndSends(s, e, m)
        PROVE  P!Next
    BY <1>4, EndSendsSends DEF P!Next
  <1>5. ASSUME NEW s \in Sessions,
               Accept(s) \/ OpenSocket(s) \/ Connect(s) \/ Select(s) \/ Receive(s)
                         \/ ClientConnects(s) \/ \E e \in Ends : EndLeaves(s, e)
        PROVE  UNCHANGED <<sent, delivered>>
    BY <1>5 DEF Accept, OpenSocket, Connect, Select, Receive, ClientConnects, EndLeaves
  <1>6. ASSUME NEW s \in Sessions, Accepting(s) \/ Connecting(s) \/ Serving(s)
        PROVE  P!Next \/ UNCHANGED <<sent, delivered>>
    BY <1>6, <1>2, <1>3, <1>5
    DEF Accepting, Connecting, Serving, Returns, AcceptFails, AcceptAndClose, AcceptAndForget,
        NoServerSocket, ConnectFails, Idle, ReceiveFails, SendFails, CloseBoth
  <1>7. ASSUME NEW s \in Sessions, Peers(s) PROVE P!Next \/ UNCHANGED <<sent, delivered>>
    BY <1>7, <1>4, <1>5 DEF Peers
  <1> QED BY <1>1, <1>6, <1>7 DEF Next

(* conn_task carries the bytes of each end to the other whole, in order    *)
(* and once, until the session is cut.                                     *)
THEOREM ForwardsTransparently == SafetySpec => Transparent
  <1>1. Init => P!Init BY DEF Init, P!Init, Silence, P!Silence
  <1> QED BY <1>1, FwdAlways, PipeStep, PTL DEF SafetySpec, Transparent, P!Spec

-----------------------------------------------------------------------------
(* The relay as a forwarder.                                               *)

LEMMA FrameIsNumbered ==
  ASSUME FwdInv, NEW s \in Sessions, NEW e \in Ends
  PROVE  NextFrame(s, e) \in Nat \ {0}
  <1> DEFINE starts == {i \in 1..Len(sent[s][e]) : sent[s][e][i].pos = 1}
  <1>1. Len(sent[s][e]) \in Nat BY DEF FwdInv, TypeOK
  <1>2. IsFiniteSet(1..Len(sent[s][e])) BY <1>1, FS_Interval
  <1>3. IsFiniteSet(starts) BY <1>2, FS_Subset
  <1>4. Cardinality(starts) \in Nat BY <1>3, FS_CardinalityType
  <1> HIDE DEF starts
  <1>5. 1 + Cardinality(starts) \in Nat \ {0} BY <1>4
  <1> QED BY <1>5 DEF NextFrame, starts

LEMMA FrameIsMessage ==
  ASSUME FwdInv, NEW s \in Sessions, NEW e \in Ends, FrameSent(s, e)
  PROVE  \E m \in Messages : EndSends(s, e, m)
  <1>1. PICK n \in Sizes : EndSends(s, e, Bytes(NextFrame(s, e), n)) BY DEF FrameSent
  <1>2. NextFrame(s, e) \in 1..MaxFrames
    BY FrameIsNumbered, RelayAssumption DEF FrameSent, RelayAssumption
  <1>3. Bytes(NextFrame(s, e), n) \in Messages
    BY <1>2, RelayAssumption DEF RelayAssumption, FrameMessages
  <1> QED BY <1>1, <1>3

LEMMA RelayStep == FwdInv /\ [RelayNext]_rvars => [Next]_vars
  <1> SUFFICES ASSUME FwdInv, RelayNext PROVE Next
    BY DEF rvars
  <1>1. PICK s \in Sessions :
          relay_server_task(s) \/ relay_connects(s) \/ relay_loop(s) \/ RelayPeers(s)
    BY DEF RelayNext
  <1>2. CASE relay_server_task(s) BY <1>2 DEF relay_server_task, Next
  <1>3. CASE relay_connects(s) BY <1>3 DEF relay_connects, Next
  <1>4. CASE relay_loop(s)
    <2>1. Serving(s)
      BY <1>4 DEF relay_loop, relay_returns, RelaySelect, RelayReceive, RelaySendOn, RelayCloses,
                  Serving, Returns
    <2> QED BY <2>1 DEF Next
  <1>5. CASE RelayPeers(s)
    <2>1. Peers(s) BY <1>5, FrameIsMessage DEF RelayPeers, Peers
    <2> QED BY <2>1 DEF Next
  <1> QED BY <1>1, <1>2, <1>3, <1>4, <1>5

(* relay_conn_task does what the local server's task does, for any frames, *)
(* any buffer and any payload.                                             *)
THEOREM RelayForwards == RelaySpec => SafetySpec /\ []FwdInv
  <1>1. RelayInit => Init BY DEF RelayInit
  <1> QED BY <1>1, FwdInit, FwdStep, RelayStep, PTL DEF RelaySpec, SafetySpec

(* relay_server_task, relay_conn_task: no socket is left behind, but those *)
(* whose task could not be created.                                        *)
THEOREM RelaySocketsAccounted == RelaySpec => []SocketsAccounted
  BY RelayForwards, SocketsStayAccounted, PTL

(* The dongle and the cloud see each other's bytes as without the relay.   *)
THEOREM RelayIsTransparent == RelaySpec => Transparent
  BY RelayForwards, ForwardsTransparently, PTL

-----------------------------------------------------------------------------
(* The cutter, for any payload that looks like a header.                   *)
(* A set of numbers has a least one.                                       *)
LEMMA Least ==
  ASSUME NEW T, T \subseteq Nat, T # {}
  PROVE  \E n \in T : \A m \in T : n <= m
  <1>1. PICK x \in T : \A y \in T : ~ (<<y, x>> \in OpToRel(<, Nat))
    BY NatLessThanWellFounded, WFMin
  <1>2. \A y \in T : ~(y < x) BY <1>1 DEF OpToRel
  <1> QED BY <1>2

Buffers == Seq(FrameByte)

LEMMA HeadLenType == HeadLen \in Nat /\ HeadLen >= 3 /\ BufLen \in Nat
  BY CutterAssumption DEF CutterAssumption

LEMMA DropShorter ==
  ASSUME NEW b \in Buffers, NEW n \in 1..Len(b)
  PROVE  /\ Drop(b, n) \in Buffers
         /\ Len(Drop(b, n)) = Len(b) - n
         /\ Len(Drop(b, n)) < Len(b)
  BY DEF Drop, Buffers

LEMMA ResyncedShorter ==
  ASSUME NEW b \in Buffers, Len(b) >= HeadLen
  PROVE  Resynced(b) \in Buffers /\ Len(Resynced(b)) < Len(b)
  <1> DEFINE stop == {i \in 2..Len(b) - 1 : Mark(b, i)} \cup {Len(b)}
             first == CHOOSE i \in stop : \A j \in stop : i <= j
  <1>1. Len(b) \in Nat /\ Len(b) >= 3 BY HeadLenType DEF Buffers
  <1>2. stop \subseteq 2..Len(b) /\ stop \subseteq Nat /\ stop # {} BY <1>1
  <1> HIDE DEF stop
  <1>3. \E i \in stop : \A j \in stop : i <= j BY <1>2, Least
  <1>4. first \in stop BY <1>3
  <1> HIDE DEF first
  <1>5. first - 1 \in 1..Len(b) BY <1>1, <1>2, <1>4
  <1>6. Resynced(b) = Drop(b, first - 1) BY DEF Resynced, first, stop
  <1> QED BY <1>5, <1>6, DropShorter

LEMMA TotalType ==
  ASSUME NEW b \in Buffers, Len(b) >= HeadLen
  PROVE  Total(b) \in Nat /\ Total(b) >= HeadLen
  <1>1. HeadLen \in 1..Len(b) BY HeadLenType DEF Buffers
  <1>2. b[HeadLen] \in FrameByte BY <1>1 DEF Buffers
  <1> QED BY <1>2, HeadLenType DEF Total, FrameByte

(* One turn of the loop, the rest of which is f.                           *)
Turn(f, b) ==
  IF Len(b) < HeadLen THEN [frames |-> <<>>, left |-> b, lost |-> FALSE]
  ELSE IF ~Mark(b, 1) THEN f[Resynced(b)]
  ELSE IF Total(b) > BufLen THEN [frames |-> <<>>, left |-> <<>>, lost |-> TRUE]
  ELSE IF Len(b) < Total(b) THEN [frames |-> <<>>, left |-> b, lost |-> FALSE]
  ELSE LET rest == f[Drop(b, Total(b))]
       IN  [rest EXCEPT !.frames = <<SubSeq(b, 1, Total(b))>> \o @]

Loop == CHOOSE f : f = [b \in Buffers |-> Turn(f, b)]

LEMMA CutIsLoop == ASSUME NEW b PROVE Cut(b) = Loop[b]
  BY DEF Cut, Loop, Turn, Buffers

(* A turn goes on with a shorter buffer only.                              *)
LEMMA TurnShortens ==
  ASSUME NEW f, NEW g, NEW b \in Buffers,
         \A c \in Buffers : Len(c) < Len(b) => f[c] = g[c]
  PROVE  Turn(f, b) = Turn(g, b)
  <1>1. CASE Len(b) < HeadLen BY <1>1 DEF Turn
  <1>2. CASE ~(Len(b) < HeadLen) /\ ~Mark(b, 1)
    <2>1. Len(b) >= HeadLen BY <1>2, HeadLenType DEF Buffers
    <2>2. f[Resynced(b)] = g[Resynced(b)] BY <2>1, ResyncedShorter
    <2> QED BY <1>2, <2>2 DEF Turn
  <1>3. CASE ~(Len(b) < HeadLen) /\ Mark(b, 1) /\ (Total(b) > BufLen \/ Len(b) < Total(b))
    BY <1>3 DEF Turn
  <1>4. CASE ~(Len(b) < HeadLen) /\ Mark(b, 1) /\ ~(Total(b) > BufLen) /\ ~(Len(b) < Total(b))
    <2>1. Len(b) \in Nat /\ Len(b) >= HeadLen BY <1>4, HeadLenType DEF Buffers
    <2>2. Total(b) \in 1..Len(b) BY <1>4, <2>1, TotalType, HeadLenType
    <2>3. f[Drop(b, Total(b))] = g[Drop(b, Total(b))] BY <2>2, DropShorter
    <2> QED BY <1>4, <2>3 DEF Turn
  <1> QED BY <1>1, <1>2, <1>3, <1>4

UpTo(n) == {b \in Buffers : Len(b) <= n}

(* The loop over the buffers of at most n bytes.                           *)
IsLoopUpTo(g, n) == g = [b \in UpTo(n) |-> Turn(g, b)]

LEMMA LoopsAgree ==
  ASSUME NEW m \in Nat, NEW n \in Nat, NEW g, NEW h, IsLoopUpTo(g, m), IsLoopUpTo(h, n),
         NEW b \in Buffers, Len(b) <= m, Len(b) <= n
  PROVE  g[b] = h[b]
  <1> DEFINE T == {Len(c) : c \in {d \in UpTo(m) \cap UpTo(n) : g[d] # h[d]}}
  <1>1. T \subseteq Nat BY DEF UpTo, Buffers
  <1>2. SUFFICES ASSUME T # {} PROVE FALSE BY DEF UpTo
  <1>3. PICK k \in T : \A l \in T : k <= l BY <1>1, <1>2, Least
  <1>4. PICK c \in UpTo(m) \cap UpTo(n) : Len(c) = k /\ g[c] # h[c] BY <1>3
  <1>5. c \in Buffers /\ Len(c) \in Nat /\ Len(c) <= m /\ Len(c) <= n BY <1>4 DEF UpTo, Buffers
  <1>6. \A d \in Buffers : Len(d) < Len(c) => g[d] = h[d]
    <2> SUFFICES ASSUME NEW d \in Buffers, Len(d) < Len(c), g[d] # h[d] PROVE FALSE OBVIOUS
    <2>1. Len(d) \in Nat BY DEF Buffers
    <2>2. d \in UpTo(m) \cap UpTo(n) BY <1>5, <2>1 DEF UpTo
    <2>3. Len(d) \in T BY <2>2
    <2>4. k <= Len(d) BY <1>3, <2>3
    <2> QED BY <1>4, <1>5, <2>1, <2>4
  <1>7. Turn(g, c) = Turn(h, c) BY <1>5, <1>6, TurnShortens
  <1>8. g[c] = Turn(g, c) /\ h[c] = Turn(h, c) BY <1>4 DEF IsLoopUpTo
  <1> QED BY <1>4, <1>7, <1>8

LEMMA LoopsExist == \A n \in Nat : \E g : IsLoopUpTo(g, n)
  <1> DEFINE T == {n \in Nat : ~ \E g : IsLoopUpTo(g, n)}
  <1> SUFFICES ASSUME T # {} PROVE FALSE OBVIOUS
  <1>1. PICK n \in T : \A m \in T : n <= m BY Least
  <1>2. n \in Nat /\ ~ \E g : IsLoopUpTo(g, n) BY <1>1
  <1>3. \E h : \A c \in Buffers : Len(c) < n => h[c] = Turn(h, c)
    <2>1. CASE n = 0
      <3>1. \A c \in Buffers : ~(Len(c) < n) BY <2>1 DEF Buffers
      <3> QED BY <3>1
    <2>2. CASE n # 0
      <3>1. n - 1 \in Nat /\ n - 1 \notin T BY <1>1, <1>2, <2>2
      <3>2. PICK h : IsLoopUpTo(h, n - 1) BY <3>1
      <3>3. \A c \in Buffers : Len(c) < n => c \in UpTo(n - 1) BY <1>2 DEF UpTo, Buffers
      <3> QED BY <3>2, <3>3 DEF IsLoopUpTo
    <2> QED BY <2>1, <2>2
  <1>4. PICK h : \A c \in Buffers : Len(c) < n => h[c] = Turn(h, c) BY <1>3
  <1> DEFINE g == [b \in UpTo(n) |-> Turn(h, b)]
  <1>5. ASSUME NEW b \in UpTo(n) PROVE Turn(g, b) = Turn(h, b)
    <2>1. b \in Buffers /\ Len(b) \in Nat /\ Len(b) <= n BY DEF UpTo, Buffers
    <2>2. ASSUME NEW c \in Buffers, Len(c) < Len(b) PROVE g[c] = h[c]
      <3>1. Len(c) \in Nat BY DEF Buffers
      <3>2. Len(c) < n /\ c \in UpTo(n) BY <1>2, <2>1, <2>2, <3>1 DEF UpTo
      <3> QED BY <1>4, <3>2
    <2> HIDE DEF g
    <2> QED BY <2>1, <2>2, TurnShortens
  <1>6. IsLoopUpTo(g, n) BY <1>5 DEF IsLoopUpTo
  <1> HIDE DEF g
  <1> QED BY <1>2, <1>6

(* The loop ends on every buffer, whatever it holds: its definition        *)
(* defines it.                                                             *)
THEOREM LoopEnds == \A b \in Buffers : Loop[b] = Turn(Loop, b)
  <1> DEFINE G(b) == CHOOSE g : IsLoopUpTo(g, Len(b))
             f == [b \in Buffers |-> G(b)[b]]
  <1>1. \A b \in Buffers : IsLoopUpTo(G(b), Len(b))
    BY LoopsExist DEF Buffers
  <1>2. ASSUME NEW b \in Buffers PROVE f[b] = Turn(f, b)
    <2>1. Len(b) \in Nat /\ b \in UpTo(Len(b)) BY DEF UpTo, Buffers
    <2>2. G(b)[b] = Turn(G(b), b) BY <1>1, <2>1 DEF IsLoopUpTo
    <2>3. ASSUME NEW c \in Buffers, Len(c) < Len(b) PROVE f[c] = G(b)[c]
      <3>1. Len(c) \in Nat /\ Len(c) <= Len(c) /\ Len(c) <= Len(b) BY <2>1, <2>3 DEF Buffers
      <3>2. IsLoopUpTo(G(b), Len(b)) /\ IsLoopUpTo(G(c), Len(c)) BY <1>1
      <3> HIDE DEF G
      <3>3. G(c)[c] = G(b)[c] BY <2>1, <3>1, <3>2, LoopsAgree
      <3> QED BY <3>3
    <2> HIDE DEF G
    <2>4. f[b] = G(b)[b] OBVIOUS
    <2> HIDE DEF f
    <2>5. Turn(f, b) = Turn(G(b), b) BY <2>3, TurnShortens
    <2> QED BY <2>2, <2>4, <2>5
  <1>3. f = [b \in Buffers |-> f[b]] OBVIOUS
  <1> HIDE DEF f
  <1>4. f = [b \in Buffers |-> Turn(f, b)] BY <1>2, <1>3
  <1>5. Loop = [b \in Buffers |-> Turn(Loop, b)] BY <1>4 DEF Loop
  <1> QED BY <1>5

(* The cases of the loop.                                                  *)
LEMMA CutCases ==
  ASSUME NEW b \in Buffers
  PROVE  \/ /\ Len(b) < HeadLen
            /\ Cut(b) = [frames |-> <<>>, left |-> b, lost |-> FALSE]
         \/ /\ Len(b) >= HeadLen /\ ~Mark(b, 1)
            /\ Cut(b) = Cut(Resynced(b))
         \/ /\ Len(b) >= HeadLen /\ Mark(b, 1) /\ Total(b) > BufLen
            /\ Cut(b) = [frames |-> <<>>, left |-> <<>>, lost |-> TRUE]
         \/ /\ Len(b) >= HeadLen /\ Mark(b, 1) /\ Total(b) <= BufLen /\ Len(b) < Total(b)
            /\ Cut(b) = [frames |-> <<>>, left |-> b, lost |-> FALSE]
         \/ /\ Len(b) >= HeadLen /\ Mark(b, 1) /\ Total(b) <= BufLen /\ Total(b) \in 1..Len(b)
            /\ Cut(b) = [Cut(Drop(b, Total(b))) EXCEPT !.frames = <<SubSeq(b, 1, Total(b))>> \o @]
  <1>1. Cut(b) = Turn(Loop, b) BY CutIsLoop, LoopEnds
  <1>2. Len(b) \in Nat /\ HeadLen \in Nat /\ BufLen \in Nat /\ HeadLen >= 3 BY HeadLenType DEF Buffers
  <1>3. CASE Len(b) < HeadLen BY <1>1, <1>3 DEF Turn
  <1>4. CASE ~(Len(b) < HeadLen) /\ ~Mark(b, 1)
    <2>1. Cut(b) = Loop[Resynced(b)] BY <1>1, <1>4 DEF Turn
    <2>2. Cut(b) = Cut(Resynced(b)) BY <2>1, CutIsLoop
    <2>3. Len(b) >= HeadLen BY <1>2, <1>4
    <2> QED BY <1>4, <2>2, <2>3
  <1>5. CASE ~(Len(b) < HeadLen) /\ Mark(b, 1)
    <2>1. Len(b) >= HeadLen BY <1>2, <1>5
    <2>2. Total(b) \in Nat /\ Total(b) >= HeadLen BY <2>1, TotalType
    <2>3. CASE Total(b) > BufLen BY <1>1, <1>5, <2>1, <2>3 DEF Turn
    <2>4. CASE ~(Total(b) > BufLen) /\ Len(b) < Total(b)
      <3>1. Total(b) <= BufLen BY <1>2, <2>2, <2>4
      <3>2. Cut(b) = [frames |-> <<>>, left |-> b, lost |-> FALSE] BY <1>1, <1>5, <2>4 DEF Turn
      <3> QED BY <1>5, <2>1, <2>4, <3>1, <3>2
    <2>5. CASE ~(Total(b) > BufLen) /\ ~(Len(b) < Total(b))
      <3>1. Total(b) <= BufLen /\ Total(b) \in 1..Len(b) BY <1>2, <2>2, <2>5
      <3>2. Cut(b) = [Loop[Drop(b, Total(b))] EXCEPT !.frames = <<SubSeq(b, 1, Total(b))>> \o @]
        BY <1>1, <1>5, <2>5 DEF Turn
      <3>3. Loop[Drop(b, Total(b))] = Cut(Drop(b, Total(b))) BY CutIsLoop
      <3> QED BY <1>5, <2>1, <3>1, <3>2, <3>3
    <2> QED BY <2>3, <2>4, <2>5
  <1> QED BY <1>3, <1>4, <1>5

(* What is cut are frames; what is left is less than a frame that fits.    *)
CutTyped(b) ==
  /\ Cut(b) \in [frames : Seq(Buffers), left : Buffers, lost : BOOLEAN]
  /\ Len(Cut(b).left) < HeadLen \/ Len(Cut(b).left) < BufLen
  /\ Len(Cut(b).left) <= Len(b)

LEMMA CutType == \A b \in Buffers : CutTyped(b)
  <1> DEFINE T == {Len(c) : c \in {d \in Buffers : ~CutTyped(d)}}
  <1>1. T \subseteq Nat BY DEF Buffers
  <1>2. SUFFICES ASSUME T # {} PROVE FALSE OBVIOUS
  <1>3. PICK k \in T : \A l \in T : k <= l BY <1>1, <1>2, Least
  <1>4. PICK b \in Buffers : Len(b) = k /\ ~CutTyped(b) BY <1>3
  <1>5. ASSUME NEW c \in Buffers, Len(c) < Len(b) PROVE CutTyped(c)
    <2>1. Len(c) \in Nat /\ Len(b) \in Nat BY DEF Buffers
    <2>2. Len(c) \notin T BY <1>3, <1>4, <1>5, <2>1
    <2> QED BY <2>2
  <1> HIDE DEF T
  <1>6. <<>> \in Buffers /\ <<>> \in Seq(Buffers) /\ Len(<<>>) = 0 BY DEF Buffers
  <1>7. Len(b) \in Nat /\ HeadLen \in Nat /\ HeadLen >= 3 /\ BufLen \in Nat BY HeadLenType DEF Buffers
  <1>8. CASE Len(b) < HeadLen /\ Cut(b) = [frames |-> <<>>, left |-> b, lost |-> FALSE]
    BY <1>4, <1>6, <1>7, <1>8 DEF CutTyped
  <1>9. CASE Len(b) >= HeadLen /\ Cut(b) = Cut(Resynced(b))
    <2>1. Resynced(b) \in Buffers /\ Len(Resynced(b)) < Len(b) BY <1>9, ResyncedShorter
    <2>2. CutTyped(Resynced(b)) BY <1>5, <2>1
    <2>3. Len(Cut(b).left) \in Nat /\ Len(Resynced(b)) \in Nat BY <1>9, <2>1, <2>2 DEF CutTyped, Buffers
    <2> QED BY <1>4, <1>7, <1>9, <2>1, <2>2, <2>3 DEF CutTyped
  <1>10. CASE Cut(b) = [frames |-> <<>>, left |-> <<>>, lost |-> TRUE]
    BY <1>4, <1>6, <1>7, <1>10 DEF CutTyped
  <1>11. CASE /\ Total(b) <= BufLen /\ Len(b) < Total(b) /\ Len(b) >= HeadLen
              /\ Cut(b) = [frames |-> <<>>, left |-> b, lost |-> FALSE]
    <2>1. Total(b) \in Nat BY <1>11, TotalType
    <2>2. Len(b) < BufLen BY <1>7, <1>11, <2>1
    <2> QED BY <1>4, <1>6, <1>7, <1>11, <2>2 DEF CutTyped
  <1>12. CASE /\ Total(b) \in 1..Len(b)
              /\ Cut(b) = [Cut(Drop(b, Total(b))) EXCEPT !.frames = <<SubSeq(b, 1, Total(b))>> \o @]
    <2> DEFINE d == Drop(b, Total(b))
               whole == SubSeq(b, 1, Total(b))
    <2>1. d \in Buffers /\ Len(d) < Len(b) BY <1>12, DropShorter
    <2>2. CutTyped(d) BY <1>5, <2>1
    <2>3. whole \in Buffers BY <1>12 DEF Buffers
    <2> HIDE DEF d, whole
    <2>4. Cut(d) \in [frames : Seq(Buffers), left : Buffers, lost : BOOLEAN] BY <2>2 DEF CutTyped
    <2>5. <<whole>> \o Cut(d).frames \in Seq(Buffers) BY <2>3, <2>4
    <2>6. Cut(b) = [Cut(d) EXCEPT !.frames = <<whole>> \o @] BY <1>12 DEF d, whole
    <2>7. Cut(b) \in [frames : Seq(Buffers), left : Buffers, lost : BOOLEAN] /\ Cut(b).left = Cut(d).left
      BY <2>4, <2>5, <2>6
    <2>8. Len(Cut(d).left) \in Nat /\ Len(d) \in Nat BY <2>1, <2>4 DEF Buffers
    <2> QED BY <1>4, <1>7, <2>1, <2>2, <2>7, <2>8 DEF CutTyped
  <1> QED BY <1>4, <1>8, <1>9, <1>10, <1>11, <1>12, CutCases

-----------------------------------------------------------------------------
(* Streams of frames.                                                      *)
FrameOf(f, n, i) == [frame |-> f, pos |-> i, size |-> n]

(* A stream of whole frames numbered from 1: frame f ends with byte o[f].  *)
Framed(q, m, o) ==
  /\ q \in Buffers /\ m \in Nat /\ o \in [0..m -> Nat]
  /\ o[0] = 0 /\ o[m] = Len(q)
  /\ \A f \in 1..m : o[f] - o[f - 1] >= HeadLen
  /\ \A f, g \in 0..m : f < g => o[f] < o[g]
  /\ \A f \in 1..m : \A i \in 1..o[f] - o[f - 1] : q[o[f - 1] + i] = FrameOf(f, o[f] - o[f - 1], i)
  /\ \A i \in 1..Len(q) : \E f \in 1..m : o[f - 1] < i /\ i <= o[f]

(* What has been cut from a stream when its first l bytes have been        *)
(* received: the frames up to number k, and the start of the next is left. *)
CutUpTo(q, m, o, l, k) ==
  /\ k \in 0..m /\ o[k] <= l /\ (k = m \/ l < o[k + 1])

LEMMA BytesAre ==
  ASSUME NEW f \in Nat, NEW n \in Nat, n >= HeadLen, NEW b \in Buffers, Len(b) = n,
         \A i \in 1..n : b[i] = FrameOf(f, n, i)
  PROVE  b = Bytes(f, n)
  BY DEF Bytes, FrameOf, Buffers

LEMMA BytesType ==
  ASSUME NEW f \in Nat, NEW n \in Nat, n >= HeadLen
  PROVE  Bytes(f, n) \in Buffers /\ Len(Bytes(f, n)) = n /\ \A i \in 1..n : Bytes(f, n)[i] = FrameOf(f, n, i)
  <1>1. HeadLen \in Nat BY HeadLenType
  <1> QED BY <1>1 DEF Bytes, FrameOf, Buffers, FrameByte

LEMMA FrameBytes ==
  ASSUME NEW q, NEW m, NEW o, Framed(q, m, o), NEW f \in 1..m, NEW i \in 1..o[f] - o[f - 1]
  PROVE  /\ q[o[f - 1] + i].frame = f /\ q[o[f - 1] + i].pos = i
         /\ q[o[f - 1] + i].size = o[f] - o[f - 1]
  <1>1. q[o[f - 1] + i] = FrameOf(f, o[f] - o[f - 1], i) BY DEF Framed
  <1> QED BY <1>1 DEF FrameOf

LEMMA PartOf ==
  ASSUME NEW q \in Buffers, NEW a \in Nat, NEW l \in Nat, a <= l, l <= Len(q)
  PROVE  /\ SubSeq(q, a + 1, l) \in Buffers /\ Len(SubSeq(q, a + 1, l)) = l - a
         /\ \A i \in 1..l - a : SubSeq(q, a + 1, l)[i] = q[a + i]
  BY DEF Buffers

LEMMA PartOfPart ==
  ASSUME NEW q \in Buffers, NEW a \in Nat, NEW l \in Nat, a <= l, l <= Len(q), NEW n \in Nat, n <= l - a
  PROVE  Drop(SubSeq(q, a + 1, l), n) = SubSeq(q, a + n + 1, l)
  BY DEF Drop, Buffers

LEMMA Joins ==
  ASSUME NEW q \in Buffers, NEW a \in Nat, NEW l \in Nat, NEW n \in Nat, a <= l, l <= n, n <= Len(q)
  PROVE  SubSeq(q, a + 1, l) \o SubSeq(q, l + 1, n) = SubSeq(q, a + 1, n)
  BY DEF Buffers

LEMMA EmptyFramed == Framed(<<>>, 0, [f \in 0..0 |-> 0])
  BY DEF Framed, Buffers

LEMMA AppendFrame ==
  ASSUME NEW q, NEW m, NEW o, Framed(q, m, o), NEW n \in Nat, n >= HeadLen
  PROVE  /\ q \o Bytes(m + 1, n) \in Buffers
         /\ Framed(q \o Bytes(m + 1, n), m + 1, [f \in 0..m + 1 |-> IF f = m + 1 THEN Len(q) + n ELSE o[f]])
  <1> DEFINE p == q \o Bytes(m + 1, n)
             u == [f \in 0..m + 1 |-> IF f = m + 1 THEN Len(q) + n ELSE o[f]]
  <1>1. /\ q \in Buffers /\ m \in Nat /\ o \in [0..m -> Nat] /\ o[0] = 0 /\ o[m] = Len(q)
        /\ HeadLen \in Nat /\ HeadLen >= 3 /\ Len(q) \in Nat
    BY HeadLenType DEF Framed, Buffers
  <1>2. /\ Bytes(m + 1, n) \in Buffers /\ Len(Bytes(m + 1, n)) = n
        /\ \A i \in 1..n : Bytes(m + 1, n)[i] = FrameOf(m + 1, n, i)
    BY <1>1, BytesType
  <1>3. /\ p \in Buffers /\ Len(p) = Len(q) + n
        /\ \A i \in 1..Len(q) : p[i] = q[i]
        /\ \A i \in 1..n : p[Len(q) + i] = FrameOf(m + 1, n, i)
    <2>1. /\ q \in Seq(FrameByte) /\ Bytes(m + 1, n) \in Seq(FrameByte) BY <1>1, <1>2 DEF Buffers
    <2> HIDE DEF FrameByte
    <2>2. /\ p \in Seq(FrameByte) /\ Len(p) = Len(q) + n
          /\ \A i \in 1..Len(q) + n : p[i] = IF i <= Len(q) THEN q[i] ELSE Bytes(m + 1, n)[i - Len(q)]
      BY <1>2, <2>1, ConcatProperties
    <2> HIDE DEF p
    <2>3. \A i \in 1..Len(q) : p[i] = q[i] BY <1>1, <2>2
    <2>4. ASSUME NEW i \in 1..n PROVE p[Len(q) + i] = FrameOf(m + 1, n, i)
      <3>1. Len(q) + i \in 1..Len(q) + n /\ ~(Len(q) + i <= Len(q)) /\ (Len(q) + i) - Len(q) = i BY <1>1
      <3>2. p[Len(q) + i] = Bytes(m + 1, n)[i] BY <2>2, <3>1
      <3> QED BY <1>2, <3>2
    <2> QED BY <2>2, <2>3, <2>4 DEF Buffers
  <1> HIDE DEF p
  <1>4. /\ u \in [0..m + 1 -> Nat] /\ u[m + 1] = Len(q) + n
        /\ \A f \in 0..m : u[f] = o[f]
    BY <1>1
  <1> HIDE DEF u
  <1>5. u[0] = 0 /\ u[m + 1] = Len(p) BY <1>1, <1>3, <1>4
  <1>6. \A f \in 0..m : o[f] \in Nat /\ o[f] <= Len(q)
    <2> SUFFICES ASSUME NEW f \in 0..m PROVE o[f] \in Nat /\ o[f] <= Len(q) OBVIOUS
    <2>1. f = m \/ o[f] < o[m] BY <1>1 DEF Framed
    <2> QED BY <1>1, <2>1
  <1>7. ASSUME NEW f \in 1..m + 1
        PROVE  /\ u[f] - u[f - 1] >= HeadLen
               /\ \A i \in 1..u[f] - u[f - 1] : p[u[f - 1] + i] = FrameOf(f, u[f] - u[f - 1], i)
    <2>1. CASE f = m + 1
      <3>1. u[f] = Len(q) + n /\ u[f - 1] = Len(q) BY <1>1, <1>4, <2>1
      <3>2. u[f] - u[f - 1] = n BY <1>1, <3>1
      <3> QED BY <1>3, <2>1, <3>1, <3>2
    <2>2. CASE f # m + 1
      <3>1. f \in 1..m /\ f \in 0..m /\ f - 1 \in 0..m BY <1>1, <2>2
      <3>2. u[f] = o[f] /\ u[f - 1] = o[f - 1] BY <1>4, <3>1
      <3>3. o[f] - o[f - 1] >= HeadLen BY <3>1 DEF Framed
      <3>4. \A i \in 1..o[f] - o[f - 1] : q[o[f - 1] + i] = FrameOf(f, o[f] - o[f - 1], i)
        BY <3>1 DEF Framed
      <3>5. o[f] \in Nat /\ o[f - 1] \in Nat /\ o[f] <= Len(q) BY <1>6, <3>1
      <3>6. \A i \in 1..o[f] - o[f - 1] : o[f - 1] + i \in 1..Len(q) BY <1>1, <3>5
      <3> QED BY <1>3, <3>2, <3>3, <3>4, <3>6
    <2> QED BY <2>1, <2>2
  <1>8. \A f, g \in 0..m + 1 : f < g => u[f] < u[g]
    <2> SUFFICES ASSUME NEW f \in 0..m + 1, NEW g \in 0..m + 1, f < g PROVE u[f] < u[g] OBVIOUS
    <2>1. CASE g = m + 1
      <3>1. f \in 0..m BY <1>1, <2>1
      <3> QED BY <1>1, <1>4, <1>6, <2>1, <3>1
    <2>2. CASE g # m + 1
      <3>1. f \in 0..m /\ g \in 0..m BY <1>1, <2>2
      <3> QED BY <1>4, <3>1 DEF Framed
    <2> QED BY <2>1, <2>2
  <1>9. \A i \in 1..Len(p) : \E f \in 1..m + 1 : u[f - 1] < i /\ i <= u[f]
    <2> SUFFICES ASSUME NEW i \in 1..Len(p) PROVE \E f \in 1..m + 1 : u[f - 1] < i /\ i <= u[f] OBVIOUS
    <2>1. CASE i <= Len(q)
      <3>1. PICK f \in 1..m : o[f - 1] < i /\ i <= o[f] BY <1>1, <2>1 DEF Framed
      <3>2. u[f] = o[f] /\ u[f - 1] = o[f - 1] BY <1>1, <1>4
      <3>3. f \in 1..m + 1 BY <1>1
      <3> QED BY <3>1, <3>2, <3>3
    <2>2. CASE ~(i <= Len(q))
      <3>1. u[(m + 1) - 1] < i /\ i <= u[m + 1] /\ m + 1 \in 1..m + 1 BY <1>1, <1>3, <1>4, <2>2
      <3> QED BY <3>1
    <2> QED BY <2>1, <2>2
  <1>10. m + 1 \in Nat BY <1>1
  <1>11. Framed(p, m + 1, u) BY <1>3, <1>4, <1>5, <1>7, <1>8, <1>9, <1>10 DEF Framed
  <1> QED BY <1>3, <1>11 DEF p, u

(* Numbering: as many frames as bytes at position 1, and as many whole     *)
(* ones among the first l bytes as bytes at the last position.             *)
LEMMA CountsStarts ==
  ASSUME NEW q, NEW m, NEW o, Framed(q, m, o)
  PROVE  Cardinality({i \in 1..Len(q) : q[i].pos = 1}) = m
  <1> DEFINE T == {i \in 1..Len(q) : q[i].pos = 1}
             F == [f \in 1..m |-> o[f - 1] + 1]
  <1>1. m \in Nat /\ o \in [0..m -> Nat] /\ HeadLen \in Nat /\ HeadLen >= 3 /\ Len(q) \in Nat /\ o[m] = Len(q)
    BY HeadLenType DEF Framed, Buffers
  <1>2. ASSUME NEW f \in 1..m
        PROVE  /\ o[f] \in Nat /\ o[f - 1] \in Nat /\ o[f - 1] + 1 \in 1..Len(q) /\ o[f] <= Len(q)
               /\ q[o[f - 1] + 1].pos = 1
               /\ \A i \in 1..Len(q) : o[f - 1] < i /\ i <= o[f] /\ q[i].pos = 1 => i = o[f - 1] + 1
    <2>1. f \in 0..m /\ f - 1 \in 0..m BY <1>1
    <2>2. o[f] \in Nat /\ o[f - 1] \in Nat BY <1>1, <2>1
    <2>3. o[f] - o[f - 1] >= 3 BY <1>1, <2>2 DEF Framed
    <2>4. f = m \/ o[f] < o[m] BY <1>1, <2>1 DEF Framed
    <2>5. o[f - 1] + 1 \in 1..Len(q) /\ o[f] <= Len(q) BY <1>1, <2>2, <2>3, <2>4
    <2>6. \A j \in 1..o[f] - o[f - 1] : q[o[f - 1] + j].pos = j BY FrameBytes
    <2>7. ASSUME NEW i \in 1..Len(q), o[f - 1] < i, i <= o[f], q[i].pos = 1 PROVE i = o[f - 1] + 1
      <3>1. i - o[f - 1] \in 1..o[f] - o[f - 1] /\ o[f - 1] + (i - o[f - 1]) = i BY <1>1, <2>2, <2>7
      <3>2. q[i].pos = i - o[f - 1] BY <2>6, <3>1
      <3> QED BY <2>2, <2>7, <3>2
    <2>8. q[o[f - 1] + 1].pos = 1 BY <2>2, <2>3, <2>6
    <2> QED BY <2>2, <2>5, <2>7, <2>8
  <1>3. F \in [1..m -> T] BY <1>2
  <1>4. ASSUME NEW f \in 1..m, NEW g \in 1..m, F[f] = F[g] PROVE f = g
    <2>1. f - 1 \in 0..m /\ g - 1 \in 0..m BY <1>1
    <2>2. o[f - 1] = o[g - 1] BY <1>1, <1>4, <2>1
    <2>3. f - 1 < g - 1 => o[f - 1] < o[g - 1] BY <2>1 DEF Framed
    <2>4. g - 1 < f - 1 => o[g - 1] < o[f - 1] BY <2>1 DEF Framed
    <2>5. o[f - 1] \in Nat BY <1>1, <2>1
    <2> QED BY <1>1, <2>2, <2>3, <2>4, <2>5
  <1>5. ASSUME NEW i \in T PROVE \E f \in 1..m : F[f] = i
    <2>1. PICK f \in 1..m : o[f - 1] < i /\ i <= o[f] BY <1>5 DEF Framed
    <2> QED BY <1>2, <1>5, <2>1
  <1> HIDE DEF F, T
  <1>6. F \in Bijection(1..m, T) BY <1>3, <1>4, <1>5 DEF Bijection, Injection, Surjection, IsInjective
  <1>7. Cardinality(T) = m BY <1>1, <1>6, FS_CountingElements DEF ExistsBijection
  <1> QED BY <1>7 DEF T

LEMMA CountsWhole ==
  ASSUME NEW q, NEW m, NEW o, Framed(q, m, o), NEW l \in 0..Len(q), NEW k, CutUpTo(q, m, o, l, k)
  PROVE  LET r == SubSeq(q, 1, l) IN Cardinality({i \in 1..Len(r) : r[i].pos = r[i].size}) = k
  <1> DEFINE r == SubSeq(q, 1, l)
             T == {i \in 1..Len(r) : r[i].pos = r[i].size}
             F == [f \in 1..k |-> o[f]]
  <1>1. /\ q \in Buffers /\ m \in Nat /\ o \in [0..m -> Nat] /\ HeadLen \in Nat /\ HeadLen >= 3 /\ Len(q) \in Nat
        /\ k \in 0..m /\ k \in Nat /\ o[m] = Len(q)
    BY HeadLenType DEF Framed, Buffers, CutUpTo
  <1>2. Len(r) = l /\ \A i \in 1..l : r[i] = q[i] BY <1>1 DEF Buffers
  <1> HIDE DEF r
  <1>3. ASSUME NEW f \in 1..m
        PROVE  /\ o[f] \in Nat /\ o[f] \in 1..Len(q) /\ q[o[f]].pos = q[o[f]].size
               /\ \A i \in 1..Len(q) : o[f - 1] < i /\ i <= o[f] /\ q[i].pos = q[i].size => i = o[f]
    <2>1. f \in 0..m /\ f - 1 \in 0..m BY <1>1
    <2>2. o[f] \in Nat /\ o[f - 1] \in Nat BY <1>1, <2>1
    <2>3. o[f] - o[f - 1] >= 3 BY <1>1, <2>2 DEF Framed
    <2>4. f = m \/ o[f] < o[m] BY <1>1, <2>1 DEF Framed
    <2>5. o[f] \in 1..Len(q) BY <1>1, <2>2, <2>3, <2>4
    <2>6. \A j \in 1..o[f] - o[f - 1] : /\ q[o[f - 1] + j].pos = j
                                        /\ q[o[f - 1] + j].size = o[f] - o[f - 1]
      BY FrameBytes
    <2>7. ASSUME NEW i \in 1..Len(q), o[f - 1] < i, i <= o[f], q[i].pos = q[i].size PROVE i = o[f]
      <3>1. i - o[f - 1] \in 1..o[f] - o[f - 1] /\ o[f - 1] + (i - o[f - 1]) = i BY <1>1, <2>2, <2>7
      <3>2. q[i].pos = i - o[f - 1] /\ q[i].size = o[f] - o[f - 1] BY <2>6, <3>1
      <3>3. i - o[f - 1] = o[f] - o[f - 1] BY <2>7, <3>2
      <3>4. i \in Nat BY <1>1
      <3> QED BY <2>2, <3>3, <3>4
    <2>8. q[o[f]].pos = q[o[f]].size
      <3>1. o[f] - o[f - 1] \in 1..o[f] - o[f - 1] /\ o[f - 1] + (o[f] - o[f - 1]) = o[f] BY <2>2, <2>3
      <3> QED BY <2>6, <3>1
    <2> QED BY <2>2, <2>5, <2>7, <2>8
  <1>4. o[k] <= l /\ (k = m \/ l < o[k + 1]) BY DEF CutUpTo
  <1>5. F \in [1..k -> T]
    <2> SUFFICES ASSUME NEW f \in 1..k PROVE o[f] \in T OBVIOUS
    <2>1. f \in 1..m /\ f \in 0..m BY <1>1
    <2>2. f = k \/ o[f] < o[k] BY <1>1, <2>1 DEF Framed
    <2>3. o[f] \in Nat /\ o[k] \in Nat /\ o[f] \in 1..Len(q) BY <1>1, <1>3, <2>1
    <2>4. o[f] \in 1..l BY <1>4, <2>2, <2>3
    <2> QED BY <1>2, <1>3, <2>1, <2>4
  <1>6. ASSUME NEW f \in 1..k, NEW g \in 1..k, F[f] = F[g] PROVE f = g
    <2>1. f \in 0..m /\ g \in 0..m BY <1>1
    <2>2. o[f] = o[g] BY <1>6
    <2>3. f < g => o[f] < o[g] BY <2>1 DEF Framed
    <2>4. g < f => o[g] < o[f] BY <2>1 DEF Framed
    <2>5. o[f] \in Nat BY <1>1, <2>1
    <2> QED BY <1>1, <2>2, <2>3, <2>4, <2>5
  <1>7. ASSUME NEW i \in T PROVE \E f \in 1..k : F[f] = i
    <2>1. i \in 1..l /\ i \in 1..Len(q) /\ q[i].pos = q[i].size BY <1>1, <1>2
    <2>2. PICK f \in 1..m : o[f - 1] < i /\ i <= o[f] BY <2>1 DEF Framed
    <2>3. i = o[f] BY <1>3, <2>1, <2>2
    <2>4. f <= k
      <3> SUFFICES ASSUME k < f PROVE FALSE BY <1>1
      <3>1. k # m /\ k + 1 \in 0..m /\ f \in 0..m BY <1>1
      <3>2. f = k + 1 \/ o[k + 1] < o[f] BY <1>1, <3>1 DEF Framed
      <3>3. o[k + 1] \in Nat /\ o[f] \in Nat BY <1>1, <3>1
      <3> QED BY <1>4, <2>1, <2>3, <3>1, <3>2, <3>3
    <2>5. f \in 1..k BY <1>1, <2>4
    <2> QED BY <2>3, <2>5
  <1> HIDE DEF F, T
  <1>8. F \in Bijection(1..k, T) BY <1>5, <1>6, <1>7 DEF Bijection, Injection, Surjection, IsInjective
  <1>9. Cardinality(T) = k BY <1>1, <1>8, FS_CountingElements DEF ExistsBijection
  <1> QED BY <1>9 DEF T, r

LEMMA ShortStays ==
  ASSUME NEW b \in Buffers, Len(b) < HeadLen
  PROVE  Cut(b) = [frames |-> <<>>, left |-> b, lost |-> FALSE]
  <1>1. Len(b) \in Nat /\ HeadLen \in Nat BY HeadLenType DEF Buffers
  <1>2. ~(Len(b) >= HeadLen) BY <1>1
  <1> QED BY <1>2, CutCases

(* What the loop makes of the bytes behind frame k, up to byte l.          *)
CutInStep(q, m, o, l, k, cut) ==
  \E j \in k..m :
    /\ CutUpTo(q, m, o, l, j)
    /\ cut.left = SubSeq(q, o[j] + 1, l)
    /\ Len(cut.frames) = j - k
    /\ \A f \in 1..j - k : cut.frames[f] = Bytes(k + f, o[k + f] - o[k + f - 1])

LEMMA StopsInStep ==
  ASSUME NEW q, NEW m, NEW o, NEW l, NEW k \in 0..m, m \in Nat, CutUpTo(q, m, o, l, k)
  PROVE  CutInStep(q, m, o, l, k, [frames |-> <<>>, left |-> SubSeq(q, o[k] + 1, l), lost |-> FALSE])
  <1> DEFINE left == SubSeq(q, o[k] + 1, l)
             cut == [frames |-> <<>>, left |-> left, lost |-> FALSE]
  <1>1. k \in k..m /\ k - k = 0 OBVIOUS
  <1>2. cut.left = left /\ Len(cut.frames) = 0 OBVIOUS
  <1>3. \A f \in 1..k - k : cut.frames[f] = Bytes(k + f, o[k + f] - o[k + f - 1]) BY <1>1
  <1> HIDE DEF cut
  <1>4. CutInStep(q, m, o, l, k, cut) BY <1>1, <1>2, <1>3 DEF CutInStep
  <1> QED BY <1>4 DEF cut

(* A buffer that starts with a frame starts with a mark, and its length is *)
(* the frame's, whatever the payload reads.                                *)
LEMMA InStep ==
  ASSUME NEW q, NEW m, NEW o, Framed(q, m, o), NEW k \in 0..m, k # m,
         NEW l \in Nat, l <= Len(q), o[k] + HeadLen <= l
  PROVE  LET b == SubSeq(q, o[k] + 1, l) IN Mark(b, 1) /\ Total(b) = o[k + 1] - o[k]
  <1> DEFINE b == SubSeq(q, o[k] + 1, l)
  <1>1. /\ q \in Buffers /\ m \in Nat /\ o \in [0..m -> Nat] /\ HeadLen \in Nat /\ HeadLen >= 3
    BY HeadLenType DEF Framed
  <1>2. k + 1 \in 1..m /\ (k + 1) - 1 = k /\ o[k] \in Nat /\ o[k + 1] \in Nat BY <1>1
  <1>3. o[k + 1] - o[k] >= HeadLen BY <1>2 DEF Framed
  <1>4. \A i \in 1..HeadLen : /\ q[o[k] + i].pos = i
                              /\ q[o[k] + i].size = o[k + 1] - o[k]
    <2> SUFFICES ASSUME NEW i \in 1..HeadLen
                 PROVE  /\ q[o[k] + i].pos = i
                        /\ q[o[k] + i].size = o[k + 1] - o[k]
      OBVIOUS
    <2>1. i \in 1..o[k + 1] - o[(k + 1) - 1] BY <1>1, <1>2, <1>3
    <2> QED BY <1>2, <2>1, FrameBytes
  <1>5. \A i \in 1..HeadLen : b[i] = q[o[k] + i]
    <2>1. o[k] <= l /\ \A i \in 1..HeadLen : i \in 1..l - o[k] BY <1>1, <1>2
    <2> QED BY <1>1, <1>2, <2>1, PartOf
  <1> HIDE DEF b
  <1>6. \A i \in 1..HeadLen : b[i].pos = i /\ b[i].size = o[k + 1] - o[k] BY <1>4, <1>5
  <1>7. 1 \in 1..HeadLen /\ 1 + 1 \in 1..HeadLen /\ 1 + 1 = 2 /\ HeadLen \in 1..HeadLen BY <1>1
  <1>8. b[1].pos = 1 /\ b[1 + 1].pos = 2 BY <1>6, <1>7
  <1>9. b[HeadLen].pos = HeadLen /\ b[HeadLen].size = o[k + 1] - o[k] BY <1>6, <1>7
  <1>10. Mark(b, 1) /\ Total(b) = o[k + 1] - o[k] BY <1>8, <1>9 DEF Mark, Total
  <1> QED BY <1>10 DEF b

(* A frame that no buffer holds.                                           *)
TooLong(m, o) == \E f \in 1..m : o[f] - o[f - 1] > BufLen

(* A stream of frames is cut where the frames end, whatever the payloads   *)
(* read, from the start of any frame to the last byte received; only a     *)
(* frame that no buffer holds makes the loop throw the buffer away.        *)
THEOREM StreamsAreCut ==
  ASSUME NEW q, NEW m, NEW o, Framed(q, m, o), NEW l \in Nat, l <= Len(q)
  PROVE  \A k \in 0..m : o[k] <= l =>
           LET cut == Cut(SubSeq(q, o[k] + 1, l))
           IN  (cut.lost /\ TooLong(m, o)) \/ CutInStep(q, m, o, l, k, cut)
  <1> DEFINE Good(k) ==
        o[k] <= l => LET cut == Cut(SubSeq(q, o[k] + 1, l))
                     IN  (cut.lost /\ TooLong(m, o)) \/ CutInStep(q, m, o, l, k, cut)
             T == {m - k : k \in {i \in 0..m : ~Good(i)}}
  <1>1. /\ q \in Buffers /\ m \in Nat /\ o \in [0..m -> Nat] /\ HeadLen \in Nat /\ HeadLen >= 3
        /\ BufLen \in Nat /\ Len(q) \in Nat /\ o[m] = Len(q)
    BY HeadLenType DEF Framed, Buffers
  <1>2. T \subseteq Nat BY <1>1
  <1>3. SUFFICES ASSUME T # {} PROVE FALSE OBVIOUS
  <1> HIDE DEF Good
  <1>4. PICK n \in T : \A i \in T : n <= i BY <1>2, <1>3, Least
  <1>5. PICK k \in 0..m : ~Good(k) /\ n = m - k BY <1>4
  <1>6. \A i \in 0..m : i > k => Good(i)
    <2> SUFFICES ASSUME NEW i \in 0..m, i > k, ~Good(i) PROVE FALSE OBVIOUS
    <2>1. m - i \in T OBVIOUS
    <2>2. n <= m - i BY <1>4, <2>1
    <2> QED BY <1>1, <1>5, <2>2
  <1> HIDE DEF T
  <1> DEFINE b == SubSeq(q, o[k] + 1, l)
  <1>7. o[k] \in Nat /\ k \in Nat BY <1>1
  <1>8. SUFFICES ASSUME o[k] <= l PROVE (Cut(b).lost /\ TooLong(m, o)) \/ CutInStep(q, m, o, l, k, Cut(b))
    BY <1>5 DEF Good
  <1>9. b \in Buffers /\ Len(b) = l - o[k] BY <1>1, <1>7, <1>8, PartOf
  <1> HIDE DEF b
  <1>10. CASE k = m
    <2>1. l = o[k] BY <1>1, <1>7, <1>8, <1>10
    <2>2. Len(b) < HeadLen BY <1>1, <1>7, <1>9, <2>1
    <2>3. Cut(b) = [frames |-> <<>>, left |-> b, lost |-> FALSE] BY <1>9, <2>2, ShortStays
    <2>4. CutUpTo(q, m, o, l, k) BY <1>8, <1>10 DEF CutUpTo
    <2> QED BY <1>1, <2>3, <2>4, StopsInStep DEF b
  <1>11. CASE k # m
    <2> DEFINE size == o[k + 1] - o[k]
    <2>1. k + 1 \in 0..m /\ k + 1 \in 1..m /\ (k + 1) - 1 = k /\ o[k + 1] \in Nat BY <1>1, <1>11
    <2>2. size \in Nat /\ size >= HeadLen
      <3>1. o[k + 1] - o[k] >= HeadLen BY <2>1 DEF Framed
      <3> QED BY <1>1, <1>7, <2>1, <3>1
    <2>3. CASE Len(b) < size /\ Cut(b) = [frames |-> <<>>, left |-> b, lost |-> FALSE]
      <3>1. l < o[k + 1] BY <1>7, <1>9, <2>1, <2>3
      <3>2. CutUpTo(q, m, o, l, k) BY <1>8, <3>1 DEF CutUpTo
      <3> QED BY <1>1, <2>3, <3>2, StopsInStep DEF b
    <2>4. CASE Len(b) < HeadLen
      <3>1. Len(b) < size BY <1>1, <1>7, <1>9, <2>2, <2>4
      <3>2. Cut(b) = [frames |-> <<>>, left |-> b, lost |-> FALSE] BY <1>9, <2>4, ShortStays
      <3> QED BY <2>3, <3>1, <3>2
    <2>5. CASE ~(Len(b) < HeadLen)
      <3>1. o[k] + HeadLen <= l /\ Len(b) >= HeadLen BY <1>1, <1>7, <1>9, <2>5
      <3>2. Mark(b, 1) /\ Total(b) = size BY <1>11, <3>1, InStep DEF b
      <3> DEFINE d == Drop(b, size)
                 whole == SubSeq(b, 1, size)
      <3> HIDE DEF d, whole, size
      <3>3. CASE size > BufLen /\ Cut(b) = [frames |-> <<>>, left |-> <<>>, lost |-> TRUE]
        <4>1. TooLong(m, o) BY <2>1, <3>3 DEF TooLong, size
        <4> QED BY <3>3, <4>1
      <3>4. CASE Len(b) < size /\ Cut(b) = [frames |-> <<>>, left |-> b, lost |-> FALSE]
        BY <2>3, <3>4 DEF b, size
      <3>5. CASE size \in 1..Len(b) /\ Cut(b) = [Cut(d) EXCEPT !.frames = <<whole>> \o @]
        <4>1. o[k + 1] <= l /\ size <= l - o[k] BY <1>7, <1>9, <2>1, <2>2, <3>5 DEF size
        <4>2. d = SubSeq(q, o[k + 1] + 1, l)
          <5>1. o[k] + size + 1 = o[k + 1] + 1 BY <1>7, <2>1 DEF size
          <5>2. \A a, c \in Nat :
                  a <= l /\ c <= l - a => Drop(SubSeq(q, a + 1, l), c) = SubSeq(q, a + c + 1, l)
            <6> SUFFICES ASSUME NEW a \in Nat, NEW c \in Nat, a <= l, c <= l - a
                         PROVE  Drop(SubSeq(q, a + 1, l), c) = SubSeq(q, a + c + 1, l)
              OBVIOUS
            <6>1. q \in Buffers BY <1>1
            <6> QED BY <6>1, PartOfPart
          <5>4. Drop(SubSeq(q, o[k] + 1, l), size) = SubSeq(q, o[k] + size + 1, l)
            BY <1>7, <1>8, <2>2, <4>1, <5>2
          <5>3. d = SubSeq(q, o[k] + size + 1, l) BY <5>4 DEF d, b
          <5> QED BY <5>1, <5>3
        <4>3. Good(k + 1) BY <1>6, <1>7, <2>1
        <4>4. (Cut(d).lost /\ TooLong(m, o)) \/ CutInStep(q, m, o, l, k + 1, Cut(d)) BY <4>1, <4>2, <4>3 DEF Good
        <4>5. d \in Buffers BY <1>9, <3>5, DropShorter DEF d
        <4>6. Cut(d) \in [frames : Seq(Buffers), left : Buffers, lost : BOOLEAN]
          BY <4>5, CutType DEF CutTyped
        <4>7. /\ Cut(b).lost = Cut(d).lost /\ Cut(b).left = Cut(d).left
              /\ Cut(b).frames = <<whole>> \o Cut(d).frames
          BY <3>5, <4>6
        <4>8. whole = Bytes(k + 1, size)
          <5>1. whole \in Buffers /\ Len(whole) = size /\ \A i \in 1..size : whole[i] = b[i]
            BY <1>9, <2>2, <3>5 DEF whole, Buffers
          <5>2. ASSUME NEW i \in 1..size PROVE whole[i] = FrameOf(k + 1, size, i)
            <6>1. i \in 1..l - o[k] BY <1>7, <2>2, <4>1
            <6>2. b[i] = q[o[k] + i] BY <1>1, <1>7, <1>8, <6>1, PartOf DEF b
            <6>3. q[o[(k + 1) - 1] + i] = FrameOf(k + 1, o[k + 1] - o[(k + 1) - 1], i)
              BY <2>1 DEF Framed, size
            <6> QED BY <2>1, <5>1, <6>2, <6>3 DEF size
          <5> QED BY <1>7, <2>1, <2>2, <5>1, <5>2, BytesAre
        <4>9. CASE CutInStep(q, m, o, l, k + 1, Cut(d))
          <5>1. PICK j \in k + 1..m :
                  /\ CutUpTo(q, m, o, l, j)
                  /\ Cut(d).left = SubSeq(q, o[j] + 1, l)
                  /\ Len(Cut(d).frames) = j - (k + 1)
                  /\ \A f \in 1..j - (k + 1) :
                       Cut(d).frames[f] = Bytes(k + 1 + f, o[k + 1 + f] - o[k + 1 + f - 1])
            BY <4>9 DEF CutInStep
          <5>2. j \in k..m /\ j - (k + 1) \in Nat /\ j \in Nat BY <1>1, <1>7, <5>1
          <5> DEFINE rest == Cut(d).frames
          <5>3. rest \in Seq(Buffers) /\ whole \in Buffers /\ Len(rest) = j - (k + 1)
            BY <1>7, <2>1, <2>2, <4>6, <4>8, <5>1, BytesType
          <5> HIDE DEF rest
          <5>4. /\ Len(<<whole>> \o rest) = j - k
                /\ (<<whole>> \o rest)[1] = whole
                /\ \A f \in 2..j - k : (<<whole>> \o rest)[f] = rest[f - 1]
            BY <1>7, <5>2, <5>3
          <5>5. Cut(b).frames = <<whole>> \o rest BY <4>7 DEF rest
          <5>6. ASSUME NEW f \in 1..j - k
                PROVE  Cut(b).frames[f] = Bytes(k + f, o[k + f] - o[k + f - 1])
            <6>1. CASE f = 1
              <7>1. Cut(b).frames[f] = Bytes(k + 1, o[k + 1] - o[k]) BY <4>8, <5>4, <5>5, <6>1 DEF size
              <7> QED BY <2>1, <6>1, <7>1
            <6>2. CASE f # 1
              <7>1. f \in 2..j - k /\ f - 1 \in 1..j - (k + 1) BY <1>7, <5>2, <6>2
              <7>2. k + 1 + (f - 1) = k + f BY <1>7
              <7>3. rest[f - 1] = Bytes(k + 1 + (f - 1), o[k + 1 + (f - 1)] - o[k + 1 + (f - 1) - 1])
                BY <5>1, <7>1 DEF rest
              <7> QED BY <5>4, <5>5, <7>1, <7>2, <7>3
            <6> QED BY <6>1, <6>2
          <5>7. Len(Cut(b).frames) = j - k BY <5>4, <5>5
          <5> QED BY <4>7, <5>1, <5>2, <5>6, <5>7 DEF CutInStep
        <4> QED BY <4>4, <4>7, <4>9 DEF b
      <3>6. \/ size > BufLen /\ Cut(b) = [frames |-> <<>>, left |-> <<>>, lost |-> TRUE]
            \/ Len(b) < size /\ Cut(b) = [frames |-> <<>>, left |-> b, lost |-> FALSE]
            \/ size \in 1..Len(b) /\ Cut(b) = [Cut(d) EXCEPT !.frames = <<whole>> \o @]
        <4>1. ~(Len(b) < HeadLen) /\ Mark(b, 1) BY <2>5, <3>2
        <4>2. Drop(b, Total(b)) = d /\ SubSeq(b, 1, Total(b)) = whole BY <3>2 DEF d, whole
        <4> QED BY <1>9, <3>2, <4>1, <4>2, CutCases
      <3> QED BY <3>3, <3>4, <3>5, <3>6
    <2> QED BY <2>4, <2>5
  <1> QED BY <1>10, <1>11

-----------------------------------------------------------------------------
(* What the relay reports.                                                 *)
(* What holds of one direction: the end has sent whole frames; unless the  *)
(* buffer was thrown away, the frames of what was received are reported    *)
(* and the buffer holds the start of the next.                             *)
Reported(s, e, m, o) ==
  LET l == Len(sent[s][e]) - Len(wire[s][e]) IN
  \E k \in 0..m :
    /\ CutUpTo(sent[s][e], m, o, l, k)
    /\ fb[s][e] = SubSeq(sent[s][e], o[k] + 1, l)
    /\ Len(reported[s][e]) = k
    /\ \A f \in 1..k : reported[s][e][f] = Bytes(f, o[f] - o[f - 1])

InFrames(s, e) ==
  \E m, o : Framed(sent[s][e], m, o) /\ (e \notin spilt[s] => Reported(s, e, m, o))

(* A session that forwards nothing has nothing in its buffers.             *)
Unused(s) ==
  pc[s] \notin Sending =>
    /\ fb[s] = EmptyBuffers /\ reported[s] = EmptyBuffers /\ spilt[s] = {}

CutterOK ==
  /\ fb \in [Sessions -> [Ends -> Buffers]]
  /\ reported \in [Sessions -> [Ends -> Seq(Buffers)]]
  /\ spilt \in [Sessions -> SUBSET Ends]

Cutting(s) ==
  /\ Unused(s)
  /\ \A e \in Ends : InFrames(s, e) /\ Len(fb[s][e]) <= BufLen

ReportInv == FwdInv /\ CutterOK /\ \A s \in Sessions : Cutting(s)

SameDirection(s, e) ==
  /\ sent'[s][e] = sent[s][e] /\ wire'[s][e] = wire[s][e]
  /\ fb'[s][e] = fb[s][e] /\ reported'[s][e] = reported[s][e]
  /\ e \in spilt'[s] <=> e \in spilt[s]

LEMMA EmptyType ==
  /\ <<>> \in Buffers /\ <<>> \in Seq(Buffers) /\ Len(<<>>) = 0
  /\ EmptyBuffers \in [Ends -> Buffers] /\ EmptyBuffers \in [Ends -> Seq(Buffers)]
  BY DEF Buffers, EmptyBuffers

LEMMA DirectionKept ==
  ASSUME NEW s \in Sessions, NEW e \in Ends, SameDirection(s, e), InFrames(s, e)
  PROVE  InFrames(s, e)'
  <1>1. PICK m, o : Framed(sent[s][e], m, o) /\ (e \notin spilt[s] => Reported(s, e, m, o))
    BY DEF InFrames
  <1>2. Reported(s, e, m, o) => Reported(s, e, m, o)' BY DEF Reported, SameDirection
  <1>3. Framed(sent'[s][e], m, o) BY <1>1 DEF SameDirection
  <1>4. e \notin spilt'[s] => Reported(s, e, m, o)' BY <1>1, <1>2 DEF SameDirection
  <1> QED BY <1>3, <1>4 DEF InFrames

(* Before anything is sent.                                                *)
LEMMA NothingReported ==
  ASSUME NEW q, q = <<>>, NEW w, w = <<>>
  PROVE  \E m, o : /\ Framed(q, m, o)
                   /\ LET l == Len(q) - Len(w) IN
                      \E k \in 0..m :
                        /\ CutUpTo(q, m, o, l, k) /\ <<>> = SubSeq(q, o[k] + 1, l) /\ Len(<<>>) = k
                        /\ \A f \in 1..k : <<>>[f] = Bytes(f, o[f] - o[f - 1])
  <1> DEFINE o == [f \in 0..0 |-> 0]
  <1>1. Framed(q, 0, o) BY EmptyFramed
  <1>2. Len(q) - Len(w) = 0 /\ Len(<<>>) = 0 /\ 0 \in 0..0 /\ 1..0 = {} /\ o[0] = 0
    OBVIOUS
  <1>3. SubSeq(q, o[0] + 1, 0) = <<>> OBVIOUS
  <1>4. CutUpTo(q, 0, o, 0, 0) BY <1>2 DEF CutUpTo
  <1> HIDE DEF o
  <1> QED BY <1>1, <1>2, <1>3, <1>4

LEMMA ReportInit == RelayInit => ReportInv
  <1> SUFFICES ASSUME RelayInit PROVE ReportInv OBVIOUS
  <1>1. FwdInv BY FwdInit DEF RelayInit
  <1>2. CutterOK BY EmptyType DEF RelayInit, CutterOK
  <1>3. ASSUME NEW s \in Sessions, NEW e \in Ends PROVE InFrames(s, e) /\ Len(fb[s][e]) <= BufLen
    <2>1. /\ sent[s][e] = <<>> /\ wire[s][e] = <<>> /\ fb[s][e] = <<>> /\ reported[s][e] = <<>>
      BY DEF RelayInit, Init, Silence, EmptyBuffers
    <2>2. PICK m, o : Framed(sent[s][e], m, o) /\ Reported(s, e, m, o)
      BY <2>1, NothingReported DEF Reported
    <2>3. 0 <= BufLen BY HeadLenType
    <2> QED BY <2>1, <2>2, <2>3 DEF InFrames
  <1>4. \A s \in Sessions : Unused(s) BY DEF Unused, RelayInit
  <1> QED BY <1>1, <1>2, <1>3, <1>4 DEF ReportInv, Cutting

(* close(), vTaskDelete(): the buffers go with the session.                *)
LEMMA LeaveCuts ==
  ASSUME ReportInv, FwdInv', NEW s \in Sessions, NEW where, NEW kept, Leave(s, where, kept),
         fb'[s] = EmptyBuffers, reported'[s] = EmptyBuffers, spilt'[s] = {},
         \A t \in Sessions \ {s} : fb'[t] = fb[t] /\ reported'[t] = reported[t] /\ spilt'[t] = spilt[t],
         CutterOK'
  PROVE  ReportInv'
  <1>1. /\ sent' = [sent EXCEPT ![s] = Silence] /\ wire' = [wire EXCEPT ![s] = Silence]
        /\ pc' = [pc EXCEPT ![s] = where]
    BY DEF Leave, Goto
  <1>2. /\ sent \in [Sessions -> [Ends -> Seq(Byte)]] /\ wire \in [Sessions -> [Ends -> Seq(Byte)]]
        /\ DOMAIN pc = Sessions
    BY DEF ReportInv, FwdInv, TypeOK
  <1>3. ASSUME NEW e \in Ends PROVE InFrames(s, e)' /\ Len(fb'[s][e]) <= BufLen
    <2>1. /\ sent'[s][e] = <<>> /\ wire'[s][e] = <<>> /\ fb'[s][e] = <<>> /\ reported'[s][e] = <<>>
      BY <1>1, <1>2 DEF Silence, EmptyBuffers
    <2>2. PICK m, o : Framed(sent'[s][e], m, o) /\ Reported(s, e, m, o)'
      BY <2>1, NothingReported DEF Reported
    <2>3. 0 <= BufLen BY HeadLenType
    <2> QED BY <2>1, <2>2, <2>3 DEF InFrames
  <1>4. ASSUME NEW t \in Sessions \ {s} PROVE Cutting(t)'
    <2>1. sent'[t] = sent[t] /\ wire'[t] = wire[t] /\ pc'[t] = pc[t] BY <1>1, <1>2
    <2>2. \A e \in Ends : SameDirection(t, e) BY <2>1 DEF SameDirection
    <2>3. Cutting(t) BY DEF ReportInv
    <2>4. \A e \in Ends : InFrames(t, e)' BY <2>2, <2>3, DirectionKept DEF Cutting
    <2> QED BY <2>1, <2>3, <2>4 DEF Cutting, Unused
  <1> QED BY <1>3, <1>4 DEF ReportInv, Cutting, Unused

(* A step that neither sends nor receives nor leaves.                      *)
LEMMA QuietCuts ==
  ASSUME ReportInv, FwdInv', UNCHANGED <<sent, wire, fb, reported, spilt>>,
         \A s \in Sessions : pc'[s] \notin Sending => pc[s] \notin Sending
  PROVE  ReportInv'
  <1>1. CutterOK' BY DEF ReportInv, CutterOK
  <1>2. ASSUME NEW s \in Sessions PROVE Cutting(s)'
    <2>1. \A e \in Ends : SameDirection(s, e) BY DEF SameDirection
    <2>2. Cutting(s) BY DEF ReportInv
    <2>3. \A e \in Ends : InFrames(s, e)' BY <2>1, <2>2, DirectionKept DEF Cutting
    <2>4. Unused(s)' BY <2>2 DEF Cutting, Unused
    <2> QED BY <2>2, <2>3, <2>4 DEF Cutting
  <1> QED BY <1>1, <1>2 DEF ReportInv

LEMMA PartOfLonger ==
  ASSUME NEW q \in Seq(FrameByte), NEW a \in Seq(FrameByte), NEW n \in Nat, NEW l \in Int, l <= Len(q), n <= l
  PROVE  SubSeq(q \o a, n + 1, l) = SubSeq(q, n + 1, l)
  OBVIOUS

(* An end sends its next frame.                                            *)
LEMMA FrameCuts ==
  ASSUME ReportInv, FwdInv', NEW s \in Sessions, NEW e \in Ends, FrameSent(s, e), UNCHANGED cutter
  PROVE  ReportInv'
  <1>1. PICK n \in Sizes : EndSends(s, e, Bytes(NextFrame(s, e), n)) BY DEF FrameSent
  <1>2. n \in Nat /\ n >= HeadLen /\ HeadLen \in Nat BY SizeAssumption, HeadLenType DEF SizeAssumption
  <1>3. /\ sent \in [Sessions -> [Ends -> Seq(Byte)]] /\ wire \in [Sessions -> [Ends -> Seq(Byte)]]
        /\ sent[s][e] \in Seq(Byte) /\ wire[s][e] \in Seq(Byte)
    BY DEF ReportInv, FwdInv, TypeOK
  <1>4. PICK m, o : Framed(sent[s][e], m, o) /\ (e \notin spilt[s] => Reported(s, e, m, o))
    BY DEF ReportInv, Cutting, InFrames
  <1>5. m \in Nat /\ o \in [0..m -> Nat] BY <1>4 DEF Framed
  <1>6. NextFrame(s, e) = m + 1 BY <1>4, <1>5, CountsStarts DEF NextFrame
  <1> DEFINE frame == Bytes(m + 1, n)
             q == sent[s][e]
             p == q \o frame
  <1>u. PICK u : u = [f \in 0..m + 1 |-> IF f = m + 1 THEN Len(q) + n ELSE o[f]] OBVIOUS
  <1>7. /\ sent' = [sent EXCEPT ![s][e] = @ \o frame] /\ wire' = [wire EXCEPT ![s][e] = @ \o frame]
        /\ pc' = pc /\ fb' = fb /\ reported' = reported /\ spilt' = spilt
    BY <1>1, <1>6 DEF EndSends, cutter
  <1>8. sent'[s][e] = p /\ wire'[s][e] = wire[s][e] \o frame BY <1>3, <1>7
  <1>9. frame \in Buffers /\ Len(frame) = n BY <1>2, <1>5, BytesType
  <1>10. Framed(p, m + 1, u) BY <1>2, <1>4, <1>u, AppendFrame
  <1>11. q \in Buffers /\ o[m] = Len(q) BY <1>4 DEF Framed
  <1>12. Len(p) = Len(q) + n /\ Len(wire'[s][e]) = Len(wire[s][e]) + n
    <2>1. q \in Seq(FrameByte) /\ frame \in Seq(FrameByte) BY <1>9, <1>11 DEF Buffers
    <2> HIDE DEF frame, q
    <2>2. Len(p) = Len(q) + n BY <1>9, <2>1
    <2>3. frame \in Seq(Byte)
      <3>1. NextFrame(s, e) \in 1..MaxFrames
        BY <1>5, <1>6, RelayAssumption DEF FrameSent, RelayAssumption
      <3>2. frame \in Messages BY <1>6, <3>1, RelayAssumption DEF RelayAssumption, FrameMessages, frame
      <3> QED BY <3>2, MessageAssumption DEF MessageAssumption
    <2>4. Len(wire[s][e] \o frame) = Len(wire[s][e]) + n BY <1>3, <1>9, <2>3, ConcatProperties
    <2> QED BY <1>8, <2>2, <2>4
  <1>13. \A f \in 0..m : u[f] = o[f] BY <1>5, <1>u
  <1> HIDE DEF frame, p
  <1>14. Reported(s, e, m, o) => Reported(s, e, m + 1, u)'
    <2> DEFINE l == Len(q) - Len(wire[s][e])
    <2> SUFFICES ASSUME Reported(s, e, m, o) PROVE Reported(s, e, m + 1, u)' OBVIOUS
    <2>1. PICK k \in 0..m :
            /\ CutUpTo(q, m, o, l, k)
            /\ fb[s][e] = SubSeq(q, o[k] + 1, l)
            /\ Len(reported[s][e]) = k
            /\ \A f \in 1..k : reported[s][e][f] = Bytes(f, o[f] - o[f - 1])
      BY DEF Reported
    <2>2. Len(q) \in Nat /\ Len(wire[s][e]) \in Nat BY <1>3
    <2>3. Len(p) - Len(wire'[s][e]) = l /\ l <= Len(q) /\ l \in Int
      <3>1. \A x, y \in Nat : x - y \in Int /\ x - y <= x /\ (x + n) - (y + n) = x - y BY <1>2
      <3> QED BY <1>12, <2>2, <3>1
    <2>4. k \in 0..m + 1 /\ u[k] = o[k] /\ o[k] \in Nat /\ o[k] <= l
      <3>1. k \in 0..m /\ o[k] <= l BY <2>1 DEF CutUpTo
      <3> HIDE DEF l
      <3> QED BY <1>5, <1>13, <3>1
    <2> HIDE DEF l
    <2>5. CutUpTo(p, m + 1, u, l, k)
      <3>1. k = m \/ l < o[k + 1] BY <2>1 DEF CutUpTo
      <3>2. CASE k = m
        <4>1. u[k + 1] = Len(q) + n BY <1>5, <1>u, <3>2
        <4>2. HeadLen > 0 BY HeadLenType
        <4>3. l < u[k + 1] BY <1>2, <2>2, <2>3, <4>1, <4>2, HeadLenType
        <4> QED BY <2>4, <4>3 DEF CutUpTo
      <3>3. CASE k # m
        <4>1. k + 1 \in 0..m BY <1>5, <3>3
        <4>2. u[k + 1] = o[k + 1] BY <1>13, <4>1
        <4> QED BY <2>4, <3>1, <3>3, <4>2 DEF CutUpTo
      <3> QED BY <3>2, <3>3
    <2>6. SubSeq(p, u[k] + 1, l) = SubSeq(q, o[k] + 1, l)
      <3>1. q \in Seq(FrameByte) /\ frame \in Seq(FrameByte) BY <1>9, <1>11 DEF Buffers
      <3> HIDE DEF q, l
      <3>2. SubSeq(q \o frame, o[k] + 1, l) = SubSeq(q, o[k] + 1, l) BY <2>3, <2>4, <3>1, PartOfLonger
      <3> QED BY <2>4, <3>2 DEF p
    <2>7. ASSUME NEW f \in 1..k PROVE reported'[s][e][f] = Bytes(f, u[f] - u[f - 1])
      <3>1. f \in 0..m /\ f - 1 \in 0..m BY <1>5
      <3> QED BY <1>7, <1>13, <2>1, <3>1
    <2>8. /\ fb'[s][e] = SubSeq(p, u[k] + 1, l) /\ Len(reported'[s][e]) = k
      BY <1>7, <2>1, <2>6
    <2> HIDE DEF l
    <2>9. \E k_1 \in 0..m + 1 :
            /\ CutUpTo(p, m + 1, u, Len(p) - Len(wire'[s][e]), k_1)
            /\ fb'[s][e] = SubSeq(p, u[k_1] + 1, Len(p) - Len(wire'[s][e]))
            /\ Len(reported'[s][e]) = k_1
            /\ \A f \in 1..k_1 : reported'[s][e][f] = Bytes(f, u[f] - u[f - 1])
      BY <2>3, <2>4, <2>5, <2>7, <2>8
    <2> QED BY <1>8, <2>9 DEF Reported
  <1>15. InFrames(s, e)'
    <2>1. e \notin spilt'[s] => Reported(s, e, m + 1, u)' BY <1>4, <1>7, <1>14
    <2>2. Framed(sent'[s][e], m + 1, u) BY <1>8, <1>10
    <2> QED BY <2>1, <2>2 DEF InFrames
  <1>16. \A t \in Sessions, d \in Ends : t # s \/ d # e => SameDirection(t, d)
    BY <1>3, <1>7 DEF SameDirection
  <1>17. \A t \in Sessions, d \in Ends : t # s \/ d # e => InFrames(t, d)'
    BY <1>16, DirectionKept DEF ReportInv, Cutting
  <1>18. \A t \in Sessions : Unused(t)' BY <1>7 DEF Unused, ReportInv, Cutting
  <1>19. CutterOK' BY <1>7 DEF CutterOK, ReportInv
  <1>20. \A t \in Sessions, d \in Ends : Len(fb'[t][d]) <= BufLen BY <1>7 DEF ReportInv, Cutting
  <1> QED BY <1>15, <1>17, <1>18, <1>19, <1>20 DEF ReportInv, Cutting

(* The piece that recv() takes is the next part of what the end sent.      *)
LEMMA TakenNext ==
  ASSUME NEW x \in Seq(Byte), NEW w \in Seq(Byte), NEW n \in 1..Len(w)
  PROVE  /\ Len(x \o w) - Len(w) = Len(x) /\ Len(x) \in Nat /\ n \in Nat
         /\ SubSeq(w, 1, n) = SubSeq(x \o w, Len(x) + 1, Len(x) + n)
         /\ Len(x) + n <= Len(x \o w)
         /\ Len(x \o w) - Len(SubSeq(w, n + 1, Len(w))) = Len(x) + n
  <1>1. /\ Len(x) \in Nat /\ Len(w) \in Nat /\ n \in Nat /\ n <= Len(w)
        /\ Len(x \o w) = Len(x) + Len(w)
    OBVIOUS
  <1>2. Len(SubSeq(w, n + 1, Len(w))) = Len(w) - n OBVIOUS
  <1>3. SubSeq(w, 1, n) = SubSeq(x \o w, Len(x) + 1, Len(x) + n) OBVIOUS
  <1>4. \A a, b, c \in Nat : c <= b => (a + b) - b = a /\ a + c <= a + b /\ (a + b) - (b - c) = a + c OBVIOUS
  <1>5. /\ Len(x \o w) - Len(w) = Len(x) /\ Len(x) + n <= Len(x \o w)
        /\ Len(x \o w) - (Len(w) - n) = Len(x) + n
    BY <1>1, <1>4
  <1> QED BY <1>1, <1>2, <1>3, <1>5

(* A push onto a buffer in step: the frames that are complete are cut.     *)
LEMMA PushInStep ==
  ASSUME NEW q, NEW m, NEW o, Framed(q, m, o), NEW l \in Nat, NEW n \in Nat, l + n <= Len(q),
         NEW k \in 0..m, CutUpTo(q, m, o, l, k), NEW b, b = SubSeq(q, o[k] + 1, l),
         NEW d, d = SubSeq(q, l + 1, l + n), ~Overflows(b, d), ~Pushed(b, d).lost
  PROVE  CutInStep(q, m, o, l + n, k, Pushed(b, d))
  <1>1. q \in Buffers /\ o \in [0..m -> Nat] /\ o[k] \in Nat /\ o[k] <= l BY DEF Framed, CutUpTo
  <1>2. l + n \in Nat /\ l <= l + n /\ o[k] <= l + n BY <1>1
  <1>3. b \o d = SubSeq(q, o[k] + 1, l + n) BY <1>1, <1>2, Joins
  <1>4. Pushed(b, d) = Cut(SubSeq(q, o[k] + 1, l + n)) BY <1>3 DEF Pushed
  <1> QED BY <1>2, <1>4, StreamsAreCut

(* What a push leaves fits in the buffer again.                            *)
LEMMA PushFits ==
  ASSUME NEW b \in Buffers, NEW d \in Buffers, Len(d) <= BufLen
  PROVE  /\ Pushed(b, d) \in [frames : Seq(Buffers), left : Buffers, lost : BOOLEAN]
         /\ Len(Pushed(b, d).left) <= BufLen
  <1>1. /\ b \o d \in Buffers /\ Len(b \o d) = Len(b) + Len(d)
        /\ Len(b) \in Nat /\ Len(d) \in Nat /\ BufLen \in Nat
    BY HeadLenType DEF Buffers
  <1>2. CASE Overflows(b, d)
    <2>1. CutTyped(d) BY CutType
    <2>2. Pushed(b, d) = Cut(d) BY <1>2 DEF Pushed
    <2>3. Len(Cut(d).left) \in Nat /\ Len(Cut(d).left) <= Len(d) BY <2>1 DEF CutTyped, Buffers
    <2> QED BY <1>1, <2>1, <2>2, <2>3 DEF CutTyped
  <1>3. CASE ~Overflows(b, d)
    <2>1. CutTyped(b \o d) BY <1>1, CutType
    <2>2. Pushed(b, d) = Cut(b \o d) BY <1>3 DEF Pushed
    <2>3. Len(Cut(b \o d).left) \in Nat /\ Len(Cut(b \o d).left) <= Len(b \o d) BY <2>1 DEF CutTyped, Buffers
    <2>4. Len(b \o d) <= BufLen BY <1>1, <1>3 DEF Overflows
    <2> QED BY <1>1, <2>1, <2>2, <2>3, <2>4 DEF CutTyped
  <1> QED BY <1>2, <1>3

(* recv() and frame_buf_push.                                              *)
LEMMA ReceiveCuts ==
  ASSUME ReportInv, FwdInv', NEW s \in Sessions, RelayReceive(s)
  PROVE  ReportInv'
  <1>1. PICK e \in Ends : e = Served(s) BY EndsAre
  <1>2. PICK n \in 1..PieceLen :
          /\ n <= Len(wire[s][e])
          /\ piece' = [piece EXCEPT ![s] = SubSeq(wire[s][e], 1, n)]
          /\ wire' = [wire EXCEPT ![s][e] = SubSeq(@, n + 1, Len(@))]
    BY <1>1 DEF RelayReceive, Receive
  <1>3. pc[s] = "serve" /\ pc' = [pc EXCEPT ![s] = "send"] /\ sent' = sent
    BY DEF RelayReceive, Receive, Goto
  <1>4. /\ sent \in [Sessions -> [Ends -> Seq(Byte)]] /\ wire \in [Sessions -> [Ends -> Seq(Byte)]]
        /\ delivered \in [Sessions -> [Ends -> Seq(Byte)]] /\ DOMAIN piece = Sessions /\ DOMAIN pc = Sessions
        /\ fb \in [Sessions -> [Ends -> Buffers]] /\ reported \in [Sessions -> [Ends -> Seq(Buffers)]]
        /\ spilt \in [Sessions -> SUBSET Ends]
    BY DEF ReportInv, FwdInv, TypeOK, CutterOK
  <1> DEFINE w == wire[s][e]
             q == sent[s][e]
             x == delivered[s][e]
             b == fb[s][e]
  <1>5. w \in Seq(Byte) /\ x \in Seq(Byte) /\ b \in Buffers /\ n \in 1..Len(w) /\ n <= PieceLen
    BY <1>2, <1>4, PieceAssumption DEF PieceAssumption
  <1>6. q = x \o w
    <2>1. sent[s][e] = delivered[s][e] \o Carried(s, e) \o wire[s][e] BY DEF ReportInv, FwdInv, At
    <2>2. Carried(s, e) = <<>> BY <1>3 DEF Carried
    <2>3. x \o <<>> = x BY <1>5, Empty
    <2> QED BY <2>1, <2>2, <2>3
  <1>7. PICK l \in Nat : l = Len(x) BY <1>5
  <1>8. PICK d : d = SubSeq(w, 1, n) OBVIOUS
  <1>9. /\ Len(q) - Len(w) = l /\ n \in Nat /\ d = SubSeq(q, l + 1, l + n)
        /\ l + n <= Len(q) /\ Len(q) - Len(SubSeq(w, n + 1, Len(w))) = l + n
    <2> HIDE DEF x, w, q
    <2>1. /\ Len(x \o w) - Len(w) = Len(x) /\ n \in Nat
          /\ SubSeq(w, 1, n) = SubSeq(x \o w, Len(x) + 1, Len(x) + n)
          /\ Len(x) + n <= Len(x \o w)
          /\ Len(x \o w) - Len(SubSeq(w, n + 1, Len(w))) = Len(x) + n
      BY <1>5, TakenNext
    <2> QED BY <1>6, <1>7, <1>8, <2>1
  <1>10. PICK m, o : Framed(q, m, o) /\ (e \notin spilt[s] => Reported(s, e, m, o))
    BY DEF ReportInv, Cutting, InFrames
  <1>11. q \in Buffers BY <1>10 DEF Framed
  <1>12. d \in Buffers /\ Len(d) = n
    <2>1. l + n \in Nat /\ l <= l + n /\ (l + n) - l = n BY <1>9
    <2> HIDE DEF q
    <2> QED BY <1>9, <1>11, <2>1, PartOf
  <1> DEFINE cut == Pushed(b, d)
  <1>13. /\ cut \in [frames : Seq(Buffers), left : Buffers, lost : BOOLEAN]
         /\ Len(cut.left) <= BufLen
    <2>1. n <= BufLen
      BY <1>2, <1>5, <1>9, SizeAssumption, PieceAssumption, HeadLenType DEF SizeAssumption, PieceAssumption
    <2> HIDE DEF b
    <2> QED BY <1>5, <1>12, <2>1, PushFits
  <1>14. /\ fb' = [fb EXCEPT ![s][e] = cut.left]
         /\ reported' = [reported EXCEPT ![s][e] = @ \o cut.frames]
         /\ spilt' = [spilt EXCEPT ![s] = IF cut.lost \/ Overflows(b, d) THEN @ \cup {e} ELSE @]
    <2>1. piece'[s] = d BY <1>2, <1>4, <1>8
    <2> QED BY <1>1, <2>1 DEF RelayReceive, frame_buf_push
  <1> HIDE DEF cut
  <1>15. /\ fb'[s][e] = cut.left /\ reported'[s][e] = reported[s][e] \o cut.frames
         /\ e \notin spilt'[s] => e \notin spilt[s] /\ ~cut.lost /\ ~Overflows(b, d)
    BY <1>4, <1>14
  <1>16. wire'[s][e] = SubSeq(w, n + 1, Len(w)) /\ sent'[s][e] = q BY <1>2, <1>3, <1>4
  <1>17. CutterOK'
    <2>1. fb' \in [Sessions -> [Ends -> Buffers]] BY <1>4, <1>13, <1>14
    <2>2. reported[s][e] \o cut.frames \in Seq(Buffers) BY <1>4, <1>13
    <2>3. reported' \in [Sessions -> [Ends -> Seq(Buffers)]] BY <1>4, <1>14, <2>2
    <2>4. spilt' \in [Sessions -> SUBSET Ends] BY <1>4, <1>14
    <2> QED BY <2>1, <2>3, <2>4 DEF CutterOK
  <1>18. InFrames(s, e)'
    <2>1. ASSUME e \notin spilt'[s] PROVE Reported(s, e, m, o)'
      <3>1. e \notin spilt[s] /\ ~cut.lost /\ ~Overflows(b, d) BY <1>15, <2>1
      <3>2. PICK k \in 0..m :
              /\ CutUpTo(q, m, o, Len(q) - Len(w), k)
              /\ b = SubSeq(q, o[k] + 1, Len(q) - Len(w))
              /\ Len(reported[s][e]) = k
              /\ \A f \in 1..k : reported[s][e][f] = Bytes(f, o[f] - o[f - 1])
        BY <1>10, <3>1 DEF Reported
      <3>3. CutUpTo(q, m, o, l, k) /\ b = SubSeq(q, o[k] + 1, l) BY <1>9, <3>2
      <3>4. m \in Nat /\ k \in Nat BY <1>10 DEF Framed
      <3> HIDE DEF q, w, b
      <3>5. CutInStep(q, m, o, l + n, k, cut) BY <1>9, <1>10, <3>1, <3>3, PushInStep DEF cut
      <3>6. PICK j \in k..m :
              /\ CutUpTo(q, m, o, l + n, j)
              /\ cut.left = SubSeq(q, o[j] + 1, l + n)
              /\ Len(cut.frames) = j - k
              /\ \A f \in 1..j - k : cut.frames[f] = Bytes(k + f, o[k + f] - o[k + f - 1])
        BY <3>5 DEF CutInStep
      <3>7. j \in 0..m /\ j \in Nat /\ k <= j BY <3>4
      <3>8. reported[s][e] \in Seq(Buffers) /\ cut.frames \in Seq(Buffers) BY <1>4, <1>13
      <3>9. /\ Len(reported[s][e] \o cut.frames) = j
            /\ \A f \in 1..j : (reported[s][e] \o cut.frames)[f] = Bytes(f, o[f] - o[f - 1])
        <4> DEFINE r == reported[s][e]
                   c == cut.frames
        <4>1. /\ r \in Seq(Buffers) /\ c \in Seq(Buffers) /\ Len(r) = k /\ Len(c) = j - k
              /\ \A f \in 1..k : r[f] = Bytes(f, o[f] - o[f - 1])
              /\ \A f \in 1..j - k : c[f] = Bytes(k + f, o[k + f] - o[k + f - 1])
          BY <3>2, <3>6, <3>8
        <4> HIDE DEF r, c
        <4>2. Len(r \o c) = j /\ \A f \in 1..j : (r \o c)[f] = Bytes(f, o[f] - o[f - 1])
          <5>1. /\ Len(r \o c) = k + (j - k)
                /\ \A f \in 1..k + (j - k) : (r \o c)[f] = IF f <= k THEN r[f] ELSE c[f - k]
            BY <4>1, ConcatProperties
          <5>2. k + (j - k) = j BY <3>4, <3>7
          <5>3. ASSUME NEW f \in 1..j PROVE (r \o c)[f] = Bytes(f, o[f] - o[f - 1])
            <6>1. CASE f <= k
              <7>1. f \in 1..k BY <3>4, <3>7, <6>1
              <7> QED BY <4>1, <5>1, <5>2, <6>1, <7>1
            <6>2. CASE ~(f <= k)
              <7>1. f - k \in 1..j - k /\ k + (f - k) = f BY <3>4, <3>7, <6>2
              <7>2. c[f - k] = Bytes(k + (f - k), o[k + (f - k)] - o[k + (f - k) - 1]) BY <4>1, <7>1
              <7> QED BY <5>1, <5>2, <6>2, <7>1, <7>2
            <6> QED BY <6>1, <6>2
          <5> QED BY <5>1, <5>2, <5>3
        <4> QED BY <4>2 DEF r, c
      <3>10. Len(sent'[s][e]) - Len(wire'[s][e]) = l + n BY <1>9, <1>16
      <3>11. /\ CutUpTo(sent'[s][e], m, o, l + n, j)
             /\ fb'[s][e] = SubSeq(sent'[s][e], o[j] + 1, l + n)
             /\ Len(reported'[s][e]) = j
             /\ \A f \in 1..j : reported'[s][e][f] = Bytes(f, o[f] - o[f - 1])
        BY <1>15, <1>16, <3>6, <3>9
      <3> QED BY <3>7, <3>10, <3>11 DEF Reported
    <2>2. Framed(sent'[s][e], m, o) BY <1>10, <1>16
    <2> QED BY <2>1, <2>2 DEF InFrames
  <1>19. \A t \in Sessions, c \in Ends : t # s \/ c # e => SameDirection(t, c)
    <2>1. \A t \in Sessions, c \in Ends : t # s \/ c # e =>
            /\ sent'[t][c] = sent[t][c] /\ wire'[t][c] = wire[t][c]
            /\ fb'[t][c] = fb[t][c] /\ reported'[t][c] = reported[t][c]
      BY <1>2, <1>3, <1>4, <1>14
    <2>2. \A t \in Sessions, c \in Ends : t # s \/ c # e => (c \in spilt'[t] <=> c \in spilt[t])
      BY <1>4, <1>14
    <2> QED BY <2>1, <2>2 DEF SameDirection
  <1>20. \A t \in Sessions, c \in Ends : t # s \/ c # e => InFrames(t, c)' /\ Len(fb'[t][c]) <= BufLen
    BY <1>19, DirectionKept DEF ReportInv, Cutting, SameDirection
  <1>21. \A t \in Sessions : Unused(t)'
    <2>1. pc'[s] = "send" BY <1>3, <1>4
    <2>2. Unused(s)' BY <2>1 DEF Unused, Sending, Paired
    <2>3. ASSUME NEW t \in Sessions \ {s} PROVE Unused(t)'
      <3>1. pc'[t] = pc[t] /\ fb'[t] = fb[t] /\ reported'[t] = reported[t] /\ spilt'[t] = spilt[t]
        BY <1>3, <1>4, <1>14
      <3> QED BY <3>1 DEF ReportInv, Cutting, Unused
    <2> QED BY <2>2, <2>3
  <1> QED BY <1>13, <1>15, <1>17, <1>18, <1>20, <1>21 DEF ReportInv, Cutting

(* connect(): the session's buffers are new.                               *)
LEMMA FreshOfUnused ==
  ASSUME ReportInv, NEW s \in Sessions, pc[s] \notin Sending, FreshBuffers(s)
  PROVE  fb' = fb /\ reported' = reported /\ spilt' = spilt
  <1>1. fb[s] = EmptyBuffers /\ reported[s] = EmptyBuffers /\ spilt[s] = {} BY DEF ReportInv, Cutting, Unused
  <1> QED BY <1>1 DEF FreshBuffers, ReportInv, CutterOK

LEMMA ClosesCuts ==
  ASSUME ReportInv, FwdInv', NEW s \in Sessions, NEW where, NEW kept, Leave(s, where, kept), FreshBuffers(s)
  PROVE  ReportInv'
  <1>1. /\ fb \in [Sessions -> [Ends -> Buffers]] /\ reported \in [Sessions -> [Ends -> Seq(Buffers)]]
        /\ spilt \in [Sessions -> SUBSET Ends]
    BY DEF ReportInv, CutterOK
  <1>2. CutterOK' BY <1>1, EmptyType DEF CutterOK, FreshBuffers
  <1>3. /\ fb'[s] = EmptyBuffers /\ reported'[s] = EmptyBuffers /\ spilt'[s] = {}
        /\ \A t \in Sessions \ {s} : fb'[t] = fb[t] /\ reported'[t] = reported[t] /\ spilt'[t] = spilt[t]
    BY <1>1 DEF FreshBuffers
  <1> QED BY <1>2, <1>3, LeaveCuts

LEMMA ReportStep == ReportInv /\ [RelayNext]_rvars => ReportInv'
  <1> SUFFICES ASSUME ReportInv, [RelayNext]_rvars PROVE ReportInv' OBVIOUS
  <1>1. FwdInv' BY FwdStep, RelayStep DEF ReportInv
  <1>2. CASE UNCHANGED rvars BY <1>1, <1>2, QuietCuts DEF rvars, vars, cutter
  <1>3. ASSUME NEW s \in Sessions, relay_server_task(s) PROVE ReportInv'
    <2>1. pc[s] = "backlog" /\ UNCHANGED cutter
      BY <1>3 DEF relay_server_task, Accepting, AcceptFails, AcceptAndClose, Accept, AcceptAndForget
    <2>2. pc[s] \notin Sending BY <2>1 DEF Sending, Paired
    <2>3. CASE Accept(s)
      <3>1. pc' = [pc EXCEPT ![s] = "task"] /\ UNCHANGED <<sent, wire>> BY <2>3 DEF Accept, Goto
      <3>2. \A t \in Sessions : pc'[t] \notin Sending => pc[t] \notin Sending
        BY <2>2, <3>1 DEF ReportInv, FwdInv, TypeOK
      <3> QED BY <1>1, <2>1, <3>1, <3>2, QuietCuts DEF cutter
    <2>4. ASSUME NEW where, NEW kept, Leave(s, where, kept) PROVE ReportInv'
      <3>1. fb[s] = EmptyBuffers /\ reported[s] = EmptyBuffers /\ spilt[s] = {}
        BY <2>2 DEF ReportInv, Cutting, Unused
      <3>2. CutterOK' BY <2>1 DEF ReportInv, CutterOK, cutter
      <3>3. fb' = fb /\ reported' = reported /\ spilt' = spilt BY <2>1 DEF cutter
      <3> QED BY <1>1, <2>4, <3>1, <3>2, <3>3, LeaveCuts
    <2> QED BY <1>3, <2>3, <2>4
      DEF relay_server_task, Accepting, AcceptFails, AcceptAndClose, AcceptAndForget, CloseBoth
  <1>4. ASSUME NEW s \in Sessions, relay_connects(s) PROVE ReportInv'
    <2>1. pc[s] \in {"task", "connect"} /\ FreshBuffers(s)
      BY <1>4 DEF relay_connects, Connecting, NoServerSocket, OpenSocket, ConnectFails, Connect
    <2>2. pc[s] \notin Sending BY <2>1 DEF Sending
    <2>3. CASE NoServerSocket(s) \/ ConnectFails(s)
      BY <1>1, <2>1, <2>3, ClosesCuts DEF NoServerSocket, ConnectFails, CloseBoth
    <2>4. CASE OpenSocket(s) \/ Connect(s)
      <3>1. PICK where : pc' = [pc EXCEPT ![s] = where] /\ UNCHANGED <<sent, wire>>
        BY <2>4 DEF OpenSocket, Connect, Goto
      <3>2. \A t \in Sessions : pc'[t] \notin Sending => pc[t] \notin Sending
        BY <2>2, <3>1 DEF ReportInv, FwdInv, TypeOK
      <3>3. fb' = fb /\ reported' = reported /\ spilt' = spilt BY <2>1, <2>2, FreshOfUnused
      <3> QED BY <1>1, <3>1, <3>2, <3>3, QuietCuts
    <2> QED BY <1>4, <2>3, <2>4 DEF relay_connects, Connecting
  <1>5. ASSUME NEW s \in Sessions, RelaySelect(s) \/ RelaySendOn(s) PROVE ReportInv'
    <2>1. pc[s] \in Sending /\ UNCHANGED <<sent, wire, fb, reported, spilt>>
      BY <1>5 DEF RelaySelect, RelaySendOn, Select, SendOn, Sending, Paired, cutter
    <2>2. PICK where \in {"serve", "select"} : pc' = [pc EXCEPT ![s] = where]
      BY <1>5 DEF RelaySelect, RelaySendOn, Select, SendOn, Goto
    <2>3. \A t \in Sessions : pc'[t] \notin Sending => pc[t] \notin Sending
      BY <2>2 DEF ReportInv, FwdInv, TypeOK, Sending, Paired
    <2> QED BY <1>1, <2>1, <2>3, QuietCuts
  <1>6. ASSUME NEW s \in Sessions, RelayCloses(s) PROVE ReportInv'
    BY <1>1, <1>6, ClosesCuts DEF RelayCloses, Idle, ReceiveFails, SendFails, CloseBoth
  <1>7. ASSUME NEW s \in Sessions, RelayPeers(s) PROVE ReportInv'
    <2>1. UNCHANGED cutter BY <1>7 DEF RelayPeers
    <2>2. CASE ClientConnects(s)
      <3>1. pc[s] = "free" /\ pc' = [pc EXCEPT ![s] = "backlog"] /\ UNCHANGED <<sent, wire>>
        BY <2>2 DEF ClientConnects, Goto
      <3>2. \A t \in Sessions : pc'[t] \notin Sending => pc[t] \notin Sending
        BY <3>1 DEF ReportInv, FwdInv, TypeOK, Sending, Paired
      <3> QED BY <1>1, <2>1, <3>1, <3>2, QuietCuts DEF cutter
    <2>3. ASSUME NEW e \in Ends, EndLeaves(s, e) PROVE ReportInv'
      BY <1>1, <2>1, <2>3, QuietCuts DEF EndLeaves, cutter
    <2>4. ASSUME NEW e \in Ends, FrameSent(s, e) PROVE ReportInv'
      BY <1>1, <2>1, <2>4, FrameCuts
    <2> QED BY <1>7, <2>2, <2>3, <2>4 DEF RelayPeers
  <1>8. ASSUME NEW s \in Sessions, RelayReceive(s) PROVE ReportInv'
    BY <1>1, <1>8, ReceiveCuts
  <1> QED BY <1>2, <1>3, <1>4, <1>5, <1>6, <1>7, <1>8 DEF RelayNext, relay_loop, relay_returns

-----------------------------------------------------------------------------
(* The size that Whole finds for a frame is the frame's.                   *)
SizeIn(r, f) == (CHOOSE b \in {r[i] : i \in 1..Len(r)} : b.frame = f).size

LEMMA SizeFound ==
  ASSUME NEW q, NEW m, NEW o, Framed(q, m, o), NEW l \in Nat, l <= Len(q),
         NEW k, CutUpTo(q, m, o, l, k), NEW f \in 1..k
  PROVE  SizeIn(SubSeq(q, 1, l), f) = o[f] - o[f - 1]
  <1> DEFINE r == SubSeq(q, 1, l)
             T == {r[i] : i \in 1..Len(r)}
  <1>1. /\ q \in Buffers /\ m \in Nat /\ o \in [0..m -> Nat] /\ k \in 0..m /\ k \in Nat
        /\ HeadLen \in Nat /\ HeadLen >= 3 /\ Len(q) \in Nat /\ o[k] <= l
    <2>1. k \in 0..m /\ o[k] <= l BY DEF CutUpTo
    <2>2. q \in Buffers /\ m \in Nat /\ o \in [0..m -> Nat] BY DEF Framed
    <2>3. k \in Nat /\ Len(q) \in Nat BY <2>1, <2>2 DEF Buffers
    <2> QED BY <2>1, <2>2, <2>3, HeadLenType
  <1>2. Len(r) = l /\ \A i \in 1..l : r[i] = q[i] BY <1>1 DEF Buffers
  <1> HIDE DEF r
  <1>3. f \in 1..m /\ f \in 0..m /\ f - 1 \in 0..m BY <1>1
  <1>4. o[f] \in Nat /\ o[f - 1] \in Nat /\ o[k] \in Nat BY <1>1, <1>3
  <1>5. o[f] - o[f - 1] >= HeadLen BY <1>3 DEF Framed
  <1>6. o[f] <= o[k]
    <2>1. f = k \/ o[f] < o[k] BY <1>1, <1>3 DEF Framed
    <2> QED BY <1>4, <2>1
  <1>7. \E b \in T : b.frame = f
    <2>1. 1 \in 1..o[f] - o[f - 1] /\ o[f - 1] + 1 \in 1..l BY <1>1, <1>4, <1>5, <1>6
    <2>2. q[o[f - 1] + 1].frame = f BY <1>3, <2>1, FrameBytes
    <2>3. r[o[f - 1] + 1].frame = f /\ r[o[f - 1] + 1] \in T BY <1>2, <2>1, <2>2
    <2> QED BY <2>3
  <1>8. \A b \in T : b.frame = f => b.size = o[f] - o[f - 1]
    <2> SUFFICES ASSUME NEW i \in 1..l, q[i].frame = f PROVE q[i].size = o[f] - o[f - 1] BY <1>2
    <2>1. i \in 1..Len(q) BY <1>1
    <2>2. PICK g \in 1..m : o[g - 1] < i /\ i <= o[g] BY <2>1 DEF Framed
    <2>3. g \in 0..m /\ g - 1 \in 0..m BY <1>1
    <2>4. o[g] \in Nat /\ o[g - 1] \in Nat BY <1>1, <2>3
    <2>5. i - o[g - 1] \in 1..o[g] - o[g - 1] /\ o[g - 1] + (i - o[g - 1]) = i BY <2>2, <2>4
    <2>6. q[i].frame = g /\ q[i].size = o[g] - o[g - 1]
      <3>1. /\ q[o[g - 1] + (i - o[g - 1])].frame = g
            /\ q[o[g - 1] + (i - o[g - 1])].size = o[g] - o[g - 1]
        BY <2>5, FrameBytes
      <3> QED BY <2>5, <3>1
    <2> QED BY <2>6
  <1> HIDE DEF T
  <1>9. (CHOOSE b \in T : b.frame = f).size = o[f] - o[f - 1] BY <1>7, <1>8
  <1> QED BY <1>9 DEF T, r, SizeIn

LEMMA ReportedAreWhole == ReportInv => ReportsExact
  <1> SUFFICES ASSUME ReportInv, NEW s \in Sessions, NEW e \in Ends, e \notin spilt[s]
               PROVE  reported[s][e] = Whole(s, e)
    BY DEF ReportsExact
  <1> DEFINE q == sent[s][e]
             w == wire[s][e]
             l == Len(q) - Len(w)
             r == SubSeq(q, 1, l)
  <1>1. PICK m, o : Framed(q, m, o) /\ Reported(s, e, m, o)
    BY DEF ReportInv, Cutting, InFrames
  <1>2. PICK k \in 0..m :
          /\ CutUpTo(q, m, o, l, k)
          /\ Len(reported[s][e]) = k
          /\ \A f \in 1..k : reported[s][e][f] = Bytes(f, o[f] - o[f - 1])
    BY <1>1 DEF Reported
  <1>3. l \in Nat /\ l <= Len(q) /\ l \in 0..Len(q)
    <2>1. /\ q \in Seq(Byte) /\ w \in Seq(Byte) /\ delivered[s][e] \in Seq(Byte) /\ Carried(s, e) \in Seq(Byte)
      BY Empty DEF ReportInv, FwdInv, TypeOK, Carried
    <2>2. q = delivered[s][e] \o Carried(s, e) \o w BY DEF ReportInv, FwdInv, At
    <2> DEFINE x == delivered[s][e] \o Carried(s, e)
    <2>3. x \in Seq(Byte) BY <2>1
    <2>4. q = x \o w BY <2>2
    <2> HIDE DEF q, w, x
    <2>5. Len(x \o w) = Len(x) + Len(w) /\ Len(x) \in Nat /\ Len(w) \in Nat BY <2>1, <2>3
    <2> QED BY <2>4, <2>5
  <1>4. Received(s, e) = r BY DEF Received
  <1> HIDE DEF q, w, l
  <1>5. Cardinality({i \in 1..Len(r) : r[i].pos = r[i].size}) = k
    BY <1>1, <1>2, <1>3, CountsWhole
  <1>6. \A f \in 1..k : SizeIn(r, f) = o[f] - o[f - 1]
    BY <1>1, <1>2, <1>3, SizeFound
  <1> HIDE DEF r
  <1>7. Whole(s, e) = [f \in 1..k |-> Bytes(f, o[f] - o[f - 1])]
    <2>1. Whole(s, e) = [f \in 1..k |-> Bytes(f, SizeIn(r, f))] BY <1>4, <1>5 DEF Whole, SizeIn
    <2> QED BY <1>6, <2>1
  <1>8. reported[s][e] \in Seq(Buffers) BY DEF ReportInv, CutterOK
  <1>9. reported[s][e] = [f \in 1..k |-> reported[s][e][f]]
    <2> DEFINE p == reported[s][e]
    <2>1. p \in Seq(Buffers) /\ Len(p) = k BY <1>2, <1>8
    <2> HIDE DEF p
    <2>2. p \in [1..k -> Buffers] BY <2>1, LenProperties
    <2>3. p = [f \in 1..k |-> p[f]] BY <2>2
    <2> QED BY <2>3 DEF p
  <1> QED BY <1>2, <1>7, <1>9

(* The buffers of a session stay in what frame_buf_t has room for.         *)
THEOREM RelayTypeCorrect ==
  RelaySpec => [](TypeOK /\ CutterOK /\ \A s \in Sessions, e \in Ends : Len(fb[s][e]) <= BufLen)
  <1>1. ReportInv => TypeOK /\ CutterOK /\ \A s \in Sessions, e \in Ends : Len(fb[s][e]) <= BufLen
    BY DEF ReportInv, FwdInv, Cutting
  <1> QED BY <1>1, ReportInit, ReportStep, PTL DEF RelaySpec

(* frame_buf_push: what is reported are the frames that came.              *)
THEOREM RelayReportsExact == RelaySpec => []ReportsExact
  BY ReportedAreWhole, ReportInit, ReportStep, PTL DEF RelaySpec
=============================================================================
