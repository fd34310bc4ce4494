------------------------------- MODULE Pipe --------------------------------
(***************************************************************************)
(* What the dongle firmware's two TCP servers promise: a session carries   *)
(* what each of its two ends sends to the other end, whole, in order and   *)
(* once, until it is cut.  How many pieces the bytes travel in, and what   *)
(* the firmware does with them on their way, is not visible.               *)
(***************************************************************************)
EXTENDS Naturals, Sequences

CONSTANTS
  Sessions, (* the connections served                                      *)
  Ends,     (* the two ends of each                                        *)
  Byte      (* what the ends send                                          *)

VARIABLES
  sent,      (* [Sessions -> [Ends -> sequence]]: what an end has sent     *)
  delivered  (* how much of it was handed on to the other end              *)

vars == <<sent, delivered>>

Silence == [e \in Ends |-> <<>>]

Init ==
  /\ sent = [s \in Sessions |-> Silence]
  /\ delivered = [s \in Sessions |-> Silence]

Send(s, e) ==
  /\ sent' = [sent EXCEPT ![s][e] = sent'[s][e]]
  /\ sent'[s][e] \in Seq(Byte)
  /\ Len(sent'[s][e]) > Len(sent[s][e])
  /\ SubSeq(sent'[s][e], 1, Len(sent[s][e])) = sent[s][e]
  /\ UNCHANGED delivered

Deliver(s, e) ==
  /\ \E n \in Len(delivered[s][e]) + 1 .. Len(sent[s][e]) :
       delivered' = [delivered EXCEPT ![s][e] = SubSeq(sent[s][e], 1, n)]
  /\ UNCHANGED sent

Cut(s) ==
  /\ sent' = [sent EXCEPT ![s] = Silence]
  /\ delivered' = [delivered EXCEPT ![s] = Silence]

Next == \E s \in Sessions : Cut(s) \/ \E e \in Ends : Send(s, e) \/ Deliver(s, e)

Spec == Init /\ [][Next]_vars

(* What was sent is delivered, unless the session is cut first. *)
Delivers(s, e) == WF_vars(Deliver(s, e) \/ Cut(s))
=============================================================================
