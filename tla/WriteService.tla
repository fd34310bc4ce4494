---------------------------- MODULE WriteService ----------------------------
(***************************************************************************)
(* What Home Assistant may expect of queue_write: a bounded queue that     *)
(* sends each accepted write once, in order, and sooner or later.  Writes  *)
(* are numbered from one, so two counters say it all.                      *)
(***************************************************************************)
EXTENDS Naturals

CONSTANTS
  Capacity,   (* how many accepted writes may wait                          *)
  Limit       (* bound: how many writes are made                            *)

VARIABLES
  taken,      (* number of the last write accepted                          *)
  sent        (* number of the last write sent                              *)

Init == taken = 0 /\ sent = 0

(* A write is accepted while fewer than Capacity wait.                     *)
Accept ==
  /\ taken < Limit
  /\ taken - sent < Capacity
  /\ taken' = taken + 1
  /\ UNCHANGED sent

(* The next write in order is sent.                                        *)
Send ==
  /\ sent < taken
  /\ sent' = sent + 1
  /\ UNCHANGED taken

Next == Accept \/ Send

SafetySpec == Init /\ [][Next]_<<taken, sent>>
Spec == SafetySpec /\ WF_<<taken, sent>>(Send)
=============================================================================
