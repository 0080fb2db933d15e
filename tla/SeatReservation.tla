--------------------------- MODULE SeatReservation ---------------------------
(***************************************************************************)
(* What the battleground system promises about places, without queues,     *)
(* timers, teleports or counters: an instance offers each side at most     *)
(* Capacity places; a place is given while the instance is open, is kept   *)
(* by the same player on the same side, and is given back at most once;    *)
(* an instance that is over gives no new places and goes away only when    *)
(* every place has been given back.                                        *)
(*                                                                         *)
(* One step may touch several instances: a queue update fills all of them, *)
(* and a player who jumps gives one place back while taking up another.    *)
(***************************************************************************)
EXTENDS Naturals, FiniteSets

CONSTANTS Players, Instances, Sides, NoSide, Capacity

VARIABLES
  phase,  \* [Instances -> {"none", "open", "over"}]
  seat    \* [Instances -> [Players -> Sides or NoSide]], the place a player holds

seatVars == <<phase, seat>>

Init ==
  /\ phase = [i \in Instances |-> "none"]
  /\ seat = [i \in Instances |-> [p \in Players |-> NoSide]]

Taken(s, i, side) == {p \in Players : s[i][p] = side}

\* New places in an instance that is open, or opens with them.
Reserve(i) ==
  /\ phase[i] \in {"none", "open"}
  /\ phase'[i] = "open"
  /\ \A p \in Players : seat[i][p] # NoSide => seat'[i][p] = seat[i][p]
  /\ \A side \in Sides : Cardinality(Taken(seat', i, side)) <= Capacity

Release(i) ==
  /\ phase'[i] = phase[i]
  /\ \A p \in Players : seat'[i][p] \in {seat[i][p], NoSide}

Finish(i) ==
  /\ phase[i] = "open"
  /\ phase'[i] = "over"
  /\ seat'[i] = seat[i]

Close(i) ==
  /\ phase[i] # "none"
  /\ \A p \in Players : seat[i][p] = NoSide
  /\ phase'[i] = "none"
  /\ seat'[i] = seat[i]

Next == \A i \in Instances : Reserve(i) \/ Release(i) \/ Finish(i) \/ Close(i)

Spec == Init /\ [][Next]_seatVars
=============================================================================
