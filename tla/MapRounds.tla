------------------------------ MODULE MapRounds ------------------------------
(***************************************************************************)
(* What World::Update may assume of MapManager::Update, whether or not it  *)
(* uses map update threads: a round updates every loaded map once, in any  *)
(* order; when it returns, no map is being updated, and only then may the  *)
(* rest of the server touch the maps, load new ones or stop.               *)
(***************************************************************************)
CONSTANTS Maps, Instances

VARIABLES
  phase,                    \* "between", "round" or "stopped"
  loaded,                   \* the loaded instances
  updating,                 \* maps whose Update is running
  updated                   \* maps whose Update of this round is over

vars == <<phase, loaded, updating, updated>>

Init ==
  /\ phase = "between"
  /\ loaded = {}
  /\ updating = {}
  /\ updated = {}

Load(i) ==
  /\ phase = "between"
  /\ loaded' = loaded \union {i}
  /\ UNCHANGED <<phase, updating, updated>>

Begin ==
  /\ phase = "between"
  /\ phase' = "round"
  /\ UNCHANGED <<loaded, updating, updated>>

Start(m) ==
  /\ phase = "round"
  /\ m \in Maps \union loaded
  /\ m \notin updating \union updated
  /\ updating' = updating \union {m}
  /\ UNCHANGED <<phase, loaded, updated>>

Finish(m) ==
  /\ m \in updating
  /\ updating' = updating \ {m}
  /\ updated' = updated \union {m}
  /\ UNCHANGED <<phase, loaded>>

(* Only an instance whose update has not begun may go away in a round. *)
Unload(i) ==
  /\ phase = "round"
  /\ i \in loaded \ (updating \union updated)
  /\ loaded' = loaded \ {i}
  /\ UNCHANGED <<phase, updating, updated>>

End ==
  /\ phase = "round"
  /\ updating = {}
  /\ updated = Maps \union loaded
  /\ phase' = "between"
  /\ updated' = {}
  /\ UNCHANGED <<loaded, updating>>

Stop ==
  /\ phase = "between"
  /\ phase' = "stopped"
  /\ loaded' = {}
  /\ UNCHANGED <<updating, updated>>

Next ==
  \/ Begin \/ End \/ Stop
  \/ \E i \in Instances : Load(i) \/ Unload(i)
  \/ \E m \in Maps \union Instances : Start(m) \/ Finish(m)

Spec == Init /\ [][Next]_vars

=============================================================================
