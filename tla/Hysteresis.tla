------------------------------ MODULE Hysteresis ------------------------------
(***************************************************************************)
(* What Alpha-Stabler promises (docs/alpha_stabler.md): one controller for *)
(* the whole job.  Each monitored update passes one verdict per layer;     *)
(* Persistence consecutive warnings put the layer under control, and a     *)
(* verdict below the release threshold ends the control.  After a crash    *)
(* the controller is the one of the last checkpoint.                       *)
(***************************************************************************)
EXTENDS Naturals

CONSTANTS
  Layers,       (* monitored layers                                         *)
  Persistence   (* consecutive warnings that enable control                 *)

VARIABLES
  warned,       (* consecutive warnings of each layer                       *)
  on,           (* the layers under control                                 *)
  kept          (* warned and on at the last checkpoint                     *)

vars == <<warned, on, kept>>

Init ==
  /\ warned = [l \in Layers |-> 0]
  /\ on = {}
  /\ kept = [warned |-> warned, on |-> on]

\* One more warning in a row.
Above(l) ==
  /\ warned' = [warned EXCEPT ![l] = @ + 1]
  /\ on' = IF warned[l] + 1 >= Persistence THEN on \cup {l} ELSE on
  /\ UNCHANGED kept

\* Neither a warning nor a release, or no valid shift: the run is broken.
Between(l) ==
  /\ warned' = [warned EXCEPT ![l] = 0]
  /\ UNCHANGED <<on, kept>>

Below(l) ==
  /\ warned' = [warned EXCEPT ![l] = 0]
  /\ on' = on \ {l}
  /\ UNCHANGED kept

Save ==
  /\ kept' = [warned |-> warned, on |-> on]
  /\ UNCHANGED <<warned, on>>

Resume ==
  /\ warned' = kept.warned
  /\ on' = kept.on
  /\ UNCHANGED kept

Next ==
  \/ \E l \in Layers : Above(l) \/ Between(l) \/ Below(l)
  \/ Save
  \/ Resume

Spec == Init /\ [][Next]_vars
=============================================================================
