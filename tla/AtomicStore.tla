---------------------------- MODULE AtomicStore ----------------------------
(***************************************************************************)
(* What `tracebench.shards` promises its readers (the correlator, the      *)
(* manifest, a resumed run), who see a shard only through its done marker: *)
(* a shard is complete or absent.  It appears at once, whole, from one run *)
(* with one version of the inputs, and then never changes; a corpus is     *)
(* sealed only when some version's window is full.                         *)
(***************************************************************************)
CONSTANTS
  Shards,
  Wholes,       \* what a whole shard may hold
  Windows,      \* the sets of shards that make a full window
  Absent

VARIABLES
  shelf,        \* shelf[s]: what readers find of shard s, or Absent
  sealed        \* COMPLETE has been written

vars == <<shelf, sealed>>

Init ==
  /\ shelf = [s \in Shards |-> Absent]
  /\ sealed = FALSE

Put(s) ==
  /\ shelf[s] = Absent
  /\ \E whole \in Wholes : shelf' = [shelf EXCEPT ![s] = whole]
  /\ UNCHANGED sealed

Seal ==
  /\ \E window \in Windows : \A s \in window : shelf[s] # Absent
  /\ sealed' = TRUE
  /\ UNCHANGED shelf

Next == Seal \/ \E s \in Shards : Put(s)

Spec == Init /\ [][Next]_vars
=============================================================================
