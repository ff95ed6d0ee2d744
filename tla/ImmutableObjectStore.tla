----------------------- MODULE ImmutableObjectStore -----------------------
(***************************************************************************)
(* What every publisher of the cache promises about a final path: an       *)
(* object appears whole, is never replaced while it is there, and may only *)
(* be removed or be damaged from outside.  The generation store and the    *)
(* FileFacts store are both shown to implement this module.                *)
(***************************************************************************)
CONSTANTS
  Names,    \* the final paths, one per content-derived key
  Values    \* the intact values an object may hold

VARIABLE store

Absent  == "absent"
Damaged == "damaged"

TypeOK == store \in [Names -> Values \cup {Absent, Damaged}]

Init == store = [n \in Names |-> Absent]

\* An object is published at a path that holds nothing.
Publish(n, v) ==
  /\ store[n] = Absent
  /\ store' = [store EXCEPT ![n] = v]

\* An object is deleted; deleting what is gone is a stutter.
Remove(n) ==
  /\ store[n] # Absent
  /\ store' = [store EXCEPT ![n] = Absent]

\* The medium damages an object: no program step writes to a final path.
Damage(n) ==
  /\ store[n] \in Values
  /\ store' = [store EXCEPT ![n] = Damaged]

Next ==
  \E n \in Names :
    \/ \E v \in Values : Publish(n, v)
    \/ Remove(n)
    \/ Damage(n)

Spec == Init /\ [][Next]_store
=============================================================================
