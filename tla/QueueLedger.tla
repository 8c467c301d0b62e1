----------------------------- MODULE QueueLedger -----------------------------
(***************************************************************************)
(* What a persistence queue promises its callers, without goroutines,      *)
(* mutex, batches or counters.  Every offered item waits and is stored, in *)
(* the order of the offers, or is lost; an item is lost only because the   *)
(* queue was shut, because it had at least Capacity items waiting, or      *)
(* because a save failed, after which nothing is ever stored again.        *)
(***************************************************************************)
EXTENDS Naturals, Sequences, Functions

CONSTANTS
  Items,      (* what callers may offer                                    *)
  Capacity,   (* room the queue offers at least                            *)
  BatchSize   (* items one save may hold on top of Capacity                *)

VARIABLES
  waiting,    (* items accepted and not yet stored or lost, oldest first   *)
  stored,     (* items in the store, oldest first                          *)
  lost,       (* items refused, or given up when a save failed             *)
  phase       (* "open", "closing", "drained" or "failed"                  *)

ledger == <<waiting, stored, lost, phase>>

Known == Range(waiting) \cup Range(stored) \cup lost

Init ==
  /\ waiting = <<>> /\ stored = <<>> /\ lost = {}
  /\ phase = "open"

Accept(e) ==
  /\ phase = "open" /\ e \notin Known
  /\ Len(waiting) < Capacity + BatchSize
  /\ waiting' = Append(waiting, e)
  /\ UNCHANGED <<stored, lost, phase>>

Refuse(e) ==
  /\ e \notin Known
  /\ phase # "open" \/ Len(waiting) >= Capacity
  /\ lost' = lost \cup {e}
  /\ UNCHANGED <<waiting, stored, phase>>

(* The n oldest waiting items are stored together.                         *)
Store(n) ==
  /\ phase \in {"open", "closing"}
  /\ stored' = stored \o SubSeq(waiting, 1, n)
  /\ waiting' = SubSeq(waiting, n + 1, Len(waiting))
  /\ UNCHANGED <<lost, phase>>

Shut ==
  /\ phase = "open"
  /\ phase' = "closing"
  /\ UNCHANGED <<waiting, stored, lost>>

(* A save failed: everything still waiting is lost, for good.              *)
Fail ==
  /\ phase \in {"open", "closing"} /\ waiting # <<>>
  /\ lost' = lost \cup Range(waiting)
  /\ waiting' = <<>>
  /\ phase' = "failed"
  /\ UNCHANGED stored

Drain ==
  /\ phase = "closing" /\ waiting = <<>>
  /\ phase' = "drained"
  /\ UNCHANGED <<waiting, stored, lost>>

StoreSome == \E n \in 1..Len(waiting) : Store(n)

Next ==
  \/ \E e \in Items : Accept(e) \/ Refuse(e)
  \/ StoreSome \/ Shut \/ Fail \/ Drain

Spec == Init /\ [][Next]_ledger

(* What waits is stored or given up, and a shut queue settles.             *)
FairSpec == Spec /\ WF_ledger(StoreSome \/ Fail \/ Drain)
=============================================================================
