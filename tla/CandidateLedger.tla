--------------------------- MODULE CandidateLedger ---------------------------
(***************************************************************************)
(* What the correlator promises the processor, without times, limits and   *)
(* indexes.  An event given to it joins one candidate, or opens one, and   *)
(* stays there until the candidate is returned as a group, which happens   *)
(* once; Drain returns whatever is left.                                   *)
(***************************************************************************)
CONSTANT Items         (* the events                                       *)

VARIABLES
  held,                (* candidates: sets of events                       *)
  returned             (* history: the groups returned                     *)

Init == held = {} /\ returned = {}

(* The candidates after event e joined one of them or opened another.      *)
Placed(e) ==
  {held \union {{e}}} \union
  {(held \ {c}) \union {c \union {e}} : c \in held}

(* A call that returns these groups, of the candidates `before'.           *)
Return(before, groups) == held' = before \ groups

Add(e, before, groups) ==
  /\ e \notin UNION held /\ before \in Placed(e) /\ groups \subseteq before
  /\ Return(before, groups)

Flush(groups) == groups \subseteq held /\ Return(held, groups)

Drain(groups) == groups = held /\ Return(held, groups)

(* A step of the correlator; an event comes once.                          *)
Step(groups) ==
  \/ Flush(groups)
  \/ \E e \in Items : /\ e \notin UNION returned
                      /\ \E before \in Placed(e) : Add(e, before, groups)

Next ==
  \E groups \in SUBSET (returned' \ returned) :
    returned' = returned \union groups /\ Step(groups)

Spec == Init /\ [][Next]_<<held, returned>>
=============================================================================
