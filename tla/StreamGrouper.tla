---------------------------- MODULE StreamGrouper ----------------------------
(***************************************************************************)
(* The streaming correlator of internal/events/group.go.  It keeps a list  *)
(* of incident candidates, adds each event to the newest related one or    *)
(* opens another, and evicts candidates by age and by capacity.            *)
(*                                                                         *)
(* The candidate list is append-only and every removal keeps its order, so *)
(* a candidate's place in it is the arrival number of the event that       *)
(* opened it (`born'): the list is a set of candidates ordered by `born'.  *)
(*                                                                         *)
(* Timestamps are wall-clock readings taken by the collector goroutines    *)
(* before they wait for the shared sink, so events may arrive up to        *)
(* MaxSkew late and in another order than they were stamped.               *)
(***************************************************************************)
EXTENDS Integers, Sequences, FiniteSets, Functions

CONSTANTS
  Shapes,            (* events but for arrival number and timestamp        *)
  NoPath,            (* the empty FilePath or ExecutablePath               *)
  CorrelationWindow, InactivityTimeout,                 (* config, in time *)
  MaxCandidates, MaxEvents, MaxRetainedEvents,          (* config, counts  *)
  MaxSkew,           (* how late an event may arrive                       *)
  MaxClock,          (* bound on the clock                                 *)
  MaxAdds            (* bound on the calls of Add                          *)

ASSUME GrouperAssumption ==
  /\ CorrelationWindow \in Nat \ {0} /\ InactivityTimeout \in Nat \ {0}
  /\ MaxCandidates \in Nat \ {0} /\ MaxRetainedEvents \in Nat \ {0}
  /\ MaxEvents \in 1..MaxRetainedEvents
  /\ MaxSkew \in Nat /\ MaxClock \in Nat /\ MaxAdds \in Nat

VARIABLES
  candidates,  (* grouper.candidates                                       *)
  retained,    (* grouper.retained                                         *)
  phase,       (* "trim" inside the eviction loop that ends Add            *)
  clock,       (* time.Now                                                 *)
  observed,    (* the time passed to the last call                         *)
  added,       (* how many events Add has taken                            *)
  joined,      (* history: joined[n] is the candidate the n-th event joined *)
  flushed      (* history: candidates returned as groups                   *)

vars == <<candidates, retained, phase, clock, observed, added, joined, flushed>>

-----------------------------------------------------------------------------
Event(shape, n, ts) == [n |-> n, ts |-> ts, shape |-> shape]

(* event.PID > 0 and event.FilePath # "" go into the indexes.              *)
PidsOf(events) == {e.shape.pid : e \in Range(events)} \ {0}
ArtifactsOf(events) == {e.shape.file : e \in Range(events)} \ {NoPath}

(* newCandidate before its event is added.                                 *)
EmptyCandidate(e) ==
  [born |-> e.n, home |-> e.shape.home, startTime |-> e.ts, lastSeen |-> e.ts,
   events |-> <<>>, pids |-> {}, artifacts |-> {}, dropped |-> 0]

(* Mutant of AddEvent: the indexes keep the events that were dropped.      *)
AddEventStaleIndex(c, e) ==
  LET all  == Append(c.events, e)
      over == Len(all) > MaxEvents
  IN  [c EXCEPT
         !.events    = IF over THEN SubSeq(all, Len(all) - MaxEvents + 1, Len(all))
                               ELSE all,
         !.lastSeen  = IF e.ts > @ THEN e.ts ELSE @,
         !.pids      = @ \cup PidsOf(<<e>>),
         !.artifacts = @ \cup ArtifactsOf(<<e>>),
         !.dropped   = IF over THEN @ + 1 ELSE @]

(* Mutant of AddEvent: a full candidate drops the newest event.            *)
AddEventDropNewest(c, e) ==
  LET all  == Append(c.events, e)
      over == Len(all) > MaxEvents
      kept == IF over THEN SubSeq(all, 1, MaxEvents) ELSE all
  IN  [c EXCEPT
         !.events    = kept,
         !.lastSeen  = IF e.ts > @ THEN e.ts ELSE @,
         !.pids      = PidsOf(kept),
         !.artifacts = ArtifactsOf(kept),
         !.dropped   = IF over THEN @ + 1 ELSE @]

(* candidate.add: append, refresh lastSeen and the indexes; past MaxEvents *)
(* keep the last MaxEvents events, count a drop and rebuild the indexes.   *)
AddEvent(c, e) ==
  LET all  == Append(c.events, e)
      kept == SubSeq(all, Len(all) - MaxEvents + 1, Len(all))
      seen == IF e.ts > c.lastSeen THEN e.ts ELSE c.lastSeen
  IN  IF Len(all) > MaxEvents
        THEN [c EXCEPT !.events = kept, !.lastSeen = seen, !.dropped = @ + 1,
                       !.pids = PidsOf(kept), !.artifacts = ArtifactsOf(kept)]
        ELSE [c EXCEPT !.events = all, !.lastSeen = seen,
                       !.pids = @ \cup PidsOf(<<e>>),
                       !.artifacts = @ \cup ArtifactsOf(<<e>>)]

(* candidate.related: same host and container, inside the window, and a    *)
(* process or an artifact in common.                                       *)
Related(c, e) ==
  /\ c.home = e.shape.home
  /\ e.ts - c.startTime <= CorrelationWindow
  /\ \/ {e.shape.pid, e.shape.ppid} \cap c.pids # {}
     \/ ({e.shape.file, e.shape.exe} \ {NoPath}) \cap c.artifacts # {}

(* Mutant of Active: the window is not checked, only inactivity.           *)
ActiveIgnoringWindow(c, now) == now - c.lastSeen < InactivityTimeout

(* FlushInactive keeps a candidate that is neither inactive nor expired.   *)
Active(c, now) ==
  /\ now - c.lastSeen < InactivityTimeout
  /\ now - c.startTime < CorrelationWindow

(* How many events a set of candidates holds.                              *)
Held(S) == Cardinality(UNION {{c.born} \X (1..Len(c.events)) : c \in S})

(* The scan of Add runs from the end of the list.                          *)
Newest(S) == CHOOSE c \in S : \A d \in S : d.born <= c.born

(* flushOldest: least lastSeen, the first of the list on a tie.            *)
Oldest(S) == CHOOSE c \in S : \A d \in S :
  \/ c.lastSeen < d.lastSeen
  \/ c.lastSeen = d.lastSeen /\ c.born <= d.born

-----------------------------------------------------------------------------
Init ==
  /\ candidates = {} /\ retained = 0 /\ phase = "ready"
  /\ clock = 0 /\ observed = 0
  /\ added = 0 /\ joined = <<>> /\ flushed = {}

(* Mutant of JoinCandidate: the scan goes on and adds to every candidate.  *)
JoinCandidateAll(e, live) ==
  LET related == {d \in live : Related(d, e)}
      grown == {AddEvent(d, e) : d \in related}
      after == (live \ related) \cup grown
  IN  /\ candidates' = after
      /\ flushed' = flushed \cup (candidates \ live)
      /\ retained' = Held(after)
      /\ joined' = Append(joined, Newest(related).born)

(* The branch of Add that finds a related candidate.                       *)
JoinCandidate(e, live) ==
  LET c == Newest({d \in live : Related(d, e)})
      u == AddEvent(c, e)
  IN  /\ candidates' = (live \ {c}) \cup {u}
      /\ flushed' = flushed \cup (candidates \ live)
      /\ retained' = retained - Held(candidates \ live)
                       + (Len(u.events) - Len(c.events))
      /\ joined' = Append(joined, c.born)

(* Mutant of OpenCandidate: an evicted candidate stays in the count.       *)
OpenCandidateUncounted(e, live) ==
  LET full == Cardinality(live) >= MaxCandidates
      kept == IF full THEN live \ {Oldest(live)} ELSE live
      u    == AddEvent(EmptyCandidate(e), e)
  IN  /\ candidates' = kept \cup {u}
      /\ flushed' = flushed \cup (candidates \ kept)
      /\ retained' = retained - Held(candidates \ live) + Len(u.events)
      /\ joined' = Append(joined, e.n)

(* The branch of Add that finds none: open a candidate, evicting the       *)
(* oldest first when there are MaxCandidates already.                      *)
OpenCandidate(e, live) ==
  LET full == Cardinality(live) >= MaxCandidates
      kept == IF full THEN live \ {Oldest(live)} ELSE live
      u    == AddEvent(EmptyCandidate(e), e)
  IN  /\ candidates' = kept \cup {u}
      /\ flushed' = flushed \cup (candidates \ kept)
      /\ retained' = retained - Held(candidates \ kept) + Len(u.events)
      /\ joined' = Append(joined, e.n)

(* Add flushes what the event's timestamp makes inactive and places the    *)
(* event.                                                                  *)
Add(shape, ts) ==
  LET e    == Event(shape, added + 1, ts)
      live == {c \in candidates : Active(c, ts)}
  IN  /\ phase = "ready" /\ added < MaxAdds
      /\ IF \E c \in live : Related(c, e) THEN JoinCandidate(e, live)
                                          ELSE OpenCandidate(e, live)
      /\ added' = added + 1
      /\ observed' = ts
      /\ phase' = "trim"
      /\ UNCHANGED clock

(* `for retained > MaxRetainedEvents': one turn of the loop ending Add.    *)
(* flushOldest indexes the list, so the model has no step without one.     *)
Trim ==
  /\ phase = "trim" /\ retained > MaxRetainedEvents /\ candidates # {}
  /\ LET c == Oldest(candidates)
     IN  /\ candidates' = candidates \ {c}
         /\ flushed' = flushed \cup {c}
         /\ retained' = retained - Len(c.events)
  /\ UNCHANGED <<phase, clock, observed, added, joined>>

AddReturn ==
  /\ phase = "trim" /\ retained <= MaxRetainedEvents
  /\ phase' = "ready"
  /\ UNCHANGED <<candidates, retained, clock, observed, added, joined, flushed>>

(* FlushInactive(time.Now()), from the flush ticker.                       *)
FlushInactive ==
  LET live == {c \in candidates : Active(c, clock)}
  IN  /\ phase = "ready"
      /\ candidates' = live
      /\ flushed' = flushed \cup (candidates \ live)
      /\ retained' = retained - Held(candidates \ live)
      /\ observed' = clock
      /\ UNCHANGED <<phase, clock, added, joined>>

(* Drain, when the sink is closed.                                         *)
Drain ==
  /\ phase = "ready"
  /\ candidates' = {} /\ retained' = 0
  /\ flushed' = flushed \cup candidates
  /\ UNCHANGED <<phase, clock, observed, added, joined>>

Tick ==
  /\ phase = "ready" /\ clock < MaxClock
  /\ clock' = clock + 1
  /\ UNCHANGED <<candidates, retained, phase, observed, added, joined, flushed>>

Next ==
  \/ \E shape \in Shapes, ts \in 0..clock : clock - ts <= MaxSkew /\ Add(shape, ts)
  \/ Trim \/ AddReturn \/ FlushInactive \/ Drain \/ Tick

Spec == Init /\ [][Next]_vars

-----------------------------------------------------------------------------
(* Properties                                                              *)

(* When Add returns the configured limits hold, however late or unrelated  *)
(* the events were, and the running total they are enforced by never       *)
(* drifts from what the candidates hold, through joins, drops inside a     *)
(* candidate, the three ways to evict, and Drain.                          *)
WithinLimits ==
  /\ retained = Held(candidates)
  /\ Cardinality(candidates) <= MaxCandidates
  /\ \A c \in candidates \cup flushed : Len(c.events) \in 1..MaxEvents
  /\ phase = "ready" => Held(candidates) <= MaxRetainedEvents

(* Every event Add took is accounted for by exactly one candidate, active  *)
(* or flushed: kept in arrival order, or counted as dropped, and what is   *)
(* dropped is older than everything kept.                                  *)
HistoryReported ==
  \A n \in 1..added :
    /\ Cardinality({c \in candidates \cup flushed : c.born = joined[n]}) = 1
    /\ \A c \in candidates \cup flushed : c.born = joined[n] =>
         LET mine == {m \in 1..added : joined[m] = c.born}
             kept == [i \in 1..Len(c.events) |-> c.events[i].n]
         IN  /\ Cardinality(mine) = Len(kept) + c.dropped
             /\ Range(kept) \subseteq mine
             /\ \A i \in 2..Len(kept) : kept[i - 1] < kept[i]
             /\ \A m \in mine \ Range(kept) : m < kept[1]

(* The process and artifact indexes a join looks at are those of the       *)
(* events still held, also after older ones were dropped.                  *)
IndexesExact ==
  \A c \in candidates :
    c.pids = PidsOf(c.events) /\ c.artifacts = ArtifactsOf(c.events)

(* No incident spans more than the correlation window plus the skew of     *)
(* event arrival, also when its first events were dropped, and it stays    *)
(* inside one host and container.  After any call no candidate is open     *)
(* that the time it was given makes inactive or expired.                   *)
SpanBounded ==
  /\ \A c \in candidates \cup flushed :
       /\ c.lastSeen - c.startTime < CorrelationWindow
       /\ \A e \in Range(c.events) :
            /\ e.shape.home = c.home
            /\ e.ts \in (c.startTime - MaxSkew)..c.lastSeen
  /\ \A c \in candidates : Active(c, observed)

(* The events of a candidate, those it dropped included.                   *)
Members(c) == {e.n : e \in Range(c.events)} \cup {n \in 1..added : joined[n] = c.born}

Ledger == INSTANCE CandidateLedger WITH
  Items <- 1..MaxAdds,
  held <- {Members(c) : c \in candidates},
  returned <- {Members(c) : c \in flushed}

(* The correlator keeps what runLive relies on: each event is in one       *)
(* candidate, which is returned once, and Drain returns all there are.     *)
ImplementsCandidates ==
  /\ Ledger!Spec
  /\ [][Drain => Ledger!Drain({Members(c) : c \in candidates})]_vars
=============================================================================
