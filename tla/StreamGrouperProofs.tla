------------------------- MODULE StreamGrouperProofs -------------------------
(***************************************************************************)
(* Proofs about the streaming correlator (StreamGrouper.tla), for every    *)
(* set of event shapes, all limits and all times: the limits hold and the  *)
(* running total is exact, the indexes are those of the events held, no    *)
(* incident outgrows its window, every event is accounted for, and the     *)
(* correlator implements CandidateLedger.                                  *)
(*                                                                         *)
(* The two branches of Add are one kind of step, Placed: an event joins a  *)
(* base, which is a candidate or a fresh one, and what is neither the base *)
(* nor kept is flushed.  Every other step flushes some candidates or none, *)
(* Evicted.  Each part of the invariant is proved for these two.           *)
(***************************************************************************)
EXTENDS StreamGrouper, SequenceTheorems, FiniteSetTheorems,
        WellFoundedInduction, TLAPS

Homes == {shape.home : shape \in Shapes}
Pids == {shape.pid : shape \in Shapes}
Paths == {shape.file : shape \in Shapes}

Events == [n : Nat, ts : Nat, shape : Shapes]

Candidate ==
  [born : Nat, home : Homes, startTime : Nat, lastSeen : Nat,
   events : Seq(Events), pids : SUBSET Pids, artifacts : SUBSET Paths,
   dropped : Nat]

Cell(c) == {c.born} \X (1..Len(c.events))

-----------------------------------------------------------------------------
(* Types                                                                   *)

(* The fields of an event.                                                 *)
LEMMA EventType ==
  ASSUME NEW e \in Events
  PROVE  /\ e.n \in Nat /\ e.ts \in Nat /\ e.shape \in Shapes
         /\ e.shape.home \in Homes
BY DEF Events, Homes

(* An event that Add builds from its arguments.                            *)
LEMMA EventIsTyped ==
  ASSUME NEW shape \in Shapes, NEW n \in Nat, NEW ts \in Nat
  PROVE  /\ Event(shape, n, ts) \in Events
         /\ Event(shape, n, ts).n = n
         /\ Event(shape, n, ts).ts = ts
         /\ Event(shape, n, ts).shape = shape
BY DEF Event, Events

(* The fields of a candidate.                                              *)
LEMMA CandidateType ==
  ASSUME NEW c \in Candidate
  PROVE  /\ c.born \in Nat /\ c.home \in Homes
         /\ c.startTime \in Nat /\ c.lastSeen \in Nat
         /\ c.events \in Seq(Events) /\ Len(c.events) \in Nat
         /\ c.pids \in SUBSET Pids /\ c.artifacts \in SUBSET Paths
         /\ c.dropped \in Nat
<1>1. c.events \in Seq(Events) BY DEF Candidate
<1>2. Len(c.events) \in Nat BY <1>1, LenProperties
<1> QED BY <1>1, <1>2 DEF Candidate

(* The indexes of a sequence of events are sets of processes and paths.    *)
LEMMA IndexType ==
  ASSUME NEW s \in Seq(Events)
  PROVE  PidsOf(s) \in SUBSET Pids /\ ArtifactsOf(s) \in SUBSET Paths
<1>1. \A e \in Range(s) : e \in Events
  <2>1. s \in [1..Len(s) -> Events] BY LenProperties
  <2> QED BY <2>1 DEF Range
<1>2. \A e \in Range(s) : e.shape \in Shapes BY <1>1, EventType
<1> QED BY <1>2 DEF PidsOf, ArtifactsOf, Pids, Paths

(* A candidate that newCandidate makes.                                    *)
LEMMA EmptyType ==
  ASSUME NEW e \in Events
  PROVE  /\ EmptyCandidate(e) \in Candidate
         /\ EmptyCandidate(e).born = e.n
         /\ EmptyCandidate(e).home = e.shape.home
         /\ EmptyCandidate(e).startTime = e.ts
         /\ EmptyCandidate(e).lastSeen = e.ts
         /\ EmptyCandidate(e).events = <<>>
         /\ EmptyCandidate(e).dropped = 0
         /\ EmptyCandidate(e).pids = {} /\ EmptyCandidate(e).artifacts = {}
<1>1. <<>> \in Seq(Events) BY EmptySeq
<1>2. /\ e.n \in Nat /\ e.ts \in Nat /\ e.shape.home \in Homes BY EventType
<1> QED BY <1>1, <1>2 DEF EmptyCandidate, Candidate

-----------------------------------------------------------------------------
(* candidate.add                                                           *)

(* The indexes of a sequence that grew by an event.                        *)
LEMMA IndexAppend ==
  ASSUME NEW s \in Seq(Events), NEW e \in Events
  PROVE  /\ PidsOf(Append(s, e)) = PidsOf(s) \cup PidsOf(<<e>>)
         /\ ArtifactsOf(Append(s, e)) = ArtifactsOf(s) \cup ArtifactsOf(<<e>>)
<1>1. Range(Append(s, e)) = Range(s) \cup {e}
  <2>1. /\ Append(s, e) \in Seq(Events) /\ Len(s) \in Nat
        /\ Len(Append(s, e)) = Len(s) + 1
        /\ \A i \in 1..Len(s) : Append(s, e)[i] = s[i]
        /\ Append(s, e)[Len(s) + 1] = e
    BY AppendProperties, LenProperties
  <2>2. DOMAIN Append(s, e) = 1..(Len(s) + 1) /\ DOMAIN s = 1..Len(s)
    BY <2>1, LenProperties
  <2>3. Range(s) \cup {e} \subseteq Range(Append(s, e))
    <3>1. Len(s) + 1 \in 1..(Len(s) + 1) BY <2>1
    <3>2. \A i \in 1..Len(s) : i \in 1..(Len(s) + 1) BY <2>1
    <3> QED BY <2>1, <2>2, <3>1, <3>2 DEF Range
  <2>4. Range(Append(s, e)) \subseteq Range(s) \cup {e}
    <3>1. \A i \in 1..(Len(s) + 1) : i \in 1..Len(s) \/ i = Len(s) + 1 BY <2>1
    <3> QED BY <2>1, <2>2, <3>1 DEF Range
  <2> QED BY <2>3, <2>4
<1>2. Range(<<e>>) = {e} BY DEF Range
<1> QED BY <1>1, <1>2 DEF PidsOf, ArtifactsOf

(* What candidate.add does to a candidate within its limit: the event is   *)
(* the last of the result, which is again within the limit, has all events *)
(* of the candidate or all but the first, and has exact indexes if the     *)
(* candidate had.                                                          *)
Grew(c, u, e) ==
  /\ Len(c.events) < MaxEvents
  /\ Len(u.events) = Len(c.events) + 1
  /\ \A i \in 1..Len(c.events) : u.events[i] = c.events[i]
  /\ u.dropped = c.dropped

Shifted(c, u, e) ==
  /\ Len(c.events) = MaxEvents
  /\ Len(u.events) = MaxEvents
  /\ \A i \in 1..(MaxEvents - 1) : u.events[i] = c.events[i + 1]
  /\ u.dropped = c.dropped + 1

LEMMA AddEventFacts ==
  ASSUME NEW c \in Candidate, Len(c.events) <= MaxEvents, NEW e \in Events
  PROVE  LET u == AddEvent(c, e) IN
         /\ u \in Candidate
         /\ u.born = c.born /\ u.home = c.home /\ u.startTime = c.startTime
         /\ u.lastSeen = IF e.ts > c.lastSeen THEN e.ts ELSE c.lastSeen
         /\ Len(u.events) \in 1..MaxEvents
         /\ u.events[Len(u.events)] = e
         /\ Grew(c, u, e) \/ Shifted(c, u, e)
         /\ /\ c.pids = PidsOf(c.events)
            /\ c.artifacts = ArtifactsOf(c.events)
            => u.pids = PidsOf(u.events) /\ u.artifacts = ArtifactsOf(u.events)
<1> DEFINE all  == Append(c.events, e)
           kept == SubSeq(all, Len(all) - MaxEvents + 1, Len(all))
           seen == IF e.ts > c.lastSeen THEN e.ts ELSE c.lastSeen
           u    == AddEvent(c, e)
<1>1. MaxEvents \in Nat \ {0} BY GrouperAssumption
<1>2. /\ c.events \in Seq(Events) /\ Len(c.events) \in Nat
      /\ c.lastSeen \in Nat /\ c.dropped \in Nat /\ e.ts \in Nat
      /\ c.pids \in SUBSET Pids /\ c.artifacts \in SUBSET Paths
  BY CandidateType, EventType
<1>3. /\ all \in Seq(Events) /\ Len(all) = Len(c.events) + 1
      /\ \A i \in 1..Len(c.events) : all[i] = c.events[i]
      /\ all[Len(c.events) + 1] = e
  BY <1>2, AppendProperties
<1>4. seen \in Nat BY <1>2
<1> HIDE DEF all, kept, seen
<1>5. CASE Len(all) > MaxEvents
  <2>1. Len(c.events) = MaxEvents /\ Len(all) = MaxEvents + 1
    BY <1>1, <1>2, <1>3, <1>5
  <2>2. kept = SubSeq(all, 2, MaxEvents + 1)
    <3>1. Len(all) - MaxEvents + 1 = 2 BY <2>1, <1>1
    <3> QED BY <2>1, <3>1 DEF kept
  <2>3. \A i \in 2..(MaxEvents + 1) : all[i] \in Events
    <3>1. \A i \in 2..(MaxEvents + 1) : i \in 1..Len(all) BY <2>1, <1>1
    <3> QED BY <3>1, <1>3, ElementOfSeq
  <2>4. /\ kept \in Seq(Events) /\ Len(kept) = MaxEvents
        /\ \A i \in 1..MaxEvents : kept[i] = all[i + 1]
    <3>1. /\ SubSeq(all, 2, MaxEvents + 1) \in Seq(Events)
          /\ Len(SubSeq(all, 2, MaxEvents + 1)) =
               IF 2 <= MaxEvents + 1 THEN MaxEvents + 1 - 2 + 1 ELSE 0
          /\ \A i \in 1..(MaxEvents + 1 - 2 + 1) :
               SubSeq(all, 2, MaxEvents + 1)[i] = all[2 + i - 1]
      BY <2>3, <1>1, SubSeqProperties
    <3>2. MaxEvents + 1 - 2 + 1 = MaxEvents /\ 2 <= MaxEvents + 1 BY <1>1
    <3>3. \A i \in 1..MaxEvents : 2 + i - 1 = i + 1 BY <1>1
    <3> QED BY <2>2, <3>1, <3>2, <3>3
  <2>5. u = [c EXCEPT !.events = kept, !.lastSeen = seen,
                      !.dropped = c.dropped + 1,
                      !.pids = PidsOf(kept), !.artifacts = ArtifactsOf(kept)]
    BY <1>5 DEF AddEvent, kept, all, seen
  <2>6. PidsOf(kept) \in SUBSET Pids /\ ArtifactsOf(kept) \in SUBSET Paths
    BY <2>4, IndexType
  <2> HIDE DEF u
  <2>7. /\ u \in Candidate
        /\ u.born = c.born /\ u.home = c.home /\ u.startTime = c.startTime
        /\ u.lastSeen = seen /\ u.events = kept /\ u.dropped = c.dropped + 1
        /\ u.pids = PidsOf(kept) /\ u.artifacts = ArtifactsOf(kept)
    <3>1. c.dropped + 1 \in Nat BY <1>2
    <3> QED BY <2>4, <2>5, <2>6, <3>1, <1>4 DEF Candidate
  <2>8. kept[MaxEvents] = e
    <3>1. MaxEvents \in 1..MaxEvents BY <1>1
    <3> QED BY <2>1, <2>4, <1>3, <3>1
  <2>9. \A i \in 1..(MaxEvents - 1) : kept[i] = c.events[i + 1]
    <3>1. \A i \in 1..(MaxEvents - 1) :
            i \in 1..MaxEvents /\ i + 1 \in 1..Len(c.events)
      BY <2>1, <1>1
    <3> QED BY <2>4, <1>3, <3>1
  <2>10. Shifted(c, u, e)
    BY <2>1, <2>4, <2>7, <2>9 DEF Shifted
  <2>11. MaxEvents \in 1..MaxEvents BY <1>1
  <2> QED BY <2>4, <2>7, <2>8, <2>10, <2>11 DEF u, seen
<1>6. CASE ~ (Len(all) > MaxEvents)
  <2>1. Len(c.events) < MaxEvents /\ Len(all) \in 1..MaxEvents
    BY <1>1, <1>2, <1>3, <1>6
  <2>2. u = [c EXCEPT !.events = all, !.lastSeen = seen,
                      !.pids = c.pids \cup PidsOf(<<e>>),
                      !.artifacts = c.artifacts \cup ArtifactsOf(<<e>>)]
    BY <1>6 DEF AddEvent, kept, all, seen
  <2>3. <<e>> \in Seq(Events) OBVIOUS
  <2>4. /\ PidsOf(<<e>>) \in SUBSET Pids
        /\ ArtifactsOf(<<e>>) \in SUBSET Paths
    BY <2>3, IndexType
  <2> HIDE DEF u
  <2>5. /\ u \in Candidate
        /\ u.born = c.born /\ u.home = c.home /\ u.startTime = c.startTime
        /\ u.lastSeen = seen /\ u.events = all /\ u.dropped = c.dropped
        /\ u.pids = c.pids \cup PidsOf(<<e>>)
        /\ u.artifacts = c.artifacts \cup ArtifactsOf(<<e>>)
    BY <1>2, <1>3, <1>4, <2>2, <2>4 DEF Candidate
  <2>6. /\ PidsOf(all) = PidsOf(c.events) \cup PidsOf(<<e>>)
        /\ ArtifactsOf(all) = ArtifactsOf(c.events) \cup ArtifactsOf(<<e>>)
    BY <1>2, IndexAppend DEF all
  <2>7. Grew(c, u, e) BY <1>3, <2>1, <2>5 DEF Grew
  <2>8. u.events[Len(u.events)] = e BY <1>3, <2>5
  <2> QED BY <2>1, <2>5, <2>6, <2>7, <2>8 DEF u, seen
<1> QED BY <1>5, <1>6

-----------------------------------------------------------------------------
(* Counting held events                                                    *)

LEMMA CellSize ==
  ASSUME NEW c \in Candidate
  PROVE  IsFiniteSet(Cell(c)) /\ Cardinality(Cell(c)) = Len(c.events)
<1>1. IsFiniteSet({c.born}) /\ Cardinality({c.born}) = 1 BY FS_Singleton
<1>2. Len(c.events) \in Nat BY CandidateType
<1>3. /\ IsFiniteSet(1..Len(c.events))
      /\ Cardinality(1..Len(c.events)) = Len(c.events)
  BY <1>2, FS_Interval
<1>4. /\ IsFiniteSet(Cell(c))
      /\ Cardinality(Cell(c)) = Cardinality({c.born}) * Cardinality(1..Len(c.events))
  BY <1>1, <1>3, FS_Product, Zenon DEF Cell
<1> QED BY <1>1, <1>2, <1>3, <1>4

LEMMA HeldFinite ==
  ASSUME NEW S, IsFiniteSet(S), S \subseteq Candidate
  PROVE  /\ IsFiniteSet(UNION {Cell(c) : c \in S})
         /\ Held(S) = Cardinality(UNION {Cell(c) : c \in S})
         /\ Held(S) \in Nat
<1> DEFINE f == [c \in S |-> Cell(c)]
           T == {Cell(c) : c \in S}
<1>1. f \in Surjection(S, T) BY DEF Surjection
<1>2. IsFiniteSet(T) BY <1>1, FS_Surjection
<1>3. \A x \in T : IsFiniteSet(x) BY CellSize
<1> HIDE DEF T
<1>4. IsFiniteSet(UNION T) BY <1>2, <1>3, FS_UNION
<1>5. Held(S) = Cardinality(UNION T) BY DEF Held, T, Cell
<1>6. Cardinality(UNION T) \in Nat BY <1>4, FS_CardinalityType
<1> QED BY <1>4, <1>5, <1>6 DEF T

LEMMA HeldEmpty == Held({}) = 0
<1>1. UNION {{c.born} \X (1..Len(c.events)) : c \in {}} = {} OBVIOUS
<1> QED BY <1>1, FS_EmptySet DEF Held

LEMMA HeldOne ==
  ASSUME NEW c \in Candidate
  PROVE  Held({c}) = Len(c.events)
<1>1. UNION {{d.born} \X (1..Len(d.events)) : d \in {c}} = Cell(c) BY DEF Cell
<1> QED BY <1>1, CellSize DEF Held

(* Candidates opened by different events are counted apart.                *)
LEMMA HeldSum ==
  ASSUME NEW S, IsFiniteSet(S), S \subseteq Candidate,
         NEW T, IsFiniteSet(T), T \subseteq Candidate,
         \A c \in S, d \in T : c.born # d.born
  PROVE  Held(S \cup T) = Held(S) + Held(T)
<1> DEFINE A == UNION {Cell(c) : c \in S}
           B == UNION {Cell(c) : c \in T}
<1>1. IsFiniteSet(A) /\ Held(S) = Cardinality(A) BY HeldFinite
<1>2. IsFiniteSet(B) /\ Held(T) = Cardinality(B) BY HeldFinite
<1>3. Held(S \cup T) = Cardinality(UNION {Cell(c) : c \in S \cup T})
  BY DEF Held, Cell
<1>4. UNION {Cell(c) : c \in S \cup T} = A \cup B OBVIOUS
<1>5. A \cap B = {} BY DEF Cell
<1> HIDE DEF A, B
<1>6. Cardinality(A \cap B) = 0 BY <1>5, FS_EmptySet
<1>7. Cardinality(A) \in Nat /\ Cardinality(B) \in Nat
  BY <1>1, <1>2, FS_CardinalityType
<1>8. Cardinality(A \cup B) = Cardinality(A) + Cardinality(B) - Cardinality(A \cap B)
  BY <1>1, <1>2, FS_Union, Zenon
<1>9. Cardinality(A \cup B) = Cardinality(A) + Cardinality(B)
  BY <1>6, <1>7, <1>8
<1> QED BY <1>1, <1>2, <1>3, <1>4, <1>9

-----------------------------------------------------------------------------
(* The scans                                                               *)

LEMMA NatMin ==
  ASSUME NEW S, S \subseteq Nat, S # {}
  PROVE  \E x \in S : \A y \in S : x <= y
<1>1. \E x \in S : \A y \in S : <<y, x>> \notin OpToRel(<, Nat)
  BY WFMin, NatLessThanWellFounded
<1>2. \A x, y \in Nat : <<y, x>> \notin OpToRel(<, Nat) => x <= y
  BY DEF OpToRel
<1> QED BY <1>1, <1>2

(* The scan of Add ends at an element: it runs from the last arrival back. *)
LEMMA NewestIn ==
  ASSUME NEW k \in Nat, NEW S, S # {}, \A c \in S : c.born \in 1..k
  PROVE  Newest(S) \in S
<1> DEFINE D == {k - c.born : c \in S}
<1>1. D \subseteq Nat /\ D # {} OBVIOUS
<1>2. PICK x \in D : \A y \in D : x <= y
  <2> HIDE DEF D
  <2> QED BY <1>1, NatMin
<1>3. PICK c \in S : x = k - c.born OBVIOUS
<1>4. \A d \in S : d.born <= c.born
  <2> TAKE d \in S
  <2>1. k - c.born <= k - d.born BY <1>2, <1>3
  <2>2. c.born \in 1..k /\ d.born \in 1..k OBVIOUS
  <2> QED BY <2>1, <2>2
<1>5. \E a \in S : \A d \in S : d.born <= a.born BY <1>4
<1> QED BY <1>5 DEF Newest

(* flushOldest picks an element of a list that is not empty.               *)
LEMMA OldestIn ==
  ASSUME NEW S, S # {}, S \subseteq Candidate
  PROVE  Oldest(S) \in S
<1>0. \A c \in S : c.born \in Nat /\ c.lastSeen \in Nat BY CandidateType
<1> DEFINE A == {c.lastSeen : c \in S}
<1>1. PICK a \in A : \A b \in A : a <= b
  <2>1. A \subseteq Nat /\ A # {} BY <1>0
  <2> HIDE DEF A
  <2> QED BY <2>1, NatMin
<1>2. \A d \in S : a <= d.lastSeen BY <1>1
<1> DEFINE T == {c \in S : c.lastSeen = a}
           B == {c.born : c \in T}
<1>3. PICK b \in B : \A d \in B : b <= d
  <2>1. B \subseteq Nat /\ B # {} BY <1>0
  <2> HIDE DEF B
  <2> QED BY <2>1, NatMin
<1>4. PICK c \in T : b = c.born OBVIOUS
<1>5. \A d \in S : \/ c.lastSeen < d.lastSeen
                   \/ c.lastSeen = d.lastSeen /\ c.born <= d.born
  <2> TAKE d \in S
  <2>1. a <= d.lastSeen /\ c.lastSeen = a /\ a \in Nat /\ d.lastSeen \in Nat
    BY <1>0, <1>2
  <2>2. CASE a = d.lastSeen
    <3>1. d.born \in B BY <2>2
    <3> QED BY <1>3, <1>4, <2>1, <2>2, <3>1
  <2>3. CASE a # d.lastSeen BY <2>1, <2>3
  <2> QED BY <2>2, <2>3
<1> HIDE DEF T
<1>6. c \in S BY DEF T
<1> QED BY <1>5, <1>6 DEF Oldest

-----------------------------------------------------------------------------
(* The inductive invariant                                                 *)

All == candidates \cup flushed

TypeOK ==
  /\ candidates \subseteq Candidate /\ IsFiniteSet(candidates)
  /\ flushed \subseteq Candidate
  /\ retained \in Int /\ phase \in {"ready", "trim"}
  /\ clock \in Nat /\ observed \in Nat /\ added \in Nat
  /\ joined \in Seq(Nat) /\ Len(joined) = added

(* A candidate is known by the event that opened it, which joined it, and  *)
(* every event joined a candidate that is still held or was returned.      *)
BornInv ==
  /\ \A c \in All : c.born \in 1..added /\ joined[c.born] = c.born
  /\ \A c, d \in All : c.born = d.born => c = d
  /\ \A n \in 1..added : \E c \in All : c.born = joined[n]
  /\ candidates \cap flushed = {}

CountInv ==
  /\ retained = Held(candidates)
  /\ Cardinality(candidates) <= MaxCandidates
  /\ \A c \in All : Len(c.events) \in 1..MaxEvents
  /\ phase = "ready" => retained <= MaxRetainedEvents

(* A candidate starts no later than now, so a late event is at most        *)
(* MaxSkew older than its start.                                           *)
SpanInv ==
  /\ \A c \in All :
       /\ c.startTime <= clock
       /\ c.lastSeen - c.startTime < CorrelationWindow
       /\ \A i \in 1..Len(c.events) :
            /\ c.events[i].shape.home = c.home
            /\ c.events[i].ts \in (c.startTime - MaxSkew)..c.lastSeen
  /\ \A c \in candidates : Active(c, observed)

(* The events that joined a candidate are the ones it keeps and as many as *)
(* it counts as dropped, all of these older.                               *)
Mine(c) == {m \in 1..added : joined[m] = c.born}

HistoryAt(c) ==
  /\ IsFiniteSet(Mine(c))
  /\ Cardinality(Mine(c)) = Len(c.events) + c.dropped
  /\ \A i \in 1..Len(c.events) : c.events[i].n \in Mine(c)
  /\ \A i \in 2..Len(c.events) : c.events[i - 1].n < c.events[i].n
  /\ \A m \in Mine(c) :
       \/ \E i \in 1..Len(c.events) : m = c.events[i].n
       \/ m < c.events[1].n

HistoryInv == \A c \in All : HistoryAt(c)

IInv == TypeOK /\ BornInv /\ CountInv /\ SpanInv /\ IndexesExact /\ HistoryInv

-----------------------------------------------------------------------------
(* The two kinds of steps                                                  *)

(* Event e joins base, the candidates in kept stay and the rest is         *)
(* flushed.  A base that is no candidate is a fresh one.                   *)
Placed(e, base, kept) ==
  /\ added < MaxAdds
  /\ e \in Events /\ e.n = added + 1 /\ clock - e.ts <= MaxSkew /\ e.ts <= clock
  /\ base \in Candidate /\ kept \subseteq candidates /\ base \notin kept
  /\ \/ /\ base \in candidates /\ Active(base, e.ts)
        /\ base.home = e.shape.home
     \/ base = EmptyCandidate(e) /\ base \notin candidates
  /\ \A c \in kept : Active(c, e.ts)
  /\ Cardinality(kept) < MaxCandidates
  /\ candidates' = kept \cup {AddEvent(base, e)}
  /\ flushed' = flushed \cup (candidates \ (kept \cup {base}))
  /\ retained' = retained - Held(candidates \ (kept \cup {base}))
                   + (Len(AddEvent(base, e).events) - Len(base.events))
  /\ joined' = Append(joined, base.born)
  /\ added' = added + 1 /\ clock' = clock /\ observed' = e.ts
  /\ phase' = "trim"

(* Some candidates are flushed, or none.                                   *)
Evicted ==
  /\ candidates' \subseteq candidates
  /\ flushed' = flushed \cup (candidates \ candidates')
  /\ retained' = retained - Held(candidates \ candidates')
  /\ phase' \in {"ready", "trim"}
  /\ phase' = "ready" => phase = "ready" \/ retained <= MaxRetainedEvents
  /\ clock \in Nat /\ clock' \in Nat /\ clock <= clock'
  /\ observed' \in Nat /\ \A c \in candidates' : Active(c, observed')
  /\ UNCHANGED <<added, joined>>

LEMMA StepCases ==
  ASSUME TypeOK, BornInv, CountInv, SpanInv, [Next]_vars
  PROVE  \/ Evicted
         \/ \E e \in Events, base \in Candidate, kept \in SUBSET candidates :
              Placed(e, base, kept)
<1>0. /\ candidates \subseteq Candidate /\ IsFiniteSet(candidates)
      /\ retained \in Int /\ phase \in {"ready", "trim"}
      /\ clock \in Nat /\ observed \in Nat /\ added \in Nat
  BY DEF TypeOK
<1>1. retained = Held(candidates) BY DEF CountInv
<1>2. Held({}) = 0 BY HeldEmpty
<1>3. ASSUME NEW shape \in Shapes, NEW ts \in 0..clock, clock - ts <= MaxSkew,
             Add(shape, ts)
      PROVE  \E e \in Events, base \in Candidate, kept \in SUBSET candidates :
               Placed(e, base, kept)
  <2> DEFINE e    == Event(shape, added + 1, ts)
             live == {c \in candidates : Active(c, ts)}
  <2>1. /\ e \in Events /\ e.n = added + 1 /\ e.ts = ts /\ e.shape = shape
        /\ e.ts <= clock /\ clock - e.ts <= MaxSkew /\ added < MaxAdds
    BY <1>0, <1>3, EventIsTyped DEF Add
  <2>2. /\ IF \E c \in live : Related(c, e) THEN JoinCandidate(e, live)
                                            ELSE OpenCandidate(e, live)
        /\ added' = added + 1 /\ observed' = ts /\ phase' = "trim"
        /\ clock' = clock
    BY <1>3 DEF Add
  <2>3. live \subseteq candidates /\ \A c \in live : Active(c, ts) OBVIOUS
  <2>4. IsFiniteSet(live) /\ Cardinality(live) <= Cardinality(candidates)
    BY <1>0, <2>3, FS_Subset
  <2>5. /\ Cardinality(candidates) \in Nat /\ Cardinality(live) \in Nat
        /\ Cardinality(candidates) <= MaxCandidates /\ MaxCandidates \in Nat \ {0}
    BY <1>0, <2>4, FS_CardinalityType, GrouperAssumption DEF CountInv
  <2> HIDE DEF e, live
  <2>6. CASE \E c \in live : Related(c, e)
    <3> DEFINE R == {d \in live : Related(d, e)}
               base == Newest(R)
               kept == live \ {base}
    <3>1. base \in R
      <4>1. R # {} /\ \A c \in R : c.born \in 1..added
        BY <2>3, <2>6 DEF BornInv, All
      <4> HIDE DEF R
      <4> QED BY <4>1, <1>0, NewestIn
    <3>2. /\ candidates' = kept \cup {AddEvent(base, e)}
          /\ flushed' = flushed \cup (candidates \ live)
          /\ retained' = retained - Held(candidates \ live)
                           + (Len(AddEvent(base, e).events) - Len(base.events))
          /\ joined' = Append(joined, base.born)
      BY <2>2, <2>6 DEF JoinCandidate
    <3> HIDE DEF base
    <3>3. /\ base \in live /\ base \in candidates /\ base \in Candidate
          /\ Active(base, e.ts) /\ base.home = e.shape.home
      BY <1>0, <2>1, <2>3, <3>1 DEF Related
    <3>4. kept \cup {base} = live BY <3>3
    <3>5. Cardinality(kept) < MaxCandidates
      <4>1. Cardinality(kept) = Cardinality(live) - 1
        BY <2>4, <3>3, FS_RemoveElement
      <4> QED BY <4>1, <2>4, <2>5
    <3>6. /\ kept \in SUBSET candidates /\ base \notin kept
          /\ \A c \in kept : Active(c, e.ts)
      BY <2>1, <2>3
    <3> HIDE DEF kept
    <3>7. Placed(e, base, kept)
      BY <2>1, <2>2, <3>2, <3>3, <3>4, <3>5, <3>6 DEF Placed
    <3> QED BY <2>1, <3>3, <3>6, <3>7
  <2>7. CASE ~ \E c \in live : Related(c, e)
    <3> DEFINE full == Cardinality(live) >= MaxCandidates
               kept == IF full THEN live \ {Oldest(live)} ELSE live
               base == EmptyCandidate(e)
    <3>1. /\ candidates' = kept \cup {AddEvent(base, e)}
          /\ flushed' = flushed \cup (candidates \ kept)
          /\ retained' = retained - Held(candidates \ kept)
                           + Len(AddEvent(base, e).events)
          /\ joined' = Append(joined, e.n)
      BY <2>2, <2>7 DEF OpenCandidate
    <3>2. /\ base \in Candidate /\ base.born = e.n /\ base.events = <<>>
      BY <2>1, EmptyType
    <3>3. Cardinality(kept) < MaxCandidates
      <4>1. CASE full
        <5>1. live # {} BY <2>5, <4>1, FS_EmptySet
        <5>2. Oldest(live) \in live BY <5>1, <2>3, <1>0, OldestIn
        <5>3. Cardinality(live \ {Oldest(live)}) = Cardinality(live) - 1
          BY <2>4, <5>2, FS_RemoveElement
        <5> QED BY <4>1, <5>3, <2>4, <2>5
      <4>2. CASE ~ full BY <4>2, <2>5
      <4> QED BY <4>1, <4>2
    <3>4. base \notin candidates
      <4>1. \A c \in candidates : c.born # added + 1 BY <1>0 DEF BornInv, All
      <4> HIDE DEF base
      <4> QED BY <4>1, <2>1, <3>2
    <3>5. /\ kept \in SUBSET candidates /\ \A c \in kept : Active(c, e.ts)
      BY <2>1, <2>3
    <3> HIDE DEF kept
    <3>6. base \notin kept BY <3>4, <3>5
    <3>7. candidates \ kept = candidates \ (kept \cup {base}) BY <3>4
    <3>8. Len(base.events) = 0 BY <3>2, EmptySeq
    <3>9. Len(AddEvent(base, e).events) \in Nat
      <4>1. Len(base.events) <= MaxEvents BY <3>8, GrouperAssumption
      <4>2. AddEvent(base, e) \in Candidate BY <4>1, <2>1, <3>2, AddEventFacts
      <4> QED BY <4>2, CandidateType
    <3>10. Len(AddEvent(base, e).events) - Len(base.events)
             = Len(AddEvent(base, e).events)
      BY <3>8, <3>9
    <3>11. base = EmptyCandidate(e) OBVIOUS
    <3> HIDE DEF base
    <3>12. Placed(e, base, kept)
      BY <2>1, <2>2, <3>1, <3>2, <3>3, <3>4, <3>5, <3>6, <3>7, <3>10, <3>11
      DEF Placed
    <3> QED BY <2>1, <3>2, <3>5, <3>12
  <2> QED BY <2>6, <2>7
<1>4. CASE Trim
  <2> DEFINE c == Oldest(candidates)
  <2>1. /\ phase = "trim" /\ candidates # {}
        /\ candidates' = candidates \ {c} /\ flushed' = flushed \cup {c}
        /\ retained' = retained - Len(c.events)
        /\ UNCHANGED <<phase, clock, observed, added, joined>>
    BY <1>4 DEF Trim
  <2>2. c \in candidates BY <1>0, <2>1, OldestIn
  <2> HIDE DEF c
  <2>3. candidates \ candidates' = {c} BY <2>1, <2>2
  <2>4. Held({c}) = Len(c.events) BY <1>0, <2>2, HeldOne
  <2>5. \A d \in candidates' : Active(d, observed') BY <2>1 DEF SpanInv
  <2>6. /\ candidates' \subseteq candidates
        /\ flushed' = flushed \cup (candidates \ candidates')
        /\ retained' = retained - Held(candidates \ candidates')
    BY <2>1, <2>3, <2>4
  <2>7. phase' # "ready" BY <2>1
  <2>8. /\ phase' \in {"ready", "trim"} /\ clock' = clock /\ observed' = observed
        /\ UNCHANGED <<added, joined>>
    BY <1>0, <2>1
  <2>9. Evicted BY <1>0, <2>5, <2>6, <2>7, <2>8 DEF Evicted
  <2> QED BY <2>9
<1>5. CASE AddReturn
  <2>1. /\ candidates' = candidates /\ flushed' = flushed /\ retained' = retained
        /\ retained <= MaxRetainedEvents /\ phase' = "ready"
        /\ UNCHANGED <<clock, observed, added, joined>>
    BY <1>5 DEF AddReturn
  <2>2. candidates \ candidates' = {} BY <2>1
  <2>3. \A d \in candidates' : Active(d, observed') BY <2>1 DEF SpanInv
  <2> QED BY <1>0, <1>2, <2>1, <2>2, <2>3 DEF Evicted
<1>6. CASE FlushInactive
  <2> DEFINE live == {c \in candidates : Active(c, clock)}
  <2>1. /\ candidates' = live
        /\ flushed' = flushed \cup (candidates \ live)
        /\ retained' = retained - Held(candidates \ live)
        /\ phase = "ready" /\ observed' = clock
        /\ UNCHANGED <<phase, clock, added, joined>>
    BY <1>6 DEF FlushInactive
  <2>2. live \subseteq candidates /\ \A c \in live : Active(c, clock) OBVIOUS
  <2> HIDE DEF live
  <2> QED BY <1>0, <2>1, <2>2 DEF Evicted
<1>7. CASE Drain
  <2>1. /\ candidates' = {} /\ retained' = 0 /\ flushed' = flushed \cup candidates
        /\ phase = "ready"
        /\ UNCHANGED <<phase, clock, observed, added, joined>>
    BY <1>7 DEF Drain
  <2>2. candidates \ candidates' = candidates BY <2>1
  <2> QED BY <1>0, <1>1, <2>1, <2>2 DEF Evicted
<1>8. CASE Tick \/ UNCHANGED vars
  <2>1. /\ candidates' = candidates /\ flushed' = flushed /\ retained' = retained
        /\ phase' = phase /\ observed' = observed
        /\ clock' \in Nat /\ clock <= clock'
        /\ UNCHANGED <<added, joined>>
    BY <1>0, <1>8 DEF Tick, vars
  <2>2. candidates \ candidates' = {} BY <2>1
  <2>3. \A d \in candidates' : Active(d, observed') BY <2>1 DEF SpanInv
  <2> QED BY <1>0, <1>2, <2>1, <2>2, <2>3 DEF Evicted
<1> QED BY <1>3, <1>4, <1>5, <1>6, <1>7, <1>8 DEF Next

(* The events joined so far and all candidates, after an event is placed.  *)
LEMMA PlacedFacts ==
  ASSUME TypeOK, BornInv, CountInv,
         NEW e, NEW base, NEW kept, Placed(e, base, kept)
  PROVE  LET u == AddEvent(base, e) IN
         /\ \/ base \in candidates /\ base.born \in 1..added
            \/ /\ base \notin All /\ base.born = added + 1
               /\ Len(base.events) = 0 /\ base = EmptyCandidate(e)
         /\ Len(base.events) <= MaxEvents /\ base.born = u.born
         /\ \A c \in All \ {base} : c.born # base.born
         /\ All' = (All \ {base}) \cup {u}
         /\ u \notin flushed'
         /\ joined' \in Seq(Nat) /\ Len(joined') = added + 1
         /\ \A m \in 1..added : joined'[m] = joined[m]
         /\ joined'[added + 1] = base.born
<1> DEFINE u == AddEvent(base, e)
<1>0. /\ candidates \subseteq Candidate /\ flushed \subseteq Candidate
      /\ added \in Nat /\ joined \in Seq(Nat) /\ Len(joined) = added
  BY DEF TypeOK
<1>1. /\ e \in Events /\ e.n = added + 1
      /\ base \in Candidate /\ kept \subseteq candidates /\ base \notin kept
      /\ base \in candidates \/ base = EmptyCandidate(e)
      /\ candidates' = kept \cup {u}
      /\ flushed' = flushed \cup (candidates \ (kept \cup {base}))
      /\ joined' = Append(joined, base.born)
  BY DEF Placed
<1>2. \/ base \in candidates /\ base.born \in 1..added
      \/ /\ base \notin All /\ base.born = added + 1
         /\ Len(base.events) = 0 /\ base = EmptyCandidate(e)
  <2>1. CASE base \in candidates BY <2>1 DEF BornInv, All
  <2>2. CASE base = EmptyCandidate(e)
    <3>1. base.born = added + 1 /\ base.events = <<>> BY <1>1, <2>2, EmptyType
    <3>2. Len(base.events) = 0 BY <3>1, EmptySeq
    <3>3. \A c \in All : c.born # added + 1 BY <1>0 DEF BornInv
    <3>4. base \notin All BY <3>1, <3>3
    <3> QED BY <2>2, <3>1, <3>2, <3>4
  <2> QED BY <1>1, <2>1, <2>2
<1>3. Len(base.events) <= MaxEvents
  <2>1. MaxEvents \in Nat \ {0} BY GrouperAssumption
  <2>2. CASE base \in candidates
    <3>1. Len(base.events) \in 1..MaxEvents BY <2>2 DEF CountInv, All
    <3> QED BY <3>1, <2>1
  <2>3. CASE Len(base.events) = 0 BY <2>1, <2>3
  <2> QED BY <1>2, <2>2, <2>3
<1>4. u.born = base.born BY <1>1, <1>3, AddEventFacts
<1>5. \A c \in All \ {base} : c.born # base.born
  <2>1. CASE base \in candidates BY <2>1 DEF BornInv, All
  <2>2. CASE base.born = added + 1
    <3>1. \A c \in All : c.born \in 1..added BY DEF BornInv
    <3> QED BY <1>0, <2>2, <3>1
  <2> QED BY <1>2, <2>1, <2>2
<1>6. base \notin flushed BY <1>2 DEF BornInv, All
<1> HIDE DEF u
<1>7. All' = (All \ {base}) \cup {u} BY <1>1, <1>6 DEF All
<1>8. u \notin flushed'
  <2>1. \A c \in flushed' : c \in All \ {base} BY <1>1, <1>6 DEF All
  <2> QED BY <1>4, <1>5, <2>1
<1>9. base.born \in Nat BY <1>1, CandidateType
<1>10. /\ joined' \in Seq(Nat) /\ Len(joined') = added + 1
       /\ \A m \in 1..added : joined'[m] = joined[m]
       /\ joined'[added + 1] = base.born
  BY <1>0, <1>1, <1>9, AppendProperties
<1> QED BY <1>2, <1>3, <1>4, <1>5, <1>7, <1>8, <1>10 DEF u

(* An evicting step leaves every candidate as it was.                      *)
LEMMA EvictedFacts ==
  ASSUME TypeOK, Evicted
  PROVE  /\ All' = All /\ candidates' \in SUBSET candidates
         /\ IsFiniteSet(candidates') /\ IsFiniteSet(candidates \ candidates')
         /\ Cardinality(candidates') <= Cardinality(candidates)
         /\ Cardinality(candidates') \in Nat /\ Cardinality(candidates) \in Nat
<1>0. IsFiniteSet(candidates) BY DEF TypeOK
<1>1. /\ candidates' \in SUBSET candidates
      /\ flushed' = flushed \cup (candidates \ candidates')
  BY DEF Evicted
<1>2. /\ IsFiniteSet(candidates')
      /\ Cardinality(candidates') <= Cardinality(candidates)
  BY <1>0, <1>1, FS_Subset
<1>3. IsFiniteSet(candidates \ candidates') BY <1>0, FS_Difference
<1>4. Cardinality(candidates') \in Nat /\ Cardinality(candidates) \in Nat
  BY <1>0, <1>2, FS_CardinalityType
<1>5. All' = All BY <1>1 DEF All
<1> QED BY <1>1, <1>2, <1>3, <1>4, <1>5

-----------------------------------------------------------------------------
(* Each part of the invariant                                              *)

LEMMA HeldSplit ==
  ASSUME TypeOK, BornInv, NEW K \in SUBSET candidates
  PROVE  /\ Held(candidates) = Held(K) + Held(candidates \ K)
         /\ Held(K) \in Nat /\ Held(candidates \ K) \in Nat
<1>1. /\ IsFiniteSet(K) /\ IsFiniteSet(candidates \ K)
      /\ K \subseteq Candidate /\ candidates \ K \subseteq Candidate
  BY FS_Subset, FS_Difference DEF TypeOK
<1>2. \A c \in K, d \in candidates \ K : c.born # d.born BY DEF BornInv, All
<1>3. Held(K \cup (candidates \ K)) = Held(K) + Held(candidates \ K)
  BY <1>1, <1>2, HeldSum
<1>4. K \cup (candidates \ K) = candidates OBVIOUS
<1>5. Held(K) \in Nat /\ Held(candidates \ K) \in Nat BY <1>1, HeldFinite
<1> QED BY <1>3, <1>4, <1>5

LEMMA EvictedTypeOK ==
  ASSUME TypeOK, BornInv, Evicted
  PROVE  TypeOK'
<1>1. /\ candidates \subseteq Candidate /\ flushed \subseteq Candidate
      /\ retained \in Int /\ added \in Nat
      /\ joined \in Seq(Nat) /\ Len(joined) = added
  BY DEF TypeOK
<1>2. /\ candidates' \subseteq candidates /\ IsFiniteSet(candidates')
  BY EvictedFacts
<1>3. /\ flushed' = flushed \cup (candidates \ candidates')
      /\ retained' = retained - Held(candidates \ candidates')
      /\ phase' \in {"ready", "trim"} /\ clock' \in Nat /\ observed' \in Nat
      /\ added' = added /\ joined' = joined
  BY DEF Evicted
<1>4. Held(candidates \ candidates') \in Nat BY <1>2, HeldSplit
<1>5. retained' \in Int BY <1>1, <1>3, <1>4
<1> QED BY <1>1, <1>2, <1>3, <1>5 DEF TypeOK

LEMMA EvictedBornInv ==
  ASSUME TypeOK, BornInv, Evicted
  PROVE  BornInv'
<1>1. All' = All BY EvictedFacts
<1>2. added' = added /\ joined' = joined BY DEF Evicted
<1>3. candidates' \cap flushed' = {} BY DEF Evicted, BornInv
<1> QED BY <1>1, <1>2, <1>3 DEF BornInv

LEMMA EvictedCountInv ==
  ASSUME TypeOK, BornInv, CountInv, Evicted
  PROVE  CountInv'
<1>1. All' = All /\ candidates' \in SUBSET candidates BY EvictedFacts
<1>2. Held(candidates) = Held(candidates') + Held(candidates \ candidates')
      /\ Held(candidates') \in Nat /\ Held(candidates \ candidates') \in Nat
  BY <1>1, HeldSplit
<1>3. /\ retained' = retained - Held(candidates \ candidates')
      /\ phase' = "ready" => phase = "ready" \/ retained <= MaxRetainedEvents
  BY DEF Evicted
<1>4. /\ retained = Held(candidates) /\ retained \in Int
      /\ phase = "ready" => retained <= MaxRetainedEvents
  BY DEF CountInv, TypeOK
<1>5. retained' = Held(candidates') BY <1>2, <1>3, <1>4
<1>6. phase' = "ready" => retained' <= MaxRetainedEvents
  <2>1. MaxRetainedEvents \in Nat BY GrouperAssumption
  <2> QED BY <1>2, <1>3, <1>4, <2>1
<1>7. Cardinality(candidates') <= MaxCandidates
  <2>1. Cardinality(candidates) <= MaxCandidates BY DEF CountInv
  <2>2. MaxCandidates \in Nat BY GrouperAssumption
  <2> QED BY <2>1, <2>2, EvictedFacts
<1>8. \A c \in All' : Len(c.events) \in 1..MaxEvents BY <1>1 DEF CountInv
<1> QED BY <1>5, <1>6, <1>7, <1>8 DEF CountInv

LEMMA EvictedSpanInv ==
  ASSUME TypeOK, SpanInv, Evicted
  PROVE  SpanInv'
<1>1. All' = All BY EvictedFacts
<1>2. \A c \in All : c.startTime <= clock'
  <2>1. \A c \in All : c \in Candidate BY DEF All, TypeOK
  <2>2. clock \in Nat /\ clock' \in Nat /\ clock <= clock' BY DEF Evicted
  <2> TAKE c \in All
  <2>3. c.startTime \in Nat BY <2>1, CandidateType
  <2>4. c.startTime <= clock BY DEF SpanInv
  <2> QED BY <2>2, <2>3, <2>4
<1>3. \A c \in candidates' : Active(c, observed') BY DEF Evicted
<1> QED BY <1>1, <1>2, <1>3 DEF SpanInv

LEMMA EvictedHistoryInv ==
  ASSUME TypeOK, HistoryInv, Evicted
  PROVE  HistoryInv'
<1>1. All' = All BY EvictedFacts
<1>2. added' = added /\ joined' = joined BY DEF Evicted
<1>3. \A c : Mine(c)' = Mine(c) BY <1>2 DEF Mine
<1> QED BY <1>1, <1>3 DEF HistoryInv, HistoryAt

LEMMA EvictedInv ==
  ASSUME IInv, Evicted
  PROVE  IInv'
<1>1. IndexesExact' BY DEF IInv, Evicted, IndexesExact
<1> QED BY <1>1, EvictedTypeOK, EvictedBornInv, EvictedCountInv, EvictedSpanInv,
           EvictedHistoryInv DEF IInv

LEMMA PlacedTypeOK ==
  ASSUME TypeOK, BornInv, CountInv,
         NEW e, NEW base, NEW kept, Placed(e, base, kept)
  PROVE  TypeOK'
<1> DEFINE u == AddEvent(base, e)
<1>0. /\ candidates \subseteq Candidate /\ flushed \subseteq Candidate
      /\ IsFiniteSet(candidates) /\ retained \in Int /\ added \in Nat
      /\ clock \in Nat
  BY DEF TypeOK
<1>1. /\ e \in Events /\ base \in Candidate /\ kept \subseteq candidates
      /\ candidates' = kept \cup {u}
      /\ flushed' = flushed \cup (candidates \ (kept \cup {base}))
      /\ retained' = retained - Held(candidates \ (kept \cup {base}))
                       + (Len(u.events) - Len(base.events))
      /\ added' = added + 1 /\ clock' = clock /\ observed' = e.ts
      /\ phase' = "trim"
  BY DEF Placed
<1>2. u \in Candidate BY <1>1, PlacedFacts, AddEventFacts
<1> HIDE DEF u
<1>3. IsFiniteSet(candidates')
  <2>1. IsFiniteSet(kept) BY <1>0, <1>1, FS_Subset
  <2> QED BY <1>1, <2>1, FS_AddElement
<1>4. retained' \in Int
  <2>1. Held(candidates \ (kept \cup {base})) \in Nat
    <3>1. candidates \ (kept \cup {base}) \in SUBSET candidates OBVIOUS
    <3> QED BY <3>1, HeldSplit
  <2>2. Len(u.events) \in Nat /\ Len(base.events) \in Nat
    BY <1>1, <1>2, CandidateType
  <2> DEFINE gone == Held(candidates \ (kept \cup {base}))
  <2>3. retained' = retained - gone + (Len(u.events) - Len(base.events))
    BY <1>1
  <2>4. gone \in Nat BY <2>1
  <2> HIDE DEF gone
  <2> QED BY <1>0, <2>2, <2>3, <2>4
<1>5. joined' \in Seq(Nat) /\ Len(joined') = added' BY <1>1, PlacedFacts
<1>6. e.ts \in Nat BY <1>1, EventType
<1>7. candidates' \subseteq Candidate /\ flushed' \subseteq Candidate
  BY <1>0, <1>1, <1>2
<1>8. /\ clock' \in Nat /\ observed' \in Nat /\ added' \in Nat
      /\ phase' \in {"ready", "trim"}
  BY <1>0, <1>1, <1>6
<1> QED BY <1>3, <1>4, <1>5, <1>7, <1>8 DEF TypeOK

LEMMA PlacedBornInv ==
  ASSUME TypeOK, BornInv, CountInv,
         NEW e, NEW base, NEW kept, Placed(e, base, kept)
  PROVE  BornInv'
<1> DEFINE u == AddEvent(base, e)
<1>1. /\ \/ base \in candidates /\ base.born \in 1..added
         \/ base.born = added + 1
      /\ base.born = u.born
      /\ \A c \in All \ {base} : c.born # base.born
      /\ All' = (All \ {base}) \cup {u}
      /\ u \notin flushed'
      /\ \A m \in 1..added : joined'[m] = joined[m]
      /\ joined'[added + 1] = base.born
  BY PlacedFacts
<1>2. /\ kept \subseteq candidates /\ candidates' = kept \cup {u}
      /\ flushed' = flushed \cup (candidates \ (kept \cup {base}))
      /\ added' = added + 1
  BY DEF Placed
<1> HIDE DEF u
<1>3. /\ \A c \in All : c.born \in 1..added /\ joined[c.born] = c.born
      /\ \A c, d \in All : c.born = d.born => c = d
      /\ \A n \in 1..added : \E c \in All : c.born = joined[n]
      /\ candidates \cap flushed = {} /\ added \in Nat
  BY DEF BornInv, TypeOK
<1>4. \A m : m \in 1..added' <=> m \in 1..added \/ m = added + 1
  BY <1>2, <1>3
<1>5. u.born \in 1..added' /\ joined'[u.born] = u.born
  <2>1. CASE base \in candidates
    <3>1. base.born \in 1..added /\ joined[base.born] = base.born
      BY <1>3, <2>1 DEF All
    <3> QED BY <1>1, <1>4, <3>1
  <2>2. CASE base.born = added + 1 BY <1>1, <1>4, <2>2
  <2> QED BY <1>1, <2>1, <2>2
<1>6. \A c \in All' : c.born \in 1..added' /\ joined'[c.born] = c.born
  BY <1>1, <1>3, <1>4, <1>5
<1>7. \A c, d \in All' : c.born = d.born => c = d BY <1>1, <1>3
<1>8. \A n \in 1..added' : \E c \in All' : c.born = joined'[n]
  <2> TAKE n \in 1..added'
  <2>1. CASE n = added + 1 BY <1>1, <2>1
  <2>2. CASE n \in 1..added
    <3>1. PICK c \in All : c.born = joined[n] BY <1>3, <2>2
    <3>2. joined'[n] = joined[n] BY <1>1, <2>2
    <3>3. CASE c = base BY <1>1, <3>1, <3>2, <3>3
    <3>4. CASE c # base BY <1>1, <3>1, <3>2, <3>4
    <3> QED BY <3>3, <3>4
  <2> QED BY <1>4, <2>1, <2>2
<1>9. candidates' \cap flushed' = {} BY <1>1, <1>2, <1>3
<1> QED BY <1>6, <1>7, <1>8, <1>9 DEF BornInv

(* The running total: what is flushed and what the event adds.             *)
LEMMA PlacedCountInv ==
  ASSUME TypeOK, BornInv, CountInv,
         NEW e, NEW base, NEW kept, Placed(e, base, kept)
  PROVE  CountInv'
<1> DEFINE u == AddEvent(base, e)
           gone == candidates \ (kept \cup {base})
<1>0. /\ candidates \subseteq Candidate /\ IsFiniteSet(candidates)
      /\ retained \in Int /\ retained = Held(candidates)
      /\ \A c \in All : Len(c.events) \in 1..MaxEvents
  BY DEF TypeOK, CountInv
<1>1. /\ e \in Events /\ base \in Candidate /\ kept \subseteq candidates
      /\ base \notin kept /\ Cardinality(kept) < MaxCandidates
      /\ candidates' = kept \cup {u}
      /\ retained' = retained - Held(gone) + (Len(u.events) - Len(base.events))
      /\ phase' = "trim"
  BY DEF Placed
<1>2. /\ \/ base \in candidates
         \/ base \notin All /\ Len(base.events) = 0
      /\ base.born = u.born /\ Len(base.events) <= MaxEvents
      /\ \A c \in All \ {base} : c.born # base.born
      /\ All' = (All \ {base}) \cup {u}
  BY PlacedFacts
<1>3. u \in Candidate /\ Len(u.events) \in 1..MaxEvents
  BY <1>1, <1>2, AddEventFacts
<1> HIDE DEF u
<1>4. IsFiniteSet(kept) /\ kept \subseteq Candidate
  BY <1>0, <1>1, FS_Subset
<1>5. \A c \in kept : c.born # base.born BY <1>1, <1>2 DEF All
<1>6. Held(kept \cup {u}) = Held(kept) + Len(u.events)
  <2>1. IsFiniteSet({u}) /\ {u} \subseteq Candidate BY <1>3, FS_Singleton
  <2>2. \A c \in kept, d \in {u} : c.born # d.born BY <1>2, <1>5
  <2>3. Held(kept \cup {u}) = Held(kept) + Held({u}) BY <1>4, <2>1, <2>2, HeldSum
  <2> QED BY <1>3, <2>3, HeldOne
<1>7. Held(candidates) = Held(kept) + Len(base.events) + Held(gone)
  <2>1. CASE base \in candidates
    <3>1. IsFiniteSet({base}) /\ {base} \subseteq Candidate BY <1>1, FS_Singleton
    <3>2. \A c \in kept, d \in {base} : c.born # d.born BY <1>5
    <3>3. Held(kept \cup {base}) = Held(kept) + Held({base})
      BY <1>4, <3>1, <3>2, HeldSum
    <3>4. Held({base}) = Len(base.events) BY <1>1, HeldOne
    <3>5. Held(candidates) = Held(kept \cup {base}) + Held(gone)
      <4>1. kept \cup {base} \in SUBSET candidates BY <1>1, <2>1
      <4> QED BY <4>1, HeldSplit
    <3> QED BY <3>3, <3>4, <3>5
  <2>2. CASE base \notin All /\ Len(base.events) = 0
    <3>1. gone = candidates \ kept BY <2>2 DEF All
    <3>2. Held(candidates) = Held(kept) + Held(candidates \ kept)
          /\ Held(kept) \in Nat
      BY <1>1, HeldSplit
    <3>3. Held(candidates) = Held(kept) + Held(gone) BY <3>1, <3>2
    <3>4. Held(gone) \in Nat
      <4>1. gone \in SUBSET candidates OBVIOUS
      <4> QED BY <4>1, HeldSplit
    <3> HIDE DEF gone
    <3> QED BY <2>2, <3>2, <3>3, <3>4
  <2> QED BY <1>2, <2>1, <2>2
<1>8. Held(kept) \in Nat /\ Held(gone) \in Nat
  <2>1. kept \in SUBSET candidates /\ gone \in SUBSET candidates BY <1>1
  <2> QED BY <2>1, HeldSplit
<1> HIDE DEF gone
<1>9. Len(u.events) \in Nat /\ Len(base.events) \in Nat
  BY <1>1, <1>3, CandidateType
<1>10. retained' = Held(kept \cup {u})
  <2>1. retained' = retained - Held(gone) + (Len(u.events) - Len(base.events))
    BY <1>1
  <2>2. retained = Held(kept) + Len(base.events) + Held(gone) BY <1>0, <1>7
  <2> DEFINE h == Held(kept)
             g == Held(gone)
             lu == Len(u.events)
             lb == Len(base.events)
  <2>3. h \in Nat /\ g \in Nat /\ lu \in Nat /\ lb \in Nat BY <1>8, <1>9
  <2>4. retained' = retained - g + (lu - lb) /\ retained = h + lb + g
    BY <2>1, <2>2
  <2> HIDE DEF h, g, lu, lb
  <2>5. retained' = h + lu BY <2>3, <2>4
  <2> QED BY <1>6, <2>5 DEF h, lu
<1>11. retained' = Held(candidates') BY <1>1, <1>10
<1>12. Cardinality(candidates') <= MaxCandidates
  <2>1. Cardinality(kept \cup {u})
          = IF u \in kept THEN Cardinality(kept) ELSE Cardinality(kept) + 1
    BY <1>4, FS_AddElement
  <2>2. Cardinality(kept) \in Nat /\ MaxCandidates \in Nat
    BY <1>4, FS_CardinalityType, GrouperAssumption
  <2> QED BY <1>1, <2>1, <2>2
<1>13. \A c \in All' : Len(c.events) \in 1..MaxEvents BY <1>0, <1>2, <1>3
<1> QED BY <1>1, <1>11, <1>12, <1>13 DEF CountInv

LEMMA PlacedIndexes ==
  ASSUME TypeOK, BornInv, CountInv, IndexesExact,
         NEW e, NEW base, NEW kept, Placed(e, base, kept)
  PROVE  IndexesExact'
<1> DEFINE u == AddEvent(base, e)
<1>1. /\ e \in Events /\ base \in Candidate /\ kept \subseteq candidates
      /\ candidates' = kept \cup {u}
      /\ base \in candidates \/ base = EmptyCandidate(e)
  BY DEF Placed
<1>2. Len(base.events) <= MaxEvents BY PlacedFacts
<1>3. base.pids = PidsOf(base.events) /\ base.artifacts = ArtifactsOf(base.events)
  <2>1. CASE base \in candidates BY <2>1 DEF IndexesExact
  <2>2. CASE base = EmptyCandidate(e)
    <3>1. base.events = <<>> /\ base.pids = {} /\ base.artifacts = {}
      BY <1>1, <2>2, EmptyType
    <3>2. Range(<<>>) = {} BY DEF Range
    <3> QED BY <3>1, <3>2 DEF PidsOf, ArtifactsOf
  <2> QED BY <1>1, <2>1, <2>2
<1>4. u.pids = PidsOf(u.events) /\ u.artifacts = ArtifactsOf(u.events)
  BY <1>1, <1>2, <1>3, AddEventFacts
<1> HIDE DEF u
<1> QED BY <1>1, <1>4 DEF IndexesExact

(* The fields of a base: a fresh one is in its window and on time as well. *)
LEMMA BaseSpan ==
  ASSUME TypeOK, SpanInv, NEW e, NEW base, NEW kept, Placed(e, base, kept)
  PROVE  /\ base.startTime <= clock /\ base.home = e.shape.home
         /\ base.lastSeen - base.startTime < CorrelationWindow
         /\ e.ts - base.startTime < CorrelationWindow
         /\ \A i \in 1..Len(base.events) :
              /\ base.events[i].shape.home = base.home
              /\ base.events[i].ts \in (base.startTime - MaxSkew)..base.lastSeen
<1>1. /\ e \in Events /\ e.ts <= clock
      /\ \/ base \in candidates /\ Active(base, e.ts) /\ base.home = e.shape.home
         \/ base = EmptyCandidate(e)
  BY DEF Placed
<1>2. CASE base \in candidates /\ Active(base, e.ts) /\ base.home = e.shape.home
  BY <1>2 DEF SpanInv, All, Active
<1>3. CASE base = EmptyCandidate(e)
  <2>1. /\ base.startTime = e.ts /\ base.lastSeen = e.ts
        /\ base.home = e.shape.home /\ base.events = <<>>
    BY <1>1, <1>3, EmptyType
  <2>2. e.ts - e.ts < CorrelationWindow
    BY <1>1, EventType, GrouperAssumption
  <2>3. 1..Len(base.events) = {} BY <2>1
  <2> QED BY <1>1, <2>1, <2>2, <2>3
<1> QED BY <1>1, <1>2, <1>3

LEMMA PlacedSpanInv ==
  ASSUME TypeOK, BornInv, CountInv, SpanInv,
         NEW e, NEW base, NEW kept, Placed(e, base, kept)
  PROVE  SpanInv'
<1> DEFINE u == AddEvent(base, e)
<1>1. /\ e \in Events /\ base \in Candidate /\ kept \subseteq candidates
      /\ clock - e.ts <= MaxSkew /\ e.ts <= clock
      /\ \A c \in kept : Active(c, e.ts)
      /\ candidates' = kept \cup {u} /\ clock' = clock /\ observed' = e.ts
  BY DEF Placed
<1>2. /\ Len(base.events) <= MaxEvents /\ All' = (All \ {base}) \cup {u}
  BY PlacedFacts
<1>3. /\ u \in Candidate /\ u.home = base.home /\ u.startTime = base.startTime
      /\ u.lastSeen = IF e.ts > base.lastSeen THEN e.ts ELSE base.lastSeen
      /\ Len(u.events) \in 1..MaxEvents /\ u.events[Len(u.events)] = e
      /\ Grew(base, u, e) \/ Shifted(base, u, e)
  BY <1>1, <1>2, AddEventFacts
<1> HIDE DEF u
<1>4. /\ base.startTime <= clock /\ base.home = e.shape.home
      /\ base.lastSeen - base.startTime < CorrelationWindow
      /\ e.ts - base.startTime < CorrelationWindow
      /\ \A i \in 1..Len(base.events) :
           /\ base.events[i].shape.home = base.home
           /\ base.events[i].ts \in (base.startTime - MaxSkew)..base.lastSeen
  BY BaseSpan
<1>5. /\ e.ts \in Nat /\ base.startTime \in Nat /\ base.lastSeen \in Nat
      /\ clock \in Nat /\ MaxSkew \in Nat /\ Len(base.events) \in Nat
      /\ CorrelationWindow \in Nat /\ InactivityTimeout \in Nat \ {0}
      /\ MaxEvents \in Nat \ {0}
  BY <1>1, EventType, CandidateType, GrouperAssumption DEF TypeOK
<1>6. /\ u.lastSeen \in Nat /\ u.lastSeen >= base.lastSeen /\ u.lastSeen >= e.ts
      /\ u.lastSeen - u.startTime < CorrelationWindow
  BY <1>3, <1>4, <1>5
<1>7. Active(u, e.ts)
  <2>1. e.ts - u.lastSeen < InactivityTimeout BY <1>5, <1>6
  <2> QED BY <1>3, <1>4, <2>1 DEF Active
<1>8. \A i \in 1..Len(u.events) :
        /\ u.events[i].shape.home = u.home
        /\ u.events[i].ts \in (u.startTime - MaxSkew)..u.lastSeen
  <2>1. e.ts \in (u.startTime - MaxSkew)..u.lastSeen
    BY <1>1, <1>3, <1>4, <1>5, <1>6
  <2> TAKE i \in 1..Len(u.events)
  <2>2. \/ u.events[i] = e
        \/ \E j \in 1..Len(base.events) : u.events[i] = base.events[j]
    <3>1. CASE Grew(base, u, e)
      <4>1. i \in 1..Len(base.events) \/ i = Len(u.events)
        BY <1>5, <3>1 DEF Grew
      <4> QED BY <1>3, <3>1, <4>1 DEF Grew
    <3>2. CASE Shifted(base, u, e)
      <4>1. \/ i \in 1..(MaxEvents - 1) /\ i + 1 \in 1..Len(base.events)
            \/ i = Len(u.events)
        BY <1>5, <3>2 DEF Shifted
      <4> QED BY <1>3, <3>2, <4>1 DEF Shifted
    <3> QED BY <1>3, <3>1, <3>2
  <2>3. CASE u.events[i] = e BY <1>3, <1>4, <2>1, <2>3
  <2>4. ASSUME NEW j \in 1..Len(base.events), u.events[i] = base.events[j]
        PROVE  /\ u.events[i].shape.home = u.home
               /\ u.events[i].ts \in (u.startTime - MaxSkew)..u.lastSeen
    <3>1. base.events[j].ts \in (base.startTime - MaxSkew)..base.lastSeen
      BY <1>4
    <3>2. base.events[j].ts \in (u.startTime - MaxSkew)..u.lastSeen
      BY SMTT(30), <1>3, <1>5, <1>6, <3>1
    <3> QED BY <1>3, <1>4, <2>4, <3>2
  <2> QED BY <2>2, <2>3, <2>4
<1>9. \A c \in All' :
        /\ c.startTime <= clock'
        /\ c.lastSeen - c.startTime < CorrelationWindow
        /\ \A i \in 1..Len(c.events) :
             /\ c.events[i].shape.home = c.home
             /\ c.events[i].ts \in (c.startTime - MaxSkew)..c.lastSeen
  <2> SUFFICES ASSUME NEW c \in All'
               PROVE  /\ c.startTime <= clock'
                      /\ c.lastSeen - c.startTime < CorrelationWindow
                      /\ \A i \in 1..Len(c.events) :
                           /\ c.events[i].shape.home = c.home
                           /\ c.events[i].ts
                                \in (c.startTime - MaxSkew)..c.lastSeen
    OBVIOUS
  <2>1. CASE c \in All BY <1>1, <2>1 DEF SpanInv
  <2>2. CASE c = u BY <1>1, <1>3, <1>4, <1>6, <1>8, <2>2
  <2> QED BY <1>2, <2>1, <2>2
<1>10. \A c \in candidates' : Active(c, observed') BY <1>1, <1>7
<1> QED BY <1>9, <1>10 DEF SpanInv

-----------------------------------------------------------------------------
(* History                                                                 *)

(* The history of a base: no event joined a fresh one.                     *)
LEMMA BaseHistory ==
  ASSUME TypeOK, BornInv, CountInv, HistoryInv,
         NEW e, NEW base, NEW kept, Placed(e, base, kept)
  PROVE  /\ HistoryAt(base)
         /\ Len(base.events) = 0 => Mine(base) = {}
<1>1. \/ base \in candidates
      \/ /\ base.born = added + 1 /\ Len(base.events) = 0
         /\ base = EmptyCandidate(e) /\ e \in Events
  BY PlacedFacts DEF Placed
<1>2. CASE base \in candidates
  <2>1. Len(base.events) \in 1..MaxEvents BY <1>2 DEF CountInv, All
  <2>2. Len(base.events) # 0 BY <2>1
  <2> QED BY <1>2, <2>2 DEF HistoryInv, All
<1>3. CASE /\ base.born = added + 1 /\ Len(base.events) = 0
           /\ base = EmptyCandidate(e) /\ e \in Events
  <2>1. \A m \in 1..added : joined[m] # added + 1
    <3> TAKE m \in 1..added
    <3>1. PICK c \in All : c.born = joined[m] BY DEF BornInv
    <3>2. c.born \in 1..added BY DEF BornInv
    <3>3. added \in Nat BY DEF TypeOK
    <3> QED BY <3>1, <3>2, <3>3
  <2>2. Mine(base) = {} BY <1>3, <2>1 DEF Mine
  <2>3. IsFiniteSet(Mine(base)) /\ Cardinality(Mine(base)) = 0
    BY <2>2, FS_EmptySet
  <2>4. base.dropped = 0 BY <1>3, EmptyType
  <2>5. 1..Len(base.events) = {} /\ 2..Len(base.events) = {} BY <1>3
  <2> QED BY <1>3, <2>2, <2>3, <2>4, <2>5 DEF HistoryAt
<1> QED BY <1>1, <1>2, <1>3

(* The events of a candidate after one more joined it.                     *)
LEMMA PlacedHistory ==
  ASSUME TypeOK, BornInv, CountInv, HistoryInv,
         NEW e, NEW base, NEW kept, Placed(e, base, kept)
  PROVE  LET u == AddEvent(base, e) IN
         /\ Mine(u)' = Mine(base) \cup {added + 1}
         /\ HistoryAt(u)'
<1> DEFINE u == AddEvent(base, e)
           M == Mine(base)
           L == Len(base.events)
<1>1. /\ e \in Events /\ e.n = added + 1 /\ base \in Candidate
      /\ added' = added + 1
  BY DEF Placed
<1>2. /\ L <= MaxEvents /\ base.born = u.born
      /\ \A m \in 1..added : joined'[m] = joined[m]
      /\ joined'[added + 1] = base.born
  BY PlacedFacts
<1>3. /\ u \in Candidate /\ Len(u.events) \in 1..MaxEvents
      /\ u.events[Len(u.events)] = e
      /\ Grew(base, u, e) \/ Shifted(base, u, e)
  BY <1>1, <1>2, AddEventFacts
<1>5. /\ added \in Nat /\ MaxEvents \in Nat \ {0} /\ L \in Nat
      /\ base.dropped \in Nat /\ base.events \in Seq(Events)
  BY <1>1, CandidateType, GrouperAssumption DEF TypeOK
<1>6. M \subseteq 1..added BY DEF Mine
<1>7. Mine(u)' = M \cup {added + 1}
  <2>1. Mine(u)' = {m \in 1..(added + 1) : joined'[m] = base.born}
    BY <1>1, <1>2 DEF Mine
  <2>2. \A m : m \in 1..(added + 1) <=> m \in 1..added \/ m = added + 1
    BY <1>5
  <2> QED BY <1>2, <2>1, <2>2 DEF Mine
<1> DEFINE N == M \cup {added + 1}
           Goal == /\ IsFiniteSet(N)
                   /\ Cardinality(N) = Len(u.events) + u.dropped
                   /\ \A i \in 1..Len(u.events) : u.events[i].n \in N
                   /\ \A i \in 2..Len(u.events) :
                        u.events[i - 1].n < u.events[i].n
                   /\ \A m \in N :
                        \/ \E i \in 1..Len(u.events) : m = u.events[i].n
                        \/ m < u.events[1].n
<1>13. Goal => HistoryAt(u)'
  <2> HIDE DEF M
  <2> QED BY <1>7 DEF HistoryAt
<1> HIDE DEF u
<1>8. /\ IsFiniteSet(M) /\ Cardinality(M) = L + base.dropped
      /\ \A i \in 1..L : base.events[i].n \in M
      /\ \A i \in 2..L : base.events[i - 1].n < base.events[i].n
      /\ \A m \in M : \/ \E i \in 1..L : m = base.events[i].n
                      \/ m < base.events[1].n
      /\ L = 0 => M = {}
  BY BaseHistory DEF HistoryAt
<1> HIDE DEF M
<1>9. \A i \in 1..L : base.events[i].n \in 1..added BY <1>6, <1>8
<1>10. /\ IsFiniteSet(N)
       /\ Cardinality(N) = Len(u.events) + u.dropped
  <2>1. added + 1 \notin M BY <1>5, <1>6
  <2>2. /\ IsFiniteSet(M \cup {added + 1})
        /\ Cardinality(M \cup {added + 1}) = Cardinality(M) + 1
    BY <1>8, <2>1, FS_AddElement
  <2>3. Len(u.events) + u.dropped = L + base.dropped + 1
    <3>1. CASE Grew(base, u, e) BY <1>5, <3>1 DEF Grew
    <3>2. CASE Shifted(base, u, e) BY <1>5, <3>2 DEF Shifted
    <3> QED BY <1>3, <3>1, <3>2
  <2> QED BY <1>5, <1>8, <2>2, <2>3
<1>11. ASSUME Grew(base, u, e) PROVE Goal
  <2>1. /\ Len(u.events) = L + 1 /\ u.events[L + 1] = e
        /\ \A i \in 1..L : u.events[i] = base.events[i]
    BY <1>3, <1>11 DEF Grew
  <2>2. \A i \in 1..(L + 1) : u.events[i].n \in M \cup {added + 1}
    <3> TAKE i \in 1..(L + 1)
    <3>1. i \in 1..L \/ i = L + 1 BY <1>5
    <3> QED BY <1>1, <1>8, <2>1, <3>1
  <2>3. \A i \in 2..(L + 1) : u.events[i - 1].n < u.events[i].n
    <3> TAKE i \in 2..(L + 1)
    <3>1. \/ i - 1 \in 1..L /\ i \in 2..L
          \/ i = L + 1 /\ L \in 1..L
      BY <1>5
    <3>2. CASE i - 1 \in 1..L /\ i \in 2..L
      <4>1. i \in 1..L BY <1>5, <3>2
      <4> QED BY <1>8, <2>1, <3>2, <4>1
    <3>3. CASE i = L + 1 /\ L \in 1..L
      <4>1. u.events[L] = base.events[L] /\ base.events[L].n \in 1..added
        BY <1>9, <2>1, <3>3
      <4>2. base.events[L].n < added + 1 BY <1>5, <4>1
      <4>3. i - 1 = L BY <1>5, <3>3
      <4> QED BY <1>1, <2>1, <3>3, <4>1, <4>2, <4>3
    <3> QED BY <3>1, <3>2, <3>3
  <2>4. \A m \in M \cup {added + 1} :
          \/ \E i \in 1..(L + 1) : m = u.events[i].n
          \/ m < u.events[1].n
    <3> TAKE m \in M \cup {added + 1}
    <3>1. CASE m = added + 1
      <4>1. L + 1 \in 1..(L + 1) BY <1>5
      <4> QED BY <1>1, <2>1, <3>1, <4>1
    <3>2. CASE m \in M
      <4>1. 1 \in 1..L /\ \A i \in 1..L : i \in 1..(L + 1) BY <1>5, <1>8, <3>2
      <4>2. u.events[1] = base.events[1] BY <2>1, <4>1
      <4> QED BY <1>8, <2>1, <3>2, <4>1, <4>2
    <3> QED BY <3>1, <3>2
  <2> QED BY <1>10, <2>1, <2>2, <2>3, <2>4
<1>12. ASSUME Shifted(base, u, e) PROVE Goal
  <2>1. /\ L = MaxEvents /\ Len(u.events) = MaxEvents
        /\ u.events[MaxEvents] = e
        /\ \A i \in 1..(MaxEvents - 1) : u.events[i] = base.events[i + 1]
    BY <1>3, <1>12 DEF Shifted
  <2>2. \A i \in 1..MaxEvents : u.events[i].n \in M \cup {added + 1}
    <3> TAKE i \in 1..MaxEvents
    <3>1. \/ i \in 1..(MaxEvents - 1) /\ i + 1 \in 1..L
          \/ i = MaxEvents
      BY <1>5, <2>1
    <3> QED BY <1>1, <1>8, <2>1, <3>1
  <2>3. \A i \in 2..MaxEvents : u.events[i - 1].n < u.events[i].n
    <3> TAKE i \in 2..MaxEvents
    <3>1. i - 1 \in 1..(MaxEvents - 1) /\ i \in 1..L BY <1>5, <2>1
    <3>2. u.events[i - 1] = base.events[i]
      <4>1. i - 1 + 1 = i OBVIOUS
      <4> QED BY <2>1, <3>1, <4>1
    <3>3. CASE i \in 1..(MaxEvents - 1)
      <4>1. i + 1 \in 2..L /\ i + 1 - 1 = i BY <1>5, <2>1, <3>3
      <4>2. base.events[i].n < base.events[i + 1].n BY <1>8, <4>1
      <4> QED BY <2>1, <3>2, <3>3, <4>2
    <3>4. CASE i = MaxEvents
      <4>1. base.events[i].n \in 1..added BY <1>9, <3>1
      <4>2. base.events[i].n < added + 1 BY <1>5, <4>1
      <4> QED BY <1>1, <2>1, <3>2, <3>4, <4>2
    <3>5. i \in 1..(MaxEvents - 1) \/ i = MaxEvents BY <1>5
    <3> QED BY <3>3, <3>4, <3>5
  <2>4. /\ 1 \in 1..L /\ base.events[1].n < u.events[1].n
        /\ u.events[1].n \in Nat /\ base.events[1].n \in Nat
    <3>1. 1 \in 1..L /\ 1 \in 1..MaxEvents BY <1>5, <2>1
    <3>2. base.events[1].n \in 1..added BY <1>9, <3>1
    <3>3. CASE MaxEvents = 1
      <4>1. u.events[1].n = added + 1 BY <1>1, <2>1, <3>3
      <4> QED BY <1>5, <3>1, <3>2, <4>1
    <3>4. CASE MaxEvents # 1
      <4>1. 2 \in 2..L /\ 2 \in 1..L /\ 1 \in 1..(MaxEvents - 1)
            /\ 2 - 1 = 1 /\ 1 + 1 = 2
        BY <1>5, <2>1, <3>4
      <4>2. base.events[1].n < base.events[2].n BY <1>8, <4>1
      <4>3. u.events[1] = base.events[2] BY <2>1, <4>1
      <4>4. base.events[2].n \in 1..added BY <1>9, <4>1
      <4> QED BY <3>1, <3>2, <4>2, <4>3, <4>4
    <3> QED BY <3>3, <3>4
  <2>5. \A m \in M \cup {added + 1} :
          \/ \E i \in 1..MaxEvents : m = u.events[i].n
          \/ m < u.events[1].n
    <3> TAKE m \in M \cup {added + 1}
    <3>1. CASE m = added + 1
      <4>1. MaxEvents \in 1..MaxEvents BY <1>5
      <4> QED BY <1>1, <2>1, <3>1, <4>1
    <3>2. CASE m \in M /\ m < base.events[1].n
      <4>1. m \in 1..added BY <1>6, <3>2
      <4> QED BY <2>4, <3>2, <4>1
    <3>3. ASSUME NEW i \in 1..L, m = base.events[i].n
          PROVE  \/ \E j \in 1..MaxEvents : m = u.events[j].n
                 \/ m < u.events[1].n
      <4>1. CASE i = 1 BY <2>4, <3>3, <4>1
      <4>2. CASE i # 1
        <5>1. i - 1 \in 1..(MaxEvents - 1) /\ i - 1 \in 1..MaxEvents
              /\ i - 1 + 1 = i
          BY <1>5, <2>1, <4>2
        <5>2. u.events[i - 1] = base.events[i] BY <2>1, <5>1
        <5> QED BY <3>3, <5>1, <5>2
      <4> QED BY <4>1, <4>2
    <3> QED BY <1>8, <3>1, <3>2, <3>3
  <2>6. Len(u.events) = MaxEvents BY <2>1
  <2> HIDE DEF N
  <2>7. \A i \in 1..Len(u.events) : u.events[i].n \in N BY <2>2, <2>6 DEF N
  <2>8. \A i \in 2..Len(u.events) : u.events[i - 1].n < u.events[i].n
    BY <2>3, <2>6
  <2>9. \A m \in N : \/ \E i \in 1..Len(u.events) : m = u.events[i].n
                    \/ m < u.events[1].n
    BY <2>5, <2>6 DEF N
  <2> QED BY <1>10, <2>7, <2>8, <2>9, Zenon
<1> HIDE DEF Goal
<1>14. HistoryAt(u)' BY <1>3, <1>11, <1>12, <1>13
<1>15. Mine(u)' = Mine(base) \cup {added + 1} BY <1>7 DEF M
<1> QED BY <1>14, <1>15 DEF u

LEMMA PlacedHistoryInv ==
  ASSUME TypeOK, BornInv, CountInv, HistoryInv,
         NEW e, NEW base, NEW kept, Placed(e, base, kept)
  PROVE  HistoryInv' /\ \A c \in All \ {base} : Mine(c)' = Mine(c)
<1> DEFINE u == AddEvent(base, e)
<1>1. /\ \A c \in All \ {base} : c.born # base.born
      /\ All' = (All \ {base}) \cup {u}
      /\ \A m \in 1..added : joined'[m] = joined[m]
      /\ joined'[added + 1] = base.born /\ added' = added + 1 /\ added \in Nat
  BY PlacedFacts DEF Placed, TypeOK
<1>2. HistoryAt(u)' BY PlacedHistory
<1> HIDE DEF u
<1>3. \A m : m \in 1..(added + 1) <=> m \in 1..added \/ m = added + 1
  BY <1>1
<1>4. \A c \in All \ {base} : Mine(c)' = Mine(c) BY <1>1, <1>3 DEF Mine
<1>5. \A c \in All \ {base} : HistoryAt(c)'
  BY <1>4 DEF HistoryInv, HistoryAt
<1> QED BY <1>1, <1>2, <1>4, <1>5 DEF HistoryInv

-----------------------------------------------------------------------------
(* The invariant, and the properties that follow from it                   *)

LEMMA IInvInit == Init => IInv
<1> SUFFICES ASSUME Init PROVE IInv OBVIOUS
<1>1. /\ candidates = {} /\ flushed = {} /\ retained = 0 /\ phase = "ready"
      /\ clock = 0 /\ observed = 0 /\ added = 0 /\ joined = <<>>
  BY DEF Init
<1>2. TypeOK BY <1>1, FS_EmptySet, EmptySeq DEF TypeOK
<1>3. BornInv BY <1>1 DEF BornInv, All
<1>4. CountInv
  <2>1. Held({}) = 0 /\ Cardinality({}) = 0 BY HeldEmpty, FS_EmptySet
  <2>2. 0 <= MaxCandidates /\ 0 <= MaxRetainedEvents BY GrouperAssumption
  <2> QED BY <1>1, <2>1, <2>2 DEF CountInv, All
<1>5. SpanInv BY <1>1 DEF SpanInv, All
<1>6. IndexesExact BY <1>1 DEF IndexesExact
<1>7. HistoryInv BY <1>1 DEF HistoryInv, All
<1> QED BY <1>2, <1>3, <1>4, <1>5, <1>6, <1>7 DEF IInv

LEMMA IInvNext == IInv /\ [Next]_vars => IInv'
<1> SUFFICES ASSUME IInv, [Next]_vars PROVE IInv' OBVIOUS
<1>1. TypeOK /\ BornInv /\ CountInv /\ SpanInv /\ IndexesExact /\ HistoryInv
  BY DEF IInv
<1>2. CASE Evicted BY <1>2, EvictedInv
<1>3. ASSUME NEW e \in Events, NEW base \in Candidate,
             NEW kept \in SUBSET candidates, Placed(e, base, kept)
      PROVE  IInv'
  <2>1. TypeOK' BY <1>1, <1>3, PlacedTypeOK
  <2>2. BornInv' BY <1>1, <1>3, PlacedBornInv
  <2>3. CountInv' BY <1>1, <1>3, PlacedCountInv
  <2>4. SpanInv' BY <1>1, <1>3, PlacedSpanInv
  <2>5. IndexesExact' BY <1>1, <1>3, PlacedIndexes
  <2>6. HistoryInv' BY <1>1, <1>3, PlacedHistoryInv
  <2> QED BY <2>1, <2>2, <2>3, <2>4, <2>5, <2>6 DEF IInv
<1> QED BY <1>1, <1>2, <1>3, StepCases

LEMMA Invariance == Spec => []IInv
BY IInvInit, IInvNext, PTL DEF Spec

(* Add never leaves more than its limits allow, the running total is what  *)
(* the candidates hold, and no candidate is empty or over its limit.       *)
THEOREM WithinLimitsCorrect == Spec => []WithinLimits
<1>1. IInv => WithinLimits
  <2> SUFFICES ASSUME IInv PROVE WithinLimits OBVIOUS
  <2>1. CountInv BY DEF IInv
  <2>2. \A c \in candidates \cup flushed : Len(c.events) \in 1..MaxEvents
    BY <2>1 DEF CountInv, All
  <2> QED BY <2>1, <2>2 DEF CountInv, WithinLimits
<1> QED BY <1>1, Invariance, PTL

(* The loop that ends Add finds a candidate to evict as long as it runs:   *)
(* flushOldest never indexes an empty list.                                *)
THEOREM TrimFindsCandidate ==
  Spec => []~(retained > MaxRetainedEvents /\ candidates = {})
<1>1. IInv => ~(retained > MaxRetainedEvents /\ candidates = {})
  <2> SUFFICES ASSUME IInv, retained > MaxRetainedEvents, candidates = {}
               PROVE  FALSE
    OBVIOUS
  <2>1. retained = 0 BY HeldEmpty DEF IInv, CountInv
  <2> QED BY <2>1, GrouperAssumption
<1> QED BY <1>1, Invariance, PTL

(* The process and artifact indexes of every candidate are those of the    *)
(* events it still holds.                                                  *)
THEOREM IndexesExactCorrect == Spec => []IndexesExact
BY Invariance, PTL DEF IInv

(* An incident stays in its window, its host and its container, and after  *)
(* a call no candidate is open that the call's time makes inactive.        *)
THEOREM SpanBoundedCorrect == Spec => []SpanBounded
<1>1. IInv => SpanBounded
  <2> SUFFICES ASSUME IInv PROVE SpanBounded OBVIOUS
  <2>1. TypeOK /\ SpanInv BY DEF IInv
  <2>2. ASSUME NEW c \in candidates \cup flushed, NEW e \in Range(c.events)
        PROVE  /\ e.shape.home = c.home
               /\ e.ts \in (c.startTime - MaxSkew)..c.lastSeen
    <3>1. c.events \in Seq(Events) BY <2>1, CandidateType DEF TypeOK
    <3>2. DOMAIN c.events = 1..Len(c.events) BY <3>1, LenProperties
    <3>3. PICK i \in 1..Len(c.events) : e = c.events[i] BY <3>2 DEF Range
    <3> QED BY <2>1, <3>3 DEF SpanInv, All
  <2>3. \A c \in candidates \cup flushed :
          c.lastSeen - c.startTime < CorrelationWindow
    BY <2>1 DEF SpanInv, All
  <2>4. \A c \in candidates : Active(c, observed) BY <2>1 DEF SpanInv
  <2> QED BY <2>2, <2>3, <2>4 DEF SpanBounded
<1> QED BY <1>1, Invariance, PTL

(* What HistoryAt says, in the words of HistoryReported.                   *)
LEMMA HistoryOf ==
  ASSUME TypeOK, NEW c \in Candidate, HistoryAt(c), Len(c.events) \in 1..MaxEvents
  PROVE  LET mine == {m \in 1..added : joined[m] = c.born}
             kept == [i \in 1..Len(c.events) |-> c.events[i].n]
         IN  /\ Cardinality(mine) = Len(kept) + c.dropped
             /\ Range(kept) \subseteq mine
             /\ \A i \in 2..Len(kept) : kept[i - 1] < kept[i]
             /\ \A m \in mine \ Range(kept) : m < kept[1]
<1> DEFINE L == Len(c.events)
           mine == {m \in 1..added : joined[m] = c.born}
           kept == [i \in 1..L |-> c.events[i].n]
<1>1. L \in Nat /\ 1 \in 1..L BY CandidateType, GrouperAssumption
<1>2. mine = Mine(c) BY DEF Mine
<1>3. /\ Cardinality(mine) = L + c.dropped
      /\ \A i \in 1..L : c.events[i].n \in mine
      /\ \A i \in 2..L : c.events[i - 1].n < c.events[i].n
      /\ \A m \in mine : \/ \E i \in 1..L : m = c.events[i].n
                         \/ m < c.events[1].n
  BY <1>2 DEF HistoryAt
<1> HIDE DEF L, mine
<1>4. /\ DOMAIN kept = 1..L /\ \A i \in 1..L : kept[i] = c.events[i].n
  OBVIOUS
<1>5. Len(kept) = L BY <1>1, <1>4
<1> HIDE DEF kept
<1>6. \A x : x \in Range(kept) <=> \E i \in 1..L : x = c.events[i].n
  BY <1>4 DEF Range
<1>7. Range(kept) \subseteq mine BY <1>3, <1>6
<1>8. \A i \in 2..L : kept[i - 1] < kept[i]
  <2>1. \A i \in 2..L : i - 1 \in 1..L /\ i \in 1..L BY <1>1
  <2> QED BY <1>3, <1>4, <2>1
<1>9. \A m \in mine \ Range(kept) : m < kept[1] BY <1>1, <1>3, <1>4, <1>6
<1>10. Cardinality(mine) = Len(kept) + c.dropped BY <1>3, <1>5
<1>11. \A i \in 2..Len(kept) : kept[i - 1] < kept[i] BY <1>5, <1>8
<1> QED BY <1>7, <1>9, <1>10, <1>11 DEF kept, mine, L

(* Every event is accounted for by exactly one candidate, kept in arrival  *)
(* order or counted as dropped, what is dropped being older.               *)
THEOREM HistoryReportedCorrect == Spec => []HistoryReported
<1>1. IInv => HistoryReported
  <2> SUFFICES ASSUME IInv PROVE HistoryReported OBVIOUS
  <2>1. TypeOK /\ BornInv /\ CountInv /\ HistoryInv BY DEF IInv
  <2>2. ASSUME NEW n \in 1..added
        PROVE  Cardinality({c \in candidates \cup flushed : c.born = joined[n]}) = 1
    <3>1. PICK c \in All : c.born = joined[n] BY <2>1 DEF BornInv
    <3>2. {d \in candidates \cup flushed : d.born = joined[n]} = {c}
      BY <2>1, <3>1 DEF BornInv, All
    <3> QED BY <3>2, FS_Singleton
  <2>3. ASSUME NEW c \in candidates \cup flushed
        PROVE  LET mine == {m \in 1..added : joined[m] = c.born}
                   kept == [i \in 1..Len(c.events) |-> c.events[i].n]
               IN  /\ Cardinality(mine) = Len(kept) + c.dropped
                   /\ Range(kept) \subseteq mine
                   /\ \A i \in 2..Len(kept) : kept[i - 1] < kept[i]
                   /\ \A m \in mine \ Range(kept) : m < kept[1]
    <3>1. /\ c \in Candidate /\ HistoryAt(c) /\ Len(c.events) \in 1..MaxEvents
      BY <2>1 DEF TypeOK, HistoryInv, CountInv, All
    <3> QED BY <2>1, <3>1, HistoryOf
  <2> QED BY <2>2, <2>3, Zenon DEF HistoryReported
<1> QED BY <1>1, Invariance, PTL

-----------------------------------------------------------------------------
(* The correlator implements CandidateLedger                               *)

(* The events of a candidate, in the ledger's sense, are those that joined *)
(* it.                                                                     *)
LEMMA MembersAreMine == IInv => \A c \in All : Members(c) = Mine(c)
<1> SUFFICES ASSUME IInv, NEW c \in All PROVE Members(c) = Mine(c) OBVIOUS
<1>1. c.events \in Seq(Events) BY CandidateType DEF IInv, TypeOK, All
<1>2. DOMAIN c.events = 1..Len(c.events) BY <1>1, LenProperties
<1>3. \A i \in 1..Len(c.events) : c.events[i].n \in Mine(c)
  BY DEF IInv, HistoryInv, HistoryAt
<1>4. {e.n : e \in Range(c.events)} \subseteq Mine(c) BY <1>2, <1>3 DEF Range
<1> QED BY <1>4 DEF Members, Mine

(* The variables of the ledger.                                            *)
Coupled ==
  /\ {Members(c) : c \in candidates} = {Mine(c) : c \in candidates}
  /\ {Members(c) : c \in flushed} = {Mine(c) : c \in flushed}

LEMMA LedgerState == IInv => Coupled
BY MembersAreMine DEF Coupled, All

LEMMA LedgerStateNext == IInv' => Coupled'
BY LedgerState, PTL

(* Different candidates have different events, and none has none.          *)
LEMMA MineFacts ==
  ASSUME TypeOK, BornInv
  PROVE  /\ \A c \in All : c.born \in Mine(c) /\ Mine(c) \subseteq 1..added
         /\ \A c, d \in All : Mine(c) = Mine(d) => c = d
<1>1. \A c \in All : c.born \in Mine(c) /\ Mine(c) \subseteq 1..added
  BY DEF BornInv, Mine
<1>2. \A c, d \in All : Mine(c) = Mine(d) => c = d
  <2> SUFFICES ASSUME NEW c \in All, NEW d \in All, Mine(c) = Mine(d)
               PROVE  c = d
    OBVIOUS
  <2>1. c.born \in Mine(d) BY <1>1
  <2>2. joined[c.born] = d.born BY <2>1 DEF Mine
  <2>3. joined[c.born] = c.born BY DEF BornInv
  <2> QED BY <2>2, <2>3 DEF BornInv
<1> QED BY <1>1, <1>2

(* An evicting step returns some groups.                                   *)
LEMMA EvictedLedger ==
  ASSUME IInv, Evicted, IInv'
  PROVE  Ledger!Next
<1> DEFINE H == {Mine(c) : c \in candidates}
           R == {Mine(c) : c \in flushed}
           gone == candidates \ candidates'
           groups == {Mine(c) : c \in gone}
<1>1. TypeOK /\ BornInv BY DEF IInv
<1>2. /\ candidates' \subseteq candidates /\ flushed' = flushed \cup gone
      /\ added' = added /\ joined' = joined
  BY DEF Evicted
<1>3. \A c : Mine(c)' = Mine(c) BY <1>2 DEF Mine
<1>4. /\ \A c, d \in All : Mine(c) = Mine(d) => c = d
      /\ candidates \cap flushed = {}
  BY <1>1, MineFacts DEF BornInv
<1>5. {Mine(c) : c \in flushed'} = R \cup groups BY <1>2
<1>6. groups \subseteq H /\ groups \cap R = {} BY <1>4 DEF All
<1>7. {Mine(c) : c \in candidates'} = H \ groups BY <1>2, <1>4 DEF All
<1>8. /\ {Members(c) : c \in candidates} = H
      /\ {Members(c) : c \in flushed} = R
  BY LedgerState DEF Coupled
<1>9. /\ {Members(c) : c \in candidates}' = {Mine(c) : c \in candidates}'
      /\ {Members(c) : c \in flushed}' = {Mine(c) : c \in flushed}'
  BY LedgerStateNext DEF Coupled
<1>10. /\ {Mine(c) : c \in candidates}' = {Mine(c) : c \in candidates'}
       /\ {Mine(c) : c \in flushed}' = {Mine(c) : c \in flushed'}
  BY <1>3
<1> HIDE DEF H, R, groups
<1>11. Ledger!Flush(groups)
  BY <1>6, <1>7, <1>8, <1>9, <1>10 DEF Ledger!Flush, Ledger!Return
<1>12. groups \in SUBSET ({Members(c) : c \in flushed}' \ {Members(c) : c \in flushed})
  BY <1>5, <1>6, <1>8, <1>9, <1>10
<1>13. {Members(c) : c \in flushed}' = {Members(c) : c \in flushed} \cup groups
  BY <1>5, <1>8, <1>9, <1>10
<1> QED BY <1>11, <1>12, <1>13 DEF Ledger!Next, Ledger!Step

(* A placing step gives the ledger an event and returns the rest.          *)
LEMMA PlacedLedger ==
  ASSUME IInv, IInv',
         NEW e, NEW base, NEW kept, Placed(e, base, kept)
  PROVE  Ledger!Next
<1> DEFINE u == AddEvent(base, e)
           x == added + 1
           M == Mine(base)
           gone == candidates \ (kept \cup {base})
           H == {Mine(c) : c \in candidates}
           R == {Mine(c) : c \in flushed}
           K == {Mine(c) : c \in kept}
           groups == {Mine(c) : c \in gone}
           before == (K \cup groups) \cup {M \cup {x}}
           HN == {Members(c) : c \in candidates}'
           RN == {Members(c) : c \in flushed}'
<1>1. /\ TypeOK /\ BornInv /\ CountInv /\ HistoryInv
      /\ added \in Nat /\ MaxAdds \in Nat
  BY GrouperAssumption DEF IInv, TypeOK
<1>2. /\ kept \subseteq candidates /\ base \notin kept /\ added < MaxAdds
      /\ candidates' = kept \cup {u} /\ flushed' = flushed \cup gone
  BY DEF Placed
<1>3. /\ \/ base \in candidates
         \/ base \notin All /\ Len(base.events) = 0
      /\ u \notin flushed'
  BY <1>1, PlacedFacts
<1>4. base \notin candidates => M = {} /\ base \notin All
  BY <1>1, <1>3, BaseHistory
<1>5. /\ \A c \in All : Mine(c) # {} /\ x \notin Mine(c)
      /\ \A c, d \in All : Mine(c) = Mine(d) => c = d
      /\ candidates \cap flushed = {}
  <2>1. /\ \A c \in All : c.born \in Mine(c) /\ Mine(c) \subseteq 1..added
        /\ \A c, d \in All : Mine(c) = Mine(d) => c = d
    BY <1>1, MineFacts
  <2>2. x \notin 1..added BY <1>1
  <2> QED BY <1>1, <2>1, <2>2 DEF BornInv
<1>6. Mine(u)' = M \cup {x} BY <1>1, PlacedHistory
<1>7. \A c \in kept \cup flushed \cup gone : Mine(c)' = Mine(c)
  <2>1. base \notin flushed BY <1>3, <1>5 DEF All
  <2>2. kept \cup flushed \cup gone \subseteq All \ {base}
    BY <1>2, <2>1 DEF All
  <2>3. \A c \in All \ {base} : Mine(c)' = Mine(c) BY <1>1, PlacedHistoryInv
  <2> QED BY <2>2, <2>3
<1>8. HN = K \cup {M \cup {x}}
  <2>1. HN = {Mine(c) : c \in candidates}' BY LedgerStateNext DEF Coupled
  <2>2. {Mine(c) : c \in candidates}' = {Mine(c)' : c \in kept \cup {u}} BY <1>2
  <2>3. {Mine(c)' : c \in kept \cup {u}} = K \cup {M \cup {x}} BY <1>6, <1>7
  <2> QED BY <2>1, <2>2, <2>3
<1>9. RN = R \cup groups
  <2>1. RN = {Mine(c) : c \in flushed}' BY LedgerStateNext DEF Coupled
  <2>2. {Mine(c) : c \in flushed}' = {Mine(c)' : c \in flushed \cup gone}
    BY <1>2
  <2>3. {Mine(c)' : c \in flushed \cup gone} = R \cup groups BY <1>7
  <2> QED BY <2>1, <2>2, <2>3
<1>10. /\ {Members(c) : c \in candidates} = H
       /\ {Members(c) : c \in flushed} = R
  BY LedgerState DEF Coupled
<1>11. x \in 1..MaxAdds BY <1>1, <1>2
<1>12. x \notin UNION R /\ x \notin UNION H BY <1>5 DEF All
<1>13. groups \cap R = {} /\ groups \subseteq before BY <1>5 DEF All
<1>14. HN = before \ groups
  <2>1. \A c \in gone : Mine(c) # M \cup {x} BY <1>5 DEF All
  <2>2. \A c \in kept, d \in gone : Mine(c) # Mine(d) BY <1>2, <1>5 DEF All
  <2> QED BY <1>8, <2>1, <2>2
<1>15. before \in {H \cup {{x}}} \cup {(H \ {c}) \cup {c \cup {x}} : c \in H}
  <2>1. CASE base \in candidates
    <3>1. M \in H BY <2>1
    <3>2. H \ {M} = K \cup groups
      <4>1. \A c \in candidates : Mine(c) = M <=> c = base BY <1>5, <2>1 DEF All
      <4> QED BY <1>2, <2>1, <4>1
    <3>3. before = (H \ {M}) \cup {M \cup {x}} BY <3>2
    <3> HIDE DEF H, before, M, x
    <3> QED BY <3>1, <3>3
  <2>2. CASE base \notin candidates
    <3>1. M \cup {x} = {x} BY <1>4, <2>2
    <3>2. H = K \cup groups BY <1>2, <2>2
    <3>3. before = H \cup {{x}} BY <3>1, <3>2
    <3> HIDE DEF H, before
    <3> QED BY <3>3
  <2> QED BY <2>1, <2>2
<1> HIDE DEF u, x, M, gone, H, R, K, groups, before, HN, RN
<1>16. before \in Ledger!Placed(x) BY <1>10, <1>15 DEF Ledger!Placed
<1>17. HN = before \ groups /\ groups \subseteq before BY <1>13, <1>14
<1>18. Ledger!Add(x, before, groups)
  BY <1>10, <1>12, <1>16, <1>17 DEF Ledger!Add, Ledger!Return, HN
<1>19. Ledger!Step(groups)
  BY <1>10, <1>11, <1>12, <1>16, <1>18 DEF Ledger!Step
<1>20. groups \in SUBSET (RN \ {Members(c) : c \in flushed})
  BY <1>9, <1>10, <1>13
<1>21. RN = {Members(c) : c \in flushed} \cup groups BY <1>9, <1>10
<1> QED BY <1>19, <1>20, <1>21 DEF Ledger!Next, RN

(* Draining returns everything the ledger holds.                           *)
LEMMA DrainLedger ==
  IInv /\ Drain => Ledger!Drain({Members(c) : c \in candidates})
<1> SUFFICES ASSUME IInv, Drain
             PROVE  Ledger!Drain({Members(c) : c \in candidates})
  OBVIOUS
<1>1. candidates' = {} BY DEF Drain
<1>2. {Members(c) : c \in candidates}' = {} BY <1>1
<1> QED BY <1>2 DEF Ledger!Drain, Ledger!Return

(* Each event Add takes is in one candidate until that is returned, which  *)
(* happens once, and Drain returns all that are left.                      *)
THEOREM ImplementsCandidatesCorrect == Spec => ImplementsCandidates
<1>1. Init => Ledger!Init BY DEF Init, Ledger!Init
<1>2. IInv /\ IInv' /\ [Next]_vars =>
        [Ledger!Next]_<<{Members(c) : c \in candidates},
                        {Members(c) : c \in flushed}>>
  <2> SUFFICES ASSUME IInv, IInv', [Next]_vars PROVE Ledger!Next OBVIOUS
  <2>1. TypeOK /\ BornInv /\ CountInv /\ SpanInv BY DEF IInv
  <2>2. CASE Evicted BY <2>2, EvictedLedger
  <2>3. ASSUME NEW e \in Events, NEW base \in Candidate,
               NEW kept \in SUBSET candidates, Placed(e, base, kept)
        PROVE  Ledger!Next
    BY <2>3, PlacedLedger
  <2> QED BY <2>1, <2>2, <2>3, StepCases
<1>3. IInv /\ [Next]_vars =>
        [Drain => Ledger!Drain({Members(c) : c \in candidates})]_vars
  BY DrainLedger
<1> QED BY <1>1, <1>2, <1>3, Invariance, PTL
        DEF Spec, ImplementsCandidates, Ledger!Spec
=============================================================================
