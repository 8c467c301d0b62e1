----------------------- MODULE SyscallCorrelationProofs -----------------------
(***************************************************************************)
(* For any finite set of threads, any sizes of map and ring buffer and any *)
(* number of calls: no captured call is lost or counted twice, a record    *)
(* made with both hooks on has its own return value, and the statistics    *)
(* after Run has returned are complete.                                    *)
(***************************************************************************)
EXTENDS SyscallCorrelation, SequenceTheorems, FiniteSetTheorems, TLAPS

Records == [call : Nat, exit : Nat, ret : Int]

Stages == {"setup", "entering", "running", "leaving", "unhooked"}

TypeOK ==
  /\ stage \in Stages
  /\ inside \in [Threads -> Nat] /\ calls \in Nat
  /\ pending \in [Threads -> Nat] /\ ring \in Seq(Records)
  /\ drops \in Nat /\ correlationDrops \in Nat
  /\ attached \in BOOLEAN
  /\ watched \in SUBSET Nat /\ captured \in Nat
  /\ emitted \in SUBSET Records /\ filtered \in Nat /\ overwritten \in SUBSET Nat

(* A call is in one place: an entry of the map is not also a record or a   *)
(* replaced entry, two threads do not have the same call, and all of them  *)
(* have been made.                                                         *)
PlaceInv ==
  /\ \A t \in Threads : pending[t] <= calls /\ inside[t] <= calls
  /\ \A t, u \in Threads : (t # u /\ pending[t] # 0) => pending[t] # pending[u]
  /\ \A r \in emitted : r.call # 0 /\ r.call <= calls
  /\ \A n \in overwritten : n # 0 /\ n <= calls
  /\ \A t \in Threads, r \in emitted : pending[t] # r.call
  /\ \A t \in Threads, n \in overwritten : pending[t] # n

(* The sets whose sizes are summed are finite.                             *)
SizeInv ==
  /\ IsFiniteSet(emitted) /\ IsFiniteSet(overwritten)
  /\ CapturedAccounted

(* While the exit hook is on, the entry of a watched call is the one its   *)
(* thread is in; so it is taken out by the exit of that call.              *)
WatchInv ==
  /\ \A n \in watched : n <= calls /\ n # 0
  /\ stage \in {"setup", "entering"} => watched = {}
  /\ stage = "running" =>
       \A t \in Threads : pending[t] \in watched => pending[t] = inside[t]

(* The counters do not move once both hooks are closed.                    *)
DetachInv ==
  /\ ~attached => stage = "unhooked"
  /\ FinalStatsComplete

IInv == TypeOK /\ PlaceInv /\ SizeInv /\ WatchInv /\ WatchedIsOwn /\ DetachInv

-----------------------------------------------------------------------------
(* What a step can do, seen by the invariants: a call enters and is stored *)
(* in the map, not stored, or not captured; a call returns and its thread  *)
(* has an entry or has none; or only hooks, reader and statistics move.    *)
Stored(t) ==
  /\ stage \in EnterOn /\ inside[t] = 0
  /\ pending[t] # 0 \/ Cardinality(Entries) < MaxPending
  /\ pending' = [pending EXCEPT ![t] = calls + 1]
  /\ overwritten' = overwritten \union ({pending[t]} \ {0})
  /\ watched' = IF stage \in ExitOn THEN watched \union {calls + 1} ELSE watched
  /\ captured' = captured + 1
  /\ calls' = calls + 1 /\ inside' = [inside EXCEPT ![t] = calls + 1]
  /\ UNCHANGED <<stage, ring, drops, correlationDrops, metrics, emitted, filtered>>

Refused(t) ==
  /\ stage \in EnterOn /\ inside[t] = 0
  /\ watched' = IF stage \in ExitOn THEN watched \union {calls + 1} ELSE watched
  /\ captured' = captured + 1 /\ correlationDrops' = correlationDrops + 1
  /\ calls' = calls + 1 /\ inside' = [inside EXCEPT ![t] = calls + 1]
  /\ UNCHANGED <<stage, pending, overwritten, ring, drops, metrics, emitted, filtered>>

Uncaptured(t) ==
  /\ inside[t] = 0
  /\ calls' = calls + 1 /\ inside' = [inside EXCEPT ![t] = calls + 1]
  /\ UNCHANGED <<stage, kernel, metrics, history>>

Completed(t, ret) ==
  /\ stage = "running" /\ pending[t] # 0
  /\ inside' = [inside EXCEPT ![t] = 0]
  /\ pending' = [pending EXCEPT ![t] = 0]
  /\ \/ filtered' = filtered + 1 /\ UNCHANGED <<ring, drops, emitted>>
     \/ /\ Output([call |-> pending[t], exit |-> inside[t], ret |-> ret])
        /\ UNCHANGED filtered
  /\ UNCHANGED <<stage, calls, correlationDrops, metrics, watched, captured,
                 overwritten>>

Unmatched(t) ==
  /\ stage = "running" => pending[t] = 0
  /\ inside' = [inside EXCEPT ![t] = 0]
  /\ UNCHANGED <<stage, calls, kernel, metrics, history>>

Elsewhere ==
  /\ UNCHANGED <<inside, calls, pending, drops, correlationDrops, history>>
  /\ ring' = ring \/ (ring # <<>> /\ ring' = Tail(ring))
  /\ \/ UNCHANGED <<stage, metrics>>
     \/ /\ UNCHANGED metrics /\ <<stage, stage'>> \in
             {<<"setup", "entering">>, <<"entering", "running">>,
              <<"setup", "unhooked">>, <<"entering", "leaving">>,
              <<"running", "leaving">>, <<"leaving", "unhooked">>}
     \/ /\ UNCHANGED stage /\ attached /\ Refresh
        /\ attached' = attached \/ (attached' = FALSE /\ stage = "unhooked")

(* Every step is one of these.                                             *)
LEMMA StepCases ==
  ASSUME [Next]_vars
  PROVE  \/ \E t \in Threads : Stored(t) \/ Refused(t) \/ Uncaptured(t) \/ Unmatched(t)
         \/ \E t \in Threads, ret \in (-1)..MaxReturn : Completed(t, ret)
         \/ Elsewhere
<1> USE DEF vars, kernel, metrics, history
<1>1. ASSUME NEW t \in Threads, EnterWrite(t)
      PROVE  Stored(t) \/ Refused(t) \/ Uncaptured(t)
  <2>1. CASE stage \notin EnterOn
    BY <1>1, <2>1 DEF EnterWrite, Uncaptured
  <2>2. CASE stage \in EnterOn /\ (pending[t] # 0 \/ Cardinality(Entries) < MaxPending)
    BY <1>1, <2>2 DEF EnterWrite, Stored, StorePending
  <2>3. CASE stage \in EnterOn /\ ~(pending[t] # 0 \/ Cardinality(Entries) < MaxPending)
    BY <1>1, <2>3 DEF EnterWrite, Refused, StorePending
  <2> QED BY <2>1, <2>2, <2>3
<1>2. ASSUME NEW t \in Threads, NEW ret \in (-1)..MaxReturn, Exit(t, ret)
      PROVE  Unmatched(t) \/ Completed(t, ret)
  <2>1. CASE stage = "running" /\ pending[t] # 0
    BY <1>2, <2>1 DEF Exit, ExitProgram, ExitOn, Completed
  <2>2. CASE ~(stage = "running" /\ pending[t] # 0)
    BY <1>2, <2>2 DEF Exit, ExitProgram, ExitOn, Unmatched
  <2> QED BY <2>1, <2>2
<1>3. ASSUME NEW t \in Threads, EnterOther(t) PROVE Uncaptured(t)
  BY <1>3 DEF EnterOther, Uncaptured
<1>4. CASE AttachEnter \/ AttachExit \/ AttachFails \/ CloseExitHook \/ CloseEnterHook
  BY <1>4 DEF AttachEnter, AttachExit, AttachFails, CloseExitHook, CloseEnterHook,
     Elsewhere
<1>5. CASE ReadRecord
  BY <1>5 DEF ReadRecord, Elsewhere
<1>6. CASE Stats \/ Detach
  BY <1>6 DEF Stats, Detach, Refresh, Elsewhere
<1>7. CASE UNCHANGED vars
  BY <1>7 DEF Elsewhere
<1> QED
  BY <1>1, <1>2, <1>3, <1>4, <1>5, <1>6, <1>7 DEF Next

-----------------------------------------------------------------------------
(* The record the sys_exit program outputs.                                *)
LEMMA RecordType ==
  \A c, e \in Nat : \A ret \in Int : [call |-> c, exit |-> e, ret |-> ret] \in Records
  BY DEF Records

(* The types hold in every step.                                           *)
LEMMA TypeStep == TypeOK /\ [Next]_vars => TypeOK'
<1> SUFFICES ASSUME TypeOK, [Next]_vars PROVE TypeOK'
  OBVIOUS
<1> USE CorrelationAssumption DEF CorrelationAssumption, TypeOK, Stages, kernel,
        metrics, history
<1>1. ASSUME NEW t \in Threads,
             Stored(t) \/ Refused(t) \/ Uncaptured(t) \/ Unmatched(t)
      PROVE  TypeOK'
  <2>1. CASE Stored(t)
    <3>1. watched' \in SUBSET Nat
      BY <2>1 DEF Stored
    <3>2. pending[t] \in Nat
      OBVIOUS
    <3>3. overwritten' \in SUBSET Nat
      BY <2>1, <3>2 DEF Stored
    <3> QED BY <2>1, <3>1, <3>3 DEF Stored
  <2>2. CASE Refused(t)
    <3>1. watched' \in SUBSET Nat
      BY <2>2 DEF Refused
    <3> QED BY <2>2, <3>1 DEF Refused
  <2>3. CASE Uncaptured(t)
    BY <2>3 DEF Uncaptured
  <2>4. CASE Unmatched(t)
    BY <2>4 DEF Unmatched
  <2> QED BY <1>1, <2>1, <2>2, <2>3, <2>4
<1>2. ASSUME NEW t \in Threads, NEW ret \in (-1)..MaxReturn, Completed(t, ret)
      PROVE  TypeOK'
  <2> DEFINE record == [call |-> pending[t], exit |-> inside[t], ret |-> ret]
  <2>1. record \in Records
    BY RecordType
  <2> HIDE DEF record
  <2>2. /\ ring' \in Seq(Records) /\ drops' \in Nat
        /\ emitted' \in SUBSET Records /\ filtered' \in Nat
    <3>1. CASE filtered' = filtered + 1 /\ UNCHANGED <<ring, drops, emitted>>
      BY <3>1
    <3>2. CASE Output(record) /\ UNCHANGED filtered
      <4>1. CASE Len(ring) < RingSize
        <5>1. Append(ring, record) \in Seq(Records)
          BY <2>1, AppendProperties
        <5>2. ring' = Append(ring, record) /\ emitted' = emitted \union {record}
          BY <3>2, <4>1 DEF Output
        <5> QED BY <2>1, <3>2, <4>1, <5>1, <5>2 DEF Output
      <4>2. CASE ~(Len(ring) < RingSize)
        BY <3>2, <4>2 DEF Output
      <4> QED BY <4>1, <4>2
    <3> QED BY <1>2, <3>1, <3>2 DEF Completed, record
  <2> QED BY <1>2, <2>2 DEF Completed
<1>3. CASE Elsewhere
  <2>1. ring' \in Seq(Records)
    BY <1>3, HeadTailProperties DEF Elsewhere
  <2>2. attached' \in BOOLEAN /\ stage' \in Stages
    BY <1>3 DEF Elsewhere
  <2> QED BY <1>3, <2>1, <2>2 DEF Elsewhere
<1> QED BY <1>1, <1>2, <1>3, StepCases

-----------------------------------------------------------------------------
(* A call is in one place: what enters the map is new, what leaves it goes *)
(* to one other place.                                                     *)
LEMMA PlaceStep == TypeOK /\ PlaceInv /\ [Next]_vars => PlaceInv'
<1> SUFFICES ASSUME TypeOK, PlaceInv, [Next]_vars PROVE PlaceInv'
  OBVIOUS
<1>0. /\ pending \in [Threads -> Nat] /\ inside \in [Threads -> Nat] /\ calls \in Nat
      /\ emitted \in SUBSET Records /\ overwritten \in SUBSET Nat
      /\ \A r \in Records : r.call \in Nat
  BY DEF TypeOK, Records
<1> USE DEF PlaceInv, kernel, metrics, history
<1>1. ASSUME NEW t \in Threads, Stored(t) PROVE PlaceInv'
  <2>1. /\ pending' = [pending EXCEPT ![t] = calls + 1] /\ calls' = calls + 1
        /\ inside' = [inside EXCEPT ![t] = calls + 1]
        /\ overwritten' = overwritten \union ({pending[t]} \ {0})
        /\ emitted' = emitted
    BY <1>1 DEF Stored
  <2>2. \A u \in Threads : /\ inside'[u] = (IF u = t THEN calls + 1 ELSE inside[u])
                           /\ pending'[u] = IF u = t THEN calls + 1 ELSE pending[u]
    BY <1>0, <2>1
  <2> QED BY <1>0, <2>1, <2>2
<1>2. ASSUME NEW t \in Threads, Refused(t) \/ Uncaptured(t) PROVE PlaceInv'
  <2>1. /\ calls' = calls + 1 /\ inside' = [inside EXCEPT ![t] = calls + 1]
        /\ UNCHANGED <<pending, emitted, overwritten>>
    BY <1>2 DEF Refused, Uncaptured
  <2>2. \A u \in Threads : inside'[u] = IF u = t THEN calls + 1 ELSE inside[u]
    BY <1>0, <2>1
  <2> QED BY <1>0, <2>1, <2>2
<1>3. ASSUME NEW t \in Threads, Unmatched(t) PROVE PlaceInv'
  BY <1>0, <1>3 DEF Unmatched
<1>4. ASSUME NEW t \in Threads, NEW ret \in (-1)..MaxReturn, Completed(t, ret)
      PROVE  PlaceInv'
  <2> DEFINE record == [call |-> pending[t], exit |-> inside[t], ret |-> ret]
  <2>1. record.call = pending[t]
    OBVIOUS
  <2> HIDE DEF record
  <2>2. \A r \in emitted' : r \in emitted \/ r = record
    BY <1>4 DEF Completed, Output, record
  <2>3. /\ pending[t] # 0 /\ pending' = [pending EXCEPT ![t] = 0]
        /\ inside' = [inside EXCEPT ![t] = 0]
        /\ calls' = calls /\ overwritten' = overwritten
    BY <1>4 DEF Completed
  <2>4. \A u \in Threads : /\ inside'[u] = (IF u = t THEN 0 ELSE inside[u])
                           /\ pending'[u] = IF u = t THEN 0 ELSE pending[u]
    BY <1>0, <2>3
  <2> QED BY <1>0, <2>1, <2>2, <2>3, <2>4
<1>5. CASE Elsewhere
  BY <1>5 DEF Elsewhere
<1> QED BY <1>1, <1>2, <1>3, <1>4, <1>5, StepCases

-----------------------------------------------------------------------------
(* Putting an entry for a thread into the map makes it one larger, unless  *)
(* the thread had one; taking it out makes it one smaller.                 *)
LEMMA EntriesIn ==
  ASSUME TypeOK, NEW t \in Threads, NEW n \in Nat \ {0},
         pending' = [pending EXCEPT ![t] = n]
  PROVE  Cardinality(Entries') = IF pending[t] = 0 THEN Cardinality(Entries) + 1
                                                   ELSE Cardinality(Entries)
<1>1. IsFiniteSet(Entries)
  BY FS_Subset, CorrelationAssumption DEF CorrelationAssumption, Entries
<1>2. Entries' = Entries \cup {t} /\ (t \in Entries <=> pending[t] # 0)
  BY DEF Entries, TypeOK
<1> QED BY <1>1, <1>2, FS_AddElement

LEMMA EntriesOut ==
  ASSUME TypeOK, NEW t \in Threads, pending[t] # 0,
         pending' = [pending EXCEPT ![t] = 0]
  PROVE  Cardinality(Entries') = Cardinality(Entries) - 1
<1>1. IsFiniteSet(Entries)
  BY FS_Subset, CorrelationAssumption DEF CorrelationAssumption, Entries
<1>2. Entries' = Entries \ {t} /\ t \in Entries
  BY DEF Entries, TypeOK
<1> QED BY <1>1, <1>2, FS_RemoveElement

(* The sizes summed are naturals.                                          *)
LEMMA SizeTypes ==
  ASSUME TypeOK, SizeInv
  PROVE  /\ Cardinality(Entries) \in Nat /\ Cardinality(emitted) \in Nat
         /\ Cardinality(overwritten) \in Nat
         /\ filtered \in Nat /\ drops \in Nat /\ correlationDrops \in Nat
         /\ captured \in Nat /\ MaxPending \in Nat /\ RingSize \in Nat
         /\ Len(ring) \in Nat
<1>1. IsFiniteSet(Entries)
  BY FS_Subset, CorrelationAssumption DEF CorrelationAssumption, Entries
<1>2. Len(ring) \in Nat
  BY LenProperties DEF TypeOK
<1> QED
  BY <1>1, <1>2, FS_CardinalityType, CorrelationAssumption
  DEF TypeOK, SizeInv, CorrelationAssumption

(* The sum of the places grows with the number of captured calls.          *)
LEMMA SizeStep == TypeOK /\ PlaceInv /\ SizeInv /\ [Next]_vars => SizeInv'
<1> SUFFICES ASSUME TypeOK, PlaceInv, SizeInv, [Next]_vars PROVE SizeInv'
  OBVIOUS
<1> DEFINE entries == Cardinality(Entries)
           out == Cardinality(emitted)
           over == Cardinality(overwritten)
<1>0. /\ entries \in Nat /\ out \in Nat /\ over \in Nat
      /\ filtered \in Nat /\ drops \in Nat /\ correlationDrops \in Nat
      /\ captured \in Nat /\ MaxPending \in Nat /\ RingSize \in Nat
      /\ Len(ring) \in Nat
      /\ captured = entries + out + filtered + over + drops + correlationDrops
      /\ entries <= MaxPending /\ Len(ring) <= RingSize
  BY SizeTypes DEF SizeInv, CapturedAccounted
<1>f. IsFiniteSet(emitted) /\ IsFiniteSet(overwritten)
  BY DEF SizeInv
<1> SUFFICES
      /\ IsFiniteSet(emitted') /\ IsFiniteSet(overwritten')
      /\ captured' = entries' + out' + filtered' + over' + drops' + correlationDrops'
      /\ entries' <= MaxPending /\ Len(ring') <= RingSize
  BY DEF SizeInv, CapturedAccounted
<1> USE DEF kernel, metrics, history
<1>1. ASSUME NEW t \in Threads, Stored(t)
      PROVE  /\ IsFiniteSet(emitted') /\ IsFiniteSet(overwritten')
             /\ captured' = entries' + out' + filtered' + over' + drops' + correlationDrops'
             /\ entries' <= MaxPending /\ Len(ring') <= RingSize
  <2>1. /\ pending' = [pending EXCEPT ![t] = calls + 1] /\ captured' = captured + 1
        /\ overwritten' = overwritten \union ({pending[t]} \ {0})
        /\ pending[t] # 0 \/ entries < MaxPending
        /\ UNCHANGED <<ring, drops, correlationDrops, emitted, filtered>>
    BY <1>1 DEF Stored
  <2>2. entries' = IF pending[t] = 0 THEN entries + 1 ELSE entries
    <3>1. calls + 1 \in Nat \ {0}
      BY DEF TypeOK
    <3> QED BY <2>1, <3>1, EntriesIn
  <2>3. IsFiniteSet(overwritten') /\ over' = IF pending[t] = 0 THEN over ELSE over + 1
    <3>1. CASE pending[t] = 0
      <4>1. overwritten' = overwritten
        BY <2>1, <3>1
      <4> QED BY <1>f, <3>1, <4>1
    <3>2. CASE pending[t] # 0
      <4>1. overwritten' = overwritten \cup {pending[t]}
        BY <2>1, <3>2
      <4>2. pending[t] \notin overwritten
        BY DEF PlaceInv
      <4> QED BY <1>f, <3>2, <4>1, <4>2, FS_AddElement
    <3> QED BY <3>1, <3>2
  <2>4. out' = out /\ IsFiniteSet(emitted')
    BY <1>f, <2>1
  <2> HIDE DEF entries, out, over
  <2>5. CASE pending[t] = 0
    BY <1>0, <2>1, <2>2, <2>3, <2>4, <2>5
  <2>6. CASE pending[t] # 0
    BY <1>0, <2>1, <2>2, <2>3, <2>4, <2>6
  <2> QED BY <2>5, <2>6
<1>2. ASSUME NEW t \in Threads, Refused(t)
      PROVE  /\ IsFiniteSet(emitted') /\ IsFiniteSet(overwritten')
             /\ captured' = entries' + out' + filtered' + over' + drops' + correlationDrops'
             /\ entries' <= MaxPending /\ Len(ring') <= RingSize
  <2>1. /\ captured' = captured + 1 /\ correlationDrops' = correlationDrops + 1
        /\ UNCHANGED <<pending, overwritten, ring, drops, emitted, filtered>>
    BY <1>2 DEF Refused
  <2>2. entries' = entries /\ out' = out /\ over' = over
    BY <2>1 DEF Entries
  <2> HIDE DEF entries, out, over
  <2> QED BY <1>0, <1>f, <2>1, <2>2
<1>3. ASSUME NEW t \in Threads, NEW ret \in (-1)..MaxReturn, Completed(t, ret)
      PROVE  /\ IsFiniteSet(emitted') /\ IsFiniteSet(overwritten')
             /\ captured' = entries' + out' + filtered' + over' + drops' + correlationDrops'
             /\ entries' <= MaxPending /\ Len(ring') <= RingSize
  <2> DEFINE record == [call |-> pending[t], exit |-> inside[t], ret |-> ret]
  <2>1. entries' = entries - 1
    BY <1>3, EntriesOut DEF Completed
  <2>2. over' = over /\ IsFiniteSet(overwritten')
        /\ UNCHANGED <<captured, correlationDrops>>
    BY <1>3, <1>f DEF Completed
  <2>3. record \notin emitted
    <3>1. record.call = pending[t]
      OBVIOUS
    <3> QED BY <3>1 DEF PlaceInv
  <2>4. IsFiniteSet(emitted \cup {record}) /\ Cardinality(emitted \cup {record}) = out + 1
    BY <1>f, <2>3, FS_AddElement
  <2> HIDE DEF record
  <2>5. \/ filtered' = filtered + 1 /\ UNCHANGED <<ring, drops, emitted>>
        \/ Output(record) /\ UNCHANGED filtered
    BY <1>3 DEF Completed, record
  <2>6. CASE filtered' = filtered + 1 /\ UNCHANGED <<ring, drops, emitted>>
    <3>1. out' = out
      BY <2>6
    <3> HIDE DEF entries, out, over
    <3> QED BY <1>0, <1>f, <2>1, <2>2, <2>6, <3>1
  <2>7. CASE Output(record) /\ UNCHANGED filtered /\ Len(ring) < RingSize
    <3>1. emitted' = emitted \cup {record} /\ drops' = drops /\ ring' = Append(ring, record)
      BY <2>7 DEF Output
    <3>2. Len(ring') = Len(ring) + 1
      BY <3>1 DEF TypeOK
    <3>3. out' = out + 1 /\ IsFiniteSet(emitted')
      BY <2>4, <3>1
    <3> HIDE DEF entries, out, over
    <3> QED BY <1>0, <2>1, <2>2, <2>7, <3>1, <3>2, <3>3
  <2>8. CASE Output(record) /\ UNCHANGED filtered /\ ~(Len(ring) < RingSize)
    <3>1. drops' = drops + 1 /\ UNCHANGED <<ring, emitted>>
      BY <2>8 DEF Output
    <3>2. out' = out
      BY <3>1
    <3> HIDE DEF entries, out, over
    <3> QED BY <1>0, <1>f, <2>1, <2>2, <2>8, <3>1, <3>2
  <2> QED BY <2>5, <2>6, <2>7, <2>8
<1>4. ASSUME \/ \E t \in Threads : Uncaptured(t) \/ Unmatched(t)
             \/ Elsewhere
      PROVE  /\ IsFiniteSet(emitted') /\ IsFiniteSet(overwritten')
             /\ captured' = entries' + out' + filtered' + over' + drops' + correlationDrops'
             /\ entries' <= MaxPending /\ Len(ring') <= RingSize
  <2>1. /\ UNCHANGED <<pending, drops, correlationDrops, history>>
        /\ ring' = ring \/ (ring # <<>> /\ ring' = Tail(ring))
    BY <1>4 DEF Uncaptured, Unmatched, Elsewhere
  <2>2. Len(ring') <= Len(ring) /\ Len(ring') \in Nat
    BY <2>1 DEF TypeOK
  <2>3. entries' = entries /\ out' = out /\ over' = over
    BY <2>1 DEF Entries
  <2> HIDE DEF entries, out, over
  <2> QED BY <1>0, <1>f, <2>1, <2>2, <2>3
<1> QED BY <1>1, <1>2, <1>3, <1>4, StepCases

-----------------------------------------------------------------------------
(* The entry of a watched call leaves the map with the exit of that call.  *)
LEMMA WatchStep ==
  TypeOK /\ PlaceInv /\ WatchInv /\ WatchedIsOwn /\ [Next]_vars
    => WatchInv' /\ WatchedIsOwn'
<1> SUFFICES ASSUME TypeOK, PlaceInv, WatchInv, WatchedIsOwn, [Next]_vars
             PROVE  WatchInv' /\ WatchedIsOwn'
  OBVIOUS
<1>0. /\ pending \in [Threads -> Nat] /\ inside \in [Threads -> Nat] /\ calls \in Nat
      /\ watched \in SUBSET Nat /\ stage \in Stages
      /\ \A t \in Threads : pending[t] <= calls
      /\ \A r \in emitted : r.call \in Nat /\ r.call <= calls
      /\ \A n \in overwritten : n <= calls
  BY DEF TypeOK, PlaceInv, Records
<1> USE DEF WatchInv, WatchedIsOwn, kernel, metrics, history, Stages
<1>1. ASSUME NEW t \in Threads, Stored(t) PROVE WatchInv' /\ WatchedIsOwn'
  <2>1. /\ pending' = [pending EXCEPT ![t] = calls + 1] /\ calls' = calls + 1
        /\ inside' = [inside EXCEPT ![t] = calls + 1] /\ inside[t] = 0
        /\ overwritten' = overwritten \union ({pending[t]} \ {0})
        /\ watched' = IF stage \in ExitOn THEN watched \union {calls + 1} ELSE watched
        /\ UNCHANGED <<emitted, stage>>
    BY <1>1 DEF Stored
  <2>2. \A u \in Threads : /\ inside'[u] = (IF u = t THEN calls + 1 ELSE inside[u])
                           /\ pending'[u] = IF u = t THEN calls + 1 ELSE pending[u]
    BY <1>0, <2>1
  <2>3. /\ watched \subseteq watched' /\ watched' \subseteq watched \cup {calls + 1}
        /\ stage # "running" => watched' = watched
    BY <2>1 DEF ExitOn
  <2>4. stage = "running" => pending[t] \notin watched
    BY <2>1
  <2>5. \A n \in watched' : n <= calls' /\ n # 0
    BY <1>0, <2>1, <2>3
  <2>6. stage' = "running" =>
          \A u \in Threads : pending'[u] \in watched' => pending'[u] = inside'[u]
    BY <1>0, <2>1, <2>2, <2>3
  <2>7. \A r \in emitted' : r.call \in watched' => r.exit = r.call
    BY <1>0, <2>1, <2>3
  <2>8. stage' = "running" => overwritten' \cap watched' = {}
    <3> SUFFICES ASSUME stage = "running", NEW n \in overwritten', n \in watched' PROVE FALSE
      BY <2>1
    <3>1. n \in overwritten \/ n = pending[t]
      BY <2>1
    <3>2. n <= calls
      BY <1>0, <3>1
    <3>3. n \in watched
      BY <1>0, <2>3, <3>2
    <3> QED BY <2>4, <3>1, <3>3
  <2> QED BY <2>1, <2>3, <2>5, <2>6, <2>7, <2>8
<1>2. ASSUME NEW t \in Threads, Refused(t) \/ Uncaptured(t)
      PROVE  WatchInv' /\ WatchedIsOwn'
  <2>1. /\ calls' = calls + 1 /\ inside[t] = 0
        /\ inside' = [inside EXCEPT ![t] = calls + 1]
        /\ watched' = watched \/ (stage \in ExitOn /\ watched' = watched \union {calls + 1})
        /\ UNCHANGED <<pending, emitted, overwritten, stage>>
    BY <1>2 DEF Refused, Uncaptured
  <2>2. \A u \in Threads : inside'[u] = IF u = t THEN calls + 1 ELSE inside[u]
    BY <1>0, <2>1
  <2>3. /\ watched \subseteq watched' /\ watched' \subseteq watched \cup {calls + 1}
        /\ stage # "running" => watched' = watched
    BY <2>1 DEF ExitOn
  <2>4. \A n \in watched' : n <= calls' /\ n # 0
    BY <1>0, <2>1, <2>3
  <2>5. stage' = "running" =>
          \A u \in Threads : pending'[u] \in watched' => pending'[u] = inside'[u]
    <3> SUFFICES ASSUME stage = "running", NEW u \in Threads, pending[u] \in watched'
                 PROVE  pending[u] = inside'[u]
      BY <2>1
    <3>1. pending[u] \in watched
      BY <1>0, <2>3
    <3> QED BY <2>1, <2>2, <3>1
  <2>6. \A r \in emitted' : r.call \in watched' => r.exit = r.call
    BY <1>0, <2>1, <2>3
  <2>7. stage' = "running" => overwritten' \cap watched' = {}
    BY <1>0, <2>1, <2>3
  <2> QED BY <2>1, <2>3, <2>4, <2>5, <2>6, <2>7
<1>3. ASSUME NEW t \in Threads, Unmatched(t) PROVE WatchInv' /\ WatchedIsOwn'
  <2>1. /\ stage = "running" => pending[t] = 0
        /\ inside' = [inside EXCEPT ![t] = 0]
        /\ UNCHANGED <<calls, stage, pending, emitted, overwritten, watched>>
    BY <1>3 DEF Unmatched
  <2>2. \A u \in Threads : inside'[u] = IF u = t THEN 0 ELSE inside[u]
    BY <1>0, <2>1
  <2> QED BY <1>0, <2>1, <2>2
<1>4. ASSUME NEW t \in Threads, NEW ret \in (-1)..MaxReturn, Completed(t, ret)
      PROVE  WatchInv' /\ WatchedIsOwn'
  <2> DEFINE record == [call |-> pending[t], exit |-> inside[t], ret |-> ret]
  <2>1. record.call = pending[t] /\ record.exit = inside[t]
    OBVIOUS
  <2> HIDE DEF record
  <2>2. \A r \in emitted' : r \in emitted \/ r = record
    BY <1>4 DEF Completed, Output, record
  <2>3. /\ stage = "running" /\ pending' = [pending EXCEPT ![t] = 0]
        /\ inside' = [inside EXCEPT ![t] = 0]
        /\ UNCHANGED <<calls, stage, overwritten, watched>>
    BY <1>4 DEF Completed
  <2>4. \A u \in Threads : /\ inside'[u] = (IF u = t THEN 0 ELSE inside[u])
                           /\ pending'[u] = IF u = t THEN 0 ELSE pending[u]
    BY <1>0, <2>3
  <2> QED BY <1>0, <2>1, <2>2, <2>3, <2>4
<1>5. CASE Elsewhere
  <2>1. /\ UNCHANGED <<calls, inside, pending, emitted, overwritten, watched>>
        /\ stage' = "running" => stage \in {"running", "entering"}
        /\ stage' \in {"setup", "entering"} => stage \in {"setup", "entering"}
    BY <1>5 DEF Elsewhere
  <2> QED BY <2>1
<1> QED BY <1>1, <1>2, <1>3, <1>4, <1>5, StepCases

(* After the last refresh no program runs that could count a drop.         *)
LEMMA DetachStep == DetachInv /\ [Next]_vars => DetachInv'
<1> SUFFICES ASSUME DetachInv, [Next]_vars PROVE DetachInv'
  OBVIOUS
<1> USE DEF DetachInv, FinalStatsComplete, kernel, metrics, history
<1>1. ASSUME NEW t \in Threads,
             Stored(t) \/ Refused(t) \/ Uncaptured(t) \/ Unmatched(t)
      PROVE  DetachInv'
  BY <1>1 DEF Stored, Refused, Uncaptured, Unmatched, EnterOn
<1>2. ASSUME NEW t \in Threads, NEW ret \in (-1)..MaxReturn, Completed(t, ret)
      PROVE  DetachInv'
  BY <1>2 DEF Completed
<1>3. CASE Elsewhere
  BY <1>3 DEF Elsewhere, Refresh
<1> QED BY <1>1, <1>2, <1>3, StepCases

-----------------------------------------------------------------------------
(* The invariant holds in every state.                                     *)
LEMMA Invariance == Spec => []IInv
<1>1. Init => IInv
  <2> SUFFICES ASSUME Init PROVE IInv
    OBVIOUS
  <2> USE CorrelationAssumption DEF CorrelationAssumption, Init
  <2>1. Entries = {}
    BY DEF Entries
  <2>2. TypeOK
    BY DEF TypeOK, Stages
  <2>3. PlaceInv /\ WatchInv /\ WatchedIsOwn /\ DetachInv
    BY DEF PlaceInv, WatchInv, WatchedIsOwn, DetachInv, FinalStatsComplete
  <2>4. SizeInv
    BY <2>1, FS_EmptySet DEF SizeInv, CapturedAccounted
  <2> QED BY <2>2, <2>3, <2>4 DEF IInv
<1>2. IInv /\ [Next]_vars => IInv'
  BY TypeStep, PlaceStep, SizeStep, WatchStep, DetachStep DEF IInv
<1> QED BY <1>1, <1>2, PTL DEF Spec

(* Whatever the sizes of map and ring buffer and however many threads call *)
(* while hooks come and go, a captured call is accounted for once.         *)
THEOREM CapturedAccountedCorrect == Spec => []CapturedAccounted
<1>1. IInv => CapturedAccounted
  BY DEF IInv, SizeInv
<1> QED BY <1>1, Invariance, PTL

(* A record of a call entered with both hooks on carries the return value  *)
(* of that call, though the exit program does not compare the two.         *)
THEOREM WatchedIsOwnCorrect == Spec => []WatchedIsOwn
<1>1. IInv => WatchedIsOwn
  BY DEF IInv
<1> QED BY <1>1, Invariance, PTL

(* The counts a collector reports after Run are all drops there were.      *)
THEOREM FinalStatsCompleteCorrect == Spec => []FinalStatsComplete
<1>1. IInv => FinalStatsComplete
  BY DEF IInv, DetachInv
<1> QED BY <1>1, Invariance, PTL
=============================================================================
