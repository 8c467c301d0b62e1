------------------------- MODULE ContainerCacheProofs -------------------------
(***************************************************************************)
(* TLAPS proof that the container cache does not confuse the processes a   *)
(* PID is reused for, and gives up no good entry while it holds an expired *)
(* one, for any PIDs, containers, sizes and times, when a cache has one    *)
(* user, as every collector's has.                                         *)
(***************************************************************************)
EXTENDS ContainerCache, FiniteSetTheorems, TLAPS

(* Records made by the actions have their types.                           *)
LEMMA Records ==
  /\ Nobody \in ProcType /\ NoEntry \in EntryType /\ Idle \in UserType
  /\ \A s \in Nat, c \in Metadata : [start |-> s, container |-> c] \in ProcType
  BY DEF Nobody, NoEntry, Idle, ProcType, EntryType, UserType, Metadata

(* A cache starts empty and nobody is in a lookup.                         *)
LEMMA OwnInit == Init => OwnInv
<1> SUFFICES ASSUME Init PROVE OwnInv
  OBVIOUS
<1>1. Shape
  <2>1. \A u \in Users : user[u].pc = "idle"
    BY DEF Init, Idle
  <2> QED BY <2>1, Records DEF Init, Shape
<1>2. EntriesOwn
  BY DEF Init, EntriesOwn, NoEntry
<1>3. UsersOwn
  BY DEF Init, UsersOwn, Idle
<1>4. Past
  <2>1. started = 0
    BY DEF Init
  <2>2. \A p \in Pids : proc[p].start = 0
    BY DEF Init, Nobody
  <2>3. \A p \in Pids : entries[p].start = 0
    BY DEF Init, NoEntry
  <2>4. \A u \in Users : user[u].start = 0
    BY DEF Init, Idle
  <2> QED BY <2>1, <2>2, <2>3, <2>4 DEF Past
<1> QED BY <1>1, <1>2, <1>3, <1>4 DEF OwnInv

(* What the kernel's steps do: start times are new or gone.                *)
LEMMA WorldStep ==
  ASSUME Shape, NEW p \in Pids, Start(p) \/ Move(p) \/ End(p)
  PROVE  /\ UNCHANGED <<clock, entries, user, hits>>
         /\ started' \in Nat /\ started <= started'
         /\ proc' \in [Pids -> ProcType]
         /\ \A q \in Pids : \/ proc'[q].start = proc[q].start
                            \/ started' = started + 1 /\ proc'[q].start = started'
                            \/ proc'[q].start = 0
<1> USE DEF Shape
<1>1. CASE Start(p)
  <2>1. PICK c \in Metadata :
          proc' = [proc EXCEPT ![p] = [start |-> started + 1, container |-> c]]
    BY <1>1 DEF Start, Metadata
  <2>2. started' = started + 1
    BY <1>1 DEF Start
  <2>3. proc' \in [Pids -> ProcType]
    BY <2>1, Records
  <2>4. \A q \in Pids : proc'[q] = proc[q] \/ proc'[q].start = started'
    BY <2>1, <2>2
  <2>5. UNCHANGED <<clock, entries, user, hits>>
    BY <1>1 DEF Start
  <2>6. started' \in Nat /\ started <= started'
    BY <2>2
  <2> QED BY <2>2, <2>3, <2>4, <2>5, <2>6
<1>2. CASE Move(p)
  <2>1. PICK c \in Metadata : proc' = [proc EXCEPT ![p].container = c]
    BY <1>2 DEF Move, Metadata
  <2>2. proc' \in [Pids -> ProcType] /\ \A q \in Pids : proc'[q].start = proc[q].start
    BY <2>1 DEF ProcType
  <2> QED BY <1>2, <2>2 DEF Move
<1>3. CASE End(p)
  <2>1. proc' \in [Pids -> ProcType]
    BY <1>3, Records DEF End
  <2>2. \A q \in Pids : proc'[q] = proc[q] \/ proc'[q].start = 0
    BY <1>3 DEF End, Nobody
  <2> QED BY <1>3, <2>1, <2>2 DEF End
<1> QED BY <1>1, <1>2, <1>3

(* A process that is gone does not come back: start times are not reused.  *)
LEMMA WorldOwn ==
  ASSUME OwnInv, NEW p \in Pids, Start(p) \/ Move(p) \/ End(p)
  PROVE  OwnInv'
<1>0. Shape /\ Past /\ EntriesOwn /\ UsersOwn
  BY DEF OwnInv
<1>1. /\ UNCHANGED <<clock, entries, user, hits>>
      /\ started' \in Nat /\ started <= started'
      /\ proc' \in [Pids -> ProcType]
      /\ \A q \in Pids : \/ proc'[q].start = proc[q].start
                         \/ started' = started + 1 /\ proc'[q].start = started'
                         \/ proc'[q].start = 0
  BY <1>0, WorldStep
<1>2. Shape'
  BY <1>0, <1>1 DEF Shape
<1>3. /\ started \in Nat
      /\ \A q \in Pids : proc[q].start \in Nat /\ entries[q].start \in Nat
      /\ \A u \in Users : user[u].start \in Nat
  BY <1>0 DEF Shape, ProcType, EntryType, UserType
<1>4. Past'
  BY <1>0, <1>1, <1>3 DEF Past
<1>5. EntriesOwn'
  BY <1>0, <1>1, <1>3 DEF EntriesOwn, Past
<1>6. UsersOwn'
  <2>1. \A u \in Users : user[u].pc \in {"hostname", "store"} => user[u].pid \in Pids
    BY <1>0 DEF Shape
  <2>2. \A q \in Pids, u \in Users :
          proc[q].start # user[u].start /\ user[u].start # 0
            => proc'[q].start # user[u].start
    BY <1>0, <1>1, <1>3 DEF Past
  <2> QED BY <1>0, <1>1, <2>1, <2>2 DEF UsersOwn
<1> QED BY <1>2, <1>4, <1>5, <1>6 DEF OwnInv

(* Time does not enter the argument.                                       *)
LEMMA TickOwn ==
  ASSUME OwnInv, Tick
  PROVE  OwnInv'
<1>1. UNCHANGED <<started, proc, entries, user, hits>> /\ clock' \in Nat
  BY DEF Tick, world, OwnInv, Shape
<1> QED BY <1>1 DEF OwnInv, Shape, Past, EntriesOwn, UsersOwn

(* The start time read is that of the process that has the PID, so an      *)
(* entry under it was read from that process.                              *)
LEMMA ReadStartTimeOwn ==
  ASSUME OwnInv, NEW u \in Users, NEW p \in Pids, ReadStartTime(u, p)
  PROVE  OwnInv'
<1>0. Shape /\ Past /\ EntriesOwn /\ UsersOwn
  BY DEF OwnInv
<1> DEFINE l == [Idle EXCEPT !.pc = IF proc[p].start = 0 THEN "read" ELSE "check",
                             !.pid = p, !.start = proc[p].start, !.now = clock]
<1>1. /\ UNCHANGED <<clock, started, proc, entries>>
      /\ user' = [user EXCEPT ![u] = l] /\ hits' = hits \ {u}
  BY DEF ReadStartTime, world
<1>2. l \in UserType
  BY <1>0 DEF Shape, Idle, UserType, ProcType, Metadata
<1>3. /\ l.pid = p /\ l.start = proc[p].start
      /\ l.pc = IF proc[p].start = 0 THEN "read" ELSE "check"
  BY DEF Idle
<1> HIDE DEF l
<1>4. \A v \in Users : user'[v] = IF v = u THEN l ELSE user[v]
  BY <1>0, <1>1 DEF Shape
<1>5. Shape'
  BY <1>0, <1>1, <1>2, <1>3, <1>4 DEF Shape
<1>6. Past'
  BY <1>0, <1>1, <1>3, <1>4 DEF Past
<1>7. EntriesOwn'
  BY <1>0, <1>1 DEF EntriesOwn
<1>8. entries[p].start = proc[p].start /\ proc[p].start # 0
        => entries[p].of = {proc[p].start}
  BY <1>0 DEF EntriesOwn
<1>9. UsersOwn'
  BY <1>0, <1>1, <1>3, <1>4, <1>8 DEF UsersOwn
<1> QED BY <1>5, <1>6, <1>7, <1>9 DEF OwnInv

(* A hit returns the entry, which is of the process asked about.           *)
LEMMA CheckOwn ==
  ASSUME OwnInv, NEW u \in Users, Check(u)
  PROVE  OwnInv'
<1>0. Shape /\ Past /\ EntriesOwn /\ UsersOwn
  BY DEF OwnInv
<1> DEFINE e == entries[user[u].pid]
<1>1. /\ UNCHANGED <<clock, started, proc, entries>>
      /\ user[u].pc = "check" /\ user[u].pid \in Pids
  BY <1>0 DEF Check, world, Shape
<1>2. PICK l \in UserType :
        /\ \A v \in Users : user'[v] = IF v = u THEN l ELSE user[v]
        /\ user' \in [Users -> UserType]
        /\ l.start = user[u].start /\ l.pid = user[u].pid
        /\ \/ l.pc = "idle" /\ l.of = e.of /\ e.start = user[u].start
              /\ hits' = hits \union {u}
           \/ l.pc = "read" /\ hits' = hits
  <2>1. user \in [Users -> UserType] /\ e \in EntryType
    BY <1>0, <1>1 DEF Shape
  <2>2. CASE IsHit(u, e)
    <3> DEFINE l == [user[u] EXCEPT !.pc = "idle", !.metadata = e.metadata,
                                    !.of = e.of]
    <3>1. user' = [user EXCEPT ![u] = l] /\ hits' = hits \union {u}
      BY <2>1, <2>2 DEF Check
    <3>2. l \in UserType /\ l.pc = "idle" /\ l.of = e.of
          /\ l.start = user[u].start /\ l.pid = user[u].pid
      BY <2>1 DEF UserType, EntryType
    <3>3. e.start = user[u].start
      BY <2>2 DEF IsHit
    <3> HIDE DEF l
    <3> QED BY <2>1, <3>1, <3>2, <3>3
  <2>3. CASE ~IsHit(u, e)
    <3> DEFINE l == [user[u] EXCEPT !.pc = "read"]
    <3>1. user' = [user EXCEPT ![u] = l] /\ hits' = hits
      BY <2>1, <2>3 DEF Check
    <3>2. l \in UserType /\ l.pc = "read"
          /\ l.start = user[u].start /\ l.pid = user[u].pid
      BY <2>1 DEF UserType
    <3> HIDE DEF l
    <3> QED BY <2>1, <3>1, <3>2
  <2> QED BY <2>2, <2>3
<1>3. e.start = user[u].start => e.of = {user[u].start}
  BY <1>0, <1>1 DEF UsersOwn
<1>4. user[u].start # 0
  BY <1>0, <1>1 DEF UsersOwn
<1> HIDE DEF e
<1>5. Shape'
  BY <1>0, <1>1, <1>2 DEF Shape
<1>6. Past'
  BY <1>0, <1>1, <1>2 DEF Past
<1>7. EntriesOwn'
  BY <1>0, <1>1 DEF EntriesOwn
<1>8. UsersOwn'
  BY <1>0, <1>1, <1>2, <1>3, <1>4 DEF UsersOwn
<1> QED BY <1>5, <1>6, <1>7, <1>8 DEF OwnInv

(* The container is read from whatever process has the PID now: either the *)
(* one whose start time was read, or that one is gone.                     *)
LEMMA ReadContainerIDOwn ==
  ASSUME OwnInv, NEW u \in Users, ReadContainerID(u)
  PROVE  OwnInv'
<1>0. Shape /\ Past /\ EntriesOwn /\ UsersOwn
  BY DEF OwnInv
<1> DEFINE q == proc[user[u].pid]
           pc == IF q.container = "" THEN AfterRead(u) ELSE "hostname"
           l == [user[u] EXCEPT !.pc = pc, !.metadata = q.container,
                                !.of = {q.start}]
<1>1. /\ UNCHANGED <<clock, started, proc, entries, hits>>
      /\ user[u].pc = "read" /\ user[u].pid \in Pids
  BY <1>0 DEF ReadContainerID, world, Shape
<1>2. user \in [Users -> UserType] /\ q \in ProcType /\ clock \in Nat
  BY <1>0, <1>1 DEF Shape
<1>3. user' = [user EXCEPT ![u] = l]
  BY <1>2 DEF ReadContainerID
<1>4. pc \in {"hostname", "idle", "store"} /\ (pc = "store" => user[u].start # 0)
  BY DEF AfterRead
<1> HIDE DEF pc
<1>5. l \in UserType
  <2>1. user[u] \in UserType
    BY <1>2
  <2>2. q.container \in Metadata /\ {q.start} \in SUBSET Nat
    BY <1>2 DEF ProcType
  <2> HIDE DEF q
  <2> QED BY <2>1, <2>2, <1>4 DEF UserType
<1>6. /\ l.start = user[u].start /\ l.pid = user[u].pid /\ l.of = {q.start}
      /\ l.pc = pc
  BY <1>2 DEF UserType
<1> HIDE DEF l
<1>7. \A v \in Users : user'[v] = IF v = u THEN l ELSE user[v]
  BY <1>2, <1>3
<1>8. Shape'
  BY <1>0, <1>1, <1>3, <1>5, <1>6, <1>7 DEF Shape
<1>9. Past'
  BY <1>0, <1>1, <1>6, <1>7 DEF Past
<1>10. EntriesOwn'
  BY <1>0, <1>1 DEF EntriesOwn
<1>11. u \notin hits
  BY <1>0, <1>1 DEF UsersOwn
<1>12. UsersOwn'
  BY <1>0, <1>1, <1>4, <1>6, <1>7, <1>11 DEF UsersOwn
<1> QED BY <1>8, <1>9, <1>10, <1>12 DEF OwnInv

(* So is the hostname, a step later.                                       *)
LEMMA ReadContainerHostnameOwn ==
  ASSUME OwnInv, NEW u \in Users, ReadContainerHostname(u)
  PROVE  OwnInv'
<1>0. Shape /\ Past /\ EntriesOwn /\ UsersOwn
  BY DEF OwnInv
<1> DEFINE q == proc[user[u].pid]
           pc == AfterRead(u)
           l == [user[u] EXCEPT !.pc = pc, !.of = @ \union {q.start}]
<1>1. /\ UNCHANGED <<clock, started, proc, entries, hits>>
      /\ user[u].pc = "hostname" /\ user[u].pid \in Pids
  BY <1>0 DEF ReadContainerHostname, world, Shape
<1>2. user \in [Users -> UserType] /\ q \in ProcType
  BY <1>0, <1>1 DEF Shape
<1>3. user' = [user EXCEPT ![u] = l]
  BY <1>2 DEF ReadContainerHostname
<1>4. pc \in {"idle", "store"} /\ (pc = "store" => user[u].start # 0)
  BY DEF AfterRead
<1> HIDE DEF pc
<1>5. l \in UserType
  <2>1. user[u] \in UserType
    BY <1>2
  <2> DEFINE of == user[u].of \union {q.start}
  <2>2. of \in SUBSET Nat
    BY <1>2 DEF ProcType, UserType
  <2>3. l = [user[u] EXCEPT !.pc = pc, !.of = of]
    OBVIOUS
  <2> HIDE DEF of, l
  <2> QED BY <1>4, <2>1, <2>2, <2>3 DEF UserType
<1>6. /\ l.start = user[u].start /\ l.pid = user[u].pid
      /\ l.of = user[u].of \union {q.start} /\ l.pc = pc
  BY <1>2 DEF UserType
<1> HIDE DEF l
<1>7. \A v \in Users : user'[v] = IF v = u THEN l ELSE user[v]
  BY <1>2, <1>3
<1>8. Shape'
  BY <1>0, <1>1, <1>3, <1>5, <1>6, <1>7 DEF Shape
<1>9. Past'
  BY <1>0, <1>1, <1>6, <1>7 DEF Past
<1>10. EntriesOwn'
  BY <1>0, <1>1 DEF EntriesOwn
<1>11. u \notin hits
  BY <1>0, <1>1 DEF UsersOwn
<1>12. pc = "store" => l.of = {l.start} \/ q.start # l.start
  BY <1>0, <1>1, <1>4, <1>6 DEF UsersOwn
<1>13. UsersOwn'
  BY <1>0, <1>1, <1>4, <1>6, <1>7, <1>11, <1>12 DEF UsersOwn
<1> QED BY <1>8, <1>9, <1>10, <1>13 DEF OwnInv

(* What is stored under the start time of a process that is gone is never  *)
(* asked for again.  Another user may be about to ask for it, having read  *)
(* the start time before the process ended: hence one user.                *)
LEMMA StoreOwn ==
  ASSUME OwnInv, NEW u \in Users, \A v \in Users : v = u, Store(u)
  PROVE  OwnInv'
<1>0. Shape /\ Past /\ EntriesOwn /\ UsersOwn
  BY DEF OwnInv
<1> DEFINE l == user[u]
           e == [start |-> l.start, metadata |-> l.metadata,
                 expiresAt |-> l.now + TTL, of |-> l.of]
<1>1. /\ UNCHANGED <<clock, started, proc, hits>>
      /\ l.pc = "store" /\ l.pid \in Pids /\ l.start # 0
      /\ user' = [user EXCEPT ![u].pc = "idle"]
  BY <1>0 DEF Store, world, Shape, UsersOwn
<1>2. e \in EntryType
  <2>1. l \in UserType
    BY <1>0 DEF Shape
  <2>2. l.start \in Nat /\ l.now \in Nat /\ l.metadata \in Metadata
        /\ l.of \in SUBSET Nat
    BY <2>1 DEF UserType
  <2> HIDE DEF l
  <2>3. TTL \in Nat
    BY CacheAssumption DEF CacheAssumption
  <2>4. l.now + TTL \in Nat
    BY <2>2, <2>3
  <2> QED BY <2>2, <2>4 DEF EntryType
<1>3. /\ entries' \in [Pids -> EntryType]
      /\ \A p \in Pids : \/ entries'[p] \in {entries[p], NoEntry}
                         \/ p = l.pid /\ entries'[p] = e
  <2>1. \/ \E v \in Victims(l.now) :
             entries' = [entries EXCEPT ![v] = NoEntry, ![l.pid] = e]
        \/ entries' = [entries EXCEPT ![l.pid] = e]
    BY Zenon DEF Store
  <2>2. entries \in [Pids -> EntryType] /\ NoEntry \in EntryType
    BY <1>0, Records DEF Shape
  <2>3. l.pid \in Pids
    BY <1>1
  <2> HIDE DEF l, e
  <2>4. Victims(l.now) \subseteq Pids
    BY DEF Victims, Expired, Cached
  <2>5. CASE entries' = [entries EXCEPT ![l.pid] = e]
    BY <1>2, <2>2, <2>3, <2>5
  <2>6. CASE \E v \in Victims(l.now) :
               entries' = [entries EXCEPT ![v] = NoEntry, ![l.pid] = e]
    <3>1. PICK v \in Pids : entries' = [entries EXCEPT ![v] = NoEntry, ![l.pid] = e]
      BY <2>4, <2>6
    <3> QED BY <1>2, <2>2, <2>3, <3>1
  <2> QED BY <2>1, <2>5, <2>6
<1>4. e.start = l.start /\ e.of = l.of /\ NoEntry.start = 0
  BY DEF NoEntry
<1>5. \/ l.of = {l.start}
      \/ proc[l.pid].start # l.start
  BY <1>0, <1>1 DEF UsersOwn
<1> HIDE DEF e
<1>6. /\ user' \in [Users -> UserType]
      /\ \A v \in Users : /\ user'[v].pc = "idle" /\ user'[v].start = user[v].start
                          /\ user'[v].of = user[v].of
  BY <1>0, <1>1 DEF Shape, UserType
<1>7. Shape'
  BY <1>0, <1>1, <1>3, <1>6 DEF Shape
<1>8. started \in Nat /\ 0 <= started
  BY <1>0 DEF Shape
<1>9. Past'
  <2>1. \A p \in Pids : entries'[p].start \in {entries[p].start, 0, l.start}
    BY <1>3, <1>4
  <2>2. l.start <= started
    BY <1>0 DEF Past
  <2> QED BY <1>0, <1>1, <1>6, <1>8, <2>1, <2>2 DEF Past
<1>10. EntriesOwn'
  BY <1>0, <1>1, <1>3, <1>4, <1>5 DEF EntriesOwn
<1>11. UsersOwn'
  BY <1>0, <1>1, <1>6 DEF UsersOwn
<1> QED BY <1>7, <1>9, <1>10, <1>11 DEF OwnInv

(* Every step keeps the invariant, when the cache has one user.            *)
LEMMA OwnNext ==
  ASSUME \A u, v \in Users : u = v, OwnInv, [Next]_vars
  PROVE  OwnInv'
<1>1. CASE UNCHANGED vars
  BY <1>1 DEF vars, world, OwnInv, Shape, Past, EntriesOwn, UsersOwn
<1>2. CASE \E p \in Pids : Start(p) \/ Move(p) \/ End(p)
  BY <1>2, WorldOwn
<1>3. CASE Tick
  BY <1>3, TickOwn
<1>4. CASE \E u \in Users, p \in Pids : ReadStartTime(u, p)
  BY <1>4, ReadStartTimeOwn
<1>5. CASE \E u \in Users : Check(u)
  BY <1>5, CheckOwn
<1>6. CASE \E u \in Users : ReadContainerID(u)
  BY <1>6, ReadContainerIDOwn
<1>7. CASE \E u \in Users : ReadContainerHostname(u)
  BY <1>7, ReadContainerHostnameOwn
<1>8. CASE \E u \in Users : Store(u)
  BY <1>8, StoreOwn
<1> QED BY <1>1, <1>2, <1>3, <1>4, <1>5, <1>6, <1>7, <1>8 DEF Next

(* HitIsOwn for any PIDs, containers, sizes, times and numbers of          *)
(* processes, when the cache has one user: lookup of container_linux.go    *)
(* returns from the cache only what was read from the process that has the *)
(* PID of the event.                                                       *)
THEOREM HitIsOwnCorrect ==
  ASSUME \A u, v \in Users : u = v
  PROVE  Spec => []HitIsOwn
<1>1. Init => OwnInv
  BY OwnInit
<1>2. OwnInv /\ [Next]_vars => OwnInv'
  BY OwnNext
<1>3. OwnInv => HitIsOwn
  BY DEF OwnInv, Shape, UsersOwn, HitIsOwn
<1> QED BY <1>1, <1>2, <1>3, PTL DEF Spec

-----------------------------------------------------------------------------
(* What Store does to the entries: it makes one, for which it removes one  *)
(* if the cache is full.                                                   *)
LEMMA StoreEntries ==
  ASSUME OwnInv, NEW u \in Users, Store(u)
  PROVE  /\ user[u].pid \in Pids /\ entries'[user[u].pid].start # 0
         /\ \/ /\ Cardinality(Cached) < MaxEntries
               /\ \A p \in Pids \ {user[u].pid} : entries'[p] = entries[p]
            \/ \E v \in Victims(user[u].now) :
                 \A p \in Pids \ {user[u].pid} :
                   entries'[p] = IF p = v THEN NoEntry ELSE entries[p]
<1> DEFINE l == user[u]
           e == [start |-> l.start, metadata |-> l.metadata,
                 expiresAt |-> l.now + TTL, of |-> l.of]
<1>1. /\ Shape /\ l.pc = "store" /\ l.pid \in Pids /\ l.start # 0
      /\ entries \in [Pids -> EntryType]
  BY DEF Store, OwnInv, Shape, UsersOwn
<1>2. \/ Cardinality(Cached) >= MaxEntries /\ \E v \in Victims(l.now) :
           entries' = [entries EXCEPT ![v] = NoEntry, ![l.pid] = e]
      \/ ~(Cardinality(Cached) >= MaxEntries)
           /\ entries' = [entries EXCEPT ![l.pid] = e]
  BY Zenon DEF Store
<1>3. e.start # 0 BY <1>1
<1>4. Cardinality(Cached) \in Nat /\ MaxEntries \in Nat
  BY CacheAssumption, FS_Subset, FS_CardinalityType DEF CacheAssumption, Cached
<1>5. Victims(l.now) \subseteq Pids BY DEF Victims, Expired, Cached
<1> HIDE DEF l, e
<1>6. CASE /\ ~(Cardinality(Cached) >= MaxEntries)
           /\ entries' = [entries EXCEPT ![l.pid] = e]
  <2>1. Cardinality(Cached) < MaxEntries BY <1>4, <1>6
  <2> QED BY <1>1, <1>3, <1>6, <2>1 DEF l
<1>7. CASE \E v \in Victims(l.now) :
             entries' = [entries EXCEPT ![v] = NoEntry, ![l.pid] = e]
  <2>1. PICK v \in Victims(l.now) :
          entries' = [entries EXCEPT ![v] = NoEntry, ![l.pid] = e]
    BY <1>7
  <2>2. /\ entries'[l.pid] = e
        /\ \A p \in Pids \ {l.pid} : entries'[p] = IF p = v THEN NoEntry ELSE entries[p]
    BY <1>1, <1>5, <2>1
  <2> QED BY <1>1, <1>3, <2>2 DEF l
<1> QED BY <1>2, <1>6, <1>7

(* The size of the cache.                                                  *)
Bounded == Cardinality(Cached) <= MaxEntries

(* A full cache loses an entry before it gets one.                         *)
LEMMA StoreBounded ==
  ASSUME OwnInv, Bounded, NEW u \in Users, Store(u)
  PROVE  Bounded'
<1> DEFINE pid == user[u].pid
           C == Cached
           D == Cached'
<1>1. /\ IsFiniteSet(C) /\ C \subseteq Pids /\ D \subseteq Pids
      /\ Cardinality(C) \in Nat /\ MaxEntries \in Nat \ {0}
      /\ Cardinality(C) <= MaxEntries
  <2>1. C \subseteq Pids /\ D \subseteq Pids BY DEF Cached
  <2>2. IsFiniteSet(Pids) /\ MaxEntries \in Nat \ {0}
    BY CacheAssumption DEF CacheAssumption
  <2>3. IsFiniteSet(C) BY <2>1, <2>2, FS_Subset
  <2> HIDE DEF C, D
  <2>4. Cardinality(C) \in Nat BY <2>3, FS_CardinalityType
  <2> QED BY <2>1, <2>2, <2>3, <2>4 DEF Bounded, C
<1>2. D = {p \in Pids : entries'[p].start # 0} BY DEF Cached
<1>3. C = {p \in Pids : entries[p].start # 0} BY DEF Cached
<1>4. CASE /\ Cardinality(Cached) < MaxEntries
           /\ \A p \in Pids \ {pid} : entries'[p] = entries[p]
  <2>1. D \subseteq C \union {pid} BY <1>2, <1>3, <1>4
  <2>2. Cardinality(C) < MaxEntries BY <1>4
  <2> HIDE DEF C, D, pid
  <2>3. IsFiniteSet(C \union {pid}) /\ Cardinality(C \union {pid}) <= MaxEntries
        /\ Cardinality(C \union {pid}) \in Nat
    BY <1>1, <2>2, FS_AddElement
  <2>4. IsFiniteSet(D) /\ Cardinality(D) <= Cardinality(C \union {pid})
    BY <2>1, <2>3, FS_Subset
  <2>5. Cardinality(D) \in Nat BY <2>4, FS_CardinalityType
  <2>6. Cardinality(D) <= MaxEntries BY <1>1, <2>3, <2>4, <2>5
  <2> QED BY <2>6 DEF Bounded, D
<1>5. ASSUME NEW v \in Victims(user[u].now),
             \A p \in Pids \ {pid} :
               entries'[p] = IF p = v THEN NoEntry ELSE entries[p]
      PROVE  Bounded'
  <2>1. v \in C BY DEF Victims, Expired
  <2>2. D \subseteq (C \ {v}) \union {pid}
    <3> HIDE DEF C, D, pid
    <3>1. ASSUME NEW p \in D, p # pid PROVE p \in C /\ p # v
      <4>1. p \in Pids \ {pid} /\ entries'[p].start # 0 BY <1>2, <3>1
      <4>2. entries'[p] = IF p = v THEN NoEntry ELSE entries[p] BY <1>5, <4>1
      <4>3. NoEntry.start = 0 BY DEF NoEntry
      <4>4. p # v BY <4>1, <4>2, <4>3
      <4>5. entries'[p] = entries[p] BY <4>2, <4>4
      <4> QED BY <1>3, <4>1, <4>4, <4>5
    <3> QED BY <3>1
  <2> HIDE DEF C, D, pid
  <2>3. IsFiniteSet(C \ {v}) /\ Cardinality(C \ {v}) = Cardinality(C) - 1
    BY <1>1, <2>1, FS_RemoveElement
  <2>4. Cardinality(C \ {v}) \in Nat BY <2>3, FS_CardinalityType
  <2>5. /\ IsFiniteSet((C \ {v}) \union {pid})
        /\ Cardinality((C \ {v}) \union {pid}) <= Cardinality(C)
        /\ Cardinality((C \ {v}) \union {pid}) \in Nat
    <3> DEFINE B == C \ {v}
    <3>1. IsFiniteSet(B) /\ Cardinality(B) \in Nat /\ Cardinality(B) = Cardinality(C) - 1
      BY <2>3, <2>4
    <3> HIDE DEF B
    <3>2. /\ IsFiniteSet(B \union {pid})
          /\ Cardinality(B \union {pid}) \in {Cardinality(B), Cardinality(B) + 1}
      BY <3>1, FS_AddElement
    <3>3. Cardinality(B \union {pid}) <= Cardinality(C)
          /\ Cardinality(B \union {pid}) \in Nat
      BY <1>1, <3>1, <3>2
    <3> QED BY <3>2, <3>3 DEF B
  <2>6. IsFiniteSet(D) /\ Cardinality(D) <= Cardinality((C \ {v}) \union {pid})
    BY <2>2, <2>5, FS_Subset
  <2>7. Cardinality(D) \in Nat BY <2>6, FS_CardinalityType
  <2>8. Cardinality(D) <= MaxEntries BY <1>1, <2>5, <2>6, <2>7
  <2> QED BY <2>8 DEF Bounded, D
<1> QED BY <1>4, <1>5, StoreEntries

(* Only Store touches the entries.                                         *)
LEMMA OthersKeepEntries ==
  ASSUME [Next]_vars, \A u \in Users : ~Store(u)
  PROVE  entries' = entries
<1>1. CASE UNCHANGED vars BY <1>1 DEF vars
<1>2. CASE \E p \in Pids : Start(p) \/ Move(p) \/ End(p)
  BY <1>2 DEF Start, Move, End
<1>3. CASE Tick BY <1>3 DEF Tick
<1>4. CASE \E u \in Users, p \in Pids : ReadStartTime(u, p)
  BY <1>4 DEF ReadStartTime
<1>5. CASE \E u \in Users : Check(u) \/ ReadContainerID(u) \/ ReadContainerHostname(u)
  BY <1>5 DEF Check, ReadContainerID, ReadContainerHostname
<1> QED BY <1>1, <1>2, <1>3, <1>4, <1>5 DEF Next

(* EvictsExpiredFirst for any size and lifetime: evictOne makes room for   *)
(* every entry that is stored, and takes one that is still good only when  *)
(* none has expired.                                                       *)
THEOREM EvictsExpiredFirstCorrect ==
  ASSUME \A u, v \in Users : u = v
  PROVE  Spec => EvictsExpiredFirst
<1>1. Init => OwnInv /\ Bounded
  <2> SUFFICES ASSUME Init PROVE Bounded BY OwnInit
  <2>1. Cached = {} BY DEF Init, Cached, NoEntry
  <2>2. Cardinality(Cached) = 0 BY <2>1, FS_EmptySet
  <2>3. MaxEntries \in Nat BY CacheAssumption DEF CacheAssumption
  <2> QED BY <2>2, <2>3 DEF Bounded
<1>2. OwnInv /\ Bounded /\ [Next]_vars => OwnInv' /\ Bounded'
  <2> SUFFICES ASSUME OwnInv, Bounded, [Next]_vars PROVE Bounded'
    BY OwnNext
  <2>1. CASE \E u \in Users : Store(u) BY <2>1, StoreBounded
  <2>2. CASE \A u \in Users : ~Store(u)
    BY <2>2, OthersKeepEntries DEF Bounded, Cached
  <2> QED BY <2>1, <2>2
<1>3. OwnInv /\ Bounded' =>
        /\ Cardinality(Cached') <= MaxEntries
        /\ \A p \in Cached, u \in Users :
             Store(u) /\ entries'[p].start = 0 =>
               \/ user[u].now >= entries[p].expiresAt
               \/ \A q \in Cached : user[u].now < entries[q].expiresAt
  <2> SUFFICES ASSUME OwnInv, NEW p \in Cached, NEW u \in Users, Store(u),
                      entries'[p].start = 0
               PROVE  \/ user[u].now >= entries[p].expiresAt
                      \/ \A q \in Cached : user[u].now < entries[q].expiresAt
    BY DEF Bounded
  <2>1. p \in Pids /\ entries[p].start # 0 BY DEF Cached
  <2>2. p # user[u].pid BY StoreEntries
  <2>3. PICK v \in Victims(user[u].now) :
          entries'[p] = IF p = v THEN NoEntry ELSE entries[p]
    BY <2>1, <2>2, StoreEntries
  <2>4. p \in Victims(user[u].now) BY <2>1, <2>3
  <2>5. CASE Expired(user[u].now) # {} BY <2>4, <2>5 DEF Victims, Expired
  <2>6. CASE Expired(user[u].now) = {}
    <3>1. ASSUME NEW q \in Cached PROVE user[u].now < entries[q].expiresAt
      <4>1. ~(user[u].now >= entries[q].expiresAt) BY <2>6 DEF Expired
      <4>2. user[u].now \in Nat BY DEF OwnInv, Shape, UserType
      <4>3. entries[q].expiresAt \in Nat BY DEF OwnInv, Shape, EntryType, Cached
      <4> QED BY <4>1, <4>2, <4>3
    <3> QED BY <3>1
  <2> QED BY <2>5, <2>6
<1> QED BY <1>1, <1>2, <1>3, PTL DEF Spec, EvictsExpiredFirst
=============================================================================
