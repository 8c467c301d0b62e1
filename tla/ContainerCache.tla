---------------------------- MODULE ContainerCache ----------------------------
(***************************************************************************)
(* container_linux.go: the container of a process is read from /proc and   *)
(* cached by PID, together with the start time that tells apart the        *)
(* processes a PID is reused for.  The kernel's side, external, starts,    *)
(* moves and ends processes between any two reads of a lookup.             *)
(*                                                                         *)
(* Each collector has a cache of its own and looks up one event at a time: *)
(* Users is one goroutine in the program.  The mutex is taken twice, and   *)
(* each critical section is one step.                                      *)
(***************************************************************************)
EXTENDS Integers, FiniteSets

CONSTANTS
  Users,            (* goroutines sharing the cache                        *)
  Pids,
  Containers,       (* ids, without ""                                     *)
  MaxEntries,       (* defaultContainerCacheEntries                        *)
  TTL,              (* defaultContainerCacheTTL                            *)
  MaxTime,          (* bound on the clock                                  *)
  MaxProcesses      (* bound on processes started                          *)

ASSUME CacheAssumption ==
  /\ IsFiniteSet(Users) /\ IsFiniteSet(Pids)
  /\ MaxEntries \in Nat \ {0} /\ TTL \in Nat \ {0}
  /\ MaxTime \in Nat /\ MaxProcesses \in Nat
  /\ "" \notin Containers

VARIABLES
  clock,
  started,      (* processes started; the last one's start time            *)
  proc,         (* PID -> start time (0: none) and container ("": none)    *)
  entries,      (* the cache; start time 0 where it has no entry           *)
  user,         (* local variables of the lookups                          *)
  hits          (* history: was the last result of a user a hit            *)

world == <<started, proc>>
vars == <<clock, world, entries, user, hits>>

Nobody == [start |-> 0, container |-> ""]
(* of is history: the start times of the processes whose files were read.  *)
NoEntry == [start |-> 0, metadata |-> "", expiresAt |-> 0, of |-> {}]
Idle == [pc |-> "idle", pid |-> 0, start |-> 0, now |-> 0, metadata |-> "",
         of |-> {}]

Init ==
  /\ clock = 0 /\ started = 0
  /\ proc = [p \in Pids |-> Nobody]
  /\ entries = [p \in Pids |-> NoEntry]
  /\ user = [u \in Users |-> Idle] /\ hits = {}

Cached == {p \in Pids : entries[p].start # 0}

-----------------------------------------------------------------------------
(* External: processes, and time.                                          *)
Start(p) ==
  /\ proc[p].start = 0 /\ started < MaxProcesses
  /\ started' = started + 1
  /\ \E c \in Containers \union {""} :
       proc' = [proc EXCEPT ![p] = [start |-> started + 1, container |-> c]]
  /\ UNCHANGED <<clock, entries, user, hits>>

Move(p) ==
  /\ proc[p].start # 0
  /\ \E c \in Containers : proc' = [proc EXCEPT ![p].container = c]
  /\ UNCHANGED <<clock, started, entries, user, hits>>

End(p) ==
  /\ proc[p].start # 0 /\ proc' = [proc EXCEPT ![p] = Nobody]
  /\ UNCHANGED <<clock, started, entries, user, hits>>

Tick ==
  /\ clock < MaxTime /\ clock' = clock + 1
  /\ UNCHANGED <<world, entries, user, hits>>

-----------------------------------------------------------------------------
(* lookup: readProcStartTime, then cache.now().  The PID of an event may   *)
(* be gone: there is no start time, and no caching.                        *)
ReadStartTime(u, p) ==
  /\ user[u].pc = "idle"
  /\ user' = [user EXCEPT ![u] =
       [Idle EXCEPT !.pc = IF proc[p].start = 0 THEN "read" ELSE "check",
                    !.pid = p, !.start = proc[p].start, !.now = clock]]
  /\ hits' = hits \ {u}
  /\ UNCHANGED <<clock, world, entries>>

(* Mutant: the start time is not compared.                                 *)
IsHitByPid(u, e) == e.start # 0 /\ user[u].now < e.expiresAt

IsHit(u, e) == e.start = user[u].start /\ user[u].now < e.expiresAt

(* The first critical section.                                             *)
Check(u) ==
  LET e == entries[user[u].pid]
  IN /\ user[u].pc = "check"
     /\ IF IsHit(u, e)
          THEN /\ user' = [user EXCEPT ![u].pc = "idle",
                             ![u].metadata = e.metadata, ![u].of = e.of]
               /\ hits' = hits \union {u}
          ELSE user' = [user EXCEPT ![u].pc = "read"] /\ UNCHANGED hits
     /\ UNCHANGED <<clock, world, entries>>

(* Without a start time the result is returned and not stored.             *)
AfterRead(u) == IF user[u].start = 0 THEN "idle" ELSE "store"

(* readProcContainerID: the cgroup file of whatever process has the PID    *)
(* now; "" if there is none, or if it is in no container, and then there   *)
(* is no hostname to read.                                                 *)
ReadContainerID(u) ==
  LET q == proc[user[u].pid]
  IN /\ user[u].pc = "read"
     /\ user' = [user EXCEPT
          ![u].pc = IF q.container = "" THEN AfterRead(u) ELSE "hostname",
          ![u].metadata = q.container, ![u].of = {q.start}]
     /\ UNCHANGED <<clock, world, entries, hits>>

(* readProcContainerHostname: again of whatever process has the PID.  The  *)
(* name itself is left out; whose it is, is kept.                          *)
ReadContainerHostname(u) ==
  /\ user[u].pc = "hostname"
  /\ user' = [user EXCEPT ![u].pc = AfterRead(u),
                          ![u].of = @ \union {proc[user[u].pid].start}]
  /\ UNCHANGED <<clock, world, entries, hits>>

Expired(now) == {p \in Cached : now >= entries[p].expiresAt}

(* Mutant: an evicted entry is one that is still good.                     *)
VictimsLive(now) ==
  IF Cached \ Expired(now) # {} THEN Cached \ Expired(now) ELSE Cached

(* evictOne: an expired entry if there is one, else any; range over a map  *)
(* is in no order.                                                         *)
Victims(now) == IF Expired(now) # {} THEN Expired(now) ELSE Cached

(* The second critical section.                                            *)
Store(u) ==
  LET l == user[u]
      e == [start |-> l.start, metadata |-> l.metadata,
            expiresAt |-> l.now + TTL, of |-> l.of]
  IN /\ l.pc = "store"
     /\ IF Cardinality(Cached) >= MaxEntries
          THEN \E v \in Victims(l.now) :
                 entries' = [entries EXCEPT ![v] = NoEntry, ![l.pid] = e]
          ELSE entries' = [entries EXCEPT ![l.pid] = e]
     /\ user' = [user EXCEPT ![u].pc = "idle"]
     /\ UNCHANGED <<clock, world, hits>>

Next ==
  \/ \E p \in Pids : Start(p) \/ Move(p) \/ End(p)
  \/ Tick
  \/ \E u \in Users : \/ \E p \in Pids : ReadStartTime(u, p)
                      \/ Check(u) \/ ReadContainerID(u)
                      \/ ReadContainerHostname(u) \/ Store(u)

Spec == Init /\ [][Next]_vars

-----------------------------------------------------------------------------
(* PIDs are reused: a hit nevertheless returns what was read from the very *)
(* process that the event's PID names, although start time, container and  *)
(* hostname are read from /proc at different moments.                      *)
HitIsOwn == \A u \in hits : user[u].of = {user[u].start}

(* The cache never exceeds its size, and an entry that is still good is    *)
(* evicted only when no expired one is left to be.                         *)
EvictsExpiredFirst ==
  [][/\ Cardinality(Cached') <= MaxEntries
     /\ \A p \in Cached, u \in Users :
          Store(u) /\ entries'[p].start = 0 =>
            \/ user[u].now >= entries[p].expiresAt
            \/ \A q \in Cached : user[u].now < entries[q].expiresAt]_vars

-----------------------------------------------------------------------------
(* The inductive invariant behind HitIsOwn.                                *)
Metadata == Containers \union {""}

ProcType == [start : Nat, container : Metadata]
EntryType == [start : Nat, metadata : Metadata, expiresAt : Nat,
              of : SUBSET Nat]
UserType == [pc : {"idle", "check", "read", "hostname", "store"},
             pid : Pids \union {0}, start : Nat, now : Nat,
             metadata : Metadata, of : SUBSET Nat]

Shape ==
  /\ started \in Nat /\ clock \in Nat
  /\ proc \in [Pids -> ProcType] /\ entries \in [Pids -> EntryType]
  /\ user \in [Users -> UserType] /\ hits \subseteq Users
  /\ \A u \in Users : user[u].pc # "idle" => user[u].pid \in Pids

(* No start time is of a process yet to come.                              *)
Past ==
  /\ \A p \in Pids : proc[p].start <= started /\ entries[p].start <= started
  /\ \A u \in Users : user[u].start <= started

(* What was read from another process than the start time is kept only     *)
(* under the start time of a process that is gone for good.                *)
EntriesOwn ==
  \A p \in Pids : entries[p].start # 0 =>
    entries[p].of = {entries[p].start} \/ proc[p].start # entries[p].start

UsersOwn ==
  \A u \in Users :
    /\ user[u].pc \in {"check", "store"} => user[u].start # 0
    /\ user[u].pc \in {"hostname", "store"} /\ user[u].start # 0 =>
         user[u].of = {user[u].start} \/ proc[user[u].pid].start # user[u].start
    /\ user[u].pc = "check" =>
         LET e == entries[user[u].pid]
         IN e.start = user[u].start => e.of = {user[u].start}
    /\ u \in hits => user[u].pc = "idle" /\ user[u].of = {user[u].start}

OwnInv == Shape /\ Past /\ EntriesOwn /\ UsersOwn
=============================================================================
