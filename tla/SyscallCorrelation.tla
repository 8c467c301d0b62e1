-------------------------- MODULE SyscallCorrelation --------------------------
(***************************************************************************)
(* The kernel side of a collector that correlates entry and exit of a      *)
(* system call (syscall_linux.go, with file_write as the example): the     *)
(* sys_enter program stores a record under the thread's id in the pending  *)
(* map, the sys_exit program takes it out, adds the return value and       *)
(* outputs it to the ring buffer; failed inserts and outputs are counted,  *)
(* and metrics_linux.go reads the counts.                                  *)
(*                                                                         *)
(* Threads make system calls before, while and after Run attaches and      *)
(* detaches its two hooks.  Calls are numbered; a record is named by the   *)
(* call that wrote it, a return value by the call that returned it.        *)
(***************************************************************************)
EXTENDS Integers, Sequences, FiniteSets

CONSTANTS
  Threads,      (* values of bpf_get_current_pid_tgid                      *)
  MaxPending,   (* maxPendingSyscalls                                      *)
  RingSize,     (* records the ring buffer holds                           *)
  MinBytes,     (* --file-write-min-bytes                                  *)
  MaxReturn,    (* bound on return values; -1 is an error                  *)
  MaxCalls      (* bound on system calls                                   *)

ASSUME CorrelationAssumption ==
  /\ IsFiniteSet(Threads) /\ MaxPending \in Nat \ {0} /\ RingSize \in Nat
  /\ MinBytes \in Nat /\ MaxReturn \in Nat /\ MaxCalls \in Nat

VARIABLES
  stage,        (* how far Run is, from setup to its deferred calls        *)
  inside,       (* the call each thread is in, 0 in user mode              *)
  calls,        (* calls made so far                                       *)
  watched,      (* history: captured calls entered with both hooks on      *)
  pending,      (* the pending map, 0 where it has no entry                *)
  ring,         (* records not yet read                                    *)
  drops, correlationDrops,     (* the BPF array maps                       *)
  attached, ringBufferDropped, correlationDropped,   (* collectorMetrics   *)
  captured,     (* history: calls that got past the filters of sys_enter   *)
  emitted,      (* history: records output, with the call that returned    *)
  filtered,     (* history: records below MinBytes                         *)
  overwritten   (* history: records replaced in the pending map            *)

kernel == <<pending, ring, drops, correlationDrops>>
metrics == <<attached, ringBufferDropped, correlationDropped>>
history == <<watched, captured, emitted, filtered, overwritten>>
vars == <<stage, inside, calls, kernel, metrics, history>>

(* Stages of Run in order, the last two in its deferred calls.             *)
EnterOn == {"entering", "running", "leaving"}
ExitOn == {"running"}

Init ==
  /\ stage = "setup" /\ inside = [t \in Threads |-> 0] /\ calls = 0
  /\ pending = [t \in Threads |-> 0] /\ ring = <<>>
  /\ drops = 0 /\ correlationDrops = 0
  /\ attached = TRUE /\ ringBufferDropped = 0 /\ correlationDropped = 0
  /\ watched = {} /\ captured = 0 /\ emitted = {} /\ filtered = 0
  /\ overwritten = {}

Entries == {t \in Threads : pending[t] # 0}

-----------------------------------------------------------------------------
(* Mutant: a failed insert is not counted.                                 *)
StorePendingUncounted(t, n) ==
  IF pending[t] # 0 \/ Cardinality(Entries) < MaxPending
    THEN /\ pending' = [pending EXCEPT ![t] = n]
         /\ overwritten' = overwritten \union ({pending[t]} \ {0})
         /\ UNCHANGED correlationDrops
    ELSE UNCHANGED <<pending, correlationDrops, overwritten>>

(* storePendingSyscall, BPF_ANY: insert or replace; a full map is counted. *)
StorePending(t, n) ==
  IF pending[t] # 0 \/ Cardinality(Entries) < MaxPending
    THEN /\ pending' = [pending EXCEPT ![t] = n]
         /\ overwritten' = overwritten \union ({pending[t]} \ {0})
         /\ UNCHANGED correlationDrops
    ELSE /\ correlationDrops' = correlationDrops + 1
         /\ UNCHANGED <<pending, overwritten>>

(* A call the sys_enter program captures: a write to a file by a process   *)
(* other than tracejutsu.                                                  *)
EnterWrite(t) ==
  /\ inside[t] = 0 /\ calls < MaxCalls
  /\ calls' = calls + 1 /\ inside' = [inside EXCEPT ![t] = calls + 1]
  /\ IF stage \in EnterOn
       THEN /\ StorePending(t, calls + 1) /\ captured' = captured + 1
            /\ watched' = IF stage \in ExitOn THEN watched \union {calls + 1}
                                              ELSE watched
       ELSE UNCHANGED <<pending, correlationDrops, overwritten, captured, watched>>
  /\ UNCHANGED <<stage, ring, drops, metrics, emitted, filtered>>

(* A call it leaves alone: another number, a standard stream, its own PID. *)
EnterOther(t) ==
  /\ inside[t] = 0 /\ calls < MaxCalls
  /\ calls' = calls + 1 /\ inside' = [inside EXCEPT ![t] = calls + 1]
  /\ UNCHANGED <<stage, kernel, metrics, history>>

(* bpf_ringbuf_output, and countRingBufferDrop when it fails.              *)
Output(record) ==
  IF Len(ring) < RingSize
    THEN /\ ring' = Append(ring, record) /\ emitted' = emitted \union {record}
         /\ UNCHANGED drops
    ELSE /\ drops' = drops + 1 /\ UNCHANGED <<ring, emitted>>

(* The JSLT before the output, generated for a positive minimum only.      *)
BelowMinimum(ret) == MinBytes > 0 /\ ret < MinBytes

(* Mutant: the entry is deleted after the filter, not before it.           *)
ExitProgramDeleteLate(t, ret) ==
  IF pending[t] = 0 \/ BelowMinimum(ret)
    THEN UNCHANGED <<pending, ring, drops, emitted, filtered>>
    ELSE /\ pending' = [pending EXCEPT ![t] = 0]
         /\ Output([call |-> pending[t], exit |-> inside[t], ret |-> ret])
         /\ UNCHANGED filtered

(* The sys_exit program: look the thread up, delete the entry, filter,     *)
(* output.  It does not look at the number of the call that returns.       *)
ExitProgram(t, ret) ==
  IF pending[t] = 0 THEN UNCHANGED <<pending, ring, drops, emitted, filtered>>
  ELSE /\ pending' = [pending EXCEPT ![t] = 0]
       /\ IF BelowMinimum(ret)
            THEN filtered' = filtered + 1 /\ UNCHANGED <<ring, drops, emitted>>
            ELSE /\ Output([call |-> pending[t], exit |-> inside[t], ret |-> ret])
                 /\ UNCHANGED filtered

Exit(t, ret) ==
  /\ inside[t] # 0
  /\ inside' = [inside EXCEPT ![t] = 0]
  /\ IF stage \in ExitOn THEN ExitProgram(t, ret)
                         ELSE UNCHANGED <<pending, ring, drops, emitted, filtered>>
  /\ UNCHANGED <<stage, calls, correlationDrops, metrics, watched, captured,
                 overwritten>>

-----------------------------------------------------------------------------
(* Run: the sys_enter hook is attached, then the sys_exit hook.            *)
AttachEnter ==
  /\ stage = "setup" /\ stage' = "entering"
  /\ UNCHANGED <<inside, calls, kernel, metrics, history>>

AttachExit ==
  /\ stage = "entering" /\ stage' = "running"
  /\ UNCHANGED <<inside, calls, kernel, metrics, history>>

(* A step of the setup fails: Run returns, closing what it has attached.   *)
AttachFails ==
  /\ \/ stage = "setup" /\ stage' = "unhooked"
     \/ stage = "entering" /\ stage' = "leaving"
  /\ UNCHANGED <<inside, calls, kernel, metrics, history>>

(* reader.Read                                                             *)
ReadRecord ==
  /\ stage = "running" /\ ring # <<>>
  /\ ring' = Tail(ring)
  /\ UNCHANGED <<stage, inside, calls, pending, drops, correlationDrops,
                 metrics, history>>

(* Deferred calls, last first: exitHook.Close() and enterHook.Close().     *)
CloseExitHook ==
  /\ stage = "running" /\ stage' = "leaving"
  /\ UNCHANGED <<inside, calls, kernel, metrics, history>>

CloseEnterHook ==
  /\ stage = "leaving" /\ stage' = "unhooked"
  /\ UNCHANGED <<inside, calls, kernel, metrics, history>>

(* refreshLocked, for stats() and before a counter is detached.            *)
Refresh ==
  /\ ringBufferDropped' = drops /\ correlationDropped' = correlationDrops

Stats ==
  /\ attached /\ Refresh
  /\ UNCHANGED <<stage, inside, calls, kernel, attached, history>>

(* Mutant: the counters are detached while the sys_enter hook is on.       *)
DetachEarly ==
  /\ stage \in {"leaving", "unhooked"} /\ attached /\ Refresh
  /\ attached' = FALSE
  /\ UNCHANGED <<stage, inside, calls, kernel, history>>

(* detachCorrelationDropCounter and detachDropCounter: with the hooks      *)
(* gone, the maps no longer change between them.                           *)
Detach ==
  /\ stage = "unhooked" /\ attached /\ Refresh
  /\ attached' = FALSE
  /\ UNCHANGED <<stage, inside, calls, kernel, history>>

Next ==
  \/ \E t \in Threads : EnterWrite(t) \/ EnterOther(t)
  \/ \E t \in Threads, ret \in (-1)..MaxReturn : Exit(t, ret)
  \/ AttachEnter \/ AttachExit \/ AttachFails \/ ReadRecord
  \/ CloseExitHook \/ CloseEnterHook \/ Stats \/ Detach

Spec == Init /\ [][Next]_vars

-----------------------------------------------------------------------------
(* Every captured call is pending, output, filtered by size, replaced in   *)
(* the map, or counted by one of the two drop counters, exactly once, and  *)
(* map and ring buffer stay within their sizes.                            *)
CapturedAccounted ==
  /\ captured = Cardinality(Entries) + Cardinality(emitted) + filtered
                  + Cardinality(overwritten) + drops + correlationDrops
  /\ Cardinality(Entries) <= MaxPending /\ Len(ring) <= RingSize

(* Once both hooks are attached, a record carries the return value of its  *)
(* own call, and until the exit hook is closed none is silently replaced:  *)
(* the entry of a thread is gone before its next call.                     *)
WatchedIsOwn ==
  /\ \A r \in emitted : r.call \in watched => r.exit = r.call
  /\ stage = "running" => overwritten \cap watched = {}

(* What Stats reports after Run returned is every drop there was: the      *)
(* counters are read for the last time after both hooks are closed.        *)
FinalStatsComplete ==
  ~attached =>
    ringBufferDropped = drops /\ correlationDropped = correlationDrops

(* docs/HANDOFF.md:309 says of all emitted records that they include the   *)
(* return value of the system call.  Violated by a call that is entered    *)
(* after the first hook is attached and returns before the second: its     *)
(* entry stays and is completed by whatever call of the thread is next.    *)
ReturnValueIsOwn == \A r \in emitted : r.exit = r.call
=============================================================================
