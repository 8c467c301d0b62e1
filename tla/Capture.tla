------------------------------- MODULE Capture -------------------------------
(***************************************************************************)
(* From a system call to a normalized event.  The enter program of a       *)
(* collector makes a record (EnterPrograms), which is output when the call *)
(* returns; the collector's goroutine takes records from its ring buffer   *)
(* in order and completes them from /proc.  By then the process may have   *)
(* changed directory, reopened the descriptor, executed something else,    *)
(* ended, or left its PID to another; its files may have been renamed or   *)
(* removed; and any read of /proc may fail, for a want of permission too.  *)
(*                                                                         *)
(* What becomes of pending calls and records when a map or a ring is full, *)
(* and of those of dead threads, is the subject of SyscallCorrelation.     *)
(* Container, parent and working directory of the event, read from /proc   *)
(* like the executable, are left out, as are other roots and mount         *)
(* namespaces than the collector's.  The memory with the path is taken not *)
(* to change during the call, and the wall clock not to be set back.       *)
(***************************************************************************)
EXTENDS EnterPrograms, Sequences, SequencesExt

CONSTANTS
  Collectors,     (* of those that EnterPrograms has                       *)
  Made,           (* the system calls that processes make                  *)
  Pids,
  Threads,        (* of each process                                       *)
  Dirs,           (* working directories, and what descriptors lead to     *)
  Names,          (* of files in calls                                     *)
  Programs,       (* names of other executables: interpreters              *)
  MaxCalls,       (* bound on calls                                        *)
  MaxSteps        (* bound on calls and changes of processes together      *)

ASSUME CaptureAssumption ==
  /\ Collectors \subseteq DOMAIN Calls
  /\ MaxCalls \in Nat /\ MaxSteps \in Nat
  /\ Dirs \cap {"closed", "deleted", ""} = {}
  /\ "" \notin Names \union Programs

VARIABLES
  state,          (* collector -> "new", "running" or "refused"            *)
  proc,           (* PID -> process                                        *)
  call,           (* PID, thread -> the call it is in, if captured         *)
  ring,           (* collector -> records                                  *)
  hand,           (* collector -> the record being normalized, or none     *)
  sink,           (* events, in the order sent                             *)
  discarded,      (* history: records normalize made no event of           *)
  clock           (* history: enters and exits, and reads of the clock     *)

vars == <<state, proc, call, ring, hand, sink, discarded, clock>>

Images == Names \union Programs

Path(d, n) == [dir |-> d, name |-> n]
NoPath == Path("", "")
Empty == <<>>

(* alive: FALSE for a PID nobody has.  image, cwd and fd are the targets of *)
(* the links in /proc: a name, or "deleted" for a name with " (deleted)"   *)
(* behind it; fd is "closed" too if it leads to what is no file.  version  *)
(* counts what the process did to be another state of itself, renames what *)
(* became of the names of its files.                                       *)
Process(image, d) ==
  [alive |-> TRUE, image |-> image, comm |-> image, cwd |-> d, fd |-> "closed",
   version |-> 0, renames |-> 0]

Init ==
  /\ state = [c \in Collectors |-> "new"]
  /\ proc \in [Pids -> {Process(n, d) : n \in Programs, d \in Dirs}]
  /\ call = [pt \in Pids \X Threads |-> Empty]
  /\ ring = [c \in Collectors |-> <<>>] /\ hand = [c \in Collectors |-> Empty]
  /\ sink = <<>> /\ discarded = {}
  /\ clock = [time |-> 0, calls |-> 0, stamps |-> 0, changes |-> 0]

-----------------------------------------------------------------------------
(* Run of the collectors up to their loops: the programs are loaded.  That *)
(* a refused one ends the run of all is part of LiveRun.                   *)
Load ==
  /\ \A c \in Collectors : state[c] = "new"
  /\ state' = [c \in Collectors |->
                 IF Accepted(Program(c)) THEN "running" ELSE "refused"]
  /\ UNCHANGED <<proc, call, ring, hand, sink, discarded, clock>>

(* External: what becomes of a process.                                    *)
Change(p, new) ==
  /\ clock.calls + clock.changes < MaxSteps
  /\ clock' = [clock EXCEPT !.changes = @ + 1]
  /\ proc' = [proc EXCEPT ![p] = new]
  /\ UNCHANGED <<state, ring, hand, sink, discarded>>

Chdir(p) ==
  /\ proc[p].alive
  /\ \E d \in Dirs \ {proc[p].cwd} :
       Change(p, [proc[p] EXCEPT !.cwd = d, !.version = @ + 1])
  /\ UNCHANGED call

Reopen(p) ==
  /\ proc[p].alive
  /\ \E f \in (Dirs \union {"closed"}) \ {proc[p].fd} :
       Change(p, [proc[p] EXCEPT !.fd = f, !.version = @ + 1])
  /\ UNCHANGED call

(* Someone renames or removes its executable, its directory or its file.   *)
Rename(p) ==
  /\ proc[p].alive
  /\ \/ /\ proc[p].image \in Images
        /\ \E n \in (Images \union {"deleted"}) \ {proc[p].image} :
             Change(p, [proc[p] EXCEPT !.image = n, !.renames = @ + 1])
     \/ /\ proc[p].cwd \in Dirs
        /\ \E d \in (Dirs \union {"deleted"}) \ {proc[p].cwd} :
             Change(p, [proc[p] EXCEPT !.cwd = d, !.renames = @ + 1])
     \/ /\ proc[p].fd \in Dirs
        /\ \E d \in (Dirs \union {"deleted"}) \ {proc[p].fd} :
             Change(p, [proc[p] EXCEPT !.fd = d, !.renames = @ + 1])
  /\ UNCHANGED call

(* prctl: a thread gives itself a name, or none.                           *)
SetComm(p) ==
  /\ proc[p].alive
  /\ \E n \in (Images \union {""}) \ {proc[p].comm} :
       Change(p, [proc[p] EXCEPT !.comm = n])
  /\ UNCHANGED call

(* The calls its threads are in never return.                              *)
End(p) ==
  /\ proc[p].alive
  /\ Change(p, [proc[p] EXCEPT !.alive = FALSE, !.cwd = "", !.fd = "closed",
                               !.image = "", !.version = @ + 1])
  /\ call' = [pt \in Pids \X Threads |-> IF pt[1] = p THEN Empty ELSE call[pt]]

Reuse(p) ==
  /\ ~proc[p].alive
  /\ \E d \in Dirs, n \in Programs :
       Change(p, [Process(n, d) EXCEPT !.version = proc[p].version + 1,
                                       !.renames = proc[p].renames])
  /\ UNCHANGED call

-----------------------------------------------------------------------------
(* How a call names its file: by a path, relative to nothing, to the       *)
(* working directory or to a descriptor; by a descriptor, of which         *)
(* fchmodat2 with an empty path is another case; or not at all.            *)
ByPath == {"execve", "chmod"}
ByPathAt == {"fchmodat", "fchmodat2"}
ByDescriptor == {"fchmod"} \union Calls.file_write

(* copied: how much of the path or address the program could read from the *)
(* memory of the process; a long path is cut, a page may be missing.  An   *)
(* absolute path names a directory of its own, "absolute".                 *)
Arguments(s) ==
  {a \in [dir : {"absolute", ""}, at : BOOLEAN, copied : {"whole", "cut", "none"},
          name : Names \union {""}] :
     /\ a.name # "" <=> s \in ByPath \union ByPathAt
     /\ a.dir # "" => a.name # ""
     /\ a.at => a.dir = "" /\ s \in ByPathAt \union ByDescriptor
     /\ s \in ByDescriptor => a.at
     /\ a.copied = "cut" => a.name # ""
     /\ a.copied = "none" => a.name # "" \/ s \in {"connect_ipv4", "connect_ipv6"}}
  \union (IF s = "fchmodat2"
            THEN {[dir |-> "", name |-> "", at |-> TRUE, copied |-> "whole"]}
            ELSE {})

(* The texts of links to files and directories.                            *)
Links == Dirs \union {"deleted"}

(* The file the kernel means, by its name at that time: external.          *)
Meant(q, a) ==
  IF a.dir # "" \/ (a.name = "" /\ ~a.at) THEN Path(a.dir, a.name)
  ELSE LET base == IF a.at THEN q.fd ELSE q.cwd
       IN IF base \in Links THEN Path(base, a.name) ELSE NoPath

(* A thread enters a call: the program makes a record of it.  That of      *)
(* execve, which has no exit program, outputs it at once; the others put   *)
(* it into the pending map of the collector, under the thread.             *)
Enter(p, t, c, s, a) ==
  LET q == proc[p]
      o == Outcome(Program(c), s)
      now == clock.time + 1
      r == [syscall |-> s, pid |-> p, thread |-> t, comm |-> q.comm,
            argument |-> a, fields |-> o.fields, made |-> now,
            done |-> IF c = "execve" THEN now ELSE 0,
            version |-> q.version, renames |-> q.renames,
            meant |-> Meant(q, a), image |-> q.image]
  IN /\ state[c] = "running" /\ q.alive /\ call[<<p, t>>] = Empty
     /\ clock.calls < MaxCalls /\ clock.calls + clock.changes < MaxSteps
     /\ clock' = [clock EXCEPT !.time = now, !.calls = @ + 1]
     /\ call' = IF o.emitted
                  THEN [call EXCEPT ![<<p, t>>] = [collector |-> c, record |-> r]]
                  ELSE call
     /\ ring' = IF o.emitted /\ c = "execve"
                  THEN [ring EXCEPT ![c] = Append(@, r)] ELSE ring
     /\ UNCHANGED <<state, proc, hand, sink, discarded>>

(* The call returns: the exit program takes the record of the thread out   *)
(* of the pending map and outputs it, whatever the call returns.           *)
Exit(p, t) ==
  LET c == call[<<p, t>>].collector
      now == clock.time + 1
  IN /\ call[<<p, t>>] # Empty /\ c # "execve"
     /\ clock' = [clock EXCEPT !.time = now]
     /\ ring' = [ring EXCEPT ![c] =
                   Append(@, [call[<<p, t>>].record EXCEPT !.done = now])]
     /\ call' = [call EXCEPT ![<<p, t>>] = Empty]
     /\ UNCHANGED <<state, proc, hand, sink, discarded>>

(* External: execve returns with an error, or with another program, which  *)
(* of a script is its interpreter; then the other threads are gone.        *)
ExecveReturns(p, t) ==
  /\ call[<<p, t>>] # Empty /\ call[<<p, t>>].collector = "execve"
  /\ \/ call' = [call EXCEPT ![<<p, t>>] = Empty] /\ UNCHANGED proc
     \/ /\ call' = [pt \in Pids \X Threads |->
                     IF pt[1] = p THEN Empty ELSE call[pt]]
        /\ \E program \in Programs \union {call[<<p, t>>].record.argument.name} :
             proc' = [proc EXCEPT ![p].image = program, ![p].version = @ + 1,
                        ![p].comm = call[<<p, t>>].record.argument.name]
  /\ clock' = [clock EXCEPT !.time = @ + 1]
  /\ UNCHANGED <<state, ring, hand, sink, discarded>>

-----------------------------------------------------------------------------
(* The path in a record: cString(raw.FilePath[:]).                         *)
cString(a) ==
  CASE a.copied = "whole" -> Path(a.dir, a.name)
    [] a.copied = "cut" -> Path(a.dir, "cut")
    [] a.copied = "none" -> NoPath

(* readProcFD: "" for a descriptor that is closed or names no file; both   *)
(* are "" if the link cannot be read.                                      *)
readProcFD(p, readable) ==
  IF readable /\ proc[p].fd \in Links THEN proc[p].fd ELSE ""

readProcCWD(p, readable) == IF readable THEN proc[p].cwd ELSE ""

(* Mutant: a relative path is always taken from the working directory.     *)
resolveProcPathFromCWD(p, a, readable) ==
  LET path == cString(a)
      base == readProcCWD(p, readable)
  IN IF path.name = "" \/ path.dir # "" THEN path
     ELSE IF base = "" THEN NoPath ELSE Path(base, path.name)

resolveProcPath(p, a, readable) ==
  LET path == cString(a)
      base == IF a.at THEN readProcFD(p, readable) ELSE readProcCWD(p, readable)
  IN IF path.name = "" \/ path.dir # "" THEN path
     ELSE IF base = "" THEN NoPath ELSE Path(base, path.name)

FileWritePath(r, readable) ==
  LET path == readProcFD(r.pid, readable)
  IN IF path = "" THEN NoPath ELSE Path(path, "")

(* Mutant: a call that came later is not known here.                       *)
ChmodPathIncomplete(r, readable) ==
  CASE r.syscall \in {"chmod", "fchmodat"} ->
         resolveProcPath(r.pid, r.argument, readable)
    [] r.syscall = "fchmod" -> FileWritePath(r, readable)
    [] OTHER -> NoPath

ChmodPath(r, readable) ==
  CASE r.syscall \in {"chmod", "fchmodat", "fchmodat2"} ->
         resolveProcPath(r.pid, r.argument, readable)
    [] r.syscall = "fchmod" -> FileWritePath(r, readable)
    [] OTHER -> NoPath

(* The file of the event.  That of execve stays as it was given.           *)
FilePath(c, r, readable) ==
  CASE c = "file_write" -> FileWritePath(r, readable)
    [] c = "chmod" -> ChmodPath(r, readable)
    [] c = "execve" -> cString(r.argument)
    [] OTHER -> NoPath

(* What normalize requires: a file, or an address that decodeSockaddr      *)
(* knows.                                                                  *)
Complete(c, r, path) ==
  CASE c \in {"file_write", "chmod"} -> path # NoPath
    [] c = "connect" -> r.argument.copied # "none"
    [] OTHER -> TRUE

Still(r) == proc[r.pid].version = r.version
Unmoved(r) == proc[r.pid].renames = r.renames

(* Whether a read of /proc works, where the path takes one.                *)
Readable(c, r) ==
  IF c \in {"file_write", "chmod"} /\ r.argument.dir = "" THEN BOOLEAN ELSE {TRUE}

(* An event in the making, with what was so when /proc was read for its    *)
(* path: called is the name that the file meant had then.                  *)
Line(c, r, readable) ==
  [record |-> r, path |-> FilePath(c, r, readable), readable |-> readable,
   still |-> Still(r), unmoved |-> Unmoved(r),
   called |-> Meant(proc[r.pid], r.argument), stamp |-> 0, name |-> ""]

Take(c, l) ==
  /\ IF Complete(c, l.record, l.path)
       THEN hand' = [hand EXCEPT ![c] = l] /\ UNCHANGED discarded
       ELSE discarded' = discarded \union {l} /\ UNCHANGED hand
  /\ UNCHANGED <<state, proc, call, sink, clock>>

(* Mutant: records are taken in any order.                                 *)
ResolveAny(c) ==
  /\ hand[c] = Empty
  /\ \E n \in DOMAIN ring[c] :
       /\ ring' = [ring EXCEPT ![c] = RemoveAt(@, n)]
       /\ \E readable \in Readable(c, ring[c][n]) :
            Take(c, Line(c, ring[c][n], readable))

(* reader.Read and the first half of normalize.                            *)
Resolve(c) ==
  /\ hand[c] = Empty /\ ring[c] # <<>>
  /\ ring' = [ring EXCEPT ![c] = Tail(@)]
  /\ \E readable \in Readable(c, Head(ring[c])) :
       Take(c, Line(c, Head(ring[c]), readable))

(* The name of the executable in /proc; if there is none to read, the one  *)
(* the kernel recorded.  execve has the file's in its place.               *)
ProcessName(c, r, readable) ==
  LET name == IF c = "execve" THEN cString(r.argument).name
              ELSE IF readable THEN proc[r.pid].image ELSE ""
  IN IF name = "" THEN r.comm ELSE name

(* The second half: timestamp and process.                                 *)
Describe(c) ==
  /\ hand[c] # Empty /\ hand[c].stamp = 0
  /\ clock' = [clock EXCEPT !.stamps = @ + 1]
  /\ LET r == hand[c].record
     IN \E readable \in BOOLEAN :
          hand' = [hand EXCEPT ![c].stamp = clock.stamps + 1,
                     ![c].name = ProcessName(c, r, readable),
                     ![c].still = @ /\ Still(r), ![c].unmoved = @ /\ Unmoved(r)]
  /\ UNCHANGED <<state, proc, call, ring, sink, discarded>>

Send(c) ==
  /\ hand[c] # Empty /\ hand[c].stamp # 0
  /\ sink' = Append(sink, [collector |-> c, event |-> hand[c]])
  /\ hand' = [hand EXCEPT ![c] = Empty]
  /\ UNCHANGED <<state, proc, call, ring, discarded, clock>>

Next ==
  \/ Load
  \/ \E c \in Collectors : Resolve(c) \/ Describe(c) \/ Send(c)
  \/ \E p \in Pids : \/ Chdir(p) \/ Reopen(p) \/ Rename(p) \/ SetComm(p)
                     \/ End(p) \/ Reuse(p)
  \/ \E p \in Pids, t \in Threads :
       \/ Exit(p, t) \/ ExecveReturns(p, t)
       \/ \E c \in Collectors : \E s \in Calls[c] \cap Made :
            \E a \in Arguments(s) : Enter(p, t, c, s, a)

Spec == Init /\ [][Next]_vars

-----------------------------------------------------------------------------
Events == {sink[n] : n \in DOMAIN sink}
Waiting(c) == {ring[c][n] : n \in DOMAIN ring[c]}

(* What normalize reads of a record, the enter program has written for     *)
(* that very call: nothing is taken for a value that was only cleared.     *)
RecordIsWhole ==
  \A c \in Collectors : \A r \in Waiting(c) :
    LET reads == Common \union {"zero"}
          \union (IF c = "execve" THEN {} ELSE {"key"})
          \union (IF r.syscall \in ByPath \union ByPathAt THEN {"path"} ELSE {})
          \union (IF r.syscall \in ByPathAt \union ByDescriptor THEN {"fd"} ELSE {})
          \union (IF c = "connect" THEN {"address"} ELSE {})
          \union (IF c \in {"execve", "connect"} THEN {} ELSE {"syscall"})
    IN reads \subseteq r.fields

(* An event is about the file that the call meant and names the program    *)
(* that made it, by its executable or its own name, if the path could be   *)
(* read, the process has stayed as it was until the event was made and     *)
(* its files have kept their names.  If they were renamed, the event has   *)
(* the name the file meant had when it was looked up.  Whatever becomes of *)
(* the process, an absolute path that could be read is kept, and there is  *)
(* the name that Event.Validate requires, if the thread had one.           *)
EventIsTrue ==
  \A e \in Events :
    LET l == e.event
        r == l.record
        a == r.argument
        looked == e.collector \in {"file_write", "chmod"}
    IN /\ a.copied = "whole" =>
            /\ a.dir # "" \/ (looked /\ l.still /\ l.unmoved) => l.path = r.meant
            /\ looked /\ l.still => l.path = l.called
       /\ e.collector # "execve" /\ l.still /\ l.unmoved => l.name \in {r.comm, r.image}
       /\ r.comm # "" => l.name # ""

(* normalize discards a record, which no counter shows, only if its path   *)
(* or address could not be read from memory, if it was an empty path, or   *)
(* if the path had to be looked up in /proc and either that failed, the    *)
(* process had changed since, or the call was about no file.               *)
DiscardIsExplained ==
  \A d \in discarded :
    LET r == d.record
        a == r.argument
    IN \/ a.copied = "none"
       \/ r.syscall = "fchmodat2" /\ a.name = ""
       \/ a.dir = "" /\ (~d.readable \/ ~d.still \/ r.meant = NoPath)

(* A collector sends its events in the order in which the calls returned,  *)
(* or for execve were made, with timestamps in that order; those of one    *)
(* thread therefore in the order of its calls.                             *)
CollectorOrder ==
  \A m, n \in DOMAIN sink :
    LET first == sink[m].event
        second == sink[n].event
    IN m < n /\ sink[m].collector = sink[n].collector =>
         /\ first.record.done < second.record.done
         /\ first.stamp < second.stamp
         /\ first.record.pid = second.record.pid
              /\ first.record.thread = second.record.thread
              => first.record.made < second.record.made

(* README.md:20 says that behavior_core "adds broader behavior signals     *)
(* such as sensitive file reads, namespace changes, process access, and    *)
(* network server activity."  Violated: three programs cannot be loaded.   *)
NoneRefused == \A c \in Collectors : state[c] # "refused"
=============================================================================
