---------------------------- MODULE CaptureProofs ----------------------------
(***************************************************************************)
(* For any collectors, processes, threads, directories and names and any   *)
(* number of calls and changes: an event is true of its call whenever the  *)
(* code can know, a record is discarded only for a reason, and a collector *)
(* keeps the order in which calls return.  The recursive walks over the    *)
(* programs (Accepted, Outcome) are not looked into for these: whatever    *)
(* fields a program writes and whatever it emits, the three hold.  Which   *)
(* programs the kernel accepts, and that each field read of a record was   *)
(* written, needs the walks, which are gone through in the last part.      *)
(***************************************************************************)
EXTENDS Capture, SequenceTheorems, FiniteSetTheorems, WellFoundedInduction, TLAPS

FileDirs == Links \union {"absolute", ""}
File == [dir : FileDirs, name : Names \union {""}]
ReadFile == [dir : FileDirs, name : Names \union {"", "cut"}]

Argument == [dir : {"absolute", ""}, at : BOOLEAN, copied : {"whole", "cut", "none"},
             name : Names \union {""}]

Fields(c) == {Outcome(Program(c), s).fields : s \in Calls[c]}

RecordOf(c) ==
  [syscall : Calls[c], pid : Pids, thread : Threads, comm : Images \union {""},
   argument : Argument, fields : Fields(c), made : Nat, done : Nat,
   version : Nat, renames : Nat, meant : File,
   image : Images \union {"deleted"}]

Lines(c) ==
  [record : RecordOf(c), path : ReadFile, readable : BOOLEAN, still : BOOLEAN,
   unmoved : BOOLEAN, called : File, stamp : Nat,
   name : Images \union {"", "cut", "deleted"}]

Sent == [collector : Collectors, event : UNION {Lines(c) : c \in Collectors}]

Processes == [alive : BOOLEAN, image : Images \union {"deleted", ""},
              comm : Images \union {""}, cwd : Links \union {""},
              fd : Links \union {"closed"}, version : Nat, renames : Nat]

Clock == [time : Nat, calls : Nat, stamps : Nat, changes : Nat]

(* The call k that thread pt is in.                                        *)
CallOK(pt, k) ==
  /\ k.collector \in Collectors /\ k.record \in RecordOf(k.collector)
  /\ k.record.pid = pt[1] /\ k.record.thread = pt[2]

TypeOK ==
  /\ proc \in [Pids -> Processes]
  /\ call = [pt \in Pids \X Threads |-> call[pt]]
  /\ \A pt \in Pids \X Threads : call[pt] # Empty => CallOK(pt, call[pt])
  /\ ring = [c \in Collectors |-> ring[c]]
  /\ \A c \in Collectors : ring[c] \in Seq(RecordOf(c))
  /\ hand = [c \in Collectors |-> hand[c]]
  /\ \A c \in Collectors : hand[c] # Empty => hand[c] \in Lines(c)
  /\ sink \in Seq(Sent)
  /\ \A n \in DOMAIN sink : sink[n].event \in Lines(sink[n].collector)
  /\ clock \in Clock

(* A process that lives has an executable and a working directory.         *)
Lives(q) == q.image \in Images \union {"deleted"} /\ q.cwd \in Links

AliveInv == \A p \in Pids : proc[p].alive => Lives(proc[p])

(* What is known of a record that is not completed yet: its argument is    *)
(* one its call can have; while the version of the process is the one the  *)
(* record was made with, /proc still shows a file if one was meant, and    *)
(* while nothing was renamed, that file and the executable by their names. *)
Fresh(r) ==
  /\ r.argument \in Arguments(r.syscall)
  /\ r.argument.dir # "" => r.meant = Path(r.argument.dir, r.argument.name)
  /\ r.version <= proc[r.pid].version /\ r.renames <= proc[r.pid].renames
  /\ Still(r) =>
       /\ proc[r.pid].alive
       /\ Meant(proc[r.pid], r.argument) = NoPath => r.meant = NoPath
       /\ Unmoved(r) => /\ Meant(proc[r.pid], r.argument) = r.meant
                        /\ proc[r.pid].image = r.image

FreshInv ==
  /\ \A pt \in Pids \X Threads : call[pt] # Empty => Fresh(call[pt].record)
  /\ \A c \in Collectors :
       /\ \A n \in DOMAIN ring[c] : Fresh(ring[c][n])
       /\ hand[c] # Empty => Fresh(hand[c].record)

(* The two halves of EventIsTrue: the first holds from Resolve on, the     *)
(* second from Describe on.                                                *)
PathTrue(c, l) ==
  LET r == l.record
      looked == c \in {"file_write", "chmod"}
  IN r.argument.copied = "whole" =>
       /\ r.argument.dir # "" \/ (looked /\ l.still /\ l.unmoved) => l.path = r.meant
       /\ looked /\ l.still => l.path = l.called

NameTrue(c, l) ==
  LET r == l.record
  IN /\ c # "execve" /\ l.still /\ l.unmoved => l.name \in {r.comm, r.image}
     /\ r.comm # "" => l.name # ""

TruthInv ==
  /\ \A c \in Collectors : hand[c] # Empty =>
       PathTrue(c, hand[c]) /\ (hand[c].stamp # 0 => NameTrue(c, hand[c]))
  /\ \A n \in DOMAIN sink :
       /\ PathTrue(sink[n].collector, sink[n].event)
       /\ NameTrue(sink[n].collector, sink[n].event)

(* The order of records of a collector.                                    *)
Before(r, s) ==
  /\ r.done < s.done
  /\ r.pid = s.pid /\ r.thread = s.thread => r.made < s.made

(* A record that was output.  If its thread is in another call now, that   *)
(* one was entered later; the record of an execve is output on entry.      *)
Old(r) ==
  LET k == call[<<r.pid, r.thread>>]
  IN /\ r.made <= clock.time /\ r.done <= clock.time
     /\ k # Empty /\ k.collector # "execve" => r.made < k.record.made

(* Along the way of a collector's records, from its ring buffer through    *)
(* its hand into the sink, the calls get older and the stamps smaller.     *)
OrderInv ==
  /\ \A pt \in Pids \X Threads : call[pt] # Empty => call[pt].record.made <= clock.time
  /\ \A c \in Collectors :
       /\ \A i \in DOMAIN ring[c] : Old(ring[c][i])
       /\ \A i, j \in DOMAIN ring[c] : i < j => Before(ring[c][i], ring[c][j])
       /\ hand[c] # Empty =>
            /\ Old(hand[c].record)
            /\ hand[c].stamp <= clock.stamps
            /\ \A i \in DOMAIN ring[c] : Before(hand[c].record, ring[c][i])
  /\ \A n \in DOMAIN sink :
       LET c == sink[n].collector
           e == sink[n].event
       IN /\ Old(e.record) /\ e.stamp <= clock.stamps
          /\ \A i \in DOMAIN ring[c] : Before(e.record, ring[c][i])
          /\ hand[c] # Empty =>
               /\ Before(e.record, hand[c].record)
               /\ hand[c].stamp # 0 => e.stamp < hand[c].stamp
  /\ CollectorOrder

IInv ==
  /\ TypeOK /\ AliveInv /\ FreshInv /\ TruthInv
  /\ OrderInv /\ DiscardIsExplained

-----------------------------------------------------------------------------
(* The calls a collector takes, as far as they name files.                 *)
LEMMA CallsOf ==
  /\ Calls["execve"] = {"execve"}
  /\ Calls["file_write"] = {"write", "pwrite64", "writev", "pwritev", "pwritev2",
                            "write_stdio", "write_ignored"}
  /\ Calls["chmod"] \subseteq {"chmod", "fchmod", "fchmodat", "fchmodat2"}
  BY DEF Calls, BehaviorCalls, WithLegacy

(* Only execve and chmod take a path, and only execve's collector execve.  *)
LEMMA PathCalls ==
  ASSUME NEW c \in DOMAIN Calls, NEW s \in Calls[c]
  PROVE  /\ c # "execve" => s # "execve"
         /\ c \notin {"execve", "chmod"} => s \notin ByPath \union ByPathAt
  BY DEF Calls, BehaviorCalls, WithLegacy, ByPath, ByPathAt

(* The counters of a process and of the clock are numbers.                 *)
LEMMA Versions ==
  ASSUME NEW q \in Processes
  PROVE  /\ q.version \in Nat /\ q.version + 1 \in Nat
         /\ q.renames \in Nat /\ q.renames + 1 \in Nat
<1>1. q.version \in Nat /\ q.renames \in Nat BY DEF Processes
<1> QED BY <1>1

LEMMA Clocks ==
  ASSUME NEW k \in Clock
  PROVE  /\ k.time \in Nat /\ k.calls \in Nat /\ k.stamps \in Nat /\ k.changes \in Nat
         /\ k.time + 1 \in Nat /\ k.calls + 1 \in Nat
         /\ k.stamps + 1 \in Nat /\ k.changes + 1 \in Nat
<1>1. k.time \in Nat /\ k.calls \in Nat /\ k.stamps \in Nat /\ k.changes \in Nat
  BY DEF Clock
<1> QED BY <1>1

(* No directory is nameless.                                               *)
LEMMA NoNamelessLink == "" \notin Links /\ "closed" \notin Links /\ "" \notin Images
<1>1. /\ "" \notin Dirs /\ "closed" \notin Dirs
      /\ "" \notin Names /\ "" \notin Programs
  BY CaptureAssumption DEF CaptureAssumption
<1> QED BY <1>1 DEF Links, Images

(* What the argument of a call can be.                                     *)
LEMMA ArgumentFacts ==
  ASSUME NEW s, NEW a \in Arguments(s)
  PROVE  /\ a \in Argument
         /\ a.name # "" => s \in ByPath \union ByPathAt
         /\ a.dir # "" => a.name # ""
         /\ (s \in ByPath \union ByPathAt /\ a.name = "") => s = "fchmodat2"
         /\ s \in ByDescriptor => a.at /\ a.name = "" /\ a.dir = ""
         /\ a.name = "" => a.dir = ""
         /\ a.copied = "cut" => a.name # ""
<1>1. CASE s = "fchmodat2" /\ a = [dir |-> "", name |-> "", at |-> TRUE,
                                   copied |-> "whole"]
  <2>1. s \notin ByDescriptor BY <1>1, CallsOf DEF ByDescriptor
  <2> QED BY <1>1, <2>1 DEF Argument, ByPath, ByPathAt
<1>2. CASE /\ a \in Argument
           /\ a.name # "" <=> s \in ByPath \union ByPathAt
           /\ a.dir # "" => a.name # ""
           /\ s \in ByDescriptor => a.at
           /\ a.copied = "cut" => a.name # ""
  <2>1. s \in ByDescriptor => s \notin ByPath \union ByPathAt
    BY CallsOf DEF ByDescriptor, ByPath, ByPathAt
  <2> QED BY <1>2, <2>1
<1> QED BY <1>1, <1>2 DEF Arguments, Argument

(* The kernel means a file of the domain, or none.                         *)
LEMMA MeantType ==
  ASSUME NEW q \in Processes, NEW a \in Argument
  PROVE  Meant(q, a) \in File
<1>1. a.dir \in FileDirs /\ a.name \in Names \union {""} BY DEF Argument, FileDirs
<1>2. NoPath \in File BY DEF NoPath, Path, File, FileDirs
<1>3. Path(a.dir, a.name) \in File BY <1>1 DEF Path, File
<1>4. \A base \in Links : Path(base, a.name) \in File
  BY <1>1 DEF Path, File, FileDirs
<1> QED BY <1>2, <1>3, <1>4 DEF Meant

(* What the reads of /proc give.                                           *)
LEMMA ReadTypes ==
  ASSUME proc \in [Pids -> Processes], NEW p \in Pids, NEW readable \in BOOLEAN
  PROVE  /\ readProcFD(p, readable) \in Links \union {""}
         /\ readProcCWD(p, readable) \in Links \union {""}
  BY DEF readProcFD, readProcCWD, Processes

(* What a record holds of a path.                                          *)
LEMMA StringParts ==
  ASSUME NEW a \in Argument
  PROVE  /\ a.copied = "whole" => cString(a).dir = a.dir /\ cString(a).name = a.name
         /\ a.copied = "cut" => cString(a).dir = a.dir /\ cString(a).name = "cut"
         /\ a.copied = "none" => cString(a) = NoPath
         /\ NoPath.dir = "" /\ NoPath.name = ""
  BY DEF cString, Path, NoPath, Argument

(* resolveProcPath by cases: a path that is absolute, or empty, stays.     *)
LEMMA ResolveCases ==
  ASSUME NEW p, NEW a, NEW readable
  PROVE  LET base == IF a.at THEN readProcFD(p, readable) ELSE readProcCWD(p, readable)
         IN /\ (cString(a).name = "" \/ cString(a).dir # "") =>
                 resolveProcPath(p, a, readable) = cString(a)
            /\ (cString(a).name # "" /\ cString(a).dir = "" /\ base = "") =>
                 resolveProcPath(p, a, readable) = NoPath
            /\ (cString(a).name # "" /\ cString(a).dir = "" /\ base # "") =>
                 resolveProcPath(p, a, readable) = Path(base, cString(a).name)
  BY DEF resolveProcPath

(* Readable is about what can be read.                                     *)
LEMMA ReadableFacts ==
  ASSUME NEW c, NEW r, NEW readable \in Readable(c, r)
  PROVE  /\ readable \in BOOLEAN
         /\ ~readable => c \in {"file_write", "chmod"} /\ r.argument.dir = ""
  BY DEF Readable

(* The path of an event is one of the domain, as is the name.              *)
LEMMA PathTypes ==
  ASSUME proc \in [Pids -> Processes], NEW c \in Collectors, NEW r \in RecordOf(c),
         NEW readable \in BOOLEAN
  PROVE  FilePath(c, r, readable) \in ReadFile /\ cString(r.argument) \in ReadFile
<1>1. r.pid \in Pids /\ r.argument \in Argument BY DEF RecordOf
<1>2. NoPath \in ReadFile BY DEF NoPath, Path, ReadFile, FileDirs
<1>3. \A d \in FileDirs, n \in Names \union {"", "cut"} : Path(d, n) \in ReadFile
  BY DEF Path, ReadFile
<1>4. cString(r.argument) \in ReadFile
  <2>1. r.argument.dir \in FileDirs /\ r.argument.name \in Names \union {"", "cut"}
        /\ r.argument.copied \in {"whole", "cut", "none"}
    BY <1>1 DEF Argument, FileDirs
  <2> QED BY <1>2, <1>3, <2>1 DEF cString
<1>5. FileWritePath(r, readable) \in ReadFile
  <2>1. readProcFD(r.pid, readable) \in FileDirs BY <1>1, ReadTypes DEF FileDirs
  <2> QED BY <1>2, <1>3, <2>1 DEF FileWritePath
<1>6. resolveProcPath(r.pid, r.argument, readable) \in ReadFile
  <2> DEFINE path == cString(r.argument)
             base == IF r.argument.at THEN readProcFD(r.pid, readable)
                     ELSE readProcCWD(r.pid, readable)
  <2>1. base \in FileDirs BY <1>1, ReadTypes DEF FileDirs
  <2>2. path \in ReadFile BY <1>4
  <2>3. path.name \in Names \union {"", "cut"} BY <2>2 DEF ReadFile
  <2>4. Path(base, path.name) \in ReadFile BY <1>3, <2>1, <2>3
  <2> QED BY <1>2, <2>2, <2>4, ResolveCases
<1>7. ChmodPath(r, readable) \in ReadFile
  BY <1>2, <1>5, <1>6 DEF ChmodPath
<1> QED BY <1>2, <1>4, <1>5, <1>7 DEF FilePath

(* An absolute path is kept as far as it could be read.                    *)
LEMMA AbsolutePath ==
  ASSUME NEW c \in Collectors, NEW r \in RecordOf(c), NEW readable \in BOOLEAN,
         r.argument \in Arguments(r.syscall), r.argument.dir # ""
  PROVE  LET a == r.argument
         IN /\ a.copied = "whole" => FilePath(c, r, readable) = Path(a.dir, a.name)
            /\ a.copied # "none" => FilePath(c, r, readable) # NoPath
<1> DEFINE a == r.argument
<1>1. /\ a \in Argument /\ r.syscall \in Calls[c] /\ c \in DOMAIN Calls
      /\ r.syscall \in ByPath \union ByPathAt
  BY ArgumentFacts, CaptureAssumption DEF RecordOf, CaptureAssumption
<1>2. c \in {"execve", "chmod"} BY <1>1, PathCalls
<1>3. ASSUME a.copied # "none"
      PROVE  FilePath(c, r, readable) = cString(a) /\ cString(a).dir = a.dir
  <2>1. cString(a).dir = a.dir BY <1>1, <1>3, StringParts DEF Argument
  <2>2. CASE c = "execve" BY <2>1, <2>2 DEF FilePath
  <2>3. CASE c = "chmod"
    <3>1. r.syscall \in {"chmod", "fchmodat", "fchmodat2"}
      BY <1>1, <2>3, CallsOf DEF ByPath, ByPathAt
    <3>2. resolveProcPath(r.pid, a, readable) = cString(a) BY <2>1, ResolveCases
    <3> QED BY <2>1, <2>3, <3>1, <3>2 DEF FilePath, ChmodPath
  <2> QED BY <1>2, <2>2, <2>3
<1>4. a.copied = "whole" => cString(a) = Path(a.dir, a.name) BY DEF cString
<1>5. NoPath.dir = "" BY <1>1, StringParts
<1> QED BY <1>3, <1>4, <1>5

(* Any other file is looked up where the call names it from, as long as    *)
(* the process lives and /proc can be read, and else not at all.           *)
LEMMA LookedUp ==
  ASSUME proc \in [Pids -> Processes], NEW c \in {"file_write", "chmod"} \cap Collectors,
         NEW r \in RecordOf(c), NEW readable \in BOOLEAN,
         r.argument \in Arguments(r.syscall), r.argument.dir = "",
         r.argument.copied # "none"
  PROVE  LET a == r.argument
             q == proc[r.pid]
             base == IF a.at THEN readProcFD(r.pid, readable)
                     ELSE readProcCWD(r.pid, readable)
             there == IF a.at THEN q.fd ELSE q.cwd
         IN \/ /\ FilePath(c, r, readable) =
                    IF base = "" THEN NoPath
                    ELSE Path(base, IF a.copied = "cut" THEN "cut" ELSE a.name)
               /\ Meant(q, a) = IF there \in Links THEN Path(there, a.name) ELSE NoPath
            \/ /\ FilePath(c, r, readable) = NoPath
               /\ r.syscall = "fchmodat2" /\ a.name = ""
<1> DEFINE a == r.argument
           q == proc[r.pid]
           base == IF a.at THEN readProcFD(r.pid, readable)
                   ELSE readProcCWD(r.pid, readable)
           there == IF a.at THEN q.fd ELSE q.cwd
           name == IF a.copied = "cut" THEN "cut" ELSE a.name
<1>1. /\ a \in Argument /\ r.syscall \in Calls[c] /\ c \in DOMAIN Calls
      /\ a.copied \in {"whole", "cut"}
  BY ArgumentFacts, CaptureAssumption DEF RecordOf, CaptureAssumption, Argument
<1>2. ASSUME r.syscall \in ByDescriptor
      PROVE  /\ FileWritePath(r, readable) = IF base = "" THEN NoPath ELSE Path(base, name)
             /\ Meant(q, a) = IF there \in Links THEN Path(there, a.name) ELSE NoPath
  <2>1. a.at /\ a.name = "" /\ a.dir = "" /\ a.copied # "cut"
    BY <1>1, <1>2, ArgumentFacts
  <2> QED BY <2>1 DEF FileWritePath, Meant
<1>3. ASSUME a.name # ""
      PROVE  /\ resolveProcPath(r.pid, a, readable)
                  = IF base = "" THEN NoPath ELSE Path(base, name)
             /\ Meant(q, a) = IF there \in Links THEN Path(there, a.name) ELSE NoPath
  <2>1. cString(a).name = name /\ cString(a).dir = "" BY <1>1, StringParts
  <2>2. name # "" BY <1>3
  <2>3. resolveProcPath(r.pid, a, readable)
          = IF base = "" THEN NoPath ELSE Path(base, name)
    <3> HIDE DEF name, base
    <3>1. (base = "" => resolveProcPath(r.pid, a, readable) = NoPath)
          /\ (base # "" => resolveProcPath(r.pid, a, readable) = Path(base, name))
      BY <2>1, <2>2, ResolveCases DEF base
    <3> QED BY <3>1
  <2> QED BY <1>3, <2>3 DEF Meant
<1>4. ASSUME a.name = "" PROVE resolveProcPath(r.pid, a, readable) = NoPath
  <2>1. a.copied = "whole" BY <1>1, <1>4, ArgumentFacts
  <2>2. cString(a) = NoPath BY <1>4, <2>1 DEF cString, NoPath
  <2>3. cString(a).name = "" BY <1>1, <2>2, StringParts
  <2> QED BY <2>2, <2>3, ResolveCases
<1>5. CASE c = "file_write"
  <2>1. r.syscall \in ByDescriptor BY <1>1, <1>5 DEF ByDescriptor
  <2>2. FilePath(c, r, readable) = FileWritePath(r, readable) BY <1>5 DEF FilePath
  <2> QED BY <1>2, <2>1, <2>2
<1>6. CASE c = "chmod"
  <2>1. r.syscall \in {"chmod", "fchmod", "fchmodat", "fchmodat2"}
    BY <1>1, <1>6, CallsOf
  <2>2. CASE r.syscall = "fchmod"
    <3>1. r.syscall \in ByDescriptor BY <2>2 DEF ByDescriptor
    <3>2. FilePath(c, r, readable) = FileWritePath(r, readable)
      BY <1>6, <2>2 DEF FilePath, ChmodPath
    <3> QED BY <1>2, <3>1, <3>2
  <2>3. CASE r.syscall # "fchmod"
    <3>1. FilePath(c, r, readable) = resolveProcPath(r.pid, a, readable)
      BY <1>6, <2>1, <2>3 DEF FilePath, ChmodPath
    <3>2. a.name = "" => r.syscall = "fchmodat2"
      <4>1. r.syscall \in ByPath \union ByPathAt BY <2>1, <2>3 DEF ByPath, ByPathAt
      <4> QED BY <1>1, <4>1, ArgumentFacts
    <3> QED BY <1>3, <1>4, <3>1, <3>2
  <2> QED BY <2>2, <2>3
<1> QED BY <1>5, <1>6

(* What such a read of /proc shows of a process that is still alive.       *)
LEMMA ReadsLink ==
  ASSUME proc \in [Pids -> Processes], AliveInv, NEW p \in Pids, proc[p].alive,
         NEW at \in BOOLEAN, NEW readable \in BOOLEAN
  PROVE  LET base == IF at THEN readProcFD(p, readable) ELSE readProcCWD(p, readable)
             there == IF at THEN proc[p].fd ELSE proc[p].cwd
         IN base = IF readable /\ there \in Links THEN there ELSE ""
<1>1. proc[p].cwd \in Links BY DEF AliveInv, Lives
<1> QED BY <1>1 DEF readProcFD, readProcCWD

(* Resolving finds the file that was meant if the path is absolute, and    *)
(* else, if it finds one while the process is as the call left it, the one *)
(* that goes by the name the call gave now.                                *)
LEMMA ResolvesFile ==
  ASSUME proc \in [Pids -> Processes], AliveInv,
         NEW c \in Collectors, NEW r \in RecordOf(c), Fresh(r),
         NEW readable \in BOOLEAN, r.argument.copied = "whole"
  PROVE  LET a == r.argument
         IN /\ a.dir # "" => FilePath(c, r, readable) = r.meant
            /\ /\ Still(r) /\ c \in {"file_write", "chmod"}
               /\ FilePath(c, r, readable) # NoPath
               => FilePath(c, r, readable) = Meant(proc[r.pid], a)
<1> DEFINE a == r.argument
           q == proc[r.pid]
<1>1. /\ a \in Argument /\ a \in Arguments(r.syscall) /\ r.pid \in Pids
      /\ a.at \in BOOLEAN
  BY DEF RecordOf, Fresh, Argument
<1>2. CASE a.dir # ""
  <2>1. FilePath(c, r, readable) = Path(a.dir, a.name) BY <1>1, <1>2, AbsolutePath
  <2>2. r.meant = Path(a.dir, a.name) BY <1>2 DEF Fresh
  <2>3. Meant(q, a) = Path(a.dir, a.name) BY <1>2 DEF Meant
  <2> QED BY <2>1, <2>2, <2>3
<1>3. CASE a.dir = ""
  <2> SUFFICES ASSUME Still(r), c \in {"file_write", "chmod"},
                      FilePath(c, r, readable) # NoPath
               PROVE  FilePath(c, r, readable) = Meant(q, a)
    BY <1>3
  <2> DEFINE base == IF a.at THEN readProcFD(r.pid, readable)
                     ELSE readProcCWD(r.pid, readable)
             there == IF a.at THEN q.fd ELSE q.cwd
  <2>1. /\ FilePath(c, r, readable) = IF base = "" THEN NoPath ELSE Path(base, a.name)
        /\ Meant(q, a) = IF there \in Links THEN Path(there, a.name) ELSE NoPath
    <3>1. c \in {"file_write", "chmod"} \cap Collectors /\ a.copied # "none"
          /\ (IF a.copied = "cut" THEN "cut" ELSE a.name) = a.name
      OBVIOUS
    <3> HIDE DEF a
    <3> QED BY <1>1, <1>3, <3>1, LookedUp DEF a
  <2>2. q.alive BY DEF Fresh
  <2>3. base = IF readable /\ there \in Links THEN there ELSE ""
    BY <1>1, <2>2, ReadsLink
  <2> HIDE DEF base, there, q, a
  <2> QED BY <2>1, <2>3
<1> QED BY <1>2, <1>3

(* Why a record is discarded.                                              *)
LEMMA DiscardReason ==
  ASSUME proc \in [Pids -> Processes], AliveInv,
         NEW c \in Collectors, NEW r \in RecordOf(c), Fresh(r),
         NEW readable \in BOOLEAN, ~Complete(c, r, FilePath(c, r, readable)),
         r.argument.copied # "none"
  PROVE  \/ r.syscall = "fchmodat2" /\ r.argument.name = ""
         \/ r.argument.dir = "" /\ (~readable \/ ~Still(r) \/ r.meant = NoPath)
<1> DEFINE a == r.argument
           q == proc[r.pid]
<1>1. c \in {"file_write", "chmod"} /\ FilePath(c, r, readable) = NoPath
  BY DEF Complete
<1>2. /\ a \in Arguments(r.syscall) /\ r.pid \in Pids /\ a.at \in BOOLEAN
      /\ a \in Argument
  BY DEF RecordOf, Fresh, Argument
<1>3. a.dir = "" BY <1>1, <1>2, AbsolutePath
<1>4. SUFFICES ASSUME readable, Still(r),
                      ~(r.syscall = "fchmodat2" /\ a.name = "")
               PROVE  r.meant = NoPath
  BY <1>3
<1> DEFINE base == IF a.at THEN readProcFD(r.pid, readable)
                   ELSE readProcCWD(r.pid, readable)
           there == IF a.at THEN q.fd ELSE q.cwd
<1>5. PICK name :
        /\ FilePath(c, r, readable) = IF base = "" THEN NoPath ELSE Path(base, name)
        /\ Meant(q, a) = IF there \in Links THEN Path(there, a.name) ELSE NoPath
  BY <1>1, <1>2, <1>3, <1>4, LookedUp
<1>6. q.alive BY <1>4 DEF Fresh
<1>7. base = IF there \in Links THEN there ELSE ""
  BY <1>2, <1>4, <1>6, ReadsLink
<1>8. there \notin Links
  <2>1. SUFFICES ASSUME there \in Links PROVE FALSE OBVIOUS
  <2>2. base = there /\ base # "" BY <1>7, <2>1, NoNamelessLink
  <2>3. Path(base, name).dir = base BY DEF Path
  <2>4. NoPath.dir = "" BY DEF NoPath, Path
  <2> HIDE DEF base
  <2> QED BY <1>1, <1>5, <2>2, <2>3, <2>4
<1>9. Meant(q, a) = NoPath BY <1>5, <1>8
<1> QED BY <1>4, <1>9 DEF Fresh

(* The name of the process, where there is one.                            *)
LEMMA NamesProcess ==
  ASSUME proc \in [Pids -> Processes],
         NEW c \in Collectors, NEW r \in RecordOf(c), Fresh(r), NEW readable \in BOOLEAN
  PROVE  /\ ProcessName(c, r, readable) \in Images \union {"", "cut", "deleted"}
         /\ r.comm # "" => ProcessName(c, r, readable) # ""
         /\ (c # "execve" /\ Still(r) /\ Unmoved(r)) =>
              ProcessName(c, r, readable) \in {r.comm, r.image}
<1> DEFINE name == IF c = "execve" THEN cString(r.argument).name
                   ELSE IF readable THEN proc[r.pid].image ELSE ""
<1>1. r.comm \in Images \union {""} /\ r.pid \in Pids /\ proc[r.pid] \in Processes
  BY DEF RecordOf
<1>2. cString(r.argument).name \in Images \union {"", "cut"}
  BY PathTypes DEF ReadFile, Images
<1>3. proc[r.pid].image \in Images \union {"deleted", ""} BY <1>1 DEF Processes
<1>4. name \in Images \union {"", "cut", "deleted"} BY <1>2, <1>3
<1>5. (c # "execve" /\ Still(r) /\ Unmoved(r)) => name \in {r.image, ""}
  BY DEF Fresh
<1>6. ProcessName(c, r, readable) = IF name = "" THEN r.comm ELSE name
  BY DEF ProcessName
<1> HIDE DEF name
<1> QED BY <1>1, <1>4, <1>5, <1>6

-----------------------------------------------------------------------------
(* What a step can do to the processes: nothing, or make one of them       *)
(* another version of itself, or another process; or have its files        *)
(* renamed; or give it another name of its own.                            *)
SameFiles(old, new) ==
  new.alive = old.alive /\ (new.fd \in Links <=> old.fd \in Links)
    /\ (new.cwd \in Links <=> old.cwd \in Links)

ProcStep ==
  \/ UNCHANGED proc
  \/ \E p \in Pids, new \in Processes :
       /\ proc' = [proc EXCEPT ![p] = new]
       /\ new.alive => Lives(new)
       /\ \/ new.version = proc[p].version + 1 /\ new.renames = proc[p].renames
          \/ /\ new.version = proc[p].version /\ new.renames = proc[p].renames + 1
             /\ SameFiles(proc[p], new)
          \/ /\ new.version = proc[p].version /\ new.renames = proc[p].renames
             /\ SameFiles(proc[p], new) /\ new.image = proc[p].image
             /\ new.cwd = proc[p].cwd /\ new.fd = proc[p].fd

(* What a call means exists under any other name of the same directories.  *)
LEMMA MeantStays ==
  ASSUME NEW old, NEW new, SameFiles(old, new), NEW a
  PROVE  Meant(new, a) = NoPath => Meant(old, a) = NoPath
<1>1. CASE a.dir # "" \/ (a.name = "" /\ ~a.at) BY <1>1 DEF Meant
<1>2. CASE ~(a.dir # "" \/ (a.name = "" /\ ~a.at))
  <2> DEFINE base(q) == IF a.at THEN q.fd ELSE q.cwd
  <2>1. /\ Meant(old, a) = IF base(old) \in Links THEN Path(base(old), a.name) ELSE NoPath
        /\ Meant(new, a) = IF base(new) \in Links THEN Path(base(new), a.name) ELSE NoPath
    BY <1>2 DEF Meant
  <2>2. base(new) \in Links <=> base(old) \in Links BY DEF SameFiles
  <2>3. base(new) \in Links => Path(base(new), a.name) # NoPath
    BY NoNamelessLink DEF Path, NoPath
  <2> HIDE DEF base
  <2> QED BY <2>1, <2>2, <2>3
<1> QED BY <1>1, <1>2

(* A record stays what it was to /proc, or stops being of its version or   *)
(* of the names it was made with.                                          *)
LEMMA FreshStays ==
  ASSUME proc \in [Pids -> Processes], ProcStep, NEW c \in Collectors,
         NEW r \in RecordOf(c), Fresh(r)
  PROVE  Fresh(r)'
<1>1. r.pid \in Pids /\ r.version \in Nat /\ r.renames \in Nat BY DEF RecordOf
<1>2. CASE proc'[r.pid] = proc[r.pid] BY <1>2 DEF Fresh, Still, Unmoved
<1>3. CASE proc'[r.pid] # proc[r.pid]
  <2>1. PICK new \in Processes :
          /\ proc'[r.pid] = new
          /\ \/ /\ new.version = proc[r.pid].version + 1
                /\ new.renames = proc[r.pid].renames
             \/ /\ new.version = proc[r.pid].version
                /\ new.renames = proc[r.pid].renames + 1
                /\ SameFiles(proc[r.pid], new)
             \/ /\ new.version = proc[r.pid].version
                /\ new.renames = proc[r.pid].renames
                /\ SameFiles(proc[r.pid], new) /\ new.image = proc[r.pid].image
                /\ new.cwd = proc[r.pid].cwd /\ new.fd = proc[r.pid].fd
    <3>1. PICK p \in Pids, new \in Processes :
            /\ proc' = [proc EXCEPT ![p] = new]
            /\ \/ new.version = proc[p].version + 1 /\ new.renames = proc[p].renames
               \/ /\ new.version = proc[p].version
                  /\ new.renames = proc[p].renames + 1 /\ SameFiles(proc[p], new)
               \/ /\ new.version = proc[p].version /\ new.renames = proc[p].renames
                  /\ SameFiles(proc[p], new) /\ new.image = proc[p].image
                  /\ new.cwd = proc[p].cwd /\ new.fd = proc[p].fd
      BY <1>3 DEF ProcStep
    <3>2. r.pid = p BY <1>1, <1>3, <3>1
    <3>3. proc'[r.pid] = new BY <1>1, <3>1, <3>2
    <3> QED BY <3>1, <3>2, <3>3
  <2>2. PICK v, n : v = proc[r.pid].version /\ n = proc[r.pid].renames OBVIOUS
  <2>3. v \in Nat /\ n \in Nat /\ r.version <= v /\ r.renames <= n
    BY <1>1, <2>2, Versions DEF Fresh
  <2>4. CASE new.version = v + 1 /\ new.renames = n
    <3>1. r.version <= v + 1 /\ r.version # v + 1 BY <1>1, <2>3
    <3> QED BY <2>1, <2>3, <2>4, <3>1 DEF Fresh, Still
  <2>5. CASE new.version = v /\ new.renames = n + 1 /\ SameFiles(proc[r.pid], new)
    <3>1. r.renames <= n + 1 /\ r.renames # n + 1 BY <1>1, <2>3
    <3>2. Meant(new, r.argument) = NoPath => Meant(proc[r.pid], r.argument) = NoPath
      BY <2>5, MeantStays
    <3>3. new.alive = proc[r.pid].alive BY <2>5 DEF SameFiles
    <3> QED BY <2>1, <2>2, <2>3, <2>5, <3>1, <3>2, <3>3 DEF Fresh, Still, Unmoved
  <2>6. CASE /\ new.version = v /\ new.renames = n
             /\ SameFiles(proc[r.pid], new) /\ new.image = proc[r.pid].image
             /\ new.cwd = proc[r.pid].cwd /\ new.fd = proc[r.pid].fd
    <3>1. Meant(new, r.argument) = Meant(proc[r.pid], r.argument) BY <2>6 DEF Meant
    <3>2. new.alive = proc[r.pid].alive BY <2>6 DEF SameFiles
    <3> QED BY <2>1, <2>2, <2>3, <2>6, <3>1, <3>2 DEF Fresh, Still, Unmoved
  <2> QED BY <2>1, <2>2, <2>4, <2>5, <2>6
<1> QED BY <1>2, <1>3

(* The same for the types and for what a living process has.               *)
LEMMA ProcessStays ==
  ASSUME proc \in [Pids -> Processes], AliveInv, ProcStep
  PROVE  proc' \in [Pids -> Processes] /\ AliveInv'
<1>1. CASE UNCHANGED proc BY <1>1 DEF AliveInv
<1>2. ASSUME NEW p \in Pids, NEW new \in Processes,
             proc' = [proc EXCEPT ![p] = new], new.alive => Lives(new)
      PROVE  proc' \in [Pids -> Processes] /\ AliveInv'
  <2>1. proc' \in [Pids -> Processes] BY <1>2
  <2>2. \A x \in Pids : proc'[x] = IF x = p THEN new ELSE proc[x] BY <1>2
  <2> QED BY <1>2, <2>1, <2>2 DEF AliveInv
<1> QED BY <1>1, <1>2 DEF ProcStep

(* What a step can do to the calls that threads are in: they go on, or are *)
(* over, or are entered.                                                   *)
CallStep ==
  /\ call' = [pt \in Pids \X Threads |-> call'[pt]]
  /\ \A pt \in Pids \X Threads : call'[pt] # Empty =>
       \/ call'[pt] = call[pt]
       \/ /\ CallOK(pt, call'[pt]) /\ Fresh(call[pt].record)'
          /\ clock.time < call'[pt].record.made
          /\ call'[pt].record.made <= clock'.time

(* A record that was output stays behind the calls that are entered.       *)
LEMMA OldStays ==
  ASSUME NEW c \in Collectors, NEW r \in RecordOf(c), Old(r), CallStep,
         clock \in Clock, clock' \in Clock, clock.time <= clock'.time,
         \A pt \in Pids \X Threads : call[pt] # Empty => CallOK(pt, call[pt])
  PROVE  Old(r)'
<1>1. /\ r.made \in Nat /\ r.done \in Nat /\ <<r.pid, r.thread>> \in Pids \X Threads
  BY DEF RecordOf
<1>2. PICK m, n : m = clock.time /\ n = clock'.time OBVIOUS
<1>3. m \in Nat /\ n \in Nat /\ m <= n /\ r.made <= m /\ r.done <= m
  BY <1>2, Clocks DEF Old
<1>4. r.made <= n /\ r.done <= n BY <1>1, <1>3
<1>5. ASSUME NEW k, k = call'[<<r.pid, r.thread>>], k # Empty, k.collector # "execve"
      PROVE  r.made < k.record.made
  <2>1. CASE k = call[<<r.pid, r.thread>>] BY <1>5, <2>1 DEF Old
  <2>2. CASE CallOK(<<r.pid, r.thread>>, k) /\ clock.time < k.record.made
    <3>1. k.record.made \in Nat BY <2>2 DEF CallOK, RecordOf
    <3> QED BY <1>1, <1>2, <1>3, <2>2, <3>1
  <2> QED BY <1>1, <1>5, <2>1, <2>2 DEF CallStep
<1> QED BY <1>2, <1>4, <1>5 DEF Old

(* The same for the types of calls and what is known of their records.     *)
LEMMA CallsStay ==
  ASSUME TypeOK, FreshInv, OrderInv, ProcStep, CallStep,
         clock' \in Clock, clock.time <= clock'.time
  PROVE  /\ call' = [pt \in Pids \X Threads |-> call'[pt]]
         /\ \A pt \in Pids \X Threads : call'[pt] # Empty =>
              /\ CallOK(pt, call'[pt]) /\ Fresh(call[pt].record)'
              /\ call'[pt].record.made <= clock'.time
<1> SUFFICES ASSUME NEW pt \in Pids \X Threads, call'[pt] # Empty
             PROVE  /\ CallOK(pt, call'[pt]) /\ Fresh(call[pt].record)'
                    /\ call'[pt].record.made <= clock'.time
  BY DEF CallStep
<1>1. CASE call'[pt] = call[pt]
  <2>1. CallOK(pt, call[pt]) BY <1>1 DEF TypeOK
  <2>2. PICK c \in Collectors : call[pt].record \in RecordOf(c)
    BY <2>1 DEF CallOK
  <2> PICK r \in RecordOf(c) : r = call[pt].record BY <2>2
  <2>3. Fresh(r) /\ r.made <= clock.time BY <1>1 DEF FreshInv, OrderInv
  <2>4. Fresh(r)' BY <2>3, FreshStays DEF TypeOK
  <2>5. r.made <= clock'.time
    <3>1. r.made \in Nat BY DEF RecordOf
    <3>2. clock.time \in Nat /\ clock'.time \in Nat BY Clocks DEF TypeOK
    <3> QED BY <2>3, <3>1, <3>2
  <2>6. call'[pt].record = r BY <1>1
  <2> QED BY <1>1, <2>1, <2>4, <2>5, <2>6
<1>2. CASE call'[pt] # call[pt] BY <1>2 DEF CallStep
<1> QED BY <1>1, <1>2

-----------------------------------------------------------------------------
(* What a step can do, seen by the invariants: processes change and calls  *)
(* are entered; a record is output; or the collector goes on with one of   *)
(* its own.                                                                *)
QuietStep ==
  /\ ProcStep /\ CallStep
  /\ clock' \in Clock
  /\ clock.time <= clock'.time /\ clock'.stamps = clock.stamps
  /\ UNCHANGED <<ring, hand, sink, discarded>>

EmitStep(c, r) ==
  /\ ProcStep /\ CallStep
  /\ clock' \in Clock
  /\ clock.time <= clock'.time /\ clock'.stamps = clock.stamps
  /\ r \in RecordOf(c) /\ Fresh(r)' /\ Old(r)'
  /\ \A d \in Collectors : \A x \in RecordOf(d) : Old(x) => Before(x, r)
  /\ ring' = [ring EXCEPT ![c] = Append(@, r)]
  /\ UNCHANGED <<hand, sink, discarded>>

(* Calls go on, or those of one process are over.                          *)
LEMMA CallsEnd ==
  ASSUME TypeOK, NEW S \in SUBSET (Pids \X Threads),
         call' = [pt \in Pids \X Threads |-> IF pt \in S THEN Empty ELSE call[pt]]
  PROVE  CallStep
  BY DEF CallStep

LEMMA CallsGoOn ==
  ASSUME TypeOK, UNCHANGED call
  PROVE  CallStep
  BY DEF CallStep, TypeOK

(* A process that changes is quiet.                                        *)
LEMMA ChangeIsQuiet ==
  ASSUME TypeOK, NEW p \in Pids, NEW new \in Processes, Change(p, new), CallStep,
         new.alive => Lives(new),
         \/ new.version = proc[p].version + 1 /\ new.renames = proc[p].renames
         \/ /\ new.version = proc[p].version /\ new.renames = proc[p].renames + 1
            /\ SameFiles(proc[p], new)
         \/ /\ new.version = proc[p].version /\ new.renames = proc[p].renames
            /\ SameFiles(proc[p], new) /\ new.image = proc[p].image
            /\ new.cwd = proc[p].cwd /\ new.fd = proc[p].fd
  PROVE  QuietStep
<1>1. clock \in Clock BY DEF TypeOK
<1>2. proc' = [proc EXCEPT ![p] = new] BY DEF Change
<1>3. ProcStep BY <1>2 DEF ProcStep
<1>4. clock' \in Clock /\ clock'.time = clock.time /\ clock'.stamps = clock.stamps
  <2>1. clock' = [clock EXCEPT !.changes = clock.changes + 1] BY DEF Change
  <2>2. PICK n \in Nat : n = clock.changes + 1 BY <1>1, Clocks
  <2>3. clock' = [clock EXCEPT !.changes = n] BY <2>1, <2>2
  <2> QED BY <1>1, <2>3 DEF Clock
<1>5. clock.time <= clock'.time
  <2>1. clock.time \in Nat BY <1>1, Clocks
  <2> QED BY <1>4, <2>1
<1>6. UNCHANGED <<ring, hand, sink, discarded>> BY DEF Change
<1> QED BY <1>3, <1>4, <1>5, <1>6 DEF QuietStep

(* So are changes of directory, descriptor, names and life.                *)
LEMMA ChangesAreQuiet ==
  ASSUME TypeOK, AliveInv, NEW p \in Pids,
         Chdir(p) \/ Reopen(p) \/ Rename(p) \/ SetComm(p) \/ End(p) \/ Reuse(p)
  PROVE  QuietStep
<1>1. PICK q \in Processes : q = proc[p] BY DEF TypeOK
<1>2. PICK v, n : v = q.version + 1 /\ n = q.renames + 1 OBVIOUS
<1>3. v \in Nat /\ n \in Nat BY <1>2, Versions
<1>4. q.alive => Lives(q) BY <1>1 DEF AliveInv
<1>5. CASE Chdir(p)
  <2>1. PICK d \in Dirs : Change(p, [q EXCEPT !.cwd = d, !.version = v]) /\ q.alive
    BY <1>1, <1>2, <1>5 DEF Chdir
  <2>2. PICK new : new = [q EXCEPT !.cwd = d, !.version = v] OBVIOUS
  <2>3. /\ new \in Processes /\ new.version = v /\ new.renames = q.renames
        /\ new.image = q.image /\ new.cwd = d
    BY <1>3, <2>2 DEF Processes, Links
  <2>4. Lives(new) BY <1>4, <2>1, <2>3 DEF Lives, Links
  <2>5. CallStep BY <1>5, CallsGoOn DEF Chdir
  <2> QED BY <1>1, <1>2, <2>1, <2>2, <2>3, <2>4, <2>5, ChangeIsQuiet
<1>6. CASE Reopen(p)
  <2>1. PICK d \in Dirs \union {"closed"} :
          Change(p, [q EXCEPT !.fd = d, !.version = v]) /\ q.alive
    BY <1>1, <1>2, <1>6 DEF Reopen
  <2>2. PICK new : new = [q EXCEPT !.fd = d, !.version = v] OBVIOUS
  <2>3. /\ new \in Processes /\ new.version = v /\ new.renames = q.renames
        /\ new.image = q.image /\ new.cwd = q.cwd
    BY <1>3, <2>2 DEF Processes, Links
  <2>4. Lives(new) BY <1>4, <2>1, <2>3 DEF Lives
  <2>5. CallStep BY <1>6, CallsGoOn DEF Reopen
  <2> QED BY <1>1, <1>2, <2>1, <2>2, <2>3, <2>4, <2>5, ChangeIsQuiet
<1>7. CASE Rename(p)
  <2>1. q.alive /\ Lives(q) /\ CallStep BY <1>1, <1>4, <1>7, CallsGoOn DEF Rename
  <2>2. ASSUME NEW i \in Images \union {"deleted"}, NEW d \in Links,
               NEW f \in Links \union {"closed"}, f \in Links <=> q.fd \in Links,
               NEW new, Change(p, new),
               new = [q EXCEPT !.image = i, !.cwd = d, !.fd = f, !.renames = n]
        PROVE  QuietStep
    <3>1. /\ new \in Processes /\ new.version = q.version /\ new.renames = n
          /\ new.image = i /\ new.cwd = d /\ new.fd = f /\ new.alive = q.alive
      BY <1>3, <2>2 DEF Processes
    <3>2. Lives(new) BY <3>1 DEF Lives
    <3>3. SameFiles(q, new) BY <2>1, <2>2, <3>1 DEF SameFiles, Lives
    <3> QED BY <1>1, <1>2, <2>1, <2>2, <3>1, <3>2, <3>3, ChangeIsQuiet
  <2>3. q.image \in Images \union {"deleted"} /\ q.cwd \in Links
        /\ q.fd \in Links \union {"closed"}
    BY <2>1 DEF Lives, Processes
  <2>4. CASE \E i \in Images \union {"deleted"} :
               Change(p, [q EXCEPT !.image = i, !.renames = n])
    <3>1. PICK i \in Images \union {"deleted"} :
            Change(p, [q EXCEPT !.image = i, !.renames = n])
      BY <2>4
    <3>2. [q EXCEPT !.image = i, !.renames = n]
            = [q EXCEPT !.image = i, !.cwd = q.cwd, !.fd = q.fd, !.renames = n]
      BY DEF Processes
    <3> QED BY ZenonT(30), <2>2, <2>3, <3>1, <3>2
  <2>5. CASE \E d \in Links : Change(p, [q EXCEPT !.cwd = d, !.renames = n])
    <3>1. PICK d \in Links : Change(p, [q EXCEPT !.cwd = d, !.renames = n]) BY <2>5
    <3>2. [q EXCEPT !.cwd = d, !.renames = n]
            = [q EXCEPT !.image = q.image, !.cwd = d, !.fd = q.fd, !.renames = n]
      BY DEF Processes
    <3> QED BY <2>2, <2>3, <3>1, <3>2
  <2>6. CASE q.fd \in Links
             /\ \E f \in Links : Change(p, [q EXCEPT !.fd = f, !.renames = n])
    <3>1. PICK f \in Links : Change(p, [q EXCEPT !.fd = f, !.renames = n]) BY <2>6
    <3>2. [q EXCEPT !.fd = f, !.renames = n]
            = [q EXCEPT !.image = q.image, !.cwd = q.cwd, !.fd = f, !.renames = n]
      BY DEF Processes
    <3> QED BY <2>2, <2>3, <2>6, <3>1, <3>2
  <2> QED BY <1>1, <1>2, <1>7, <2>4, <2>5, <2>6 DEF Rename, Links
<1>8. CASE SetComm(p)
  <2>1. PICK m \in Images \union {""} : Change(p, [q EXCEPT !.comm = m]) /\ q.alive
    BY <1>1, <1>8 DEF SetComm
  <2>2. PICK new : new = [q EXCEPT !.comm = m] OBVIOUS
  <2>3. /\ new \in Processes /\ new.version = q.version /\ new.renames = q.renames
        /\ new.image = q.image /\ new.cwd = q.cwd /\ new.fd = q.fd
        /\ new.alive = q.alive
    BY <2>2 DEF Processes
  <2>4. Lives(new) /\ SameFiles(q, new) BY <1>4, <2>1, <2>3 DEF Lives, SameFiles
  <2>5. CallStep BY <1>8, CallsGoOn DEF SetComm
  <2> QED BY <1>1, <2>1, <2>2, <2>3, <2>4, <2>5, ChangeIsQuiet
<1>9. CASE End(p)
  <2>1. Change(p, [q EXCEPT !.alive = FALSE, !.cwd = "", !.fd = "closed",
                            !.image = "", !.version = v])
    BY <1>1, <1>2, <1>9 DEF End
  <2>2. PICK new : new = [q EXCEPT !.alive = FALSE, !.cwd = "", !.fd = "closed",
                                   !.image = "", !.version = v]
    OBVIOUS
  <2>3. new \in Processes /\ new.version = v /\ new.renames = q.renames /\ ~new.alive
    BY <1>3, <2>2 DEF Processes
  <2>4. CallStep
    <3>1. call' = [pt \in Pids \X Threads |-> IF pt[1] = p THEN Empty ELSE call[pt]]
      BY <1>9 DEF End
    <3> QED BY <3>1, CallsEnd DEF CallStep
  <2> QED BY <1>1, <1>2, <2>1, <2>2, <2>3, <2>4, ChangeIsQuiet
<1>10. CASE Reuse(p)
  <2>1. PICK d \in Dirs, m \in Programs :
          Change(p, [Process(m, d) EXCEPT !.version = v, !.renames = q.renames])
    BY <1>1, <1>2, <1>10 DEF Reuse
  <2>2. PICK new : new = [Process(m, d) EXCEPT !.version = v, !.renames = q.renames]
    OBVIOUS
  <2>3. q.renames \in Nat BY Versions
  <2>4. /\ new \in Processes /\ new.version = v /\ new.renames = q.renames
        /\ new.image = m /\ new.cwd = d
    BY <1>3, <2>2, <2>3 DEF Process, Processes, Links, Images
  <2>5. Lives(new) BY <2>4 DEF Lives, Links, Images
  <2>6. CallStep BY <1>10, CallsGoOn DEF Reuse
  <2> QED BY <1>1, <1>2, <2>1, <2>2, <2>4, <2>5, <2>6, ChangeIsQuiet
<1> QED BY <1>5, <1>6, <1>7, <1>8, <1>9, <1>10

(* The clock goes on with a call.                                          *)
LEMMA NextTime ==
  ASSUME clock \in Clock,
         \/ clock' = [clock EXCEPT !.time = clock.time + 1]
         \/ clock' = [clock EXCEPT !.time = clock.time + 1, !.calls = @ + 1]
  PROVE  /\ clock' \in Clock /\ clock'.time = clock.time + 1
         /\ clock'.stamps = clock.stamps
         /\ clock.time \in Nat /\ clock'.time \in Nat
         /\ clock.time < clock'.time /\ clock.time <= clock'.time
<1>1. PICK n \in Nat, m \in Nat : n = clock.time + 1 /\ m = clock.calls + 1
  BY Clocks
<1>2. \/ clock' = [clock EXCEPT !.time = n]
      \/ clock' = [clock EXCEPT !.time = n, !.calls = m]
  BY <1>1
<1>3. clock' \in Clock /\ clock'.time = n /\ clock'.stamps = clock.stamps
  BY <1>2 DEF Clock
<1>4. clock.time \in Nat BY Clocks
<1> QED BY <1>1, <1>3, <1>4

(* A record made now comes behind all that are old.                        *)
LEMMA NowIsLater ==
  ASSUME clock \in Clock, NEW r, r.made \in Nat, r.done = clock.time + 1,
         LET k == call[<<r.pid, r.thread>>]
         IN \/ r.made = clock.time + 1
            \/ k # Empty /\ k.collector # "execve" /\ r.made = k.record.made
  PROVE  \A d \in Collectors : \A x \in RecordOf(d) : Old(x) => Before(x, r)
<1> SUFFICES ASSUME NEW d \in Collectors, NEW x \in RecordOf(d), Old(x)
             PROVE  Before(x, r)
  OBVIOUS
<1>1. x.made \in Nat /\ x.done \in Nat /\ clock.time \in Nat BY Clocks DEF RecordOf
<1>2. x.made <= clock.time /\ x.done <= clock.time BY DEF Old
<1>3. x.done < r.done BY <1>1, <1>2
<1>4. ASSUME r.pid = x.pid, r.thread = x.thread PROVE x.made < r.made
  <2>1. CASE r.made = clock.time + 1 BY <1>1, <1>2, <2>1
  <2>2. CASE r.made # clock.time + 1 BY <1>4, <2>2 DEF Old
  <2> QED BY <2>1, <2>2
<1> QED BY <1>3, <1>4 DEF Before

(* Entering a call is quiet, or leaves a record that is fresh.             *)
LEMMA EnterLeavesRecord ==
  ASSUME TypeOK, AliveInv, NEW p \in Pids, NEW t \in Threads,
         NEW c \in Collectors, NEW s \in Calls[c], NEW a \in Arguments(s),
         Enter(p, t, c, s, a)
  PROVE  QuietStep \/ \E r \in RecordOf(c) : EmitStep(c, r)
<1> DEFINE q == proc[p]
           o == Outcome(Program(c), s)
           made == [syscall |-> s, pid |-> p, thread |-> t, comm |-> q.comm,
                    argument |-> a, fields |-> o.fields, made |-> clock.time + 1,
                    done |-> IF c = "execve" THEN clock.time + 1 ELSE 0,
                    version |-> q.version, renames |-> q.renames,
                    meant |-> Meant(q, a), image |-> q.image]
<1>1. /\ q \in Processes /\ clock \in Clock /\ q.alive /\ Lives(q)
      /\ UNCHANGED <<proc, hand, sink, discarded>>
  BY DEF Enter, TypeOK, AliveInv
<1>2. /\ clock' \in Clock /\ clock'.time = clock.time + 1
      /\ clock'.stamps = clock.stamps
      /\ clock.time \in Nat /\ clock'.time \in Nat
      /\ clock.time < clock'.time /\ clock.time <= clock'.time
  <2>1. clock' = [clock EXCEPT !.time = clock.time + 1, !.calls = @ + 1]
    BY DEF Enter
  <2> QED BY <1>1, <2>1, NextTime
<1>3. PICK r : r = made OBVIOUS
<1>4. /\ r.syscall = s /\ r.pid = p /\ r.thread = t /\ r.argument = a
      /\ r.made = clock.time + 1 /\ r.version = q.version /\ r.renames = q.renames
      /\ r.meant = Meant(q, a) /\ r.image = q.image
      /\ r.done = IF c = "execve" THEN clock.time + 1 ELSE 0
  BY <1>3
<1>5. r \in RecordOf(c)
  <2>1. o.fields \in Fields(c) BY DEF Fields
  <2>2. a \in Argument /\ Meant(q, a) \in File BY <1>1, ArgumentFacts, MeantType
  <2>3. q.image \in Images \union {"deleted"} BY <1>1 DEF Lives
  <2>4. /\ q.comm \in Images \union {""} /\ q.version \in Nat /\ q.renames \in Nat
    BY <1>1 DEF Processes
  <2>5. clock.time + 1 \in Nat /\ r.done \in Nat BY <1>2, <1>4
  <2> HIDE DEF o, q
  <2> QED BY <1>3, <1>4, <2>1, <2>2, <2>3, <2>4, <2>5 DEF RecordOf
<1>6. ProcStep BY <1>1 DEF ProcStep
<1>7. Fresh(r)'
  <2>1. a.dir # "" => Meant(q, a) = Path(a.dir, a.name) BY DEF Meant
  <2>2. q.version <= q.version /\ q.renames <= q.renames BY <1>1, Versions
  <2>3. proc' = proc BY <1>1
  <2>4. Fresh(r) BY <1>1, <1>4, <2>1, <2>2 DEF Fresh
  <2> QED BY <2>3, <2>4 DEF Fresh, Still, Unmoved
<1>8. PICK k : k = [collector |-> c, record |-> r] OBVIOUS
<1>9. k.collector = c /\ k.record = r /\ CallOK(<<p, t>>, k)
  BY <1>4, <1>5, <1>8 DEF CallOK
<1>10. call' = IF o.emitted THEN [call EXCEPT ![<<p, t>>] = k] ELSE call
  BY <1>3, <1>8 DEF Enter
<1>11. CallStep
  <2>1. call = [pt \in Pids \X Threads |-> call[pt]] BY DEF TypeOK
  <2>2. CASE call' = call BY <2>2, CallsGoOn
  <2>3. CASE call' = [call EXCEPT ![<<p, t>>] = k]
    <3>1. /\ call' = [pt \in Pids \X Threads |-> call'[pt]]
          /\ \A pt \in Pids \X Threads :
               call'[pt] = IF pt = <<p, t>> THEN k ELSE call[pt]
      BY <2>1, <2>3
    <3>2. clock.time < r.made /\ r.made <= clock'.time BY <1>2, <1>4
    <3>3. ASSUME NEW pt \in Pids \X Threads, pt = <<p, t>>
          PROVE  Fresh(call[pt].record)'
      <4>1. call'[pt].record = r BY <1>9, <3>1, <3>3
      <4> QED BY <1>7, <4>1
    <3> QED BY <1>9, <3>1, <3>2, <3>3 DEF CallStep
  <2> QED BY <1>10, <2>2, <2>3
<1>12. ring' = IF o.emitted /\ c = "execve"
                 THEN [ring EXCEPT ![c] = Append(@, r)] ELSE ring
  BY <1>3 DEF Enter
<1>13. CASE ring' = ring
  BY <1>1, <1>2, <1>6, <1>11, <1>13 DEF QuietStep
<1>14. CASE o.emitted /\ c = "execve"
  <2>1. Old(r)'
    <3>1. call'[<<p, t>>] = k BY <1>10, <1>14 DEF TypeOK
    <3>2. r.made <= clock'.time /\ r.done <= clock'.time BY <1>2, <1>4, <1>14
    <3> QED BY <1>4, <1>9, <1>14, <3>1, <3>2 DEF Old
  <2>2. \A d \in Collectors : \A x \in RecordOf(d) : Old(x) => Before(x, r)
    <3>1. r.made \in Nat BY <1>5 DEF RecordOf
    <3> QED BY <1>1, <1>4, <1>14, <3>1, NowIsLater
  <2>3. ring' = [ring EXCEPT ![c] = Append(@, r)] BY <1>12, <1>14
  <2>4. EmitStep(c, r)
    BY <1>1, <1>2, <1>5, <1>6, <1>7, <1>11, <2>1, <2>2, <2>3 DEF EmitStep
  <2> QED BY <1>5, <2>4
<1> QED BY <1>12, <1>13, <1>14

(* A call that returns outputs its record.                                 *)
LEMMA ExitLeavesRecord ==
  ASSUME TypeOK, FreshInv, OrderInv, NEW p \in Pids, NEW t \in Threads, Exit(p, t)
  PROVE  \E c \in Collectors : \E r \in RecordOf(c) : EmitStep(c, r)
<1>1. PICK pt \in Pids \X Threads : pt = <<p, t>> OBVIOUS
<1>2. PICK k : k = call[pt] OBVIOUS
<1>3. /\ k # Empty /\ k.collector # "execve" /\ CallOK(pt, k)
      /\ clock \in Clock /\ call = [x \in Pids \X Threads |-> call[x]]
      /\ UNCHANGED <<proc, hand, sink, discarded>>
  BY <1>1, <1>2 DEF Exit, TypeOK
<1>4. PICK c \in Collectors : c = k.collector BY <1>3 DEF CallOK
<1>5. PICK old \in RecordOf(c) : old = k.record BY <1>3, <1>4 DEF CallOK
<1>6. /\ clock' \in Clock /\ clock'.time = clock.time + 1
      /\ clock'.stamps = clock.stamps
      /\ clock.time \in Nat /\ clock'.time \in Nat
      /\ clock.time < clock'.time /\ clock.time <= clock'.time
  <2>1. clock' = [clock EXCEPT !.time = clock.time + 1] BY DEF Exit
  <2> QED BY <1>3, <2>1, NextTime
<1>7. PICK r : r = [old EXCEPT !.done = clock.time + 1] OBVIOUS
<1>8. /\ r \in RecordOf(c) /\ r.syscall = old.syscall /\ r.pid = p /\ r.thread = t
      /\ r.argument = old.argument /\ r.made = old.made /\ r.version = old.version
      /\ r.renames = old.renames /\ r.meant = old.meant /\ r.image = old.image
      /\ r.done = clock.time + 1
  <2>1. PICK n \in Nat : n = clock.time + 1 BY <1>6
  <2>2. r = [old EXCEPT !.done = n] BY <1>7, <2>1
  <2>3. old.pid = p /\ old.thread = t BY <1>1, <1>3, <1>5 DEF CallOK
  <2> QED BY <2>1, <2>2, <2>3 DEF RecordOf
<1>9. ProcStep BY <1>3 DEF ProcStep
<1>10. Fresh(r)'
  <2>1. Fresh(old) BY <1>2, <1>3, <1>5 DEF FreshInv
  <2>2. Fresh(old)' BY <1>9, <2>1, FreshStays DEF TypeOK
  <2>3. old.pid = p BY <1>1, <1>3, <1>5 DEF CallOK
  <2> QED BY <1>8, <2>2, <2>3 DEF Fresh, Still, Unmoved
<1>11. call' = [call EXCEPT ![pt] = Empty] BY <1>1 DEF Exit
<1>12. CallStep
  <2>1. call' = [x \in Pids \X Threads |-> IF x \in {pt} THEN Empty ELSE call[x]]
    BY <1>3, <1>11
  <2> QED BY <2>1, CallsEnd
<1>13. Old(r)'
  <2>1. old.made <= clock.time /\ old.made \in Nat
    BY <1>2, <1>3, <1>5 DEF OrderInv, RecordOf
  <2>2. r.made <= clock'.time /\ r.done <= clock'.time BY <1>6, <1>8, <2>1
  <2>3. call'[<<r.pid, r.thread>>] = Empty BY <1>1, <1>3, <1>8, <1>11
  <2> QED BY <2>2, <2>3 DEF Old
<1>14. \A d \in Collectors : \A x \in RecordOf(d) : Old(x) => Before(x, r)
  <2>1. r.made \in Nat /\ call[<<r.pid, r.thread>>] = k /\ r.made = k.record.made
    BY <1>1, <1>2, <1>5, <1>8 DEF RecordOf
  <2> QED BY <1>3, <1>8, <2>1, NowIsLater
<1>15. ring' = [ring EXCEPT ![c] = Append(@, r)]
  BY <1>1, <1>2, <1>4, <1>5, <1>7 DEF Exit
<1>16. EmitStep(c, r)
  BY <1>3, <1>6, <1>8, <1>9, <1>10, <1>12, <1>13, <1>14, <1>15 DEF EmitStep
<1> QED BY <1>8, <1>16

(* execve returns: nothing is recorded of it.                              *)
LEMMA ExecveReturnsIsQuiet ==
  ASSUME TypeOK, AliveInv, FreshInv, NEW p \in Pids, NEW t \in Threads,
         ExecveReturns(p, t)
  PROVE  QuietStep
<1>1. PICK pt \in Pids \X Threads : pt = <<p, t>> OBVIOUS
<1>2. PICK k : k = call[pt] OBVIOUS
<1>3. /\ k # Empty /\ k.collector = "execve" /\ CallOK(pt, k) /\ Fresh(k.record)
      /\ clock \in Clock /\ call = [x \in Pids \X Threads |-> call[x]]
      /\ UNCHANGED <<ring, hand, sink, discarded>>
  BY <1>1, <1>2 DEF ExecveReturns, TypeOK, FreshInv
<1>4. PICK name : name = k.record.argument.name OBVIOUS
<1>5. name \in Names
  <2>1. k.record.syscall = "execve" BY <1>3, CallsOf DEF CallOK, RecordOf
  <2>2. k.record.argument \in Arguments("execve") BY <1>3, <2>1 DEF Fresh
  <2>3. "execve" \in ByPath /\ "execve" # "fchmodat2" BY DEF ByPath
  <2>4. k.record.argument \in Argument /\ name # "" BY <1>4, <2>2, <2>3, ArgumentFacts
  <2> QED BY <1>4, <2>4 DEF Argument
<1>6. /\ clock' \in Clock /\ clock.time <= clock'.time
      /\ clock'.stamps = clock.stamps
  <2>1. clock' = [clock EXCEPT !.time = clock.time + 1] BY DEF ExecveReturns
  <2> QED BY <1>3, <2>1, NextTime
<1>7. CASE call' = [call EXCEPT ![pt] = Empty] /\ UNCHANGED proc
  <2>1. call' = [x \in Pids \X Threads |-> IF x \in {pt} THEN Empty ELSE call[x]]
    BY <1>3, <1>7
  <2>2. CallStep BY <2>1, CallsEnd
  <2>3. ProcStep BY <1>7 DEF ProcStep
  <2> QED BY <1>3, <1>6, <2>2, <2>3 DEF QuietStep
<1>8. CASE /\ call' = [x \in Pids \X Threads |-> IF x[1] = p THEN Empty ELSE call[x]]
           /\ \E program \in Programs \union {name} :
                proc' = [proc EXCEPT ![p].image = program, ![p].version = @ + 1,
                                     ![p].comm = name]
  <2>1. PICK program \in Programs \union {name} :
          proc' = [proc EXCEPT ![p].image = program, ![p].version = @ + 1,
                               ![p].comm = name]
    BY <1>8
  <2>2. PICK q \in Processes : q = proc[p] BY DEF TypeOK
  <2>3. PICK v \in Nat : v = q.version + 1 BY Versions
  <2>4. PICK new : new = [q EXCEPT !.image = program, !.version = v, !.comm = name]
    OBVIOUS
  <2>5. proc' = [proc EXCEPT ![p] = new] BY <2>1, <2>2, <2>3, <2>4 DEF TypeOK
  <2>6. /\ new \in Processes /\ new.version = v /\ new.renames = q.renames
        /\ new.image = program /\ program \in Images /\ new.cwd = q.cwd
        /\ new.alive = q.alive
    BY <1>5, <2>3, <2>4 DEF Processes, Images
  <2>7. new.alive => Lives(new) BY <2>2, <2>6 DEF AliveInv, Lives
  <2>8. ProcStep BY <2>2, <2>3, <2>5, <2>6, <2>7 DEF ProcStep
  <2>9. CallStep
    <3> DEFINE S == {x \in Pids \X Threads : x[1] = p}
    <3>1. call' = [x \in Pids \X Threads |-> IF x \in S THEN Empty ELSE call[x]]
      BY <1>8
    <3> QED BY <3>1, CallsEnd
  <2> QED BY <1>3, <1>6, <2>8, <2>9 DEF QuietStep
<1> QED BY <1>1, <1>2, <1>4, <1>7, <1>8 DEF ExecveReturns

-----------------------------------------------------------------------------
(* Nothing has been made yet.                                              *)
LEMMA InitIInv == Init => IInv
<1> SUFFICES ASSUME Init PROVE IInv OBVIOUS
<1>1. proc \in [Pids -> Processes] /\ AliveInv
  <2>1. ASSUME NEW p \in Pids PROVE proc[p] \in Processes /\ Lives(proc[p])
    <3>1. PICK n \in Programs, d \in Dirs : proc[p] = Process(n, d) BY DEF Init
    <3>2. Process(n, d) \in Processes BY DEF Process, Processes, Images, Links
    <3>3. proc[p].image = n /\ proc[p].cwd = d BY <3>1 DEF Process
    <3> QED BY <3>1, <3>2, <3>3 DEF Lives, Images, Links
  <2>2. DOMAIN proc = Pids /\ proc = [p \in Pids |-> proc[p]] BY DEF Init
  <2> QED BY <2>1, <2>2 DEF AliveInv
<1>2. /\ ring = [c \in Collectors |-> <<>>] /\ hand = [c \in Collectors |-> Empty]
      /\ sink = <<>> /\ discarded = {} /\ call = [pt \in Pids \X Threads |-> Empty]
  BY DEF Init
<1>3. clock \in Clock BY DEF Init, Clock
<1>4. TypeOK
  <2>1. \A c \in Collectors : ring[c] = <<>> /\ hand[c] = Empty BY <1>2
  <2>2. /\ ring = [c \in Collectors |-> ring[c]]
        /\ hand = [c \in Collectors |-> hand[c]]
        /\ call = [pt \in Pids \X Threads |-> call[pt]]
        /\ \A pt \in Pids \X Threads : call[pt] = Empty
    BY <1>2, <2>1
  <2>3. sink \in Seq(Sent) /\ \A n \in DOMAIN sink : FALSE BY <1>2
  <2>4. \A c \in Collectors : ring[c] \in Seq(RecordOf(c)) BY <2>1, EmptySeq
  <2> QED BY <1>1, <1>3, <2>1, <2>2, <2>3, <2>4 DEF TypeOK
<1>5. /\ \A c \in Collectors : hand[c] = Empty /\ \A i \in DOMAIN ring[c] : FALSE
      /\ \A pt \in Pids \X Threads : call[pt] = Empty
  BY <1>2
<1>6. \A n \in DOMAIN sink : FALSE BY <1>2
<1>7. FreshInv /\ TruthInv BY <1>5, <1>6 DEF FreshInv, TruthInv
<1>8. OrderInv BY <1>5, <1>6 DEF OrderInv, CollectorOrder
<1>9. DiscardIsExplained BY <1>2 DEF DiscardIsExplained
<1> QED BY <1>1, <1>4, <1>7, <1>8, <1>9 DEF IInv

(* The record in hand and those sent are of the types.                     *)
LEMMA RecordTypes ==
  ASSUME TypeOK
  PROVE  /\ \A c \in Collectors : \A i \in DOMAIN ring[c] : ring[c][i] \in RecordOf(c)
         /\ \A c \in Collectors : hand[c] # Empty =>
              hand[c].record \in RecordOf(c) /\ hand[c].stamp \in Nat
         /\ \A n \in DOMAIN sink :
              /\ sink[n].collector \in Collectors
              /\ sink[n].event.record \in RecordOf(sink[n].collector)
              /\ sink[n].event.stamp \in Nat
<1>1. \A c \in Collectors : ring[c] \in Seq(RecordOf(c)) BY DEF TypeOK
<1>2. \A c \in Collectors : hand[c] # Empty => hand[c] \in Lines(c) BY DEF TypeOK
<1>3. ASSUME NEW c \in Collectors, hand[c] # Empty
      PROVE  hand[c].record \in RecordOf(c) /\ hand[c].stamp \in Nat
  <2>1. hand[c] \in Lines(c) BY <1>2, <1>3
  <2> QED BY <2>1 DEF Lines
<1>4. ASSUME NEW n \in DOMAIN sink
      PROVE  /\ sink[n].collector \in Collectors
             /\ sink[n].event.record \in RecordOf(sink[n].collector)
             /\ sink[n].event.stamp \in Nat
  <2>1. sink \in Seq(Sent) /\ sink[n].event \in Lines(sink[n].collector) BY DEF TypeOK
  <2>2. sink[n] \in Sent BY <2>1
  <2>3. sink[n].collector \in Collectors BY <2>2 DEF Sent
  <2> QED BY <2>1, <2>3 DEF Lines
<1> QED BY <1>1, <1>3, <1>4

(* Processes change, and calls are entered that leave no record yet.       *)
LEMMA QuietIInv == IInv /\ QuietStep => IInv'
<1> SUFFICES ASSUME IInv, QuietStep PROVE IInv' OBVIOUS
<1>1. proc' \in [Pids -> Processes] /\ AliveInv'
  BY ProcessStays DEF IInv, TypeOK, QuietStep
<1>2. UNCHANGED <<ring, hand, sink, discarded>> /\ clock' \in Clock
      /\ clock'.stamps = clock.stamps
  BY DEF QuietStep
<1>3. /\ call' = [pt \in Pids \X Threads |-> call'[pt]]
      /\ \A pt \in Pids \X Threads : call'[pt] # Empty =>
           /\ CallOK(pt, call'[pt]) /\ Fresh(call[pt].record)'
           /\ call'[pt].record.made <= clock'.time
  BY CallsStay DEF IInv, QuietStep
<1>4. \A c \in Collectors : \A r \in RecordOf(c) :
        (Fresh(r) => Fresh(r)') /\ (Old(r) => Old(r)')
  BY FreshStays, OldStays DEF IInv, TypeOK, QuietStep
<1>5. TypeOK' BY <1>1, <1>2, <1>3 DEF IInv, TypeOK
<1>6. FreshInv'
  <2>1. ASSUME NEW c \in Collectors, NEW n \in DOMAIN ring[c]
        PROVE  Fresh(ring[c][n])'
    <3>1. PICK r \in RecordOf(c) : r = ring[c][n] BY RecordTypes DEF IInv
    <3>2. Fresh(r) BY <3>1 DEF IInv, FreshInv
    <3>3. ring'[c][n] = r BY <1>2, <3>1
    <3> QED BY <1>4, <3>2, <3>3
  <2>2. ASSUME NEW c \in Collectors, hand[c] # Empty
        PROVE  Fresh(hand[c].record)'
    <3>1. PICK r \in RecordOf(c) : r = hand[c].record BY <2>2, RecordTypes DEF IInv
    <3>2. Fresh(r) BY <2>2, <3>1 DEF IInv, FreshInv
    <3>3. hand'[c].record = r BY <1>2, <3>1
    <3> QED BY <1>4, <3>2, <3>3
  <2> QED BY <1>2, <1>3, <2>1, <2>2 DEF FreshInv
<1>7. TruthInv' BY <1>2 DEF IInv, TruthInv, PathTrue, NameTrue
<1>8. OrderInv'
  <2>1. ASSUME NEW c \in Collectors, NEW i \in DOMAIN ring[c] PROVE Old(ring[c][i])'
    <3>1. PICK r \in RecordOf(c) : r = ring[c][i] BY RecordTypes DEF IInv
    <3>2. Old(r) BY <3>1 DEF IInv, OrderInv
    <3>3. ring'[c][i] = r BY <1>2, <3>1
    <3> QED BY <1>4, <3>2, <3>3
  <2>2. ASSUME NEW c \in Collectors, hand[c] # Empty PROVE Old(hand[c].record)'
    <3>1. PICK r \in RecordOf(c) : r = hand[c].record BY <2>2, RecordTypes DEF IInv
    <3>2. Old(r) BY <2>2, <3>1 DEF IInv, OrderInv
    <3>3. hand'[c].record = r BY <1>2, <3>1
    <3> QED BY <1>4, <3>2, <3>3
  <2>3. ASSUME NEW n \in DOMAIN sink PROVE Old(sink[n].event.record)'
    <3>1. PICK c \in Collectors : sink[n].event.record \in RecordOf(c)
      BY RecordTypes DEF IInv
    <3>2. PICK r \in RecordOf(c) : r = sink[n].event.record BY <3>1
    <3>3. Old(r) BY <3>2 DEF IInv, OrderInv
    <3>4. sink'[n].event.record = r BY <1>2, <3>2
    <3> QED BY <1>4, <3>3, <3>4
  <2>4. CollectorOrder' BY <1>2 DEF IInv, OrderInv, CollectorOrder
  <2> QED BY SMTT(30), <1>2, <1>3, <2>1, <2>2, <2>3, <2>4 DEF IInv, OrderInv, Before
<1>9. DiscardIsExplained' BY <1>2 DEF IInv, DiscardIsExplained
<1> QED BY <1>1, <1>5, <1>6, <1>7, <1>8, <1>9 DEF IInv

(* A record waits in the ring buffer behind all others.                    *)
LEMMA EmitIInv ==
  ASSUME IInv, NEW c \in Collectors, NEW r \in RecordOf(c), EmitStep(c, r)
  PROVE  IInv'
<1>1. proc' \in [Pids -> Processes] /\ AliveInv'
  BY ProcessStays DEF IInv, TypeOK, EmitStep
<1>2. UNCHANGED <<hand, sink, discarded>> /\ clock' \in Clock
      /\ clock'.stamps = clock.stamps
  BY DEF EmitStep
<1>3. /\ \A x \in Collectors : ring[x] \in Seq(RecordOf(x))
      /\ ring = [x \in Collectors |-> ring[x]]
  BY DEF IInv, TypeOK
<1>4. /\ ring' = [x \in Collectors |-> ring'[x]]
      /\ ring'[c] = Append(ring[c], r)
      /\ \A x \in Collectors \ {c} : ring'[x] = ring[x]
  BY <1>3 DEF EmitStep
<1>5. PICK l : l = Len(ring[c]) OBVIOUS
<1>6. /\ l \in Nat /\ DOMAIN ring[c] = 1..l /\ DOMAIN ring'[c] = 1..(l + 1)
      /\ ring'[c] \in Seq(RecordOf(c)) /\ ring'[c][l + 1] = r
      /\ \A i \in 1..l : ring'[c][i] = ring[c][i]
  BY <1>3, <1>4, <1>5, AppendProperties, LenProperties
<1>7. ASSUME NEW x \in Collectors, NEW i \in DOMAIN ring'[x]
      PROVE  \/ x = c /\ i = l + 1 /\ ring'[x][i] = r
             \/ i \in DOMAIN ring[x] /\ ring'[x][i] = ring[x][i]
  <2>1. CASE x # c BY <1>4, <2>1
  <2>2. CASE x = c
    <3>1. i \in 1..l \/ i = l + 1 BY <1>6, <2>2
    <3> QED BY <1>6, <2>2, <3>1
  <2> QED BY <2>1, <2>2
<1>8. /\ call' = [pt \in Pids \X Threads |-> call'[pt]]
      /\ \A pt \in Pids \X Threads : call'[pt] # Empty =>
           /\ CallOK(pt, call'[pt]) /\ Fresh(call[pt].record)'
           /\ call'[pt].record.made <= clock'.time
  BY CallsStay DEF IInv, EmitStep
<1>9. \A d \in Collectors : \A x \in RecordOf(d) :
        (Fresh(x) => Fresh(x)') /\ (Old(x) => Old(x)' /\ Before(x, r))
  BY FreshStays, OldStays DEF IInv, TypeOK, EmitStep
<1>10. TypeOK'
  <2>1. \A x \in Collectors : ring'[x] \in Seq(RecordOf(x)) BY <1>3, <1>4, <1>6
  <2> QED BY <1>1, <1>2, <1>4, <1>8, <2>1 DEF IInv, TypeOK
<1>11. FreshInv'
  <2>1. ASSUME NEW x \in Collectors, NEW i \in DOMAIN ring'[x]
        PROVE  Fresh(ring[x][i])'
    <3>1. PICK rr : rr = ring'[x][i] OBVIOUS
    <3>2. CASE rr = r BY <3>1, <3>2 DEF EmitStep
    <3>3. CASE i \in DOMAIN ring[x] /\ rr = ring[x][i]
      <4>1. rr \in RecordOf(x) BY <1>3, <3>3
      <4>2. Fresh(rr) BY <3>3 DEF IInv, FreshInv
      <4>3. Fresh(rr)' BY <1>9, <4>1, <4>2
      <4> QED BY <3>1, <4>3
    <3> QED BY <1>7, <3>1, <3>2, <3>3
  <2>2. ASSUME NEW x \in Collectors, hand[x] # Empty
        PROVE  Fresh(hand[x].record)'
    <3>1. PICK rr \in RecordOf(x) : rr = hand[x].record BY <2>2, RecordTypes DEF IInv
    <3>2. Fresh(rr) BY <2>2, <3>1 DEF IInv, FreshInv
    <3>3. hand'[x].record = rr BY <1>2, <3>1
    <3> QED BY <1>9, <3>2, <3>3
  <2> QED BY <1>2, <1>8, <2>1, <2>2 DEF FreshInv
<1>12. TruthInv' BY <1>2 DEF IInv, TruthInv, PathTrue, NameTrue
<1>13. OrderInv'
  <2>1. ASSUME NEW x \in Collectors, NEW i \in DOMAIN ring[x]
        PROVE  Old(ring[x][i])' /\ Before(ring[x][i], r)
    <3>1. PICK rr \in RecordOf(x) : rr = ring[x][i] BY RecordTypes DEF IInv
    <3>2. Old(rr) BY <3>1 DEF IInv, OrderInv
    <3>3. Old(rr)' /\ Before(rr, r) BY <1>9, <3>2
    <3>4. ring'[x][i] = rr
      <4>1. CASE x # c BY <1>4, <3>1, <4>1
      <4>2. CASE x = c BY <1>6, <3>1, <4>2
      <4> QED BY <4>1, <4>2
    <3> QED BY <3>1, <3>3, <3>4
  <2>2. ASSUME NEW x \in Collectors, NEW i \in DOMAIN ring'[x]
        PROVE  Old(ring[x][i])'
    <3>1. CASE i \in DOMAIN ring[x] BY <2>1, <3>1
    <3>2. CASE ring'[x][i] = r BY <3>2 DEF EmitStep
    <3> QED BY <1>7, <3>1, <3>2
  <2>3. ASSUME NEW x \in Collectors, hand[x] # Empty
        PROVE  Old(hand[x].record)' /\ Before(hand[x].record, r)
    <3>1. PICK rr \in RecordOf(x) : rr = hand[x].record BY <2>3, RecordTypes DEF IInv
    <3>2. Old(rr) BY <2>3, <3>1 DEF IInv, OrderInv
    <3>3. hand'[x].record = rr BY <1>2, <3>1
    <3> QED BY <1>9, <3>1, <3>2, <3>3
  <2>4. ASSUME NEW n \in DOMAIN sink
        PROVE  Old(sink[n].event.record)' /\ Before(sink[n].event.record, r)
    <3>1. PICK d \in Collectors : sink[n].event.record \in RecordOf(d)
      BY RecordTypes DEF IInv
    <3>2. PICK rr \in RecordOf(d) : rr = sink[n].event.record BY <3>1
    <3>3. Old(rr) BY <3>2 DEF IInv, OrderInv
    <3>4. sink'[n].event.record = rr BY <1>2, <3>2
    <3> QED BY <1>9, <3>2, <3>3, <3>4
  <2>5. ASSUME NEW x \in Collectors, NEW i \in DOMAIN ring'[x],
               NEW j \in DOMAIN ring'[x], i < j
        PROVE  Before(ring'[x][i], ring'[x][j])
    <3>1. CASE j \in DOMAIN ring[x] /\ ring'[x][j] = ring[x][j]
      <4>1. ring'[x][i] = ring[x][i] /\ i \in DOMAIN ring[x]
        <5>1. ~(x = c /\ i = l + 1) BY <1>6, <2>5, <3>1
        <5> QED BY <1>7, <5>1
      <4> QED BY <2>5, <3>1, <4>1 DEF IInv, OrderInv
    <3>2. CASE x = c /\ j = l + 1 /\ ring'[x][j] = r
      <4>1. i \in DOMAIN ring[x] /\ ring'[x][i] = ring[x][i]
        <5>1. ~(x = c /\ i = l + 1) BY <1>6, <2>5, <3>2
        <5> QED BY <1>7, <5>1
      <4> QED BY <2>1, <3>2, <4>1
    <3> QED BY <1>7, <3>1, <3>2
  <2>6. ASSUME NEW x \in Collectors, hand[x] # Empty, NEW i \in DOMAIN ring'[x]
        PROVE  Before(hand[x].record, ring'[x][i])
    <3>1. CASE i \in DOMAIN ring[x] /\ ring'[x][i] = ring[x][i]
      BY <2>6, <3>1 DEF IInv, OrderInv
    <3>2. CASE ring'[x][i] = r BY <2>3, <2>6, <3>2
    <3> QED BY <1>7, <3>1, <3>2
  <2>7. ASSUME NEW n \in DOMAIN sink, NEW i \in DOMAIN ring'[sink[n].collector]
        PROVE  Before(sink[n].event.record, ring'[sink[n].collector][i])
    <3>1. PICK x \in Collectors : x = sink[n].collector BY RecordTypes DEF IInv
    <3>2. CASE i \in DOMAIN ring[x] /\ ring'[x][i] = ring[x][i]
      BY <3>1, <3>2 DEF IInv, OrderInv
    <3>3. CASE ring'[x][i] = r BY <2>4, <3>1, <3>3
    <3> QED BY <1>7, <3>1, <3>2, <3>3
  <2>8. CollectorOrder' BY <1>2 DEF IInv, OrderInv, CollectorOrder
  <2>9. /\ \A x \in Collectors : hand[x] # Empty => hand[x].stamp <= clock.stamps
        /\ \A n \in DOMAIN sink :
             /\ sink[n].event.stamp <= clock.stamps
             /\ hand[sink[n].collector] # Empty =>
                  /\ Before(sink[n].event.record, hand[sink[n].collector].record)
                  /\ hand[sink[n].collector].stamp # 0 =>
                       sink[n].event.stamp < hand[sink[n].collector].stamp
    BY DEF IInv, OrderInv
  <2> QED BY ZenonT(30), <1>2, <1>8, <2>2, <2>3, <2>4, <2>5, <2>6, <2>7, <2>8, <2>9
          DEF OrderInv, Before
<1>14. DiscardIsExplained' BY <1>2 DEF IInv, DiscardIsExplained
<1> QED BY <1>1, <1>10, <1>11, <1>12, <1>13, <1>14 DEF IInv

(* What the collector does itself leaves processes and calls as they are.  *)
LEMMA Unseen ==
  ASSUME UNCHANGED <<proc, call>>, clock'.time = clock.time, NEW r
  PROVE  (Fresh(r) => Fresh(r)') /\ (Old(r) => Old(r)')
  BY DEF Fresh, Still, Unmoved, Old

(* The first record of a ring buffer is taken, completed or discarded.     *)
LEMMA ResolveIInv ==
  ASSUME IInv, NEW c \in Collectors, Resolve(c)
  PROVE  IInv'
<1>1. /\ \A x \in Collectors : ring[x] \in Seq(RecordOf(x))
      /\ ring = [x \in Collectors |-> ring[x]]
      /\ hand = [x \in Collectors |-> hand[x]]
      /\ proc \in [Pids -> Processes] /\ AliveInv
  BY DEF IInv, TypeOK
<1>2. /\ hand[c] = Empty /\ ring[c] # <<>>
      /\ UNCHANGED <<state, proc, call, sink, clock>>
  BY DEF Resolve, Take
<1>3. PICK r : r = Head(ring[c]) OBVIOUS
<1>4. /\ r \in RecordOf(c) /\ r = ring[c][1] /\ 1 \in DOMAIN ring[c]
      /\ Tail(ring[c]) \in Seq(RecordOf(c))
  BY <1>1, <1>2, <1>3, HeadTailProperties
<1>5. PICK readable \in Readable(c, r) : Take(c, Line(c, r, readable))
  BY <1>3 DEF Resolve
<1>6. readable \in BOOLEAN BY <1>5, ReadableFacts
<1>7. PICK path, good : path = FilePath(c, r, readable) /\ good = Complete(c, r, path)
  OBVIOUS
<1>8. PICK l : l = Line(c, r, readable) OBVIOUS
<1>9. /\ l.record = r /\ l.path = path /\ l.readable = readable /\ l.still = Still(r)
      /\ l.unmoved = Unmoved(r) /\ l.called = Meant(proc[r.pid], r.argument)
      /\ l.stamp = 0
  BY <1>7, <1>8 DEF Line
<1>10. l \in Lines(c)
  <2>1. path \in ReadFile BY <1>1, <1>4, <1>6, <1>7, PathTypes
  <2>2. Meant(proc[r.pid], r.argument) \in File
    <3>1. r.pid \in Pids /\ r.argument \in Argument BY <1>4 DEF RecordOf
    <3> QED BY <1>1, <3>1, MeantType
  <2>3. Still(r) \in BOOLEAN /\ Unmoved(r) \in BOOLEAN BY DEF Still, Unmoved
  <2> QED BY <1>4, <1>6, <1>7, <1>8, <2>1, <2>2, <2>3 DEF Line, Lines
<1>11. ring' = [ring EXCEPT ![c] = Tail(@)] BY DEF Resolve
<1>12. \/ good /\ hand' = [hand EXCEPT ![c] = l] /\ UNCHANGED discarded
       \/ ~good /\ discarded' = discarded \union {l} /\ UNCHANGED hand
  BY <1>5, <1>7, <1>8, <1>9 DEF Take
<1>13. /\ ring' = [x \in Collectors |-> ring'[x]] /\ ring'[c] = Tail(ring[c])
       /\ \A x \in Collectors \ {c} : ring'[x] = ring[x]
  BY <1>1, <1>11
<1>14. /\ hand' = [x \in Collectors |-> hand'[x]]
       /\ \A x \in Collectors \ {c} : hand'[x] = hand[x]
       /\ hand'[c] = l \/ hand'[c] = Empty
  BY <1>1, <1>2, <1>12
<1>15. ASSUME NEW i \in DOMAIN ring'[c]
       PROVE  /\ i \in Nat /\ i + 1 \in DOMAIN ring[c] /\ 1 < i + 1
              /\ ring'[c][i] = ring[c][i + 1]
  <2>1. /\ Len(ring[c]) \in Nat /\ DOMAIN ring[c] = 1..Len(ring[c])
        /\ Len(Tail(ring[c])) = Len(ring[c]) - 1
        /\ DOMAIN Tail(ring[c]) = 1..Len(Tail(ring[c]))
        /\ \A n \in 1..Len(Tail(ring[c])) : Tail(ring[c])[n] = ring[c][n + 1]
    BY <1>1, <1>2, HeadTailProperties, LenProperties
  <2>2. i \in 1..(Len(ring[c]) - 1) BY <1>13, <2>1
  <2>3. i \in Nat /\ i + 1 \in 1..Len(ring[c]) /\ 1 < i + 1 BY <2>1, <2>2
  <2> QED BY <1>13, <2>1, <2>2, <2>3
<1>16. ASSUME NEW x \in Collectors, NEW i \in DOMAIN ring'[x]
       PROVE  \E j \in DOMAIN ring[x] : ring'[x][i] = ring[x][j]
  <2>1. CASE x = c BY <1>15, <2>1
  <2>2. CASE x # c BY <1>13, <2>2
  <2> QED BY <2>1, <2>2
<1>17. Fresh(r) /\ Old(r) BY <1>4 DEF IInv, FreshInv, OrderInv
<1>18. \A rr : (Fresh(rr) => Fresh(rr)') /\ (Old(rr) => Old(rr)')
  BY <1>2, Unseen
<1>19. TypeOK'
  <2>1. \A x \in Collectors : ring'[x] \in Seq(RecordOf(x)) BY <1>1, <1>4, <1>13
  <2>2. \A x \in Collectors : hand'[x] # Empty => hand'[x] \in Lines(x)
    BY <1>10, <1>14 DEF IInv, TypeOK
  <2> QED BY <1>2, <1>13, <1>14, <2>1, <2>2 DEF IInv, TypeOK
<1>20. AliveInv' BY <1>1, <1>2 DEF AliveInv
<1>21. FreshInv'
  <2>1. ASSUME NEW x \in Collectors, NEW i \in DOMAIN ring'[x]
        PROVE  Fresh(ring[x][i])'
    <3>1. PICK rr : rr = ring'[x][i] OBVIOUS
    <3>2. Fresh(rr) BY <1>16, <3>1 DEF IInv, FreshInv
    <3> QED BY <1>18, <3>1, <3>2
  <2>2. ASSUME NEW x \in Collectors, hand'[x] # Empty
        PROVE  Fresh(hand[x].record)'
    <3>1. PICK rr : rr = hand'[x].record OBVIOUS
    <3>2. Fresh(rr)
      <4>1. CASE x = c /\ hand'[x] = l BY <1>9, <1>17, <3>1, <4>1
      <4>2. CASE hand'[x] = hand[x] BY <2>2, <3>1, <4>2 DEF IInv, FreshInv
      <4> QED BY <1>14, <2>2, <4>1, <4>2
    <3> QED BY <1>18, <3>1, <3>2
  <2>3. ASSUME NEW pt \in Pids \X Threads, call'[pt] # Empty
        PROVE  Fresh(call[pt].record)'
    <3>1. PICK rr : rr = call[pt].record OBVIOUS
    <3>2. Fresh(rr) BY <1>2, <2>3, <3>1 DEF IInv, FreshInv
    <3> QED BY <1>2, <1>18, <3>1, <3>2
  <2> QED BY <2>1, <2>2, <2>3 DEF FreshInv
<1>22. TruthInv'
  <2>1. ASSUME good PROVE PathTrue(c, l)
    <3>1. c \in {"file_write", "chmod"} => path # NoPath
      BY <1>7, <2>1 DEF Complete
    <3>2. r.argument.copied = "whole" =>
            /\ r.argument.dir # "" => path = r.meant
            /\ Still(r) /\ c \in {"file_write", "chmod"} =>
                 path = Meant(proc[r.pid], r.argument)
      BY <1>1, <1>4, <1>6, <1>7, <1>17, <3>1, ResolvesFile
    <3>3. Still(r) /\ Unmoved(r) => Meant(proc[r.pid], r.argument) = r.meant
      BY <1>17 DEF Fresh
    <3> QED BY <1>9, <3>2, <3>3 DEF PathTrue
  <2>2. ASSUME NEW x \in Collectors, hand'[x] # Empty
        PROVE  /\ PathTrue(x, hand'[x])
               /\ hand'[x].stamp # 0 => NameTrue(x, hand'[x])
    <3>1. CASE good /\ x = c /\ hand'[x] = l BY <1>9, <2>1, <3>1
    <3>2. CASE hand'[x] = hand[x] BY <2>2, <3>2 DEF IInv, TruthInv
    <3> QED BY <1>1, <1>2, <1>12, <1>14, <2>2, <3>1, <3>2
  <2>3. \A n \in DOMAIN sink : /\ PathTrue(sink[n].collector, sink[n].event)
                               /\ NameTrue(sink[n].collector, sink[n].event)
    BY DEF IInv, TruthInv
  <2> QED BY <1>2, <2>2, <2>3 DEF TruthInv, PathTrue, NameTrue
<1>23. OrderInv'
  <2>1. ASSUME NEW x \in Collectors, NEW i \in DOMAIN ring'[x]
        PROVE  Old(ring[x][i])'
    <3>1. PICK rr : rr = ring'[x][i] OBVIOUS
    <3>2. Old(rr) BY <1>16, <3>1 DEF IInv, OrderInv
    <3> QED BY <1>18, <3>1, <3>2
  <2>2. ASSUME NEW x \in Collectors, NEW i \in DOMAIN ring'[x],
               NEW j \in DOMAIN ring'[x], i < j
        PROVE  Before(ring'[x][i], ring'[x][j])
    <3>1. CASE x = c
      <4>1. /\ i \in Nat /\ i + 1 \in DOMAIN ring[c] /\ ring'[c][i] = ring[c][i + 1]
            /\ j \in Nat /\ j + 1 \in DOMAIN ring[c] /\ ring'[c][j] = ring[c][j + 1]
        BY <1>15, <3>1
      <4>2. i + 1 < j + 1 BY <2>2, <4>1
      <4> QED BY <3>1, <4>1, <4>2 DEF IInv, OrderInv
    <3>2. CASE x # c BY <1>13, <2>2, <3>2 DEF IInv, OrderInv
    <3> QED BY <3>1, <3>2
  <2>3. ASSUME NEW x \in Collectors, hand'[x] # Empty
        PROVE  /\ Old(hand[x].record)' /\ hand'[x].stamp <= clock.stamps
               /\ \A i \in DOMAIN ring'[x] : Before(hand'[x].record, ring'[x][i])
    <3>1. CASE x = c /\ hand'[x] = l
      <4>1. Old(hand[x].record)'
        <5>1. hand'[x].record = r BY <1>9, <3>1
        <5> QED BY <1>17, <1>18, <5>1
      <4>2. \A i \in DOMAIN ring'[c] : Before(r, ring'[c][i])
        BY <1>4, <1>15 DEF IInv, OrderInv
      <4>3. 0 <= clock.stamps
        <5>1. clock.stamps \in Nat BY Clocks DEF IInv, TypeOK
        <5> QED BY <5>1
      <4> QED BY <1>9, <3>1, <4>1, <4>2, <4>3
    <3>2. CASE x # c /\ hand'[x] = hand[x]
      <4>1. PICK rr : rr = hand[x].record OBVIOUS
      <4>2. Old(rr) BY <2>3, <3>2, <4>1 DEF IInv, OrderInv
      <4>3. Old(hand[x].record)'
        <5>1. hand'[x].record = rr BY <3>2, <4>1
        <5> QED BY <1>18, <4>2, <5>1
      <4> QED BY <1>13, <2>3, <3>2, <4>3 DEF IInv, OrderInv
    <3> QED BY <1>14, <2>3, <3>1, <3>2
  <2>4. ASSUME NEW n \in DOMAIN sink
        PROVE  /\ Old(sink[n].event.record)' /\ sink[n].event.stamp <= clock.stamps
               /\ \A i \in DOMAIN ring'[sink[n].collector] :
                    Before(sink[n].event.record, ring'[sink[n].collector][i])
               /\ hand'[sink[n].collector] # Empty =>
                    /\ Before(sink[n].event.record, hand'[sink[n].collector].record)
                    /\ hand'[sink[n].collector].stamp # 0 =>
                         sink[n].event.stamp < hand'[sink[n].collector].stamp
    <3>1. PICK x \in Collectors : x = sink[n].collector BY RecordTypes DEF IInv
    <3>2. PICK e : e = sink[n].event OBVIOUS
    <3>3. /\ Old(e.record) /\ e.stamp <= clock.stamps
          /\ \A i \in DOMAIN ring[x] : Before(e.record, ring[x][i])
          /\ hand[x] # Empty =>
               /\ Before(e.record, hand[x].record)
               /\ hand[x].stamp # 0 => e.stamp < hand[x].stamp
      BY <3>1, <3>2 DEF IInv, OrderInv
    <3>4. \A i \in DOMAIN ring'[x] : Before(e.record, ring'[x][i])
      BY <1>16, <3>3
    <3>5. hand'[x] # Empty =>
            /\ Before(e.record, hand'[x].record)
            /\ hand'[x].stamp # 0 => e.stamp < hand'[x].stamp
      <4>1. CASE x = c /\ hand'[x] = l BY <1>4, <1>9, <3>3, <4>1
      <4>2. CASE hand'[x] = hand[x] BY <3>3, <4>2
      <4> QED BY <1>14, <4>1, <4>2
    <3>6. Old(sink[n].event.record)'
      <4>1. sink'[n].event = e BY <1>2, <3>2
      <4> QED BY <1>18, <3>3, <4>1
    <3> QED BY <3>1, <3>2, <3>3, <3>4, <3>5, <3>6
  <2>5. CollectorOrder' BY <1>2 DEF IInv, OrderInv, CollectorOrder
  <2>6. \A pt \in Pids \X Threads : call[pt] # Empty =>
          call[pt].record.made <= clock.time
    BY DEF IInv, OrderInv
  <2> QED BY <1>2, <2>1, <2>2, <2>3, <2>4, <2>5, <2>6 DEF OrderInv, Before
<1>24. DiscardIsExplained'
  <2>1. ASSUME ~good
        PROVE  LET a == l.record.argument
               IN \/ a.copied = "none"
                  \/ l.record.syscall = "fchmodat2" /\ a.name = ""
                  \/ a.dir = "" /\ (~l.readable \/ ~l.still \/ l.record.meant = NoPath)
    <3>1. \/ r.argument.copied = "none"
          \/ r.syscall = "fchmodat2" /\ r.argument.name = ""
          \/ r.argument.dir = "" /\ (~readable \/ ~Still(r) \/ r.meant = NoPath)
      BY <1>1, <1>4, <1>6, <1>7, <1>17, <2>1, DiscardReason
    <3> QED BY <1>9, <3>1
  <2>2. CASE UNCHANGED discarded
    BY <2>2 DEF IInv, DiscardIsExplained
  <2>3. CASE ~good /\ discarded' = discarded \union {l}
    BY <2>1, <2>3 DEF IInv, DiscardIsExplained
  <2> QED BY <1>12, <2>2, <2>3
<1> QED BY <1>19, <1>20, <1>21, <1>22, <1>23, <1>24 DEF IInv

(* The record in hand gets its time and the name of its process.           *)
LEMMA DescribeIInv ==
  ASSUME IInv, NEW c \in Collectors, Describe(c)
  PROVE  IInv'
<1>1. /\ hand[c] # Empty /\ hand[c].stamp = 0 /\ hand[c] \in Lines(c)
      /\ hand = [x \in Collectors |-> hand[x]] /\ clock \in Clock
      /\ proc \in [Pids -> Processes] /\ AliveInv
      /\ UNCHANGED <<state, proc, call, ring, sink, discarded>>
  BY DEF Describe, IInv, TypeOK
<1>2. PICK readable \in BOOLEAN :
        hand' = [hand EXCEPT ![c].stamp = clock.stamps + 1,
                   ![c].name = ProcessName(c, hand[c].record, readable),
                   ![c].still = @ /\ Still(hand[c].record),
                   ![c].unmoved = @ /\ Unmoved(hand[c].record)]
  BY Zenon DEF Describe
<1>3. PICK r, name, still, unmoved, k :
        /\ r = hand[c].record /\ name = ProcessName(c, r, readable)
        /\ still = (hand[c].still /\ Still(r))
        /\ unmoved = (hand[c].unmoved /\ Unmoved(r)) /\ k = clock.stamps + 1
  OBVIOUS
<1>4. r \in RecordOf(c) /\ hand[c].still \in BOOLEAN /\ hand[c].unmoved \in BOOLEAN
  BY <1>1, <1>3 DEF Lines
<1>5. clock.stamps \in Nat /\ k \in Nat /\ k # 0 /\ clock.stamps < k
  <2>1. clock.stamps \in Nat BY <1>1, Clocks
  <2> QED BY <1>3, <2>1
<1>6. Fresh(r) BY <1>1, <1>3 DEF IInv, FreshInv
<1>7. /\ name \in Images \union {"", "cut", "deleted"} /\ (r.comm # "" => name # "")
      /\ (c # "execve" /\ Still(r) /\ Unmoved(r)) => name \in {r.comm, r.image}
  BY <1>1, <1>3, <1>4, <1>6, NamesProcess
<1>8. PICK l : l = [hand[c] EXCEPT !.stamp = k, !.name = name, !.still = still,
                                   !.unmoved = unmoved]
  OBVIOUS
<1>9. still \in BOOLEAN /\ unmoved \in BOOLEAN BY <1>3, <1>4 DEF Still, Unmoved
<1>10. /\ l \in Lines(c) /\ l.record = r /\ l.path = hand[c].path /\ l.still = still
       /\ l.unmoved = unmoved /\ l.called = hand[c].called
       /\ l.stamp = k /\ l.name = name
  <2>1. PICK h \in Lines(c) : h = hand[c] BY <1>1
  <2>2. l = [h EXCEPT !.stamp = k, !.name = name, !.still = still, !.unmoved = unmoved]
    BY <1>8, <2>1
  <2>3. /\ l \in Lines(c) /\ l.record = h.record /\ l.path = h.path
        /\ l.still = still /\ l.unmoved = unmoved /\ l.called = h.called
        /\ l.stamp = k /\ l.name = name
    BY <1>5, <1>7, <1>9, <2>2 DEF Lines
  <2> QED BY <1>3, <2>1, <2>3
<1>11. hand' = [hand EXCEPT ![c] = l] BY <1>1, <1>2, <1>3, <1>8
<1>12. /\ hand' = [x \in Collectors |-> hand'[x]] /\ hand'[c] = l
       /\ \A x \in Collectors \ {c} : hand'[x] = hand[x]
  BY <1>1, <1>11
<1>13. clock' \in Clock /\ clock'.stamps = k /\ clock'.time = clock.time
  <2>1. clock' = [clock EXCEPT !.stamps = k] BY <1>3 DEF Describe
  <2> QED BY <1>1, <1>5, <2>1 DEF Clock
<1>14. \A rr : (Fresh(rr) => Fresh(rr)') /\ (Old(rr) => Old(rr)')
  BY <1>1, <1>13, Unseen
<1>15. TypeOK'
  <2>1. \A x \in Collectors : hand'[x] # Empty => hand'[x] \in Lines(x)
    BY <1>10, <1>12 DEF IInv, TypeOK
  <2> QED BY <1>1, <1>12, <1>13, <2>1 DEF IInv, TypeOK
<1>16. AliveInv' BY <1>1 DEF AliveInv
<1>17. FreshInv'
  <2>1. ASSUME NEW x \in Collectors, NEW i \in DOMAIN ring[x]
        PROVE  Fresh(ring[x][i])'
    <3>1. PICK rr : rr = ring[x][i] OBVIOUS
    <3>2. Fresh(rr) BY <3>1 DEF IInv, FreshInv
    <3>3. ring'[x][i] = rr BY <1>1, <3>1
    <3> QED BY <1>14, <3>2, <3>3
  <2>2. ASSUME NEW x \in Collectors, hand'[x] # Empty
        PROVE  Fresh(hand[x].record)'
    <3>1. PICK rr : rr = hand'[x].record OBVIOUS
    <3>2. Fresh(rr)
      <4>1. CASE x = c BY <1>6, <1>10, <1>12, <3>1, <4>1
      <4>2. CASE x # c BY <1>12, <2>2, <3>1, <4>2 DEF IInv, FreshInv
      <4> QED BY <4>1, <4>2
    <3> QED BY <1>14, <3>1, <3>2
  <2>3. ASSUME NEW pt \in Pids \X Threads, call[pt] # Empty
        PROVE  Fresh(call[pt].record)'
    <3>1. PICK rr : rr = call[pt].record OBVIOUS
    <3>2. Fresh(rr) BY <2>3, <3>1 DEF IInv, FreshInv
    <3>3. call'[pt].record = rr BY <1>1, <3>1
    <3> QED BY <1>14, <3>2, <3>3
  <2> QED BY <1>1, <2>1, <2>2, <2>3 DEF FreshInv
<1>18. TruthInv'
  <2>1. PathTrue(c, l)
    <3>1. PathTrue(c, hand[c]) BY <1>1 DEF IInv, TruthInv
    <3> QED BY <1>3, <1>10, <3>1 DEF PathTrue
  <2>2. NameTrue(c, l) BY <1>3, <1>7, <1>10 DEF NameTrue
  <2>3. ASSUME NEW x \in Collectors, hand'[x] # Empty
        PROVE  /\ PathTrue(x, hand'[x])
               /\ hand'[x].stamp # 0 => NameTrue(x, hand'[x])
    <3>1. CASE x = c BY <1>12, <2>1, <2>2, <3>1
    <3>2. CASE x # c BY <1>12, <2>3, <3>2 DEF IInv, TruthInv
    <3> QED BY <3>1, <3>2
  <2>4. \A n \in DOMAIN sink : /\ PathTrue(sink[n].collector, sink[n].event)
                               /\ NameTrue(sink[n].collector, sink[n].event)
    BY DEF IInv, TruthInv
  <2> QED BY <1>1, <2>3, <2>4 DEF TruthInv, PathTrue, NameTrue
<1>19. OrderInv'
  <2>1. ASSUME NEW x \in Collectors
        PROVE  /\ \A i \in DOMAIN ring[x] : Old(ring[x][i])'
               /\ \A i, j \in DOMAIN ring[x] :
                    i < j => Before(ring[x][i], ring[x][j])
    <3>1. ASSUME NEW i \in DOMAIN ring[x] PROVE Old(ring[x][i])'
      <4>1. PICK rr : rr = ring[x][i] OBVIOUS
      <4>2. Old(rr) BY <4>1 DEF IInv, OrderInv
      <4>3. ring'[x][i] = rr BY <1>1, <4>1
      <4> QED BY <1>14, <4>2, <4>3
    <3> QED BY <3>1 DEF IInv, OrderInv
  <2>2. ASSUME NEW x \in Collectors, hand'[x] # Empty
        PROVE  /\ Old(hand[x].record)' /\ hand'[x].stamp <= k
               /\ \A i \in DOMAIN ring[x] : Before(hand'[x].record, ring[x][i])
    <3>1. PICK rr : rr = hand'[x].record OBVIOUS
    <3>2. rr = hand[x].record /\ hand[x] # Empty
      BY <1>1, <1>3, <1>10, <1>12, <2>2, <3>1
    <3>3. /\ Old(rr) /\ hand[x].stamp <= clock.stamps
          /\ \A i \in DOMAIN ring[x] : Before(rr, ring[x][i])
      BY <3>2 DEF IInv, OrderInv
    <3>4. hand'[x].stamp <= k
      <4>1. CASE x = c
        <5>1. k <= k BY <1>5
        <5> QED BY <1>10, <1>12, <4>1, <5>1
      <4>2. CASE x # c
        <5>1. hand[x].stamp \in Nat BY <3>2, RecordTypes DEF IInv
        <5>2. hand[x].stamp <= k BY <1>5, <3>3, <5>1
        <5> QED BY <1>12, <4>2, <5>2
      <4> QED BY <4>1, <4>2
    <3> QED BY <1>14, <3>1, <3>3, <3>4
  <2>3. ASSUME NEW n \in DOMAIN sink
        PROVE  /\ Old(sink[n].event.record)'
               /\ sink[n].event.stamp <= k
               /\ \A i \in DOMAIN ring[sink[n].collector] :
                    Before(sink[n].event.record, ring[sink[n].collector][i])
               /\ hand'[sink[n].collector] # Empty =>
                    /\ Before(sink[n].event.record, hand'[sink[n].collector].record)
                    /\ hand'[sink[n].collector].stamp # 0 =>
                         sink[n].event.stamp < hand'[sink[n].collector].stamp
    <3>1. sink[n].collector \in Collectors /\ sink[n].event.stamp \in Nat
      BY RecordTypes DEF IInv
    <3>2. PICK x, e : x \in Collectors /\ x = sink[n].collector /\ e = sink[n].event
      BY <3>1
    <3>3. /\ Old(e.record) /\ e.stamp <= clock.stamps /\ e.stamp \in Nat
          /\ \A i \in DOMAIN ring[x] : Before(e.record, ring[x][i])
          /\ hand[x] # Empty =>
               /\ Before(e.record, hand[x].record)
               /\ hand[x].stamp # 0 => e.stamp < hand[x].stamp
      BY <3>1, <3>2 DEF IInv, OrderInv
    <3>4. e.stamp <= k /\ e.stamp < k BY <1>5, <3>3
    <3>5. hand'[x] # Empty =>
            /\ Before(e.record, hand'[x].record)
            /\ hand'[x].stamp # 0 => e.stamp < hand'[x].stamp
      <4>1. CASE x = c BY <1>1, <1>3, <1>10, <1>12, <3>3, <3>4, <4>1
      <4>2. CASE x # c BY <1>12, <3>2, <3>3, <4>2
      <4> QED BY <4>1, <4>2
    <3>6. Old(sink[n].event.record)'
      <4>1. sink'[n].event = e BY <1>1, <3>2
      <4> QED BY <1>14, <3>3, <4>1
    <3> QED BY <3>2, <3>3, <3>4, <3>5, <3>6
  <2>4. CollectorOrder' BY <1>1 DEF IInv, OrderInv, CollectorOrder
  <2>5. \A pt \in Pids \X Threads : call[pt] # Empty =>
          call[pt].record.made <= clock.time
    BY DEF IInv, OrderInv
  <2> QED BY <1>1, <1>13, <2>1, <2>2, <2>3, <2>4, <2>5 DEF OrderInv, Before
<1>20. DiscardIsExplained' BY <1>1 DEF IInv, DiscardIsExplained
<1> QED BY <1>15, <1>16, <1>17, <1>18, <1>19, <1>20 DEF IInv

(* The event in hand goes to the sink, behind those sent before.           *)
LEMMA SendIInv ==
  ASSUME IInv, NEW c \in Collectors, Send(c)
  PROVE  IInv'
<1>1. /\ hand[c] # Empty /\ hand[c].stamp # 0 /\ hand[c] \in Lines(c)
      /\ hand = [x \in Collectors |-> hand[x]]
      /\ sink \in Seq(Sent)
      /\ UNCHANGED <<state, proc, call, ring, discarded, clock>>
  BY DEF Send, IInv, TypeOK
<1>2. PICK e : e = [collector |-> c, event |-> hand[c]] OBVIOUS
<1>3. e.collector = c /\ e.event = hand[c] /\ e \in Sent
  <2>1. hand[c] \in UNION {Lines(x) : x \in Collectors} BY <1>1
  <2> QED BY <1>2, <2>1 DEF Sent
<1>4. sink' = Append(sink, e) BY <1>2 DEF Send
<1>5. /\ hand' = [x \in Collectors |-> hand'[x]] /\ hand'[c] = Empty
      /\ \A x \in Collectors \ {c} : hand'[x] = hand[x]
  BY <1>1 DEF Send
<1>6. PICK l : l = Len(sink) OBVIOUS
<1>7. /\ l \in Nat /\ DOMAIN sink = 1..l /\ DOMAIN sink' = 1..(l + 1)
      /\ sink' \in Seq(Sent) /\ sink'[l + 1] = e
      /\ \A n \in 1..l : sink'[n] = sink[n]
  BY <1>1, <1>3, <1>4, <1>6, AppendProperties, LenProperties
<1>8. ASSUME NEW n \in DOMAIN sink'
      PROVE  \/ n = l + 1 /\ sink'[n] = e
             \/ n \in DOMAIN sink /\ sink'[n] = sink[n]
  <2>1. n \in 1..l \/ n = l + 1 BY <1>7
  <2> QED BY <1>7, <2>1
<1>9. \A rr : (Fresh(rr) => Fresh(rr)') /\ (Old(rr) => Old(rr)')
  BY <1>1, Unseen
<1>10. TypeOK'
  <2>1. \A x \in Collectors : hand'[x] # Empty => hand'[x] \in Lines(x)
    BY <1>5 DEF IInv, TypeOK
  <2>2. \A n \in DOMAIN sink' : sink'[n].event \in Lines(sink'[n].collector)
    BY <1>1, <1>3, <1>8 DEF IInv, TypeOK
  <2> QED BY <1>1, <1>5, <1>7, <2>1, <2>2 DEF IInv, TypeOK
<1>11. AliveInv' BY <1>1 DEF IInv, AliveInv
<1>12. FreshInv'
  <2>1. ASSUME NEW x \in Collectors, NEW i \in DOMAIN ring[x]
        PROVE  Fresh(ring[x][i])'
    <3>1. PICK rr : rr = ring[x][i] OBVIOUS
    <3>2. Fresh(rr) BY <3>1 DEF IInv, FreshInv
    <3>3. ring'[x][i] = rr BY <1>1, <3>1
    <3> QED BY <1>9, <3>2, <3>3
  <2>2. ASSUME NEW x \in Collectors, hand'[x] # Empty
        PROVE  Fresh(hand[x].record)'
    <3>1. PICK rr : rr = hand'[x].record OBVIOUS
    <3>2. Fresh(rr) BY <1>5, <2>2, <3>1 DEF IInv, FreshInv
    <3> QED BY <1>9, <3>1, <3>2
  <2>3. ASSUME NEW pt \in Pids \X Threads, call[pt] # Empty
        PROVE  Fresh(call[pt].record)'
    <3>1. PICK rr : rr = call[pt].record OBVIOUS
    <3>2. Fresh(rr) BY <2>3, <3>1 DEF IInv, FreshInv
    <3>3. call'[pt].record = rr BY <1>1, <3>1
    <3> QED BY <1>9, <3>2, <3>3
  <2> QED BY <1>1, <2>1, <2>2, <2>3 DEF FreshInv
<1>13. TruthInv'
  <2>1. PathTrue(c, hand[c]) /\ NameTrue(c, hand[c]) BY <1>1 DEF IInv, TruthInv
  <2>2. ASSUME NEW x \in Collectors, hand'[x] # Empty
        PROVE  /\ PathTrue(x, hand'[x])
               /\ hand'[x].stamp # 0 => NameTrue(x, hand'[x])
    BY <1>5, <2>2 DEF IInv, TruthInv
  <2>3. ASSUME NEW n \in DOMAIN sink'
        PROVE  /\ PathTrue(sink'[n].collector, sink'[n].event)
               /\ NameTrue(sink'[n].collector, sink'[n].event)
    BY <1>3, <1>8, <2>1 DEF IInv, TruthInv
  <2> QED BY <2>2, <2>3 DEF TruthInv, PathTrue, NameTrue
<1>14. OrderInv'
  <2>1. ASSUME NEW x \in Collectors
        PROVE  /\ \A i \in DOMAIN ring[x] : Old(ring[x][i])
               /\ \A i, j \in DOMAIN ring[x] :
                    i < j => Before(ring[x][i], ring[x][j])
               /\ hand'[x] # Empty =>
                    /\ Old(hand'[x].record)
                    /\ hand'[x].stamp <= clock.stamps
                    /\ \A i \in DOMAIN ring[x] : Before(hand'[x].record, ring[x][i])
    BY <1>5 DEF IInv, OrderInv
  <2>2. ASSUME NEW n \in DOMAIN sink'
        PROVE  /\ Old(sink'[n].event.record)
               /\ sink'[n].event.stamp <= clock.stamps
               /\ \A i \in DOMAIN ring[sink'[n].collector] :
                    Before(sink'[n].event.record, ring[sink'[n].collector][i])
               /\ hand'[sink'[n].collector] # Empty =>
                    /\ Before(sink'[n].event.record, hand'[sink'[n].collector].record)
                    /\ hand'[sink'[n].collector].stamp # 0 =>
                         sink'[n].event.stamp < hand'[sink'[n].collector].stamp
    <3>1. CASE sink'[n] = e
      BY <1>1, <1>3, <1>5, <3>1 DEF IInv, OrderInv
    <3>2. CASE n \in DOMAIN sink /\ sink'[n] = sink[n]
      <4>1. sink[n].collector \in Collectors BY <3>2, RecordTypes DEF IInv
      <4>2. PICK x, s : x \in Collectors /\ x = sink[n].collector /\ s = sink[n].event
        BY <4>1
      <4>3. /\ Old(s.record) /\ s.stamp <= clock.stamps
            /\ \A i \in DOMAIN ring[x] : Before(s.record, ring[x][i])
            /\ hand[x] # Empty =>
                 /\ Before(s.record, hand[x].record)
                 /\ hand[x].stamp # 0 => s.stamp < hand[x].stamp
        BY <3>2, <4>2 DEF IInv, OrderInv
      <4>4. hand'[x] # Empty => hand'[x] = hand[x] BY <1>5, <4>2
      <4> QED BY <3>2, <4>2, <4>3, <4>4
    <3> QED BY <1>8, <3>1, <3>2
  <2>3. CollectorOrder'
    <3>1. ASSUME NEW m \in DOMAIN sink', NEW n \in DOMAIN sink', m < n,
                 sink'[m].collector = sink'[n].collector
          PROVE  /\ Before(sink'[m].event.record, sink'[n].event.record)
                 /\ sink'[m].event.stamp < sink'[n].event.stamp
      <4>1. m \in DOMAIN sink /\ sink'[m] = sink[m]
        <5>1. m # l + 1 BY <1>7, <3>1
        <5> QED BY <1>8, <5>1
      <4>2. CASE sink'[n] = e
        BY <1>1, <1>3, <3>1, <4>1, <4>2 DEF IInv, OrderInv
      <4>3. CASE n \in DOMAIN sink /\ sink'[n] = sink[n]
        BY <3>1, <4>1, <4>3 DEF IInv, OrderInv, CollectorOrder, Before
      <4> QED BY <1>8, <4>2, <4>3
    <3> QED BY <3>1 DEF CollectorOrder, Before
  <2>4. ASSUME NEW x \in Collectors
        PROVE  /\ \A i \in DOMAIN ring[x] : Old(ring[x][i])'
               /\ hand'[x] # Empty => Old(hand[x].record)'
    <3>1. ASSUME NEW i \in DOMAIN ring[x] PROVE Old(ring[x][i])'
      <4>1. PICK rr : rr = ring[x][i] OBVIOUS
      <4>2. Old(rr) /\ ring'[x][i] = rr BY <1>1, <2>1, <4>1
      <4> QED BY <1>9, <4>2
    <3>2. ASSUME hand'[x] # Empty PROVE Old(hand[x].record)'
      <4>1. PICK rr : rr = hand'[x].record OBVIOUS
      <4>2. Old(rr) BY <2>1, <3>2, <4>1
      <4> QED BY <1>9, <4>1, <4>2
    <3> QED BY <3>1, <3>2
  <2>5. ASSUME NEW n \in DOMAIN sink' PROVE Old(sink[n].event.record)'
    <3>1. PICK rr : rr = sink'[n].event.record OBVIOUS
    <3>2. Old(rr) BY <2>2, <3>1
    <3> QED BY <1>9, <3>1, <3>2
  <2>6. \A pt \in Pids \X Threads : call[pt] # Empty =>
          call[pt].record.made <= clock.time
    BY DEF IInv, OrderInv
  <2> QED BY ZenonT(90), <1>1, <2>1, <2>2, <2>3, <2>4, <2>5, <2>6 DEF OrderInv, Before
<1>15. DiscardIsExplained' BY <1>1 DEF IInv, DiscardIsExplained
<1> QED BY <1>10, <1>11, <1>12, <1>13, <1>14, <1>15 DEF IInv

(* Every step of the specification keeps the invariant.                    *)
LEMMA NextIInv == IInv /\ [Next]_vars => IInv'
<1> SUFFICES ASSUME IInv, [Next]_vars PROVE IInv' OBVIOUS
<1>1. clock \in Clock /\ TypeOK /\ AliveInv /\ FreshInv /\ OrderInv
  BY DEF IInv, TypeOK
<1>2. ASSUME UNCHANGED <<proc, call, ring, hand, sink, discarded, clock>> PROVE IInv'
  <2>1. clock.time <= clock.time
    <3>1. clock.time \in Nat BY <1>1, Clocks
    <3> QED BY <3>1
  <2>2. clock' \in Clock /\ clock.time <= clock'.time /\ clock'.stamps = clock.stamps
    BY <1>1, <1>2, <2>1
  <2>3. CallStep BY <1>1, <1>2, CallsGoOn
  <2>4. QuietStep BY <1>2, <2>2, <2>3 DEF QuietStep, ProcStep
  <2> QED BY <2>4, QuietIInv
<1>3. CASE Load BY <1>2, <1>3 DEF Load
<1>4. CASE UNCHANGED vars BY <1>2, <1>4 DEF vars
<1>5. ASSUME NEW c \in Collectors, Resolve(c) \/ Describe(c) \/ Send(c) PROVE IInv'
  BY <1>5, ResolveIInv, DescribeIInv, SendIInv
<1>6. ASSUME NEW p \in Pids, \/ Chdir(p) \/ Reopen(p) \/ Rename(p)
                             \/ SetComm(p) \/ End(p) \/ Reuse(p)
      PROVE  IInv'
  <2>1. QuietStep BY <1>1, <1>6, ChangesAreQuiet
  <2> QED BY <2>1, QuietIInv
<1>7. ASSUME NEW p \in Pids, NEW t \in Threads, NEW c \in Collectors,
             NEW s \in Calls[c], NEW a \in Arguments(s), Enter(p, t, c, s, a)
      PROVE  IInv'
  <2>1. QuietStep \/ \E r \in RecordOf(c) : EmitStep(c, r)
    BY <1>1, <1>7, EnterLeavesRecord
  <2> QED BY <2>1, QuietIInv, EmitIInv
<1>8. ASSUME NEW p \in Pids, NEW t \in Threads, Exit(p, t) PROVE IInv'
  <2>1. \E c \in Collectors : \E r \in RecordOf(c) : EmitStep(c, r)
    BY <1>1, <1>8, ExitLeavesRecord
  <2> QED BY <2>1, EmitIInv
<1>9. ASSUME NEW p \in Pids, NEW t \in Threads, ExecveReturns(p, t) PROVE IInv'
  <2>1. QuietStep BY <1>1, <1>9, ExecveReturnsIsQuiet
  <2> QED BY <2>1, QuietIInv
<1> QED BY <1>3, <1>4, <1>5, <1>6, <1>7, <1>8, <1>9 DEF Next

(* An event is true of its call whenever the code can know: for every      *)
(* interleaving of the reads of /proc, which may fail, with changes of the *)
(* process and of the names of its files.                                  *)
THEOREM EventIsTrueCorrect == Spec => []EventIsTrue
<1>1. IInv => EventIsTrue
  <2> SUFFICES ASSUME IInv, NEW n \in DOMAIN sink
               PROVE  LET l == sink[n].event
                          r == l.record
                          a == r.argument
                          looked == sink[n].collector \in {"file_write", "chmod"}
                      IN /\ a.copied = "whole" =>
                              /\ a.dir # "" \/ (looked /\ l.still /\ l.unmoved)
                                   => l.path = r.meant
                              /\ looked /\ l.still => l.path = l.called
                         /\ sink[n].collector # "execve" /\ l.still /\ l.unmoved =>
                              l.name \in {r.comm, r.image}
                         /\ r.comm # "" => l.name # ""
    BY DEF EventIsTrue, Events
  <2>1. /\ PathTrue(sink[n].collector, sink[n].event)
        /\ NameTrue(sink[n].collector, sink[n].event)
    BY DEF IInv, TruthInv
  <2> QED BY <2>1 DEF PathTrue, NameTrue
<1> QED BY InitIInv, NextIInv, <1>1, PTL DEF Spec

(* A record is discarded without a trace only for one of the reasons       *)
(* DiscardIsExplained lists: among them that /proc could not be read.      *)
THEOREM DiscardIsExplainedCorrect == Spec => []DiscardIsExplained
<1>1. IInv => DiscardIsExplained BY DEF IInv
<1> QED BY InitIInv, NextIInv, <1>1, PTL DEF Spec

(* However many threads and collectors work side by side, a collector      *)
(* sends its events in the order in which the calls returned, with         *)
(* timestamps in that order, and those of a thread in the order of calls.  *)
THEOREM CollectorOrderCorrect == Spec => []CollectorOrder
<1>1. IInv => CollectorOrder BY DEF IInv, OrderInv
<1> QED BY InitIInv, NextIInv, <1>1, PTL DEF Spec

-----------------------------------------------------------------------------
(* The walk over a program that Outcome makes is a recursive function over *)
(* its labels.  Programs have no loops: no way is longer than three        *)
(* blocks, so the function can be written down and is there.               *)
After(p, s, l) == p.blocks[l].to[s]
AtEnd(l) == [emitted |-> l = "emit", fields |-> {}]
Through(p, l, rest) == [emitted |-> rest.emitted,
                        fields |-> rest.fields \union p.blocks[l].writes]

Walk(p, s, f) ==
  [l \in DOMAIN p.blocks \union Ends |->
     IF l \in Ends THEN AtEnd(l) ELSE Through(p, l, f[After(p, s, l)])]

(* At most three blocks on every way.                                      *)
Short(p, s) ==
  \A l \in DOMAIN p.blocks :
    /\ l \notin Ends
    /\ After(p, s, l) \notin Ends =>
         LET m == After(p, s, l)
         IN /\ m \in DOMAIN p.blocks
            /\ After(p, s, m) \notin Ends =>
                 /\ After(p, s, m) \in DOMAIN p.blocks
                 /\ After(p, s, After(p, s, m)) \in Ends

(* Outcome is where a walk from the entry leads.                           *)
LEMMA OutcomeIsWalk ==
  ASSUME NEW p, NEW s, NEW g, g = Walk(p, s, g)
  PROVE  \E f : f = Walk(p, s, f) /\ Outcome(p, s) = f[p.entry[s]]
<1> DEFINE h == CHOOSE f : f = Walk(p, s, f)
<1>1. h = Walk(p, s, h) OBVIOUS
<1>2. Outcome(p, s) = h[p.entry[s]]
  BY DEF Outcome, Walk, After, AtEnd, Through
<1> QED BY <1>1, <1>2

(* A program without long ways has a walk: one block after the other.      *)
LEMMA ShortWalk ==
  ASSUME NEW p, NEW s, Short(p, s)
  PROVE  \E f : /\ Outcome(p, s) = f[p.entry[s]]
                /\ \A l \in Ends : f[l] = AtEnd(l)
                /\ \A l \in DOMAIN p.blocks :
                     f[l] = Through(p, l, f[After(p, s, l)])
<1> DEFINE N(l) == After(p, s, l)
           X(l, v) == Through(p, l, v)
           L == DOMAIN p.blocks
           value(l) ==
             IF l \in Ends THEN AtEnd(l)
             ELSE IF N(l) \in Ends THEN X(l, AtEnd(N(l)))
             ELSE IF N(N(l)) \in Ends THEN X(l, X(N(l), AtEnd(N(N(l)))))
             ELSE X(l, X(N(l), X(N(N(l)), AtEnd(N(N(N(l)))))))
           g == [l \in L \union Ends |-> value(l)]
<1>1. ASSUME NEW l \in L PROVE l \notin Ends /\ value(l) = X(l, value(N(l)))
  <2>1. l \notin Ends BY DEF Short
  <2>2. CASE N(l) \in Ends BY <2>1, <2>2
  <2>3. CASE N(l) \notin Ends /\ N(N(l)) \in Ends BY <2>1, <2>3
  <2>4. CASE N(l) \notin Ends /\ N(N(l)) \notin Ends
    <3>1. N(l) \in L /\ N(N(l)) \in L /\ N(N(N(l))) \in Ends BY <2>4 DEF Short
    <3> QED BY <2>1, <2>4, <3>1
  <2> QED BY <2>1, <2>2, <2>3, <2>4
<1>2. ASSUME NEW l \in L PROVE N(l) \in L \union Ends BY DEF Short
<1>3. g = Walk(p, s, g)
  <2>1. ASSUME NEW l \in L \union Ends
        PROVE  value(l) =
                 IF l \in Ends THEN AtEnd(l) ELSE Through(p, l, g[After(p, s, l)])
    <3>1. CASE l \in Ends BY <3>1
    <3>2. CASE l \notin Ends
      <4>1. l \in L BY <3>2
      <4>2. g[N(l)] = value(N(l)) BY <1>2, <4>1
      <4>3. value(l) = X(l, value(N(l))) BY <1>1, <4>1
      <4> HIDE DEF value, g
      <4> QED BY <3>2, <4>2, <4>3
    <3> QED BY <3>1, <3>2
  <2> HIDE DEF value
  <2> QED BY <2>1 DEF Walk
<1> HIDE DEF g
<1>4. PICK f : f = Walk(p, s, f) /\ Outcome(p, s) = f[p.entry[s]]
  BY <1>3, OutcomeIsWalk
<1>5. \A l \in Ends : f[l] = AtEnd(l) BY <1>4 DEF Walk
<1>6. \A l \in DOMAIN p.blocks : f[l] = Through(p, l, f[After(p, s, l)])
  BY <1>1, <1>4 DEF Walk
<1> QED BY <1>4, <1>5, <1>6


-----------------------------------------------------------------------------
(* What normalize reads of the record of a call: as in RecordIsWhole.      *)
Reads(c, s) ==
  Common \union {"zero"}
    \union (IF c = "execve" THEN {} ELSE {"key"})
    \union (IF s \in ByPath \union ByPathAt THEN {"path"} ELSE {})
    \union (IF s \in ByPathAt \union ByDescriptor THEN {"fd"} ELSE {})
    \union (IF c = "connect" THEN {"address"} ELSE {})
    \union (IF c \in {"execve", "connect"} THEN {} ELSE {"syscall"})

(* The enter program p of c, if it emits a record of call s, has written   *)
(* all of that.                                                            *)
Writes(p, c, s) == Outcome(p, s).emitted => Reads(c, s) \subseteq Outcome(p, s).fields

(* A program of one block, which emits.                                    *)
LEMMA OneBlock ==
  ASSUME NEW p, NEW s, DOMAIN p.blocks = {"capture"}, p.entry[s] = "capture",
         After(p, s, "capture") = "emit"
  PROVE  Outcome(p, s).fields = p.blocks["capture"].writes
<1>1. Short(p, s) BY DEF Short, Ends
<1>2. PICK f : /\ Outcome(p, s) = f[p.entry[s]]
               /\ \A l \in Ends : f[l] = AtEnd(l)
               /\ \A l \in DOMAIN p.blocks : f[l] = Through(p, l, f[After(p, s, l)])
  BY <1>1, ShortWalk
<1>3. f["emit"] = AtEnd("emit") BY <1>2 DEF Ends
<1>4. f["capture"] = Through(p, "capture", AtEnd("emit")) BY <1>2, <1>3
<1> QED BY <1>2, <1>4 DEF Through, AtEnd

(* execve.                                                                 *)
LEMMA ExecveWrites ==
  ASSUME NEW s \in Calls.execve PROVE Writes(ExecveProgram, "execve", s)
<1> DEFINE p == ExecveProgram
<1>1. s = "execve" /\ Calls["execve"] = {"execve"} BY DEF Calls
<1>2. /\ DOMAIN p.blocks = {"capture"} /\ p.entry[s] = "capture"
      /\ After(p, s, "capture") = "emit"
      /\ p.blocks["capture"].writes = Common \union {"zero", "path"}
  BY <1>1 DEF ExecveProgram, Block, To, After
<1>3. Outcome(p, s).fields = Common \union {"zero", "path"}
  <2> HIDE DEF p
  <2> QED BY <1>2, OneBlock
<1>4. s \notin ByPathAt \union ByDescriptor
  BY <1>1 DEF ByPathAt, ByDescriptor, Calls
<1> QED BY <1>3, <1>4 DEF Writes, Reads

(* The four collectors that record arguments as they are.                  *)
LEMMA BehaviorWrites ==
  ASSUME NEW c \in DOMAIN BehaviorCalls, NEW s \in Calls[c]
  PROVE  Writes(BehaviorProgram(c), c, s)
<1> DEFINE p == BehaviorProgram(c)
<1>1. /\ DOMAIN p.blocks = {"capture"} /\ p.entry[s] = "capture"
      /\ After(p, s, "capture") = "emit"
      /\ p.blocks["capture"].writes = Header \union {"syscall", "args"}
  BY DEF BehaviorProgram, Block, To, After
<1>2. Outcome(p, s).fields = Header \union {"syscall", "args"}
  <2> HIDE DEF p
  <2> QED BY <1>1, OneBlock
<1>3. s \notin ByPath \union ByPathAt \union ByDescriptor
  BY DEF ByPath, ByPathAt, ByDescriptor, Calls, BehaviorCalls
<1>4. c # "connect" /\ c # "execve" BY DEF BehaviorCalls
<1> QED BY <1>2, <1>3, <1>4 DEF Writes, Reads, Header


(* connect: an address family that is not known ends without a record.     *)
LEMMA ConnectWrites ==
  ASSUME NEW s \in Calls.connect PROVE Writes(ConnectProgram, "connect", s)
<1> DEFINE p == ConnectProgram
<1>1. s \in {"connect_ipv4", "connect_ipv6", "connect_other"} /\ s \in Calls["connect"]
  BY DEF Calls
<1>2. /\ DOMAIN p.blocks = {"capture", "read_ipv4", "read_ipv6"}
      /\ p.entry[s] = "capture"
  BY <1>1 DEF ConnectProgram, To
<1>3. /\ s = "connect_ipv4" => After(p, s, "capture") = "read_ipv4"
      /\ s = "connect_ipv6" => After(p, s, "capture") = "read_ipv6"
      /\ s = "connect_other" => After(p, s, "capture") = "exit"
  BY <1>1 DEF ConnectProgram, Block, After
<1>4. /\ After(p, s, "read_ipv4") = "emit" /\ After(p, s, "read_ipv6") = "emit"
      /\ p.blocks["capture"].writes = Header \union {"family"}
      /\ p.blocks["read_ipv4"].writes = {"address"}
      /\ p.blocks["read_ipv6"].writes = {"address"}
  BY <1>1 DEF ConnectProgram, Block, To, After
<1> HIDE DEF p
<1>5. Short(p, s) BY <1>1, <1>2, <1>3, <1>4 DEF Short, Ends
<1>6. PICK f : /\ Outcome(p, s) = f[p.entry[s]]
               /\ \A l \in Ends : f[l] = AtEnd(l)
               /\ \A l \in DOMAIN p.blocks : f[l] = Through(p, l, f[After(p, s, l)])
  BY <1>5, ShortWalk
<1>7. f["emit"] = AtEnd("emit") /\ f["exit"] = AtEnd("exit") BY <1>6 DEF Ends
<1>8. s \notin ByPath \union ByPathAt \union ByDescriptor
  BY <1>1 DEF ByPath, ByPathAt, ByDescriptor, Calls
<1>9. CASE s = "connect_other"
  <2>1. Outcome(p, s) = Through(p, "capture", AtEnd("exit"))
    BY <1>2, <1>3, <1>6, <1>7, <1>9
  <2>2. Outcome(p, s).emitted = ("exit" = "emit") BY <2>1 DEF Through, AtEnd
  <2>3. "exit" # "emit" OBVIOUS
  <2> QED BY <2>2, <2>3 DEF Writes, p
<1>10. ASSUME NEW l \in {"read_ipv4", "read_ipv6"}, After(p, s, "capture") = l
       PROVE  Writes(p, "connect", s)
  <2>1. Outcome(p, s) = Through(p, "capture", Through(p, l, AtEnd("emit")))
    BY <1>2, <1>4, <1>6, <1>7, <1>10
  <2>2. Outcome(p, s).fields = {"address"} \union Header \union {"family"}
    BY <1>4, <2>1 DEF Through, AtEnd
  <2> QED BY <1>8, <2>2 DEF Writes, Reads, Header
<1> QED BY <1>1, <1>3, <1>9, <1>10 DEF p

(* file_write: descriptors up to 2 and calls that are not of interest end  *)
(* without a record.                                                       *)
LEMMA FileWriteWrites ==
  ASSUME NEW s \in Calls.file_write PROVE Writes(FileWriteProgram, "file_write", s)
<1> DEFINE p == FileWriteProgram
<1>1. s \in Calls["file_write"] OBVIOUS
<1>2. /\ DOMAIN p.blocks = {"capture", "process", "count"}
      /\ p.entry[s] = "capture"
  BY <1>1 DEF FileWriteProgram, To
<1>3. /\ After(p, s, "capture") = IF s = "write_ignored" THEN "exit" ELSE "process"
      /\ After(p, s, "process") = IF s = "write_stdio" THEN "exit" ELSE "count"
      /\ After(p, s, "count") = "emit"
  BY <1>1 DEF FileWriteProgram, Block, To, After
<1>4. /\ p.blocks["capture"].writes = {"zero", "syscall", "time", "key"}
      /\ p.blocks["process"].writes = {"pid", "uid", "comm", "fd"}
      /\ p.blocks["count"].writes = {"count"}
  BY DEF FileWriteProgram, Block
<1> HIDE DEF p
<1>5. Short(p, s) BY <1>2, <1>3 DEF Short, Ends
<1>6. PICK f : /\ Outcome(p, s) = f[p.entry[s]]
               /\ \A l \in Ends : f[l] = AtEnd(l)
               /\ \A l \in DOMAIN p.blocks : f[l] = Through(p, l, f[After(p, s, l)])
  BY <1>5, ShortWalk
<1>7. f["emit"] = AtEnd("emit") /\ f["exit"] = AtEnd("exit") BY <1>6 DEF Ends
<1>8. s \notin ByPath \union ByPathAt BY DEF ByPath, ByPathAt, Calls
<1>9. CASE s = "write_ignored"
  <2>1. Outcome(p, s) = Through(p, "capture", AtEnd("exit"))
    BY <1>2, <1>3, <1>6, <1>7, <1>9
  <2>2. Outcome(p, s).emitted = ("exit" = "emit") BY <2>1 DEF Through, AtEnd
  <2>3. "exit" # "emit" OBVIOUS
  <2> QED BY <2>2, <2>3 DEF Writes, p
<1>10. CASE s = "write_stdio"
  <2>1. Outcome(p, s) = Through(p, "capture", Through(p, "process", AtEnd("exit")))
    BY <1>2, <1>3, <1>6, <1>7, <1>10
  <2>2. Outcome(p, s).emitted = ("exit" = "emit") BY <2>1 DEF Through, AtEnd
  <2>3. "exit" # "emit" OBVIOUS
  <2> QED BY <2>2, <2>3 DEF Writes, p
<1>11. CASE s \notin {"write_ignored", "write_stdio"}
  <2>1. Outcome(p, s) = Through(p, "capture", Through(p, "process",
                          Through(p, "count", AtEnd("emit"))))
    BY <1>2, <1>3, <1>6, <1>7, <1>11
  <2>2. Outcome(p, s).fields = {"count"} \union {"pid", "uid", "comm", "fd"}
                                 \union {"zero", "syscall", "time", "key"}
    BY <1>4, <2>1 DEF Through, AtEnd
  <2> QED BY <1>8, <2>2 DEF Writes, Reads, Common, p
<1> QED BY <1>9, <1>10, <1>11

(* chmod: with and without the call of that name.                          *)
LEMMA ChmodWrites ==
  ASSUME NEW s \in Calls.chmod PROVE Writes(ChmodProgram, "chmod", s)
<1> DEFINE p == ChmodProgram
           l == ChmodDispatch[s]
           w == CASE l = "at" -> {"fd", "path", "mode"}
                  [] l = "fchmod_fd" -> {"fd", "mode"}
                  [] l = "chmod_path" -> {"path", "mode"}
<1>1. /\ s \in Calls["chmod"] /\ s \in {"chmod", "fchmod", "fchmodat", "fchmodat2"}
      /\ s = "chmod" => Legacy
  BY DEF Calls, WithLegacy
<1>2. l = CASE s = "fchmod" -> "fchmod_fd" [] s = "chmod" -> "chmod_path"
            [] OTHER -> "at"
  BY DEF ChmodDispatch
<1>3. l \in ChmodLabels \ {"capture"} /\ "capture" \in ChmodLabels
  BY <1>1, <1>2 DEF ChmodLabels, WithLegacy
<1>4. ChmodLabels \subseteq {"capture", "at", "fchmod_fd", "chmod_path"}
  BY DEF ChmodLabels, WithLegacy
<1>5. DOMAIN p.blocks = ChmodLabels /\ p.entry[s] = "capture"
  BY <1>1 DEF ChmodProgram, To
<1>6. /\ p.blocks["capture"].writes = Header \union {"syscall"}
      /\ After(p, s, "capture") = l
  BY <1>3 DEF ChmodProgram, Block, After
<1>7. \A m \in ChmodLabels \ {"capture"} : After(p, s, m) = "emit"
  BY <1>1, <1>4 DEF ChmodProgram, Block, To, After
<1>8. p.blocks[l].writes = w
  <2>1. CASE l = "at" BY <1>3, <2>1 DEF ChmodProgram, Block
  <2>2. CASE l = "fchmod_fd" BY <1>3, <2>2 DEF ChmodProgram, Block
  <2>3. CASE l = "chmod_path" BY <1>3, <2>3 DEF ChmodProgram, Block
  <2> QED BY <1>3, <1>4, <2>1, <2>2, <2>3
<1>9. Short(p, s)
  <2> HIDE DEF p, l
  <2>1. \A m \in ChmodLabels : m \notin Ends BY <1>4 DEF Ends
  <2> QED BY <1>3, <1>5, <1>6, <1>7, <2>1 DEF Short, Ends
<1> HIDE DEF p
<1>10. PICK f : /\ Outcome(p, s) = f[p.entry[s]]
                /\ \A m \in Ends : f[m] = AtEnd(m)
                /\ \A m \in DOMAIN p.blocks : f[m] = Through(p, m, f[After(p, s, m)])
  BY <1>9, ShortWalk
<1>11. Outcome(p, s).fields = w \union Header \union {"syscall"}
  <2> HIDE DEF l, w
  <2>1. f["emit"] = AtEnd("emit") BY <1>10 DEF Ends
  <2>2. Outcome(p, s) = Through(p, "capture", Through(p, l, AtEnd("emit")))
    BY <1>3, <1>5, <1>6, <1>7, <1>10, <2>1
  <2> QED BY <1>6, <1>8, <2>2 DEF Through, AtEnd
<1>12. Reads("chmod", s) \subseteq w \union Header \union {"syscall"}
  <2>1. s \in ByPathAt \union ByDescriptor => l # "chmod_path"
    BY <1>1, <1>2 DEF ByPathAt, ByDescriptor, Calls
  <2>2. s \in ByPath \union ByPathAt => l # "fchmod_fd"
    BY <1>1, <1>2 DEF ByPath, ByPathAt
  <2>3. l \in {"at", "fchmod_fd", "chmod_path"} BY <1>3, <1>4
  <2> HIDE DEF l
  <2> QED BY <2>1, <2>2, <2>3 DEF Reads, Header
<1> QED BY <1>11, <1>12 DEF Writes, p


(* Every program that the kernel accepts writes what normalize reads.      *)
LEMMA ProgramWrites ==
  ASSUME NEW c \in DOMAIN Calls, NEW s \in Calls[c],
         c \notin {"sensitive_read", "file_lifecycle", "network_server"}
  PROVE  Writes(Program(c), c, s)
<1>1. DOMAIN BehaviorCalls = {"privilege_change", "namespace_change",
                              "process_access", "kernel_tamper"}
  BY DEF BehaviorCalls
<1>2. c \in DOMAIN BehaviorCalls \/ c \in {"execve", "connect", "file_write", "chmod"}
  BY <1>1 DEF Calls
<1>3. CASE c = "execve"
  <2>1. Program(c) = ExecveProgram BY <1>1, <1>3 DEF Program
  <2> QED BY <1>3, <2>1, ExecveWrites
<1>4. CASE c = "connect"
  <2>1. Program(c) = ConnectProgram BY <1>1, <1>4 DEF Program
  <2> QED BY <1>4, <2>1, ConnectWrites
<1>5. CASE c = "file_write"
  <2>1. Program(c) = FileWriteProgram BY <1>1, <1>5 DEF Program
  <2> QED BY <1>5, <2>1, FileWriteWrites
<1>6. CASE c = "chmod"
  <2>1. Program(c) = ChmodProgram BY <1>1, <1>6 DEF Program
  <2> QED BY <1>6, <2>1, ChmodWrites
<1>7. CASE c \in DOMAIN BehaviorCalls
  <2>1. Program(c) = BehaviorProgram(c) BY <1>1, <1>7 DEF Program
  <2> QED BY <1>7, <2>1, BehaviorWrites
<1> QED BY <1>2, <1>3, <1>4, <1>5, <1>6, <1>7

-----------------------------------------------------------------------------
(* What loading looks at: the labels a program gets to in n steps.         *)
Step(p, X) ==
  X \union UNION {Values(p.blocks[l].to) : l \in DOMAIN p.blocks \cap X}

Expansion(p, n, f) ==
  [i \in 0..n |-> IF i = 0 THEN Values(p.entry) ELSE Step(p, f[i - 1])]

(* Every set of natural numbers has a least one.                           *)
LEMMA NatMin ==
  ASSUME NEW S, S \subseteq Nat, S # {}
  PROVE  \E x \in S : \A y \in S : x <= y
<1>1. \E x \in S : \A y \in S : <<y, x>> \notin OpToRel(<, Nat)
  BY WFMin, NatLessThanWellFounded
<1>2. \A x, y \in Nat : <<y, x>> \notin OpToRel(<, Nat) => x <= y
  BY DEF OpToRel
<1> QED BY <1>1, <1>2

(* The recursive function of Reached is there, for any number of steps.    *)
LEMMA ExpansionExists ==
  ASSUME NEW p, NEW k \in Nat
  PROVE  \E f : f = Expansion(p, k, f)
<1> DEFINE S == {n \in Nat : ~ \E f : f = Expansion(p, n, f)}
<1>1. SUFFICES ASSUME S # {} PROVE FALSE OBVIOUS
<1>2. PICK n \in S : \A m \in S : n <= m BY <1>1, NatMin
<1>3. n \in Nat /\ ~ \E f : f = Expansion(p, n, f) OBVIOUS
<1>4. CASE n = 0
  <2> DEFINE g == [i \in 0..0 |-> Values(p.entry)]
  <2>1. g = Expansion(p, 0, g) BY DEF Expansion
  <2> QED BY <1>3, <1>4, <2>1
<1>5. CASE n # 0
  <2>1. n - 1 \in Nat /\ n - 1 \notin S BY <1>2, <1>3, <1>5
  <2>2. PICK f : f = Expansion(p, n - 1, f) BY <2>1
  <2> DEFINE g == [i \in 0..n |-> IF i = n THEN Step(p, f[n - 1]) ELSE f[i]]
  <2>3. \A i \in 0..(n - 1) :
          f[i] = IF i = 0 THEN Values(p.entry) ELSE Step(p, f[i - 1])
    BY <2>2 DEF Expansion
  <2>4. \A i \in 0..(n - 1) : g[i] = f[i] BY <1>3
  <2>5. ASSUME NEW i \in 0..n
        PROVE  g[i] = IF i = 0 THEN Values(p.entry) ELSE Step(p, g[i - 1])
    <3>1. CASE i = n
      <4>1. g[i] = Step(p, f[n - 1]) /\ n - 1 \in 0..(n - 1) BY <3>1, <2>1
      <4> HIDE DEF g
      <4> QED BY <1>5, <2>4, <3>1, <4>1
    <3>2. CASE i # n
      <4>1. i \in 0..(n - 1) /\ (i # 0 => i - 1 \in 0..(n - 1)) BY <1>3, <3>2
      <4> HIDE DEF g
      <4> QED BY <2>3, <2>4, <4>1
    <3> QED BY <3>1, <3>2
  <2>6. g = [i \in 0..n |-> g[i]] OBVIOUS
  <2> HIDE DEF g
  <2>7. g = Expansion(p, n, g) BY <2>5, <2>6 DEF Expansion
  <2> QED BY <1>3, <2>7
<1> QED BY <1>4, <1>5

(* Reached is where the expansion ends.                                    *)
LEMMA ReachedIs ==
  ASSUME NEW p, Cardinality(DOMAIN p.blocks) \in Nat
  PROVE  \E f : /\ Reached(p) = f[Cardinality(DOMAIN p.blocks)]
                /\ f[0] = Values(p.entry)
                /\ \A n \in 1..Cardinality(DOMAIN p.blocks) :
                     f[n] = Step(p, f[n - 1])
<1> DEFINE k == Cardinality(DOMAIN p.blocks)
           h == CHOOSE f : f = Expansion(p, k, f)
<1>1. h = Expansion(p, k, h) BY ExpansionExists
<1>2. Reached(p) = h[k] BY DEF Reached, Expansion, Step
<1> HIDE DEF h
<1>3. h[0] = Values(p.entry) BY <1>1 DEF Expansion
<1>4. \A n \in 1..k : h[n] = Step(p, h[n - 1]) BY <1>1 DEF Expansion
<1> QED BY <1>2, <1>3, <1>4

(* A program does not get out of labels that nothing leads out of.         *)
LEMMA ReachedWithin ==
  ASSUME NEW p, Cardinality(DOMAIN p.blocks) \in Nat, NEW X,
         Values(p.entry) \subseteq X,
         \A l \in DOMAIN p.blocks \cap X : Values(p.blocks[l].to) \subseteq X
  PROVE  Reached(p) \subseteq X
<1> DEFINE k == Cardinality(DOMAIN p.blocks)
<1>1. PICK f : /\ Reached(p) = f[k] /\ f[0] = Values(p.entry)
               /\ \A n \in 1..k : f[n] = Step(p, f[n - 1])
  BY ReachedIs
<1> DEFINE S == {n \in 0..k : ~(f[n] \subseteq X)}
<1>2. SUFFICES ASSUME S # {} PROVE FALSE BY <1>1
<1>a. S \subseteq Nat OBVIOUS
<1>3. PICK n \in S : \A m \in S : n <= m
  <2> HIDE DEF S
  <2> QED BY <1>2, <1>a, NatMin
<1>4. n \in 0..k /\ ~(f[n] \subseteq X) OBVIOUS
<1>5. n # 0 BY <1>1, <1>4
<1>6. n - 1 \in 0..k /\ n \in 1..k /\ n - 1 \notin S BY <1>3, <1>4, <1>5
<1>7. f[n - 1] \subseteq X BY <1>6
<1>8. Step(p, f[n - 1]) \subseteq X BY <1>7 DEF Step
<1> QED BY <1>1, <1>4, <1>6, <1>8

(* A program is refused if every dispatch leads to blocks that end it, and *)
(* "init" is not among them.                                               *)
LEMMA RefusedBehind ==
  ASSUME NEW p, IsFiniteSet(DOMAIN p.blocks), "init" \in DOMAIN p.blocks,
         "init" \notin Values(p.entry), "emit" \notin DOMAIN p.blocks,
         \A l \in DOMAIN p.blocks \ {"init"} : Values(p.blocks[l].to) \subseteq {"emit"}
  PROVE  ~Accepted(p)
<1> DEFINE X == Values(p.entry) \union {"emit"}
<1>1. Cardinality(DOMAIN p.blocks) \in Nat BY FS_CardinalityType
<1>2. "init" \notin X OBVIOUS
<1>3. \A l \in DOMAIN p.blocks \cap X : Values(p.blocks[l].to) \subseteq X
  BY <1>2
<1>4. Values(p.entry) \subseteq X OBVIOUS
<1> HIDE DEF X
<1>5. Reached(p) \subseteq X BY <1>1, <1>3, <1>4, ReachedWithin
<1> QED BY <1>2, <1>5 DEF Accepted

(* Sets of labels are finite.                                              *)
LEMMA FewLabels ==
  ASSUME NEW a, NEW b, NEW c, NEW d, NEW e, NEW f, NEW g,
         NEW L, L \subseteq {a, b, c, d, e, f, g}
  PROVE  IsFiniteSet(L)
<1>1. IsFiniteSet({} \union {a}) BY FS_EmptySet, FS_AddElement
<1>2. IsFiniteSet(({} \union {a}) \union {b}) BY <1>1, FS_AddElement
<1>3. IsFiniteSet((({} \union {a}) \union {b}) \union {c}) BY <1>2, FS_AddElement
<1>4. IsFiniteSet(((({} \union {a}) \union {b}) \union {c}) \union {d})
  BY <1>3, FS_AddElement
<1>5. IsFiniteSet((((({} \union {a}) \union {b}) \union {c}) \union {d}) \union {e})
  BY <1>4, FS_AddElement
<1>6. IsFiniteSet({a, b, c, d, e} \union {f})
  <2>1. {a, b, c, d, e}
          = ((({} \union {a}) \union {b}) \union {c}) \union {d} \union {e}
    OBVIOUS
  <2>2. IsFiniteSet({a, b, c, d, e}) BY <1>5, <2>1
  <2> QED BY <2>2, FS_AddElement
<1>7. IsFiniteSet(({a, b, c, d, e} \union {f}) \union {g}) BY <1>6, FS_AddElement
<1>8. L \in SUBSET (({a, b, c, d, e} \union {f}) \union {g}) OBVIOUS
<1> QED BY <1>7, <1>8, FS_Subset

(* The block init of the three programs stands behind a jump.              *)
LEMMA ProgramRefused ==
  ASSUME NEW c \in {"sensitive_read", "file_lifecycle", "network_server"}
  PROVE  ~Accepted(Program(c))
<1> DEFINE p == Program(c)
<1>0. DOMAIN BehaviorCalls = {"privilege_change", "namespace_change",
                              "process_access", "kernel_tamper"}
  BY DEF BehaviorCalls
<1>1. CASE c = "sensitive_read"
  <2>1. p = SensitiveReadProgram BY <1>0, <1>1 DEF Program
  <2>2. DOMAIN p.blocks = WithLegacy({"capture_open"},
                             {"init", "capture_openat", "capture_openat2"})
    BY <2>1 DEF SensitiveReadProgram
  <2>3. \A l \in DOMAIN p.blocks \ {"init"} :
          p.blocks[l].to = To("sensitive_read", "emit")
    BY <2>1, <2>2 DEF SensitiveReadProgram, Block
  <2>4. \A s \in DOMAIN p.entry : p.entry[s] # "init"
    <3>1. Calls.sensitive_read \subseteq {"open", "openat", "openat2"}
      BY DEF Calls, WithLegacy
    <3> QED BY <2>1, <3>1 DEF SensitiveReadProgram
  <2> HIDE DEF p
  <2>5. IsFiniteSet(DOMAIN p.blocks)
    <3>1. DOMAIN p.blocks \subseteq {"init", "capture_open", "capture_openat",
                                     "capture_openat2", "init", "init", "init"}
      BY <2>2 DEF WithLegacy
    <3> QED BY <3>1, FewLabels
  <2>6. "init" \in DOMAIN p.blocks /\ "emit" \notin DOMAIN p.blocks
    BY <2>2 DEF WithLegacy
  <2>7. \A l \in DOMAIN p.blocks \ {"init"} : Values(p.blocks[l].to) \subseteq {"emit"}
    BY <2>3 DEF Values, To
  <2>8. "init" \notin Values(p.entry) BY <2>4 DEF Values
  <2>9. ~Accepted(p) BY <2>5, <2>6, <2>7, <2>8, RefusedBehind
  <2> QED BY <2>9 DEF p
<1>2. CASE c = "file_lifecycle"
  <2>1. p = FileLifecycleProgram BY <1>0, <1>2 DEF Program
  <2>2. DOMAIN p.blocks = WithLegacy({"legacy_two_path", "legacy_one_path"},
          {"init", "fd_only", "at_one_path", "symlinkat_path", "at_two_path"})
    BY <2>1 DEF FileLifecycleProgram
  <2>3. \A l \in DOMAIN p.blocks \ {"init"} :
          p.blocks[l].to = To("file_lifecycle", "emit")
    BY <2>1, <2>2 DEF FileLifecycleProgram, Block
  <2>4. \A s \in DOMAIN p.entry : p.entry[s] # "init"
    <3>1. Calls.file_lifecycle \subseteq
            {"rename", "link", "symlink", "unlink", "mkdir", "truncate", "ftruncate",
             "mkdirat", "unlinkat", "symlinkat", "linkat", "renameat", "renameat2"}
      BY DEF Calls, WithLegacy
    <3>2. DOMAIN p.entry = Calls.file_lifecycle BY <2>1 DEF FileLifecycleProgram
    <3>3. ASSUME NEW s \in Calls.file_lifecycle
          PROVE  p.entry[s] \in {"legacy_two_path", "legacy_one_path", "fd_only",
                                 "at_one_path", "symlinkat_path", "at_two_path"}
      BY <2>1, <3>1 DEF FileLifecycleProgram
    <3> QED BY <3>2, <3>3
  <2> HIDE DEF p
  <2>5. IsFiniteSet(DOMAIN p.blocks)
    <3>1. DOMAIN p.blocks \subseteq {"init", "fd_only", "at_one_path",
            "symlinkat_path", "at_two_path", "legacy_two_path", "legacy_one_path"}
      BY <2>2 DEF WithLegacy
    <3> QED BY <3>1, FewLabels
  <2>6. "init" \in DOMAIN p.blocks /\ "emit" \notin DOMAIN p.blocks
    BY <2>2 DEF WithLegacy
  <2>7. \A l \in DOMAIN p.blocks \ {"init"} : Values(p.blocks[l].to) \subseteq {"emit"}
    BY <2>3 DEF Values, To
  <2>8. "init" \notin Values(p.entry) BY <2>4 DEF Values
  <2>9. ~Accepted(p) BY <2>5, <2>6, <2>7, <2>8, RefusedBehind
  <2> QED BY <2>9 DEF p
<1>3. CASE c = "network_server"
  <2>1. p = NetworkServerProgram BY <1>0, <1>3 DEF Program
  <2>2. DOMAIN p.blocks = {"init", "capture_bind", "capture_listen"}
    BY <2>1 DEF NetworkServerProgram
  <2>3. \A l \in DOMAIN p.blocks \ {"init"} :
          p.blocks[l].to = To("network_server", "emit")
    BY <2>1, <2>2 DEF NetworkServerProgram, Block
  <2>4. \A s \in DOMAIN p.entry : p.entry[s] # "init"
    BY <2>1 DEF NetworkServerProgram
  <2> HIDE DEF p
  <2>5. IsFiniteSet(DOMAIN p.blocks) BY <2>2, FewLabels
  <2>6. "init" \in DOMAIN p.blocks /\ "emit" \notin DOMAIN p.blocks BY <2>2
  <2>7. \A l \in DOMAIN p.blocks \ {"init"} : Values(p.blocks[l].to) \subseteq {"emit"}
    BY <2>3 DEF Values, To
  <2>8. "init" \notin Values(p.entry) BY <2>4 DEF Values
  <2>9. ~Accepted(p) BY <2>5, <2>6, <2>7, <2>8, RefusedBehind
  <2> QED BY <2>9 DEF p
<1> QED BY <1>1, <1>2, <1>3

(* What the expansion has found it keeps.                                  *)
LEMMA ExpansionGrows ==
  ASSUME NEW p, NEW k \in Nat, NEW f,
         \A n \in 1..k : f[n] = Step(p, f[n - 1])
  PROVE  \A n \in 0..k : f[n] \subseteq f[k]
<1> DEFINE S == {m \in 0..k : ~(f[k - m] \subseteq f[k])}
<1>1. S \subseteq Nat OBVIOUS
<1>2. ASSUME S # {} PROVE FALSE
  <2>1. PICK m \in S : \A x \in S : m <= x
    <3> HIDE DEF S
    <3> QED BY <1>1, <1>2, NatMin
  <2>2. m \in 0..k /\ ~(f[k - m] \subseteq f[k]) OBVIOUS
  <2>3. m # 0 BY <2>2
  <2>4. m - 1 \in 0..k /\ m - 1 \notin S BY <2>1, <2>2, <2>3
  <2>5. f[k - (m - 1)] \subseteq f[k] BY <2>4
  <2>6. k - (m - 1) \in 1..k /\ (k - (m - 1)) - 1 = k - m BY <2>2, <2>3
  <2>7. f[k - (m - 1)] = Step(p, f[k - m]) BY <2>6
  <2> QED BY <2>2, <2>5, <2>7 DEF Step
<1>3. ASSUME NEW n \in 0..k PROVE f[n] \subseteq f[k]
  <2>1. k - n \in 0..k /\ k - (k - n) = n OBVIOUS
  <2>2. k - n \notin S BY <1>2
  <2>3. f[k - (k - n)] \subseteq f[k] BY <2>1, <2>2
  <2> QED BY <2>1, <2>3
<1> QED BY <1>3

(* A program with a block gets where a dispatch leads and one block on; a  *)
(* program with two, two blocks on.                                        *)
LEMMA ReachedSteps ==
  ASSUME NEW p, IsFiniteSet(DOMAIN p.blocks), NEW c \in DOMAIN p.blocks,
         c \in Values(p.entry)
  PROVE  /\ c \in Reached(p) /\ Values(p.blocks[c].to) \subseteq Reached(p)
         /\ \A d \in DOMAIN p.blocks \cap Values(p.blocks[c].to) :
              d # c => Values(p.blocks[d].to) \subseteq Reached(p)
<1> DEFINE k == Cardinality(DOMAIN p.blocks)
<1>1. k \in Nat /\ k # 0 BY FS_CardinalityType, FS_EmptySet
<1>2. PICK f : /\ Reached(p) = f[k] /\ f[0] = Values(p.entry)
               /\ \A n \in 1..k : f[n] = Step(p, f[n - 1])
  BY <1>1, ReachedIs
<1>3. \A n \in 0..k : f[n] \subseteq f[k] BY <1>1, <1>2, ExpansionGrows
<1>4. f[1] = Step(p, f[0]) BY <1>1, <1>2
<1>5. c \in f[k] /\ f[1] \subseteq f[k] BY <1>1, <1>2, <1>3
<1>6. Values(p.blocks[c].to) \subseteq f[1] BY <1>2, <1>4 DEF Step
<1>7. ASSUME NEW d \in DOMAIN p.blocks \cap Values(p.blocks[c].to), d # c
      PROVE  Values(p.blocks[d].to) \subseteq f[k]
  <2>1. k # 1 BY <1>7, FS_Singleton
  <2>2. 2 \in 1..k /\ 2 \in 0..k BY <1>1, <2>1
  <2>3. f[2] = Step(p, f[1]) BY <1>2, <2>2
  <2>4. Values(p.blocks[d].to) \subseteq f[2] BY <1>6, <2>3 DEF Step
  <2> QED BY <1>3, <2>2, <2>4
<1> QED BY <1>2, <1>5, <1>6, <1>7

(* A program is accepted if every dispatch leads to "capture" and all its  *)
(* blocks come within two more.                                            *)
LEMMA AcceptedBehind ==
  ASSUME NEW p, IsFiniteSet(DOMAIN p.blocks), "capture" \in DOMAIN p.blocks,
         Values(p.entry) = {"capture"},
         \A l \in DOMAIN p.blocks :
           Values(p.blocks[l].to) \subseteq DOMAIN p.blocks \union Ends,
         \A l \in DOMAIN p.blocks :
           \/ l = "capture" \/ l \in Values(p.blocks["capture"].to)
           \/ \E d \in DOMAIN p.blocks \cap Values(p.blocks["capture"].to) :
                d # "capture" /\ l \in Values(p.blocks[d].to)
  PROVE  Accepted(p)
<1> DEFINE X == DOMAIN p.blocks \union Ends
<1>1. Cardinality(DOMAIN p.blocks) \in Nat BY FS_CardinalityType
<1>2. Values(p.entry) \subseteq X OBVIOUS
<1>3. \A l \in DOMAIN p.blocks \cap X : Values(p.blocks[l].to) \subseteq X OBVIOUS
<1>4. Reached(p) \subseteq X
  <2> HIDE DEF X
  <2> QED BY <1>1, <1>2, <1>3, ReachedWithin
<1>5. /\ "capture" \in Reached(p)
      /\ Values(p.blocks["capture"].to) \subseteq Reached(p)
      /\ \A d \in DOMAIN p.blocks \cap Values(p.blocks["capture"].to) :
           d # "capture" => Values(p.blocks[d].to) \subseteq Reached(p)
  <2>1. "capture" \in Values(p.entry) OBVIOUS
  <2> QED BY <2>1, ReachedSteps
<1>6. DOMAIN p.blocks \subseteq Reached(p) BY <1>5
<1> QED BY <1>4, <1>6 DEF Accepted

(* A collector has calls, so a jump for all of them has one target.        *)
LEMMA JumpTarget ==
  ASSUME NEW c \in DOMAIN Calls, NEW label
  PROVE  Values(To(c, label)) = {label}
<1>1. Calls[c] # {}
  BY LegacyAssumption DEF LegacyAssumption, Calls, BehaviorCalls, WithLegacy
<1> QED BY <1>1 DEF Values, To

(* The programs whose blocks all stand behind a dispatch are accepted, with *)
(* and without the legacy calls.                                           *)
LEMMA ProgramAccepted ==
  ASSUME NEW c \in DOMAIN Calls,
         c \notin {"sensitive_read", "file_lifecycle", "network_server"}
  PROVE  Accepted(Program(c))
<1> DEFINE p == Program(c)
           to(l) == Values(p.blocks[l].to)
<1>0. DOMAIN BehaviorCalls = {"privilege_change", "namespace_change",
                              "process_access", "kernel_tamper"}
  BY DEF BehaviorCalls
<1>1. c \in DOMAIN BehaviorCalls \/ c \in {"execve", "connect", "file_write", "chmod"}
  BY <1>0 DEF Calls
<1>2. \A label : Values(To(c, label)) = {label} BY JumpTarget
<1>3. CASE c \in DOMAIN BehaviorCalls \/ c = "execve"
  <2>1. /\ p.entry = To(c, "capture") /\ DOMAIN p.blocks = {"capture"}
        /\ p.blocks["capture"].to = To(c, "emit")
    BY <1>0, <1>3 DEF Program, BehaviorProgram, ExecveProgram, Block
  <2> HIDE DEF p
  <2>2. Values(p.entry) = {"capture"} /\ Values(p.blocks["capture"].to) = {"emit"}
    BY <1>2, <2>1
  <2>3. IsFiniteSet(DOMAIN p.blocks)
    <3>1. IsFiniteSet({"capture"}) BY FS_Singleton
    <3> QED BY <2>1, <3>1
  <2>4. Accepted(p) BY <2>1, <2>2, <2>3, AcceptedBehind DEF Ends
  <2> QED BY <2>4 DEF p
<1>4. CASE c = "connect"
  <2>1. p = ConnectProgram BY <1>0, <1>4 DEF Program
  <2>2. /\ p.entry = To(c, "capture")
        /\ DOMAIN p.blocks = {"capture", "read_ipv4", "read_ipv6"}
        /\ \A l \in {"read_ipv4", "read_ipv6"} : p.blocks[l].to = To(c, "emit")
    BY <1>4, <2>1 DEF ConnectProgram, Block
  <2>3. to("capture") = {"read_ipv4", "read_ipv6", "exit"}
    <3>1. Calls.connect = {"connect_ipv4", "connect_ipv6", "connect_other"}
      BY DEF Calls
    <3>2. p.blocks["capture"].to = [s \in Calls.connect |->
            CASE s = "connect_ipv4" -> "read_ipv4" [] s = "connect_ipv6" -> "read_ipv6"
              [] OTHER -> "exit"]
      BY <2>1 DEF ConnectProgram, Block
    <3> HIDE DEF p
    <3> QED BY <3>1, <3>2 DEF Values
  <2> HIDE DEF p
  <2>4. Values(p.entry) = {"capture"} /\ \A l \in {"read_ipv4", "read_ipv6"} : to(l) = {"emit"}
    BY <1>2, <2>2
  <2>5. IsFiniteSet(DOMAIN p.blocks) BY <2>2, FewLabels
  <2>6. Accepted(p) BY <2>2, <2>3, <2>4, <2>5, AcceptedBehind DEF Ends
  <2> QED BY <2>6 DEF p
<1>5. CASE c = "file_write"
  <2>1. p = FileWriteProgram BY <1>0, <1>5 DEF Program
  <2>2. /\ p.entry = To(c, "capture")
        /\ DOMAIN p.blocks = {"capture", "process", "count"}
        /\ p.blocks["count"].to = To(c, "emit")
    BY <1>5, <2>1 DEF FileWriteProgram, Block
  <2>3. to("capture") = {"process", "exit"} /\ to("process") = {"count", "exit"}
    <3>1. {"write", "write_ignored", "write_stdio"} \subseteq Calls.file_write
      BY DEF Calls
    <3>2. /\ p.blocks["capture"].to = [s \in Calls.file_write |->
               IF s = "write_ignored" THEN "exit" ELSE "process"]
          /\ p.blocks["process"].to = [s \in Calls.file_write |->
               IF s = "write_stdio" THEN "exit" ELSE "count"]
      BY <2>1 DEF FileWriteProgram, Block
    <3> HIDE DEF p
    <3>3. /\ p.blocks["capture"].to["write"] = "process"
          /\ p.blocks["capture"].to["write_ignored"] = "exit"
          /\ p.blocks["process"].to["write"] = "count"
          /\ p.blocks["process"].to["write_stdio"] = "exit"
      BY <3>1, <3>2
    <3> QED BY <3>1, <3>2, <3>3 DEF Values
  <2> HIDE DEF p
  <2>4. Values(p.entry) = {"capture"} /\ to("count") = {"emit"} BY <1>2, <2>2
  <2>5. IsFiniteSet(DOMAIN p.blocks) BY <2>2, FewLabels
  <2>6. Accepted(p) BY <2>2, <2>3, <2>4, <2>5, AcceptedBehind DEF Ends
  <2> QED BY <2>6 DEF p
<1>6. CASE c = "chmod"
  <2>1. p = ChmodProgram BY <1>0, <1>6 DEF Program
  <2>2. /\ p.entry = To(c, "capture") /\ DOMAIN p.blocks = ChmodLabels
        /\ \A l \in ChmodLabels : p.blocks[l].to =
             IF l = "capture" THEN ChmodDispatch ELSE To(c, "emit")
    BY <1>6, <2>1 DEF ChmodProgram, Block, ChmodLabels, WithLegacy
  <2>3. Values(ChmodDispatch) = ChmodLabels \ {"capture"}
    <3>1. Calls.chmod = WithLegacy({"chmod"}, {"fchmod", "fchmodat", "fchmodat2"})
      BY DEF Calls
    <3>2. ChmodDispatch["fchmod"] = "fchmod_fd" /\ ChmodDispatch["fchmodat"] = "at"
      BY <3>1 DEF ChmodDispatch, WithLegacy
    <3>3. Legacy => ChmodDispatch["chmod"] = "chmod_path"
      BY <3>1 DEF ChmodDispatch, WithLegacy
    <3>4. \A s \in Calls.chmod : ChmodDispatch[s] \in ChmodLabels \ {"capture"}
      BY <3>1 DEF ChmodDispatch, ChmodLabels, WithLegacy
    <3>5. DOMAIN ChmodDispatch = Calls.chmod BY DEF ChmodDispatch
    <3> QED BY <3>1, <3>2, <3>3, <3>4, <3>5 DEF Values, ChmodLabels, WithLegacy
  <2> HIDE DEF p
  <2>4. /\ Values(p.entry) = {"capture"} /\ "capture" \in ChmodLabels
        /\ to("capture") = ChmodLabels \ {"capture"}
        /\ \A l \in ChmodLabels \ {"capture"} : to(l) = {"emit"}
    BY <1>2, <2>2, <2>3 DEF ChmodLabels, WithLegacy
  <2>5. IsFiniteSet(DOMAIN p.blocks)
    <3>1. ChmodLabels \subseteq {"capture", "at", "fchmod_fd", "chmod_path",
                                 "chmod_path", "chmod_path", "chmod_path"}
      BY DEF ChmodLabels, WithLegacy
    <3> QED BY <2>2, <3>1, FewLabels
  <2>6. Accepted(p) BY ZenonT(30), <2>2, <2>4, <2>5, AcceptedBehind DEF Ends
  <2> QED BY <2>6 DEF p
<1> QED BY <1>1, <1>3, <1>4, <1>5, <1>6

(* RecordIsWhole, record by record, those of calls that have not returned  *)
(* included.                                                               *)
WholeInv ==
  /\ \A c \in Collectors : \A n \in DOMAIN ring[c] :
       Reads(c, ring[c][n].syscall) \subseteq ring[c][n].fields
  /\ \A pt \in Pids \X Threads : call[pt] # Empty =>
       Reads(call[pt].collector, call[pt].record.syscall)
         \subseteq call[pt].record.fields

(* A collector that runs has a program the kernel accepted.                *)
LoadInv ==
  /\ state = [c \in Collectors |-> state[c]]
  /\ \A c \in Collectors :
       state[c] \in {"new", "running", "refused"}
         /\ (state[c] = "running" => Accepted(Program(c)))
         /\ (state[c] = "refused" => ~Accepted(Program(c)))

LEMMA LoadInvariance == Spec => []LoadInv
<1>1. Init => LoadInv BY DEF Init, LoadInv
<1>2. LoadInv /\ [Next]_vars => LoadInv'
  <2> SUFFICES ASSUME LoadInv, [Next]_vars PROVE LoadInv' OBVIOUS
  <2>1. CASE Load
    <3>1. /\ state' = [c \in Collectors |-> state'[c]]
          /\ \A c \in Collectors :
               state'[c] = IF Accepted(Program(c)) THEN "running" ELSE "refused"
      BY <2>1 DEF Load
    <3> QED BY <3>1 DEF LoadInv
  <2>2. ASSUME UNCHANGED state PROVE LoadInv' BY <2>2 DEF LoadInv
  <2>3. ASSUME ~Load PROVE UNCHANGED state
    <3>1. ASSUME NEW c \in Collectors, Resolve(c) \/ Describe(c) \/ Send(c)
          PROVE  UNCHANGED state
      BY <3>1 DEF Resolve, Take, Describe, Send
    <3>2. ASSUME NEW p \in Pids, \/ Chdir(p) \/ Reopen(p) \/ Rename(p)
                                 \/ SetComm(p) \/ End(p) \/ Reuse(p)
          PROVE  UNCHANGED state
      BY <3>2 DEF Chdir, Reopen, Rename, SetComm, End, Reuse, Change
    <3>3. ASSUME NEW p, NEW t, NEW c, NEW s, NEW a, Enter(p, t, c, s, a)
          PROVE  UNCHANGED state
      BY <3>3 DEF Enter
    <3>4. ASSUME NEW p, NEW t, Exit(p, t) \/ ExecveReturns(p, t)
          PROVE  UNCHANGED state
      BY <3>4 DEF Exit, ExecveReturns
    <3>5. CASE UNCHANGED vars BY <3>5 DEF vars
    <3> QED BY <2>3, <3>1, <3>2, <3>3, <3>4, <3>5 DEF Next
  <2> QED BY <2>1, <2>2, <2>3
<1> QED BY <1>1, <1>2, PTL DEF Spec

(* Calls that go on or end leave the other records as they are.            *)
LEMMA FewerCallsWholeInv ==
  ASSUME WholeInv, UNCHANGED ring,
         \A pt \in Pids \X Threads : call'[pt] = Empty \/ call'[pt] = call[pt]
  PROVE  WholeInv'
<1>1. ASSUME NEW pt \in Pids \X Threads, call'[pt] # Empty
      PROVE  Reads(call'[pt].collector, call'[pt].record.syscall)
               \subseteq call'[pt].record.fields
  BY <1>1 DEF WholeInv
<1> QED BY <1>1 DEF WholeInv

(* A record behind the others of its collector is as whole as they are.    *)
LEMMA OneMoreWhole ==
  ASSUME TypeOK, WholeInv, NEW c \in Collectors, NEW r,
         ring' = [ring EXCEPT ![c] = Append(@, r)],
         Reads(c, r.syscall) \subseteq r.fields
  PROVE  \A x \in Collectors : \A n \in DOMAIN ring'[x] :
           Reads(x, ring'[x][n].syscall) \subseteq ring'[x][n].fields
<1>1. /\ ring = [x \in Collectors |-> ring[x]] /\ ring[c] \in Seq(RecordOf(c))
      /\ ring' = [ring EXCEPT ![c] = Append(ring[c], r)]
  BY DEF TypeOK
<1>2. ring'[c] = Append(ring[c], r) /\ \A x \in Collectors \ {c} : ring'[x] = ring[x]
  BY <1>1
<1>3. ASSUME NEW n \in DOMAIN ring'[c]
      PROVE  \/ ring'[c][n] = r
             \/ n \in DOMAIN ring[c] /\ ring'[c][n] = ring[c][n]
  BY <1>1, <1>2
<1> QED BY <1>2, <1>3 DEF WholeInv

(* Entering a call makes a record only if its program emitted it.          *)
LEMMA EnterWholeInv ==
  ASSUME TypeOK, WholeInv, NEW p \in Pids, NEW t \in Threads, NEW c \in Collectors,
         NEW s \in Calls[c], NEW a, Enter(p, t, c, s, a), Writes(Program(c), c, s)
  PROVE  WholeInv'
<1> DEFINE o == Outcome(Program(c), s)
           q == proc[p]
           made == [syscall |-> s, pid |-> p, thread |-> t, comm |-> q.comm,
                    argument |-> a, fields |-> o.fields, made |-> clock.time + 1,
                    done |-> IF c = "execve" THEN clock.time + 1 ELSE 0,
                    version |-> q.version, renames |-> q.renames,
                    meant |-> Meant(q, a), image |-> q.image]
<1>1. PICK r, k :
        /\ r.syscall = s /\ r.fields = o.fields /\ k = [collector |-> c, record |-> r]
        /\ call' = IF o.emitted THEN [call EXCEPT ![<<p, t>>] = k] ELSE call
        /\ ring' = IF o.emitted /\ c = "execve"
                     THEN [ring EXCEPT ![c] = Append(@, r)] ELSE ring
  <2>1. PICK r : r = made OBVIOUS
  <2>2. r.syscall = s /\ r.fields = o.fields BY <2>1
  <2>3. /\ call' = IF o.emitted
                     THEN [call EXCEPT ![<<p, t>>] = [collector |-> c, record |-> r]]
                     ELSE call
        /\ ring' = IF o.emitted /\ c = "execve"
                     THEN [ring EXCEPT ![c] = Append(@, r)] ELSE ring
    BY <2>1 DEF Enter
  <2> HIDE DEF made, o
  <2> QED BY <2>2, <2>3
<1>2. CASE ~o.emitted BY <1>1, <1>2, FewerCallsWholeInv
<1>3. CASE o.emitted
  <2>1. Reads(c, r.syscall) \subseteq r.fields BY <1>1, <1>3 DEF Writes
  <2>2. k.collector = c /\ k.record = r BY <1>1
  <2>3. call = [pt \in Pids \X Threads |-> call[pt]] BY DEF TypeOK
  <2>4. \A pt \in Pids \X Threads : call'[pt] = k \/ call'[pt] = call[pt]
    BY <1>1, <1>3, <2>3
  <2>5. \A pt \in Pids \X Threads : call'[pt] # Empty =>
          Reads(call'[pt].collector, call'[pt].record.syscall)
            \subseteq call'[pt].record.fields
    BY <2>1, <2>2, <2>4 DEF WholeInv
  <2>6. CASE c = "execve"
    <3>1. ring' = [ring EXCEPT ![c] = Append(@, r)] BY <1>1, <1>3, <2>6
    <3>2. \A x \in Collectors : \A n \in DOMAIN ring'[x] :
            Reads(x, ring'[x][n].syscall) \subseteq ring'[x][n].fields
      BY <2>1, <3>1, OneMoreWhole
    <3> QED BY <2>5, <3>2 DEF WholeInv
  <2>7. CASE c # "execve"
    <3>1. UNCHANGED ring BY <1>1, <2>7
    <3> QED BY <2>5, <3>1 DEF WholeInv
  <2> QED BY <2>6, <2>7
<1> QED BY <1>2, <1>3

(* The exit program leaves the record as it is.                            *)
LEMMA ExitWholeInv ==
  ASSUME TypeOK, WholeInv, NEW p \in Pids, NEW t \in Threads, Exit(p, t)
  PROVE  WholeInv'
<1>1. PICK pt \in Pids \X Threads : pt = <<p, t>> OBVIOUS
<1>2. PICK k : k = call[pt] OBVIOUS
<1>3. k # Empty /\ CallOK(pt, k) /\ call = [x \in Pids \X Threads |-> call[x]]
  BY <1>1, <1>2 DEF Exit, TypeOK
<1>4. PICK c \in Collectors : c = k.collector BY <1>3 DEF CallOK
<1>5. PICK old \in RecordOf(c) : old = k.record BY <1>3, <1>4 DEF CallOK
<1>6. PICK r : r = [old EXCEPT !.done = clock.time + 1] OBVIOUS
<1>7. r.syscall = old.syscall /\ r.fields = old.fields BY <1>6 DEF RecordOf
<1>8. Reads(c, r.syscall) \subseteq r.fields
  BY <1>2, <1>3, <1>4, <1>5, <1>7 DEF WholeInv
<1>9. ring' = [ring EXCEPT ![c] = Append(@, r)]
  BY <1>1, <1>2, <1>4, <1>5, <1>6 DEF Exit
<1>10. \A x \in Pids \X Threads : call'[x] = Empty \/ call'[x] = call[x]
  BY <1>3 DEF Exit
<1>11. \A x \in Pids \X Threads : call'[x] # Empty =>
         Reads(call'[x].collector, call'[x].record.syscall)
           \subseteq call'[x].record.fields
  BY <1>10 DEF WholeInv
<1>12. \A x \in Collectors : \A n \in DOMAIN ring'[x] :
         Reads(x, ring'[x][n].syscall) \subseteq ring'[x][n].fields
  BY <1>8, <1>9, OneMoreWhole
<1> QED BY <1>11, <1>12 DEF WholeInv

(* Taking the first record away leaves the others.                         *)
LEMMA ResolveWholeInv ==
  ASSUME TypeOK, WholeInv, NEW c \in Collectors, Resolve(c)
  PROVE  WholeInv'
<1>1. /\ ring = [x \in Collectors |-> ring[x]] /\ ring[c] \in Seq(RecordOf(c))
      /\ ring[c] # <<>> /\ ring' = [ring EXCEPT ![c] = Tail(ring[c])]
      /\ UNCHANGED call
  BY DEF TypeOK, Resolve, Take
<1>2. ring'[c] = Tail(ring[c]) /\ \A x \in Collectors \ {c} : ring'[x] = ring[x]
  BY <1>1
<1>3. ASSUME NEW n \in DOMAIN ring'[c]
      PROVE  n + 1 \in DOMAIN ring[c] /\ ring'[c][n] = ring[c][n + 1]
  BY <1>1, <1>2
<1> QED BY <1>1, <1>2, <1>3 DEF WholeInv

(* Whatever processes do, a record from which normalize reads has been     *)
(* written in all the fields it takes from it, for the very call the       *)
(* record is of: the programs of which that is not so are refused, so that *)
(* their collectors make no records.                                       *)
THEOREM RecordIsWholeCorrect == Spec => []RecordIsWhole
<1>1. Init => WholeInv BY DEF Init, WholeInv
<1>2. IInv /\ LoadInv /\ WholeInv /\ [Next]_vars => WholeInv'
  <2> SUFFICES ASSUME IInv, LoadInv, WholeInv, [Next]_vars PROVE WholeInv' OBVIOUS
  <2>1. TypeOK BY DEF IInv
  <2>2. ASSUME UNCHANGED <<ring, call>> PROVE WholeInv'
    BY <2>2, FewerCallsWholeInv
  <2>3. ASSUME NEW c \in Collectors, Resolve(c) PROVE WholeInv'
    BY <2>1, <2>3, ResolveWholeInv
  <2>4. ASSUME NEW c \in Collectors, Describe(c) \/ Send(c) PROVE WholeInv'
    BY <2>2, <2>4 DEF Describe, Send
  <2>5. ASSUME NEW p \in Pids, \/ Chdir(p) \/ Reopen(p) \/ Rename(p)
                               \/ SetComm(p) \/ Reuse(p)
        PROVE  WholeInv'
    BY <2>2, <2>5 DEF Chdir, Reopen, Rename, SetComm, Reuse, Change
  <2>6. ASSUME NEW p \in Pids, End(p) PROVE WholeInv'
    <3>1. UNCHANGED ring BY <2>6 DEF End, Change
    <3>2. \A pt \in Pids \X Threads : call'[pt] = Empty \/ call'[pt] = call[pt]
      BY <2>6 DEF End
    <3> QED BY <3>1, <3>2, FewerCallsWholeInv
  <2>7. ASSUME NEW p \in Pids, NEW t \in Threads, NEW c \in Collectors,
               NEW s \in Calls[c], NEW a \in Arguments(s), Enter(p, t, c, s, a)
        PROVE  WholeInv'
    <3>1. c \in DOMAIN Calls BY CaptureAssumption DEF CaptureAssumption
    <3>2. Accepted(Program(c)) BY <2>7 DEF Enter, LoadInv
    <3>3. c \notin {"sensitive_read", "file_lifecycle", "network_server"}
      BY <3>2, ProgramRefused
    <3>4. Writes(Program(c), c, s) BY <3>1, <3>3, ProgramWrites
    <3> QED BY <2>1, <2>7, <3>4, EnterWholeInv
  <2>8. ASSUME NEW p \in Pids, NEW t \in Threads, Exit(p, t) PROVE WholeInv'
    BY <2>1, <2>8, ExitWholeInv
  <2>9. ASSUME NEW p \in Pids, NEW t \in Threads, ExecveReturns(p, t) PROVE WholeInv'
    <3>1. UNCHANGED ring BY <2>9 DEF ExecveReturns
    <3>2. \A pt \in Pids \X Threads : call'[pt] = Empty \/ call'[pt] = call[pt]
      BY <2>1, <2>9 DEF ExecveReturns, TypeOK
    <3> QED BY <3>1, <3>2, FewerCallsWholeInv
  <2>10. CASE Load BY <2>2, <2>10 DEF Load
  <2>11. CASE UNCHANGED vars BY <2>2, <2>11 DEF vars
  <2> QED BY <2>3, <2>4, <2>5, <2>6, <2>7, <2>8, <2>9, <2>10, <2>11 DEF Next
<1>3. WholeInv => RecordIsWhole BY DEF WholeInv, RecordIsWhole, Reads, Waiting
<1> QED BY InitIInv, NextIInv, LoadInvariance, <1>1, <1>2, <1>3, PTL DEF Spec

(* What capture_behavior refutes for the seven behavior collectors holds   *)
(* of all others, on amd64 and on arm64: their programs are loaded, those  *)
(* of the default collectors (README.md:12) and of four more.              *)
THEOREM NoneRefusedCorrect ==
  ASSUME Collectors \cap {"sensitive_read", "file_lifecycle", "network_server"} = {}
  PROVE  Spec => []NoneRefused
<1>1. \A c \in Collectors : Accepted(Program(c))
  BY CaptureAssumption, ProgramAccepted DEF CaptureAssumption
<1>2. LoadInv => NoneRefused BY <1>1 DEF LoadInv, NoneRefused
<1> QED BY LoadInvariance, <1>2, PTL
=============================================================================
