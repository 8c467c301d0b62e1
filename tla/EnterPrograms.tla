---------------------------- MODULE EnterPrograms ----------------------------
(***************************************************************************)
(* The programs the collectors attach to sys_enter, written in the source  *)
(* with an assembler: which system calls each one takes, along which       *)
(* blocks, and which fields of the record the blocks on the way write.     *)
(* Instructions within a block, offsets and sizes are left out.            *)
(***************************************************************************)
EXTENDS Integers, FiniteSets

CONSTANT Legacy     (* hasOpenSyscall, hasChmodSyscall and                 *)
                    (* hasLegacyPathSyscalls: amd64 has them, arm64 not    *)

ASSUME LegacyAssumption == Legacy \in BOOLEAN

WithLegacy(legacy, others) == IF Legacy THEN legacy \union others ELSE others

(* The four collectors that record arguments as they are.                  *)
BehaviorCalls == [
  privilege_change |-> {"setuid", "setgid", "setreuid", "setregid", "setgroups",
                        "setresuid", "setresgid", "capset", "prctl"},
  namespace_change |-> {"setns", "unshare", "mount", "umount2", "pivot_root",
                        "chroot"},
  process_access |-> {"ptrace", "process_vm_readv", "process_vm_writev"},
  kernel_tamper |-> {"bpf", "init_module", "finit_module", "delete_module",
                     "kexec_load"}]

(* What the name of a call leaves open and a program looks at is part of   *)
(* the name here: the address family, descriptors up to 2, the own PID.    *)
Calls == [
  privilege_change |-> BehaviorCalls.privilege_change,
  namespace_change |-> BehaviorCalls.namespace_change,
  process_access |-> BehaviorCalls.process_access,
  kernel_tamper |-> BehaviorCalls.kernel_tamper,
  execve |-> {"execve"},
  connect |-> {"connect_ipv4", "connect_ipv6", "connect_other"},
  file_write |-> {"write", "pwrite64", "writev", "pwritev", "pwritev2",
                  "write_stdio", "write_ignored"},
  chmod |-> WithLegacy({"chmod"}, {"fchmod", "fchmodat", "fchmodat2"}),
  sensitive_read |-> WithLegacy({"open"}, {"openat", "openat2"}),
  file_lifecycle |-> WithLegacy(
    {"rename", "link", "symlink", "unlink", "mkdir"},
    {"truncate", "ftruncate", "mkdirat", "unlinkat", "symlinkat", "linkat",
     "renameat", "renameat2"}),
  network_server |-> {"bind", "listen"}]

-----------------------------------------------------------------------------
(* A program: the label each call is dispatched to, and its blocks.  A     *)
(* block goes on to a label that may depend on the call; "emit" stores or  *)
(* outputs the record, "exit" gives up.                                    *)
Common == {"time", "pid", "uid", "comm"}
Header == Common \union {"zero", "key"}
Ends == {"emit", "exit"}

Block(writes, to) == [writes |-> writes, to |-> to]
To(c, label) == [s \in Calls[c] |-> label]

ExecveProgram == [
  entry |-> To("execve", "capture"),
  blocks |-> [
    capture |-> Block(Common \union {"zero", "path"}, To("execve", "emit"))]]

ConnectProgram == [
  entry |-> To("connect", "capture"),
  blocks |-> [
    capture |-> Block(Header \union {"family"}, [s \in Calls.connect |->
      CASE s = "connect_ipv4" -> "read_ipv4"
        [] s = "connect_ipv6" -> "read_ipv6"
        [] OTHER -> "exit"]),
    read_ipv4 |-> Block({"address"}, To("connect", "emit")),
    read_ipv6 |-> Block({"address"}, To("connect", "emit"))]]

FileWriteProgram == [
  entry |-> To("file_write", "capture"),
  blocks |-> [
    capture |-> Block({"zero", "syscall", "time", "key"},
      [s \in Calls.file_write |->
        IF s = "write_ignored" THEN "exit" ELSE "process"]),
    process |-> Block({"pid", "uid", "comm", "fd"},
      [s \in Calls.file_write |->
        IF s = "write_stdio" THEN "exit" ELSE "count"]),
    count |-> Block({"count"}, To("file_write", "emit"))]]

(* The blocks after "capture" of the program for chmod.                    *)
ChmodDispatch == [s \in Calls.chmod |->
  CASE s = "fchmod" -> "fchmod_fd" [] s = "chmod" -> "chmod_path"
    [] OTHER -> "at"]

ChmodLabels == WithLegacy({"chmod_path"}, {"capture", "at", "fchmod_fd"})

(* Mutant: the directory of fchmodat is not read.                          *)
ChmodProgramNoDirectory == [
  entry |-> To("chmod", "capture"),
  blocks |-> [l \in ChmodLabels |->
    CASE l = "capture" -> Block(Header \union {"syscall"}, ChmodDispatch)
      [] l = "fchmod_fd" -> Block({"fd", "mode"}, To("chmod", "emit"))
      [] l \in {"at", "chmod_path"} ->
           Block({"path", "mode"}, To("chmod", "emit"))]]

ChmodProgram == [
  entry |-> To("chmod", "capture"),
  blocks |-> [l \in ChmodLabels |->
    CASE l = "capture" -> Block(Header \union {"syscall"}, ChmodDispatch)
      [] l = "at" -> Block({"fd", "path", "mode"}, To("chmod", "emit"))
      [] l = "fchmod_fd" -> Block({"fd", "mode"}, To("chmod", "emit"))
      [] l = "chmod_path" -> Block({"path", "mode"}, To("chmod", "emit"))]]

(* Every call is dispatched to a block behind init.                        *)
SensitiveReadProgram == [
  entry |-> [s \in Calls.sensitive_read |-> CASE s = "open" -> "capture_open"
    [] s = "openat" -> "capture_openat" [] s = "openat2" -> "capture_openat2"],
  blocks |-> [l \in WithLegacy({"capture_open"},
                               {"init", "capture_openat", "capture_openat2"}) |->
    IF l = "init"
      THEN Block(Header \union {"syscall"}, To("sensitive_read",
             IF Legacy THEN "capture_open" ELSE "capture_openat"))
      ELSE Block({"fd", "path", "flags"}, To("sensitive_read", "emit"))]]

(* As above.  On arm64 truncate goes to a label that is not there.         *)
FileLifecycleProgram == [
  entry |-> [s \in Calls.file_lifecycle |->
    CASE s \in {"rename", "link", "symlink"} -> "legacy_two_path"
      [] s \in {"unlink", "mkdir", "truncate"} -> "legacy_one_path"
      [] s = "ftruncate" -> "fd_only"
      [] s \in {"mkdirat", "unlinkat"} -> "at_one_path"
      [] s = "symlinkat" -> "symlinkat_path"
      [] s \in {"linkat", "renameat", "renameat2"} -> "at_two_path"],
  blocks |-> [l \in WithLegacy({"legacy_two_path", "legacy_one_path"},
      {"init", "fd_only", "at_one_path", "symlinkat_path", "at_two_path"}) |->
    LET writes ==
          CASE l = "init" -> Header \union {"syscall", "fd", "target_fd"}
            [] l = "legacy_two_path" -> {"path", "target_path"}
            [] l = "legacy_one_path" -> {"path"}
            [] l = "fd_only" -> {"fd"}
            [] l = "at_one_path" -> {"fd", "path"}
            [] l = "symlinkat_path" -> {"path", "target_fd", "target_path"}
            [] l = "at_two_path" -> {"fd", "path", "target_fd", "target_path"}
    IN Block(writes, To("file_lifecycle",
         IF l # "init" THEN "emit"
         ELSE IF Legacy THEN "legacy_two_path" ELSE "fd_only"))]]

NetworkServerProgram == [
  entry |-> [s \in Calls.network_server |->
    IF s = "bind" THEN "capture_bind" ELSE "capture_listen"],
  blocks |-> [
    init |-> Block(Header \union {"syscall"}, To("network_server", "capture_bind")),
    capture_bind |-> Block({"fd", "address"}, To("network_server", "emit")),
    capture_listen |-> Block({"fd", "backlog"}, To("network_server", "emit"))]]

BehaviorProgram(c) == [
  entry |-> To(c, "capture"),
  blocks |-> [
    capture |-> Block(Header \union {"syscall", "args"}, To(c, "emit"))]]

Program(c) ==
  CASE c = "execve" -> ExecveProgram
    [] c = "connect" -> ConnectProgram
    [] c = "file_write" -> FileWriteProgram
    [] c = "chmod" -> ChmodProgram
    [] c = "sensitive_read" -> SensitiveReadProgram
    [] c = "file_lifecycle" -> FileLifecycleProgram
    [] c = "network_server" -> NetworkServerProgram
    [] c \in DOMAIN BehaviorCalls -> BehaviorProgram(c)

-----------------------------------------------------------------------------
Values(f) == {f[x] : x \in DOMAIN f}

(* The labels a program can get to.                                        *)
Reached(p) ==
  LET labels == DOMAIN p.blocks
      within[n \in 0..Cardinality(labels)] ==
        IF n = 0 THEN Values(p.entry)
        ELSE within[n - 1] \union
             UNION {Values(p.blocks[l].to) : l \in labels \cap within[n - 1]}
  IN within[Cardinality(labels)]

(* External: cebpf.NewProgram resolves every label, and the kernel refuses *)
(* a program with instructions that nothing leads to.                      *)
Accepted(p) ==
  /\ Reached(p) \subseteq DOMAIN p.blocks \union Ends
  /\ DOMAIN p.blocks \subseteq Reached(p)

(* The fields written, and whether a record is emitted, for a call.        *)
Outcome(p, s) ==
  LET run[l \in DOMAIN p.blocks \union Ends] ==
        IF l \in Ends THEN [emitted |-> l = "emit", fields |-> {}]
        ELSE LET rest == run[p.blocks[l].to[s]]
             IN [emitted |-> rest.emitted,
                 fields |-> rest.fields \union p.blocks[l].writes]
  IN run[p.entry[s]]
=============================================================================
