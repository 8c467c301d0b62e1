----------------------------- MODULE MCCompressor -----------------------------
(* Small sets of events for TLC.  p and q are processes, tmp and home are  *)
(* downloaded files, etc is sensitive and persistent, log is a log.        *)
EXTENDS Compressor

CONSTANTS p, q, tmp, home, etc, log

Plain(type, pid) ==
  [type |-> type, pid |-> pid, name |-> "other", parent |-> "other",
   exec |-> NoPath, output |-> NoPath, path |-> NoPath, outcome |-> "success",
   empty |-> FALSE, miner |-> FALSE, call |-> "none", port |-> 0]

Run(pid, name, parent) ==
  [Plain("execve", pid) EXCEPT !.name = name, !.parent = parent]
Fetch(pid, file) == [Run(pid, "download", "shell") EXCEPT !.output = file]
RunFile(pid, file) == [Run(pid, "other", "shell") EXCEPT !.exec = file]
Write(pid, file) == [Plain("file_write", pid) EXCEPT !.path = file]
Open(pid, port) == [Plain("connect", pid) EXCEPT !.port = port]
Made(file) == [Plain("chmod", q) EXCEPT !.path = file, !.call = "addx"]
Failed(e) == [e EXCEPT !.outcome = "failed"]
Call(type, pid, call) == [Plain(type, pid) EXCEPT !.call = call]

(* A download by p, executed by q.                                         *)
ChainKinds == {
  Run(p, "shell", "web"), Fetch(p, tmp), Fetch(p, NoPath), Write(p, home),
  Failed(Write(p, home)), [Write(p, home) EXCEPT !.empty = TRUE],
  Write(q, home), RunFile(q, home), RunFile(q, tmp), Open(q, 443),
  Failed(Open(q, 443)), Made(tmp)}

(* Every other rule, with the failures and the near misses.                *)
RuleKinds == {
  Run(p, "shell", "package"), Run(q, "nettool", "other"),
  Run(q, "download", "web"), [Run(q, "other", "other") EXCEPT !.miner = TRUE],
  [Open(p, 4444) EXCEPT !.name = "shell", !.outcome = "in_progress"],
  [Open(q, 4444) EXCEPT !.name = "shell"],
  Write(p, etc), Made(tmp), Failed(Made(tmp)),
  [Plain("sensitive_read", p) EXCEPT !.path = etc],
  [Call("file_lifecycle", p, "unlink") EXCEPT !.path = log],
  [Call("file_lifecycle", p, "mkdir") EXCEPT !.path = etc],
  Call("privilege_change", p, "setuid"), Call("privilege_change", q, "setuid"),
  Call("namespace_change", p, "unshare"),
  Failed(Call("process_access", p, "ptrace")), Call("process_access", p, "ptrace"),
  [Call("network_server", q, "listen") EXCEPT !.name = "nettool"],
  [Call("network_server", q, "bind") EXCEPT !.port = 8080],
  [Call("network_server", q, "bind") EXCEPT !.port = 4444],
  Call("kernel_tamper", p, "bpf")}

AllKinds == ChainKinds \union RuleKinds

(* Beyond three events, only those of the chain.                           *)
Bound == Len(ordered) <= 3 \/ Range(ordered) \subseteq ChainKinds
=============================================================================
