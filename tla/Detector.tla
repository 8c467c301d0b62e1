------------------------------- MODULE Detector -------------------------------
(***************************************************************************)
(* detect/rules.go: the loop of Basic.Analyze over the events of one       *)
(* incident candidate, one event a step.  The code sorts the events by     *)
(* time first, and the order of equal times is the sort's, so the loop     *)
(* sees any sequence of events.  An event is named by its place.           *)
(*                                                                         *)
(* Names of processes are their classes ("shell", "download", "nettool",   *)
(* "web", "package", "other"), which are disjoint in the code's tables;    *)
(* paths are model values, sorted into the code's classes by constants.    *)
(* A port stands for an endpoint, call for the action or the system call   *)
(* with its target; miner says that a name or an argument is a miner's.    *)
(***************************************************************************)
EXTENDS Integers, Sequences, FiniteSets, SequencesExt

CONSTANTS
  Kinds,              (* the events a candidate may hold                   *)
  Pids, Paths, NoPath,
  ShellPaths, SensitiveFiles, SensitiveReadPaths, PersistencePaths,
  LogPaths, TempPaths,
  MaxEvents           (* bound on the events of a candidate                *)

ASSUME DetectorAssumption ==
  /\ NoPath \notin Paths /\ MaxEvents \in Nat
  /\ SensitiveFiles \subseteq SensitiveReadPaths

VARIABLES
  ordered,                  (* events seen by the loop                     *)
  signals, score,           (* Result                                      *)
  downloadProcesses,        (* PID -> its download, 0 if none              *)
  downloadedFiles,          (* path -> the events that brought it          *)
  downloadedProcessPIDs,    (* PID -> downloadEvents and executionEvent    *)
  shellProcesses,           (* PID -> its last shell, 0 if none            *)
  suspiciousProcessPIDs,
  reported                  (* keys of the maps that suppress repetitions  *)

downloads == <<downloadProcesses, downloadedFiles, downloadedProcessPIDs>>
detectorVars == <<ordered, signals, score, downloads, shellProcesses,
                  suspiciousProcessPIDs, reported>>

Init ==
  /\ ordered = <<>> /\ signals = <<>> /\ score = 0
  /\ downloadProcesses = [p \in Pids |-> 0]
  /\ downloadedFiles = [f \in Paths |-> <<>>]
  /\ downloadedProcessPIDs = [p \in Pids |-> <<>>]
  /\ shellProcesses = [p \in Pids |-> 0]
  /\ suspiciousProcessPIDs = {} /\ reported = {}

-----------------------------------------------------------------------------
(* RuleDefinitions: impact, and the collectors whose events a rule uses.   *)
Rule(impact, collectors) == [impact |-> impact, collectors |-> collectors]
RuleDefinitions == [
  web_process_spawned_shell            |-> Rule(30, {"execve"}),
  shell_downloaded_file                |-> Rule(20, {"execve"}),
  tmp_file_made_executable             |-> Rule(20, {"chmod"}),
  recently_downloaded_binary_executed  |-> Rule(30, {"execve", "file_write"}),
  downloaded_binary_connected_outbound |->
    Rule(35, {"execve", "file_write", "connect"}),
  suspicious_reverse_shell_pattern     |-> Rule(50, {"execve", "connect"}),
  package_manager_spawned_shell        |-> Rule(5, {"execve"}),
  sensitive_file_access                |-> Rule(35, {"file_write"}),
  crypto_miner_process_name            |-> Rule(35, {"execve"}),
  unexpected_network_tool_execution    |-> Rule(20, {"execve"}),
  sensitive_file_read                  |-> Rule(25, {"sensitive_read"}),
  persistence_path_modified            |-> Rule(35, {"file_lifecycle"}),
  log_tampering                        |-> Rule(40, {"file_lifecycle"}),
  privilege_change_after_suspicious_activity |-> Rule(35, {"privilege_change"}),
  namespace_escape_attempt             |-> Rule(40, {"namespace_change"}),
  process_memory_access                |-> Rule(35, {"process_access"}),
  unexpected_network_listener          |-> Rule(30, {"network_server"}),
  kernel_tamper_syscall                |-> Rule(50, {"kernel_tamper"})]

Signal(rule, impact, evs) == [rule |-> rule, impact |-> impact, events |-> evs]
When(condition, signal) == IF condition THEN <<signal>> ELSE <<>>

mutationSucceeded(e) == e.outcome # "failed"
fileWriteChanged(e) == mutationSucceeded(e) /\ ~e.empty

(* The record of execve has no outcome, so it is none that failed.         *)
ASSUME KindsAssumption ==
  \A e \in Kinds : /\ e.pid \in Pids
                   /\ {e.output, e.exec, e.path} \subseteq Paths \union {NoPath}
                   /\ e.type = "execve" => mutationSucceeded(e)

isLogTamperAction(action) == action \in {"unlink", "rename", "truncate"}
isUnusualOutboundPort(port) == port \notin {0, 53, 80, 443}
isUnusualListenerPort(port) == port \notin {53, 80, 443, 8080, 8443}
isShellConnection(e) == e.name = "shell" \/ e.exec \in ShellPaths

isUnexpectedNetworkToolExecution(e) ==
  \/ e.name = "nettool"
  \/ e.name = "download" /\ e.parent = "web"

isSuspiciousPrivilegeContext(e) ==
  \/ e.pid \in suspiciousProcessPIDs
  \/ e.name \in {"shell", "nettool"} \/ e.parent = "shell"

isUnexpectedNetworkListener(e) ==
  \/ e.name \in {"shell", "nettool"} /\ (e.call = "listen" \/ e.port # 0)
  \/ e.call # "listen" /\ e.port # 0 /\ isUnusualListenerPort(e.port)

(* Mutant: a signal that would pass the cap is not added.                  *)
AddRefused(total, s) ==
  IF total + s.impact > 100 THEN total ELSE total + s.impact

(* Result.add caps the score at every signal.                              *)
Add(total, s) == IF total + s.impact > 100 THEN 100 ELSE total + s.impact

(* The result after the signals of one event.                              *)
AddAll(new) ==
  /\ signals' = signals \o new
  /\ score' = LET after[n \in 0..Len(new)] ==
                    IF n = 0 THEN score ELSE Add(after[n - 1], new[n])
              IN after[Len(new)]

-----------------------------------------------------------------------------
(* The cases of the switch.  i is the place of event e.                    *)

Execve(e, i) ==
  LET isShell == e.name = "shell"
      fetches == e.name = "download" /\ e.parent = "shell"
      files == IF fetches /\ e.output # NoPath
                 THEN [downloadedFiles EXCEPT ![e.output] = <<i>>]
                 ELSE downloadedFiles
      origin == IF e.exec \in Paths THEN files[e.exec] ELSE <<>>
      isTool == isUnexpectedNetworkToolExecution(e)
  IN /\ AddAll(
          When(isShell /\ e.parent = "web",
               Signal("web_process_spawned_shell", 30, <<i>>))
          \o When(isShell /\ e.parent = "package",
               Signal("package_manager_spawned_shell", 5, <<i>>))
          \o When(fetches, Signal("shell_downloaded_file", 20, <<i>>))
          \o When(origin # <<>>,
               Signal("recently_downloaded_binary_executed", 30,
                      Append(origin, i)))
          \o When(e.miner, Signal("crypto_miner_process_name", 35, <<i>>))
          \o When(isTool,
               Signal("unexpected_network_tool_execution", 20, <<i>>)))
     /\ shellProcesses' = IF isShell THEN [shellProcesses EXCEPT ![e.pid] = i]
                                     ELSE shellProcesses
     /\ downloadProcesses' =
          IF fetches THEN [downloadProcesses EXCEPT ![e.pid] = i]
                     ELSE downloadProcesses
     /\ downloadedFiles' = files
     /\ downloadedProcessPIDs' =
          IF origin # <<>>
            THEN [downloadedProcessPIDs EXCEPT ![e.pid] = Append(origin, i)]
            ELSE downloadedProcessPIDs
     /\ suspiciousProcessPIDs' =
          IF isShell \/ fetches \/ origin # <<>> \/ e.miner \/ isTool
            THEN suspiciousProcessPIDs \union {e.pid}
            ELSE suspiciousProcessPIDs
     /\ UNCHANGED reported

(* A signal reported once for each key.                                    *)
Once(key, condition, signal) ==
  LET fresh == condition /\ key \notin reported
  IN /\ AddAll(When(fresh, signal))
     /\ reported' = IF fresh THEN reported \union {key} ELSE reported

(* Mutant: a write that failed or wrote nothing counts.                    *)
FileWriteUnchecked(e, i) ==
  /\ downloadedFiles' =
       IF downloadProcesses[e.pid] # 0
         THEN [downloadedFiles EXCEPT ![e.path] = <<downloadProcesses[e.pid], i>>]
         ELSE downloadedFiles
  /\ Once(<<"sensitive_file_access", e.path>>, e.path \in SensitiveFiles,
          Signal("sensitive_file_access", 35, <<i>>))
  /\ UNCHANGED <<downloadProcesses, downloadedProcessPIDs>>

(* Mutant: a write is blamed on the last download of any process.          *)
FileWriteAnyProcess(e, i) ==
  LET last == CHOOSE d \in {downloadProcesses[p] : p \in Pids} :
                \A p \in Pids : downloadProcesses[p] <= d
  IN /\ downloadedFiles' =
          IF fileWriteChanged(e) /\ last # 0
            THEN [downloadedFiles EXCEPT ![e.path] = <<last, i>>]
            ELSE downloadedFiles
     /\ Once(<<"sensitive_file_access", e.path>>,
             fileWriteChanged(e) /\ e.path \in SensitiveFiles,
             Signal("sensitive_file_access", 35, <<i>>))
     /\ UNCHANGED <<downloadProcesses, downloadedProcessPIDs>>

FileWrite(e, i) ==
  /\ downloadedFiles' =
       IF fileWriteChanged(e) /\ downloadProcesses[e.pid] # 0 /\ e.path # NoPath
         THEN [downloadedFiles EXCEPT ![e.path] = <<downloadProcesses[e.pid], i>>]
         ELSE downloadedFiles
  /\ Once(<<"sensitive_file_access", e.path>>,
          fileWriteChanged(e) /\ e.path \in SensitiveFiles,
          Signal("sensitive_file_access", 35, <<i>>))
  /\ UNCHANGED <<downloadProcesses, downloadedProcessPIDs>>

SensitiveRead(e, i) ==
  Once(<<"sensitive_file_read", e.pid, e.path>>, e.path \in SensitiveReadPaths,
       Signal("sensitive_file_read", 25, <<i>>))

FileLifecycle(e, i) ==
  LET persists == <<"persistence_path_modified", e.call, e.path>>
      tampers == <<"log_tampering", e.call, e.path>>
      first == /\ mutationSucceeded(e) /\ e.path \in PersistencePaths
               /\ persists \notin reported
      second == /\ mutationSucceeded(e) /\ e.path \in LogPaths
                /\ isLogTamperAction(e.call) /\ tampers \notin reported
  IN /\ AddAll(When(first, Signal("persistence_path_modified", 35, <<i>>))
               \o When(second, Signal("log_tampering", 40, <<i>>)))
     /\ reported' = reported \union (IF first THEN {persists} ELSE {})
                             \union (IF second THEN {tampers} ELSE {})

Chmod(e, i) ==
  /\ AddAll(When(mutationSucceeded(e) /\ e.path \in TempPaths /\ e.call = "addx",
                 Signal("tmp_file_made_executable", 20, <<i>>)))
  /\ UNCHANGED reported

Connect(e, i) ==
  LET key == <<"suspicious_reverse_shell_pattern", e.pid, e.port>>
      linked == mutationSucceeded(e) /\ downloadedProcessPIDs[e.pid] # <<>>
      shell == /\ mutationSucceeded(e) /\ isShellConnection(e)
               /\ isUnusualOutboundPort(e.port) /\ key \notin reported
      origin == IF shellProcesses[e.pid] # 0 THEN <<shellProcesses[e.pid]>>
                                             ELSE <<>>
  IN /\ AddAll(When(linked, Signal("downloaded_binary_connected_outbound", 35,
                                   Append(downloadedProcessPIDs[e.pid], i)))
               \o When(shell, Signal("suspicious_reverse_shell_pattern", 50,
                                     Append(origin, i))))
     /\ reported' = IF shell THEN reported \union {key} ELSE reported

PrivilegeChange(e, i) ==
  Once(<<"privilege_change_after_suspicious_activity", e.pid>>,
       mutationSucceeded(e) /\ isSuspiciousPrivilegeContext(e),
       Signal("privilege_change_after_suspicious_activity", 35, <<i>>))

NamespaceChange(e, i) ==
  Once(<<"namespace_escape_attempt", e.pid>>, mutationSucceeded(e),
       Signal("namespace_escape_attempt", 40, <<i>>))

ProcessAccess(e, i) ==
  Once(<<"process_memory_access", e.pid, e.call>>, mutationSucceeded(e),
       Signal("process_memory_access", 35, <<i>>))

NetworkServer(e, i) ==
  Once(<<"unexpected_network_listener", e.pid, e.port>>,
       mutationSucceeded(e) /\ isUnexpectedNetworkListener(e),
       Signal("unexpected_network_listener", 30, <<i>>))

KernelTamper(e, i) ==
  Once(<<"kernel_tamper_syscall", e.pid, e.call>>, TRUE,
       Signal("kernel_tamper_syscall", 50, <<i>>))

(* The loop body; continue for events of other types is not needed.        *)
Analyze(e) ==
  LET i == Len(ordered) + 1
  IN /\ Len(ordered) < MaxEvents
     /\ ordered' = Append(ordered, e)
     /\ \/ e.type = "execve" /\ Execve(e, i)
        \/ /\ e.type = "file_write" /\ FileWrite(e, i)
           /\ UNCHANGED <<shellProcesses, suspiciousProcessPIDs>>
        \/ /\ \/ e.type = "sensitive_read" /\ SensitiveRead(e, i)
              \/ e.type = "file_lifecycle" /\ FileLifecycle(e, i)
              \/ e.type = "chmod" /\ Chmod(e, i)
              \/ e.type = "connect" /\ Connect(e, i)
              \/ e.type = "privilege_change" /\ PrivilegeChange(e, i)
              \/ e.type = "namespace_change" /\ NamespaceChange(e, i)
              \/ e.type = "process_access" /\ ProcessAccess(e, i)
              \/ e.type = "network_server" /\ NetworkServer(e, i)
              \/ e.type = "kernel_tamper" /\ KernelTamper(e, i)
           /\ UNCHANGED <<downloads, shellProcesses, suspiciousProcessPIDs>>

-----------------------------------------------------------------------------
Places == 1..Len(ordered)

Total(numbers) ==
  LET sum[n \in 0..Len(numbers)] == IF n = 0 THEN 0 ELSE sum[n - 1] + numbers[n]
  IN sum[Len(numbers)]

(* The score is what a user can work out from the list of rules: the       *)
(* capped sum of the listed impacts, though it is capped at every signal,  *)
(* with evidence from the collectors the list names, and without counting  *)
(* repetitions: of two signals of the rules with a key, either the process *)
(* or the object differs.                                                  *)
ScoreExplained ==
  LET total == Total([n \in DOMAIN signals |->
                        RuleDefinitions[signals[n].rule].impact])
      last(n) == ordered[Last(signals[n].events)]
  IN /\ score = IF total > 100 THEN 100 ELSE total
     /\ \A n \in DOMAIN signals : \A k \in Range(signals[n].events) :
          ordered[k].type \in RuleDefinitions[signals[n].rule].collectors
     /\ \A m, n \in DOMAIN signals :
          (/\ m # n /\ signals[m].rule = signals[n].rule
           /\ signals[m].rule \notin {"tmp_file_made_executable",
                                     "downloaded_binary_connected_outbound"}
           /\ last(m).type # "execve")
             => \/ last(m).pid # last(n).pid \/ last(m).path # last(n).path
                \/ last(m).call # last(n).call \/ last(m).port # last(n).port

(* The rules that count attempts, by the code (sensitive_read and          *)
(* kernel_tamper, rules.go:106, 187) or by their description               *)
(* (rule_definitions.go:92, 98, of rules the code reports only on success).*)
AttemptRules == {"sensitive_file_read", "kernel_tamper_syscall",
                 "privilege_change_after_suspicious_activity",
                 "namespace_escape_attempt"}

(* What failed, or wrote nothing, is evidence of nothing, directly or      *)
(* through the files and processes derived from it, but for the rules      *)
(* about attempts (mutationSucceeded, fileWriteChanged).                   *)
FailedNeverCounts ==
  \A n \in DOMAIN signals :
    signals[n].rule \notin AttemptRules =>
      \A k \in DOMAIN signals[n].events :
        LET e == ordered[signals[n].events[k]]
        IN mutationSucceeded(e) /\ (e.type = "file_write" => ~e.empty)

(* The evidence of an executed download is a chain: a download started by  *)
(* a shell, the execution of its output or of a file the same process      *)
(* wrote, and for a connection the process of that execution.  The first   *)
(* two may be one event: a tool told to overwrite itself.                  *)
IsChain(evs) ==
  LET d == ordered[evs[1]]
      x == ordered[Last(evs)]
  IN /\ d.type = "execve" /\ d.name = "download" /\ d.parent = "shell"
     /\ x.type = "execve"
     /\ \/ Len(evs) = 2 /\ d.output = x.exec
        \/ /\ Len(evs) = 3
           /\ LET w == ordered[evs[2]]
              IN w.type = "file_write" /\ w.pid = d.pid /\ w.path = x.exec
     /\ \A k \in 1..(Len(evs) - 1) : evs[k] <= evs[k + 1]

DownloadChainSound ==
  \A n \in DOMAIN signals :
    LET s == signals[n] IN
    /\ s.rule = "recently_downloaded_binary_executed" => IsChain(s.events)
    /\ s.rule = "downloaded_binary_connected_outbound" =>
         LET chain == Front(s.events)
         IN /\ IsChain(chain)
            /\ ordered[Last(s.events)].pid = ordered[Last(chain)].pid
=============================================================================
