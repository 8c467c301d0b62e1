---------------------------- MODULE DetectorProofs ----------------------------
(***************************************************************************)
(* For any events, processes and paths, in any order and number: what the  *)
(* detector gives as evidence did not fail; the evidence of a download     *)
(* that was executed, or that connected out, is a chain of events; the     *)
(* score is the capped sum of what the listed rules are worth, without     *)
(* repetitions; and the timeline tells of each event once.                 *)
(*                                                                         *)
(* The detector's maps hold what it derives from earlier events.  The      *)
(* invariant says what of: a file was brought by a download or by a write  *)
(* of the process that downloads, a process runs such a file.  Events only *)
(* come at the end, so what is said of places stays true.  Score and       *)
(* timeline are loops; each is compared, step by step, with what its       *)
(* result should be.                                                       *)
(***************************************************************************)
EXTENDS Compressor, SequenceTheorems, FiniteSetTheorems, WellFoundedInduction, TLAPS

Rules == DOMAIN RuleDefinitions
(* The rules that do not ask whether the call succeeded.                   *)
Attempts == {"sensitive_file_read", "kernel_tamper_syscall"}
Chains == {"recently_downloaded_binary_executed",
           "downloaded_binary_connected_outbound"}

(* The rules that report once for a key, and the key of an event.          *)
Keyed == {"sensitive_file_access", "sensitive_file_read",
          "persistence_path_modified", "log_tampering",
          "suspicious_reverse_shell_pattern", "unexpected_network_listener",
          "process_memory_access", "kernel_tamper_syscall",
          "privilege_change_after_suspicious_activity",
          "namespace_escape_attempt"}
KeyOf(r, e) ==
  CASE r = "sensitive_file_access" -> <<r, e.path>>
    [] r = "sensitive_file_read" -> <<r, e.pid, e.path>>
    [] r \in {"persistence_path_modified", "log_tampering"} -> <<r, e.call, e.path>>
    [] r \in {"suspicious_reverse_shell_pattern", "unexpected_network_listener"} ->
         <<r, e.pid, e.port>>
    [] r \in {"process_memory_access", "kernel_tamper_syscall"} ->
         <<r, e.pid, e.call>>
    [] OTHER -> <<r, e.pid>>

(* An event that may be evidence.                                          *)
Counts(e) == mutationSucceeded(e) /\ (e.type = "file_write" => ~e.empty)

Link(e) == Counts(e) /\ e.type \in {"execve", "file_write"}
IsDownload(e) == e.type = "execve" /\ e.name = "download" /\ e.parent = "shell"

(* Of a sequence of events o: evs are the places of those that brought f.  *)
Brought(o, evs, f) ==
  \/ \E d \in DOMAIN o : evs = <<d>> /\ IsDownload(o[d]) /\ o[d].output = f
  \/ \E d, w \in DOMAIN o :
       /\ evs = <<d, w>> /\ d <= w /\ IsDownload(o[d])
       /\ o[w].type = "file_write" /\ fileWriteChanged(o[w])
       /\ o[w].pid = o[d].pid /\ o[w].path = f

(* evs are the places of those, and of the execution of the file by p.     *)
Ran(o, evs, p) ==
  \E b \in Seq(DOMAIN o), x \in DOMAIN o :
    /\ evs = Append(b, x) /\ o[x].type = "execve" /\ o[x].pid = p
    /\ Brought(o, b, o[x].exec) /\ \A k \in DOMAIN b : b[k] <= x

SignalOK(o, s) ==
  /\ s.impact = RuleDefinitions[s.rule].impact /\ s.events # <<>>
  /\ \A k \in DOMAIN s.events :
       o[s.events[k]].type \in RuleDefinitions[s.rule].collectors
  /\ s.rule \notin Attempts => \A k \in DOMAIN s.events : Counts(o[s.events[k]])
  /\ s.rule = "recently_downloaded_binary_executed" => \E p : Ran(o, s.events, p)
  /\ s.rule = "downloaded_binary_connected_outbound" =>
       \E b : \E c \in DOMAIN o : s.events = Append(b, c) /\ Ran(o, b, o[c].pid)

Signals(o) ==
  {s \in [rule : Rules, impact : Nat, events : Seq(DOMAIN o)] : SignalOK(o, s)}

MapsInv ==
  /\ downloadProcesses = [p \in Pids |-> downloadProcesses[p]]
  /\ \A p \in Pids : LET d == downloadProcesses[p] IN
       d # 0 => d \in DOMAIN ordered /\ IsDownload(ordered[d]) /\ ordered[d].pid = p
  /\ downloadedFiles = [f \in Paths |-> downloadedFiles[f]]
  /\ \A f \in Paths : downloadedFiles[f] # <<>> =>
       Brought(ordered, downloadedFiles[f], f)
  /\ downloadedProcessPIDs = [p \in Pids |-> downloadedProcessPIDs[p]]
  /\ \A p \in Pids : downloadedProcessPIDs[p] # <<>> =>
       Ran(ordered, downloadedProcessPIDs[p], p)
  /\ shellProcesses = [p \in Pids |-> shellProcesses[p]]
  /\ \A p \in Pids : shellProcesses[p] # 0 =>
       shellProcesses[p] \in DOMAIN ordered /\ ordered[shellProcesses[p]].type = "execve"

(* The signals so far have different keys, all of them reported.           *)
KeyAt(o, s) == KeyOf(s.rule, o[Last(s.events)])
KeysInv ==
  /\ \A n \in DOMAIN signals :
       signals[n].rule \in Keyed => KeyAt(ordered, signals[n]) \in reported
  /\ \A m, n \in DOMAIN signals :
       m # n /\ signals[m].rule = signals[n].rule /\ signals[n].rule \in Keyed =>
         KeyAt(ordered, signals[m]) # KeyAt(ordered, signals[n])

Impacts(sigs) == [n \in DOMAIN sigs |-> RuleDefinitions[sigs[n].rule].impact]
Capped(total) == IF total > 100 THEN 100 ELSE total
ScoreInv == score = Capped(Total(Impacts(signals)))

DetectorInv ==
  /\ ordered \in Seq(Kinds) /\ signals \in Seq(Signals(ordered))
  /\ MapsInv /\ KeysInv /\ ScoreInv

(* A signal that rule r may give of one event e.                           *)
Single(r, m, e) ==
  /\ r \in Rules \ Chains /\ m \in Nat /\ m = RuleDefinitions[r].impact
  /\ e.type \in RuleDefinitions[r].collectors
  /\ r \in Attempts \/ Counts(e)

(* What a step for event e may list.                                       *)
NewSignals(e) ==
  {s \in Signals(Append(ordered, e)) :
     /\ Last(s.events) = Len(ordered) + 1
     /\ s.rule \in Keyed => KeyOf(s.rule, e) \in reported' \ reported}
Distinct(new) ==
  \A m, n \in DOMAIN new :
    m # n /\ new[m].rule = new[n].rule => new[m].rule \notin Keyed

-----------------------------------------------------------------------------
(* Folds.  Every set of natural numbers has a least one, so what a fold    *)
(* computes can be followed step by step up to the first that fails.       *)
LEMMA NatMin ==
  ASSUME NEW S, S \subseteq Nat, S # {}
  PROVE  \E x \in S : \A y \in S : x <= y
<1>1. \E x \in S : \A y \in S : <<y, x>> \notin OpToRel(<, Nat)
  BY WFMin, NatLessThanWellFounded
<1>2. \A x, y \in Nat : <<y, x>> \notin OpToRel(<, Nat) => x <= y
  BY DEF OpToRel
<1> QED BY <1>1, <1>2

(* A sequence of values, each got from the one before.                     *)
Iterates(b, g, k, f) ==
  f = [n \in 0..k |-> IF n = 0 THEN b ELSE g[<<f[n - 1], n>>]]

(* It is there, whatever the step and for any length.                      *)
LEMMA Iteration ==
  ASSUME NEW V, NEW b \in V, NEW k \in Nat, NEW g \in [V \X (1..k) -> V]
  PROVE  \E f \in [0..k -> V] : Iterates(b, g, k, f)
<1> DEFINE Has(n) == \E f \in [0..n -> V] : Iterates(b, g, n, f)
           S == {n \in 0..k : ~Has(n)}
<1>1. SUFFICES ASSUME S # {} PROVE FALSE OBVIOUS
<1>2. PICK n \in S : \A m \in S : n <= m
  <2>1. S \subseteq Nat OBVIOUS
  <2> HIDE DEF S
  <2> QED BY <1>1, <2>1, NatMin
<1>3. n \in 0..k /\ ~Has(n) OBVIOUS
<1>4. CASE n = 0
  <2> DEFINE f == [i \in 0..0 |-> b]
  <2>1. f \in [0..0 -> V] /\ Iterates(b, g, 0, f) BY DEF Iterates
  <2> QED BY <1>3, <1>4, <2>1
<1>5. CASE n # 0
  <2>1. n - 1 \in 0..k /\ n - 1 \notin S BY <1>2, <1>3, <1>5
  <2>2. PICK f \in [0..(n - 1) -> V] : Iterates(b, g, n - 1, f) BY <2>1
  <2> DEFINE h == [i \in 0..n |-> IF i = n THEN g[<<f[n - 1], n>>] ELSE f[i]]
  <2>3. n - 1 \in 0..(n - 1) /\ n \in 1..k /\ 0..n = (0..(n - 1)) \union {n}
    BY <1>3, <1>5
  <2>4. f[n - 1] \in V BY <2>3
  <2>5. g[<<f[n - 1], n>>] \in V BY <2>3, <2>4
  <2>6. h \in [0..n -> V] BY <2>3, <2>5
  <2>7. \A i \in 0..(n - 1) : f[i] = IF i = 0 THEN b ELSE g[<<f[i - 1], i>>]
    BY <2>2 DEF Iterates
  <2>8. \A i \in 0..(n - 1) : h[i] = f[i] BY <1>3
  <2>9. h[n] = g[<<f[n - 1], n>>] BY <1>3
  <2>10. ASSUME NEW i \in 0..n
         PROVE  h[i] = IF i = 0 THEN b ELSE g[<<h[i - 1], i>>]
    <3> HIDE DEF h
    <3>1. CASE i = n
      <4>1. h[i - 1] = f[n - 1] BY <2>3, <2>8, <3>1
      <4> QED BY <1>5, <2>9, <3>1, <4>1
    <3>2. CASE i # n
      <4>1. i \in 0..(n - 1) /\ (i # 0 => i - 1 \in 0..(n - 1)) BY <1>3, <3>2
      <4> QED BY <2>7, <2>8, <4>1
    <3> QED BY <3>1, <3>2
  <2>11. h = [i \in 0..n |-> h[i]] OBVIOUS
  <2> HIDE DEF h
  <2>12. Iterates(b, g, n, h) BY <2>10, <2>11 DEF Iterates
  <2> QED BY <1>3, <2>6, <2>12
<1> QED BY <1>4, <1>5

(* Sums, term by term.                                                     *)
SumOf(numbers, h) ==
  /\ h[0] = 0 /\ \A n \in 1..Len(numbers) : h[n] = h[n - 1] + numbers[n]
  /\ \A n \in 0..Len(numbers) : h[n] \in Nat

(* Total adds up.                                                          *)
LEMMA TotalIs ==
  ASSUME NEW numbers \in Seq(Nat)
  PROVE  \E h : Total(numbers) = h[Len(numbers)] /\ SumOf(numbers, h)
<1> DEFINE k == Len(numbers)
           Sum(f) == f = [n \in 0..k |-> IF n = 0 THEN 0 ELSE f[n - 1] + numbers[n]]
           h == CHOOSE f : Sum(f)
<1>1. k \in Nat /\ \A n \in 1..k : numbers[n] \in Nat
  BY LenProperties, ElementOfSeq
<1>2. \E f : Sum(f)
  <2> DEFINE g == [x \in Nat \X (1..k) |-> x[1] + numbers[x[2]]]
  <2> HIDE DEF k
  <2>1. g \in [Nat \X (1..k) -> Nat] BY <1>1
  <2>2. \A v \in Nat, n \in 1..k : g[<<v, n>>] = v + numbers[n] OBVIOUS
  <2> HIDE DEF g
  <2>3. PICK f \in [0..k -> Nat] : Iterates(0, g, k, f) BY <1>1, <2>1, Iteration
  <2>4. ASSUME NEW n \in 0..k, n # 0 PROVE g[<<f[n - 1], n>>] = f[n - 1] + numbers[n]
    <3>1. n - 1 \in 0..k /\ n \in 1..k BY <1>1, <2>4
    <3> QED BY <2>2, <3>1
  <2>5. Sum(f) BY <2>3, <2>4 DEF Iterates
  <2> QED BY <2>5
<1>3. Sum(h)
  <2> HIDE DEF Sum
  <2> QED BY <1>2
<1>4. Total(numbers) = h[k] BY DEF Total
<1> HIDE DEF h
<1>5. h[0] = 0 /\ \A n \in 1..k : h[n] = h[n - 1] + numbers[n]
  <2> HIDE DEF k
  <2> QED BY <1>1, <1>3
<1> HIDE DEF k
<1>6. \A n \in 0..k : h[n] \in Nat
  <2> DEFINE S == {n \in 0..k : h[n] \notin Nat}
  <2>1. SUFFICES ASSUME S # {} PROVE FALSE OBVIOUS
  <2>2. PICK n \in S : \A m \in S : n <= m
    <3>1. S \subseteq Nat OBVIOUS
    <3> HIDE DEF S
    <3> QED BY <2>1, <3>1, NatMin
  <2>3. n \in 0..k /\ h[n] \notin Nat OBVIOUS
  <2>4. n # 0 BY <1>5, <2>3
  <2>5. n - 1 \in 0..k /\ n \in 1..k /\ n - 1 \notin S BY <1>1, <2>2, <2>3, <2>4
  <2>6. h[n - 1] \in Nat /\ h[n] = h[n - 1] + numbers[n] BY <1>5, <2>5
  <2> QED BY <1>1, <2>3, <2>5, <2>6
<1> QED BY <1>4, <1>5, <1>6 DEF SumOf, k

(* A longer sum starts with the shorter one.                               *)
LEMMA TotalPrefix ==
  ASSUME NEW s \in Seq(Nat), NEW t \in Seq(Nat)
  PROVE  \E h : /\ Total(s \o t) = h[Len(s) + Len(t)] /\ h[Len(s)] = Total(s)
                /\ \A n \in 0..Len(t) : h[Len(s) + n] \in Nat
                /\ \A n \in 1..Len(t) : h[Len(s) + n] = h[Len(s) + n - 1] + t[n]
<1> DEFINE u == s \o t
           a == Len(s)
           b == Len(t)
<1>1. /\ a \in Nat /\ b \in Nat /\ u \in Seq(Nat) /\ Len(u) = a + b
      /\ \A n \in 1..a : u[n] = s[n]
      /\ \A n \in 1..b : u[a + n] = t[n]
  BY LenProperties, ConcatProperties
<1>2. PICK h : Total(u) = h[Len(u)] /\ SumOf(u, h) BY <1>1, TotalIs
<1>3. PICK f : Total(s) = f[a] /\ SumOf(s, f) BY TotalIs
<1> HIDE DEF u, a, b
<1>4. /\ h[0] = 0 /\ \A n \in 1..(a + b) : h[n] = h[n - 1] + u[n]
      /\ \A n \in 0..(a + b) : h[n] \in Nat
  BY <1>1, <1>2 DEF SumOf
<1>5. f[0] = 0 /\ \A n \in 1..a : f[n] = f[n - 1] + s[n]
  BY <1>3 DEF SumOf, a
<1>6. h[a] = f[a]
  <2> DEFINE S == {n \in 0..a : h[n] # f[n]}
  <2>1. SUFFICES ASSUME S # {} PROVE FALSE BY <1>1
  <2>2. PICK n \in S : \A m \in S : n <= m
    <3>1. S \subseteq Nat OBVIOUS
    <3> HIDE DEF S
    <3> QED BY <2>1, <3>1, NatMin
  <2>3. n \in 0..a /\ h[n] # f[n] OBVIOUS
  <2>4. n # 0 BY <1>4, <1>5, <2>3
  <2>5. n - 1 \in 0..a /\ n \in 1..a /\ n \in 1..(a + b) /\ n - 1 \notin S
    <3>1. n \in Nat /\ n <= a /\ n > 0 BY <1>1, <2>3, <2>4
    <3>2. n - 1 \in 0..a /\ n \in 1..a /\ n \in 1..(a + b) BY <1>1, <3>1
    <3>3. n - 1 \notin S
      <4> HIDE DEF S
      <4> QED BY <2>2, <3>1
    <3> QED BY <3>2, <3>3
  <2>6. h[n - 1] = f[n - 1] BY <2>5
  <2>7. h[n] = h[n - 1] + u[n] /\ f[n] = f[n - 1] + s[n] /\ u[n] = s[n]
    BY <1>1, <1>4, <1>5, <2>5
  <2> QED BY <2>3, <2>6, <2>7
<1>7. \A n \in 0..b : h[a + n] \in Nat
  <2>1. \A n \in 0..b : a + n \in 0..(a + b) BY <1>1
  <2> QED BY <1>4, <2>1
<1>8. \A n \in 1..b : h[a + n] = h[a + n - 1] + t[n]
  <2> SUFFICES ASSUME NEW n \in 1..b PROVE h[a + n] = h[a + n - 1] + t[n] OBVIOUS
  <2> DEFINE m == a + n
  <2>1. m \in 1..(a + b) BY <1>1
  <2>2. u[m] = t[n] BY <1>1
  <2> HIDE DEF m
  <2>3. h[m] = h[m - 1] + u[m] BY <1>4, <2>1
  <2>4. h[m] = h[m - 1] + t[n] BY <2>2, <2>3
  <2>5. m = a + n /\ m - 1 = a + n - 1 BY <1>1 DEF m
  <2> QED BY <2>4, <2>5
<1>9. Total(u) = h[a + b] /\ h[a] = Total(s) BY <1>1, <1>2, <1>3, <1>6
<1>10. \E k : /\ Total(u) = k[a + b] /\ k[a] = Total(s)
              /\ \A n \in 0..b : k[a + n] \in Nat
              /\ \A n \in 1..b : k[a + n] = k[a + n - 1] + t[n]
  BY <1>7, <1>8, <1>9
<1> QED BY <1>10 DEF u, a, b

(* One number more.                                                        *)
LEMMA TotalAppend ==
  ASSUME NEW s \in Seq(Nat), NEW x \in Nat
  PROVE  Total(Append(s, x)) = Total(s) + x
<1> DEFINE t == <<x>>
<1>1. t \in Seq(Nat) /\ Len(t) = 1 /\ t[1] = x OBVIOUS
<1>2. Append(s, x) = s \o t OBVIOUS
<1>3. Len(s) \in Nat BY LenProperties
<1> HIDE DEF t
<1>4. PICK h : /\ Total(s \o t) = h[Len(s) + Len(t)] /\ h[Len(s)] = Total(s)
               /\ \A n \in 0..Len(t) : h[Len(s) + n] \in Nat
               /\ \A n \in 1..Len(t) : h[Len(s) + n] = h[Len(s) + n - 1] + t[n]
  <2>1. t \in Seq(Nat) BY <1>1
  <2> QED BY <2>1, TotalPrefix, Zenon
<1>5. h[Len(s) + 1] = h[Len(s) + 1 - 1] + x BY <1>1, <1>4
<1>6. Len(s) + 1 - 1 = Len(s) BY <1>3
<1> QED BY <1>2, <1>4, <1>5, <1>6

(* No numbers.                                                             *)
LEMMA TotalEmpty == Total(<<>>) = 0
<1>1. <<>> \in Seq(Nat) /\ Len(<<>>) = 0 OBVIOUS
<1>2. PICK h : Total(<<>>) = h[0] /\ SumOf(<<>>, h) BY <1>1, TotalIs
<1> QED BY <1>2 DEF SumOf

-----------------------------------------------------------------------------
(* One more event leaves the others at their places.                       *)
LEMMA Grows ==
  ASSUME NEW o \in Seq(Kinds), NEW e \in Kinds
  PROVE  /\ DOMAIN o \subseteq DOMAIN Append(o, e) /\ DOMAIN o \subseteq Nat
         /\ \A k \in DOMAIN o : Append(o, e)[k] = o[k] /\ k <= Len(o) + 1
         /\ Len(o) + 1 \in DOMAIN Append(o, e) /\ Append(o, e)[Len(o) + 1] = e
         /\ Append(o, e) \in Seq(Kinds) /\ Len(o) + 1 \in Nat \ {0}
<1>1. /\ Len(o) \in Nat /\ DOMAIN o = 1..Len(o) /\ Append(o, e) \in Seq(Kinds)
      /\ Len(Append(o, e)) = Len(o) + 1
      /\ DOMAIN Append(o, e) = 1..Len(o) + 1
      /\ \A k \in 1..Len(o) : Append(o, e)[k] = o[k]
      /\ Append(o, e)[Len(o) + 1] = e
  BY AppendProperties, LenProperties
<1> QED BY <1>1

(* Places, with those of a file before that of its execution.              *)
LEMMA BroughtPlaces ==
  ASSUME NEW o \in Seq(Kinds), NEW b, NEW f, Brought(o, b, f)
  PROVE  /\ b \in Seq(DOMAIN o) /\ b # <<>>
         /\ \A k \in DOMAIN b : b[k] \in DOMAIN o /\ Link(o[b[k]])
<1>1. \A k \in DOMAIN o : o[k] \in Kinds BY ElementOfSeq, LenProperties
<1>2. \A k \in DOMAIN o : IsDownload(o[k]) => Link(o[k])
  BY <1>1, KindsAssumption DEF KindsAssumption, IsDownload, Counts, Link
<1>3. CASE \E d \in DOMAIN o : b = <<d>> /\ IsDownload(o[d])
  BY <1>2, <1>3
<1>4. CASE \E d, w \in DOMAIN o : b = <<d, w>> /\ IsDownload(o[d])
             /\ o[w].type = "file_write" /\ fileWriteChanged(o[w])
  <2>1. PICK d \in DOMAIN o, w \in DOMAIN o : b = <<d, w>> /\ IsDownload(o[d])
             /\ o[w].type = "file_write" /\ fileWriteChanged(o[w])
    BY <1>4
  <2>2. Link(o[d]) /\ Link(o[w]) BY <1>2, <2>1 DEF Counts, Link, fileWriteChanged
  <2> QED BY <2>1, <2>2
<1> QED BY <1>3, <1>4 DEF Brought

(* The same for a chain.                                                   *)
LEMMA RanPlaces ==
  ASSUME NEW o \in Seq(Kinds), NEW evs, NEW p, Ran(o, evs, p)
  PROVE  /\ evs \in Seq(DOMAIN o) /\ evs # <<>>
         /\ \A k \in DOMAIN evs : evs[k] \in DOMAIN o /\ Link(o[evs[k]])
<1>1. PICK b \in Seq(DOMAIN o), x \in DOMAIN o :
        /\ evs = Append(b, x) /\ o[x].type = "execve" /\ Brought(o, b, o[x].exec)
  BY DEF Ran
<1>2. \A k \in DOMAIN b : b[k] \in DOMAIN o /\ Link(o[b[k]])
  BY <1>1, BroughtPlaces
<1>3. Link(o[x])
  <2>1. o[x] \in Kinds BY ElementOfSeq, LenProperties
  <2> QED BY <1>1, <2>1, KindsAssumption DEF KindsAssumption, Counts, Link
<1>4. /\ Append(b, x) \in Seq(DOMAIN o) /\ Append(b, x) # <<>>
      /\ \A k \in DOMAIN Append(b, x) :
           \/ Append(b, x)[k] = x
           \/ k \in DOMAIN b /\ Append(b, x)[k] = b[k]
  <2>1. /\ Len(b) \in Nat /\ DOMAIN b = 1..Len(b)
        /\ Append(b, x) \in Seq(DOMAIN o)
        /\ Len(Append(b, x)) = Len(b) + 1
        /\ DOMAIN Append(b, x) = 1..Len(b) + 1
        /\ \A k \in 1..Len(b) : Append(b, x)[k] = b[k]
        /\ Append(b, x)[Len(b) + 1] = x
    BY AppendProperties, LenProperties
  <2>2. Append(b, x) # <<>> BY <2>1
  <2>3. ASSUME NEW k \in 1..Len(b) + 1 PROVE k \in 1..Len(b) \/ k = Len(b) + 1
    BY <2>1
  <2> QED BY <2>1, <2>2, <2>3
<1> QED BY <1>1, <1>2, <1>3, <1>4

(* What was said of the events so far stays true.                          *)
LEMMA BroughtStays ==
  ASSUME NEW o \in Seq(Kinds), NEW e \in Kinds, NEW b, NEW f, Brought(o, b, f)
  PROVE  Brought(Append(o, e), b, f)
  BY Grows DEF Brought

(* The same for the execution of a file.                                   *)
LEMMA RanStays ==
  ASSUME NEW o \in Seq(Kinds), NEW e \in Kinds, NEW evs, NEW p, Ran(o, evs, p)
  PROVE  Ran(Append(o, e), evs, p)
<1> DEFINE n == Append(o, e)
<1>1. PICK b \in Seq(DOMAIN o), x \in DOMAIN o :
        /\ evs = Append(b, x) /\ o[x].type = "execve" /\ o[x].pid = p
        /\ Brought(o, b, o[x].exec) /\ \A k \in DOMAIN b : b[k] <= x
  BY DEF Ran
<1>2. Brought(n, b, o[x].exec) BY <1>1, BroughtStays
<1>3. x \in DOMAIN n /\ n[x] = o[x] /\ n \in Seq(Kinds) BY Grows
<1> HIDE DEF n
<1>4. b \in Seq(DOMAIN n) BY <1>2, <1>3, BroughtPlaces
<1> QED BY <1>1, <1>2, <1>3, <1>4 DEF Ran, n

(* A signal stays right as well.                                           *)
LEMMA SignalsStay ==
  ASSUME NEW o \in Seq(Kinds), NEW e \in Kinds
  PROVE  Signals(o) \subseteq Signals(Append(o, e))
<1> DEFINE n == Append(o, e)
<1> SUFFICES ASSUME NEW s \in Signals(o) PROVE s \in Signals(n) OBVIOUS
<1>1. /\ DOMAIN o \subseteq DOMAIN n /\ \A k \in DOMAIN o : n[k] = o[k]
  BY Grows
<1>2. /\ s \in [rule : Rules, impact : Nat, events : Seq(DOMAIN o)]
      /\ SignalOK(o, s) /\ s.events \in Seq(DOMAIN o)
  BY DEF Signals
<1>3. \A k \in DOMAIN s.events : s.events[k] \in DOMAIN o
  BY <1>2, ElementOfSeq, LenProperties
<1>4. ASSUME NEW b, NEW p, Ran(o, b, p) PROVE Ran(n, b, p) BY <1>4, RanStays
<1> HIDE DEF n
<1>5. SignalOK(n, s)
  <2>1. s.rule \notin Attempts => \A k \in DOMAIN s.events : Counts(n[s.events[k]])
    BY <1>1, <1>2, <1>3 DEF SignalOK
  <2>2. s.rule = "recently_downloaded_binary_executed" => \E p : Ran(n, s.events, p)
    BY <1>2, <1>4 DEF SignalOK
  <2>3. s.rule = "downloaded_binary_connected_outbound" =>
          \E b : \E c \in DOMAIN n : s.events = Append(b, c) /\ Ran(n, b, n[c].pid)
    BY <1>1, <1>2, <1>4 DEF SignalOK
  <2>4. /\ s.impact = RuleDefinitions[s.rule].impact /\ s.events # <<>>
        /\ \A k \in DOMAIN s.events :
             n[s.events[k]].type \in RuleDefinitions[s.rule].collectors
    BY <1>1, <1>2, <1>3 DEF SignalOK
  <2> QED BY <2>1, <2>2, <2>3, <2>4 DEF SignalOK
<1>6. Seq(DOMAIN o) \subseteq Seq(DOMAIN n) BY <1>1
<1>7. s \in [rule : Rules, impact : Nat, events : Seq(DOMAIN n)] BY <1>2, <1>6
<1> QED BY <1>5, <1>7 DEF Signals

(* A list of at most one signal.                                           *)
LEMMA WhenSignals ==
  ASSUME NEW S, NEW c, NEW s, c => s \in S
  PROVE  When(c, s) \in Seq(S)
  BY DEF When

(* The last event comes off again.                                         *)
LEMMA FrontOfAppend ==
  ASSUME NEW S, NEW b \in Seq(S), NEW c \in S
  PROVE  Front(Append(b, c)) = b /\ Last(Append(b, c)) = c
<1> DEFINE a == Append(b, c)
<1>1. /\ Len(b) \in Nat /\ Len(a) = Len(b) + 1 /\ a[Len(b) + 1] = c
      /\ \A k \in 1..Len(b) : a[k] = b[k] /\ b[k] \in S
  BY AppendProperties, LenProperties, ElementOfSeq
<1> HIDE DEF a
<1>2. Len(a) - 1 = Len(b) /\ Len(a) - 1 \in Int BY <1>1
<1>3. /\ SubSeq(a, 1, Len(b)) \in Seq(S) /\ Len(SubSeq(a, 1, Len(b))) = Len(b)
      /\ \A k \in 1..Len(b) : SubSeq(a, 1, Len(b))[k] = a[k]
  BY <1>1, SubSeqProperties
<1>4. SubSeq(a, 1, Len(b)) = b BY <1>1, <1>3, SeqEqual
<1> QED BY <1>1, <1>2, <1>4 DEF Front, Last, a

(* One sequence after another.                                             *)
LEMMA Concatenated ==
  ASSUME NEW S, NEW s \in Seq(S), NEW t \in Seq(S)
  PROVE  /\ s \o t \in Seq(S) /\ Len(s \o t) = Len(s) + Len(t)
         /\ DOMAIN (s \o t) = 1..(Len(s) + Len(t))
         /\ \A n \in DOMAIN s : s[n] \in S /\ (s \o t)[n] = s[n]
         /\ \A n \in DOMAIN t : t[n] \in S /\ (s \o t)[Len(s) + n] = t[n]
         /\ \A n \in DOMAIN (s \o t) :
              n \in DOMAIN s \/ \E k \in DOMAIN t : n = Len(s) + k
<1> DEFINE a == Len(s)
           b == Len(t)
           u == s \o t
<1>1. /\ a \in Nat /\ b \in Nat /\ DOMAIN s = 1..a /\ DOMAIN t = 1..b
      /\ u \in Seq(S) /\ Len(u) = a + b /\ DOMAIN u = 1..(a + b)
      /\ \A n \in 1..(a + b) : u[n] = IF n <= a THEN s[n] ELSE t[n - a]
      /\ \A n \in 1..a : s[n] \in S
      /\ \A n \in 1..b : t[n] \in S
  BY ConcatProperties, LenProperties, ElementOfSeq
<1> HIDE DEF a, b, u
<1>2. \A n \in 1..a : u[n] = s[n] BY <1>1
<1>3. ASSUME NEW n \in 1..b PROVE u[a + n] = t[n]
  <2>1. a + n \in 1..(a + b) /\ ~(a + n <= a) /\ (a + n) - a = n BY <1>1
  <2> QED BY <1>1, <2>1
<1>4. ASSUME NEW n \in 1..(a + b), n \notin 1..a PROVE \E k \in 1..b : n = a + k
  <2>1. n - a \in 1..b /\ n = a + (n - a) BY <1>1, <1>4
  <2> QED BY <2>1
<1> QED BY <1>1, <1>2, <1>3, <1>4 DEF a, b, u

(* The impacts of listed signals add up.                                   *)
LEMMA ImpactsTyped ==
  ASSUME NEW o, NEW sigs \in Seq(Signals(o))
  PROVE  /\ Impacts(sigs) \in Seq(Nat) /\ Len(Impacts(sigs)) = Len(sigs)
         /\ DOMAIN sigs = 1..Len(sigs) /\ DOMAIN Impacts(sigs) = 1..Len(sigs)
         /\ \A n \in DOMAIN sigs : sigs[n].impact \in Nat /\ Impacts(sigs)[n] = sigs[n].impact
<1>1. Len(sigs) \in Nat /\ DOMAIN sigs = 1..Len(sigs) BY LenProperties
<1>2. \A n \in DOMAIN sigs : sigs[n] \in Signals(o) BY <1>1, ElementOfSeq
<1>3. \A x \in Signals(o) : x.impact \in Nat /\ x.impact = RuleDefinitions[x.rule].impact
  BY DEF Signals, SignalOK
<1>4. Impacts(sigs) = [n \in 1..Len(sigs) |-> sigs[n].impact]
  BY <1>1, <1>2, <1>3 DEF Impacts
<1>5. \A n \in 1..Len(sigs) : sigs[n].impact \in Nat BY <1>1, <1>2, <1>3
<1> QED BY <1>1, <1>2, <1>4, <1>5

(* Capping at every signal comes to the same as capping the sum.           *)
LEMMA ScoreAdded ==
  ASSUME NEW o, NEW sigs \in Seq(Signals(o)), NEW new \in Seq(Signals(o)),
         score = Capped(Total(Impacts(sigs))), AddAll(new)
  PROVE  score' = Capped(Total(Impacts(sigs \o new)))
<1> DEFINE a == Len(sigs)
           b == Len(new)
           s == Impacts(sigs)
           t == Impacts(new)
           Adds(f) == f = [n \in 0..b |-> IF n = 0 THEN score ELSE Add(f[n - 1], new[n])]
           after == CHOOSE f : Adds(f)
<1>1. /\ a \in Nat /\ b \in Nat /\ s \in Seq(Nat) /\ t \in Seq(Nat)
      /\ Len(s) = a /\ Len(t) = b
      /\ DOMAIN sigs = 1..a /\ DOMAIN new = 1..b
      /\ DOMAIN s = 1..a /\ DOMAIN t = 1..b
      /\ \A n \in 1..a : s[n] = sigs[n].impact
      /\ \A n \in 1..b : new[n].impact \in Nat /\ t[n] = new[n].impact
  BY ImpactsTyped, LenProperties
<1>2. Impacts(sigs \o new) = s \o t
  <2> DEFINE u == sigs \o new
             v == s \o t
             S == Signals(o)
  <2>1. /\ u \in Seq(S) /\ Len(u) = a + b
        /\ \A n \in 1..a : u[n] = sigs[n]
        /\ \A n \in 1..b : u[a + n] = new[n]
    BY <1>1, Concatenated
  <2>2. /\ v \in Seq(Nat) /\ Len(v) = a + b
        /\ \A n \in 1..a : v[n] = s[n]
        /\ \A n \in 1..b : v[a + n] = t[n]
        /\ \A n \in 1..(a + b) : n \in 1..a \/ \E k \in 1..b : n = a + k
    <3> HIDE DEF a, b, s, t
    <3> DEFINE N == Nat
    <3>1. s \in Seq(N) /\ t \in Seq(N) BY <1>1
    <3> HIDE DEF v, N
    <3>2. /\ v \in Seq(N) /\ Len(v) = Len(s) + Len(t)
          /\ DOMAIN v = 1..(Len(s) + Len(t))
          /\ \A n \in DOMAIN s : v[n] = s[n]
          /\ \A n \in DOMAIN t : v[Len(s) + n] = t[n]
          /\ \A n \in DOMAIN v :
               n \in DOMAIN s \/ \E k \in DOMAIN t : n = Len(s) + k
      BY <3>1, Concatenated DEF v
    <3>3. Len(s) = a /\ Len(t) = b /\ DOMAIN s = 1..a /\ DOMAIN t = 1..b BY <1>1
    <3> QED BY <3>2, <3>3 DEF N
  <2> HIDE DEF a, b, s, t, u, v
  <2>3. /\ Impacts(u) \in Seq(Nat) /\ Len(Impacts(u)) = a + b
        /\ \A n \in 1..(a + b) : Impacts(u)[n] = u[n].impact
    BY <2>1, ImpactsTyped DEF S
  <2>4. ASSUME NEW n \in 1..(a + b) PROVE Impacts(u)[n] = v[n]
    <3>1. CASE n \in 1..a
      <4>1. u[n] = sigs[n] /\ v[n] = s[n] BY <2>1, <2>2, <3>1
      <4>2. s[n] = sigs[n].impact BY <1>1, <3>1
      <4> QED BY <2>3, <4>1, <4>2
    <3>2. ASSUME NEW k \in 1..b, n = a + k PROVE Impacts(u)[n] = v[n]
      <4>1. u[n] = new[k] /\ v[n] = t[k] BY <2>1, <2>2, <3>2
      <4> QED BY <1>1, <2>3, <4>1
    <3> QED BY <2>2, <3>1, <3>2
  <2>5. Impacts(u) = v BY <2>2, <2>3, <2>4, SeqEqual
  <2> QED BY <2>5 DEF u, v
<1>3. score' = after[b] BY DEF AddAll
<1> HIDE DEF a, b, s, t
<1>4. PICK h : /\ Total(s \o t) = h[a + b] /\ h[a] = Total(s)
               /\ \A n \in 0..b : h[a + n] \in Nat
               /\ \A n \in 1..b : h[a + n] = h[a + n - 1] + t[n]
  <2>1. \E h : /\ Total(s \o t) = h[Len(s) + Len(t)] /\ h[Len(s)] = Total(s)
               /\ \A n \in 0..Len(t) : h[Len(s) + n] \in Nat
               /\ \A n \in 1..Len(t) : h[Len(s) + n] = h[Len(s) + n - 1] + t[n]
    BY <1>1, TotalPrefix, Zenon
  <2> QED BY <1>1, <2>1
<1>5. score = Capped(h[a]) BY <1>4 DEF s
<1> DEFINE c == [n \in 0..b |-> Capped(h[a + n])]
<1>6. ASSUME NEW n \in 1..b PROVE c[n] = Add(c[n - 1], new[n])
  <2> DEFINE x == h[a + n - 1]
             y == new[n].impact
  <2>1. n \in 0..b /\ n - 1 \in 0..b /\ a + (n - 1) = a + n - 1 BY <1>1
  <2>2. x \in Nat /\ y \in Nat /\ h[a + n] = x + y
    BY <1>1, <1>4, <2>1
  <2>3. c[n - 1] = Capped(x) BY <2>1
  <2>4. c[n] = Capped(x + y) BY <2>1, <2>2
  <2> HIDE DEF x, c
  <2>5. Add(c[n - 1], new[n]) = IF c[n - 1] + y > 100 THEN 100 ELSE c[n - 1] + y
    BY DEF Add
  <2> HIDE DEF y
  <2> QED BY <2>2, <2>3, <2>4, <2>5 DEF Capped
<1>7. Adds(c)
  <2>1. c[0] = score
    <3>1. 0 \in 0..b /\ a + 0 = a BY <1>1
    <3> QED BY <1>5, <3>1
  <2>2. c = [n \in 0..b |-> c[n]] OBVIOUS
  <2> HIDE DEF c
  <2>3. \A n \in 0..b : c[n] = IF n = 0 THEN score ELSE Add(c[n - 1], new[n])
    <3>1. \A n \in 0..b : n = 0 \/ n \in 1..b BY <1>1
    <3> QED BY <1>6, <2>1, <3>1
  <2> QED BY <2>2, <2>3
<1>8. Adds(after)
  <2> HIDE DEF Adds, c
  <2> QED BY <1>7
<1> HIDE DEF c, after
<1>9. ASSUME NEW f, Adds(f) PROVE \A n \in 0..b : f[n] = c[n]
  <2> DEFINE S == {n \in 0..b : f[n] # c[n]}
  <2>1. SUFFICES ASSUME S # {} PROVE FALSE OBVIOUS
  <2>2. PICK n \in S : \A m \in S : n <= m
    <3>1. S \subseteq Nat OBVIOUS
    <3> HIDE DEF S
    <3> QED BY <2>1, <3>1, NatMin
  <2>3. n \in 0..b /\ f[n] # c[n] OBVIOUS
  <2>4. n # 0
    <3>1. 0 \in 0..b BY <1>1
    <3> QED BY <1>7, <1>9, <2>3, <3>1
  <2>5. n - 1 \in 0..b /\ n \in 1..b BY <1>1, <2>3, <2>4
  <2>6. f[n - 1] = c[n - 1]
    <3>1. ~(n <= n - 1) BY <2>5
    <3>2. n - 1 \notin S
      <4> HIDE DEF S
      <4> QED BY <2>2, <3>1
    <3> QED BY <2>5, <3>2
  <2>7. f[n] = Add(f[n - 1], new[n]) BY <1>9, <2>3, <2>4
  <2> QED BY <1>6, <2>3, <2>5, <2>6, <2>7
<1>10. after[b] = Capped(h[a + b])
  <2>1. b \in 0..b BY <1>1
  <2>2. after[b] = c[b]
    <3> HIDE DEF Adds
    <3> QED BY <1>8, <1>9, <2>1
  <2> QED BY <2>1, <2>2 DEF c
<1> QED BY <1>2, <1>3, <1>4, <1>10

(* A signal is reported at an event.                                       *)
LEMMA LastEvent ==
  ASSUME NEW o, NEW s \in Signals(o)
  PROVE  Last(s.events) \in DOMAIN o
<1>1. s.events \in Seq(DOMAIN o) /\ s.events # <<>> BY DEF Signals, SignalOK
<1>2. Len(s.events) \in DOMAIN s.events BY <1>1, LenProperties, EmptySeq
<1> QED BY <1>1, <1>2, ElementOfSeq, LenProperties DEF Last

(* The signals of an event are added to those there are.                   *)
LEMMA SignalsAdded ==
  ASSUME DetectorInv, NEW e \in Kinds, ordered' = Append(ordered, e),
         NEW new \in Seq(NewSignals(e)), Distinct(new), AddAll(new),
         reported \subseteq reported'
  PROVE  signals' \in Seq(Signals(ordered')) /\ KeysInv' /\ ScoreInv'
<1> DEFINE o == Append(ordered, e)
           i == Len(ordered) + 1
           S == Signals(o)
           a == Len(signals)
<1>1. /\ signals \in Seq(Signals(ordered)) /\ ordered \in Seq(Kinds)
      /\ KeysInv /\ ScoreInv
  BY DEF DetectorInv
<1>2. Signals(ordered) \subseteq S BY <1>1, SignalsStay
<1>3. signals' = signals \o new /\ ordered' = o BY DEF AddAll
<1>4. signals \in Seq(S) /\ new \in Seq(S)
  <2> HIDE DEF S
  <2>1. NewSignals(e) \subseteq S BY DEF NewSignals, S
  <2> QED BY <1>1, <1>2, <2>1
<1>5. /\ \A k \in DOMAIN ordered : o[k] = ordered[k]
      /\ i \in DOMAIN o /\ o[i] = e
  BY <1>1, Grows
<1>6. /\ \A n \in DOMAIN signals : signals[n] \in Signals(ordered)
      /\ \A n \in DOMAIN new : new[n] \in NewSignals(e)
  BY <1>1, ElementOfSeq, LenProperties
<1>7. \A n \in DOMAIN signals : KeyAt(o, signals[n]) = KeyAt(ordered, signals[n])
  BY <1>5, <1>6, LastEvent DEF KeyAt
<1>8. \A n \in DOMAIN new :
        /\ KeyAt(o, new[n]) = KeyOf(new[n].rule, e)
        /\ new[n].rule \in Keyed => KeyOf(new[n].rule, e) \in reported' \ reported
  BY <1>5, <1>6 DEF KeyAt, NewSignals
<1> HIDE DEF o, i, S, a
<1>9. /\ signals' \in Seq(S)
      /\ \A n \in DOMAIN signals : signals'[n] = signals[n]
      /\ \A n \in DOMAIN new : signals'[a + n] = new[n]
      /\ \A n \in DOMAIN signals' :
           n \in DOMAIN signals \/ \E k \in DOMAIN new : n = a + k
  BY <1>3, <1>4, Concatenated DEF a
<1>10. KeysInv'
  <2>1. \A n \in DOMAIN signals : signals[n].rule \in Keyed =>
          KeyAt(o, signals[n]) \in reported
    BY <1>1, <1>7 DEF KeysInv
  <2>2. ASSUME NEW n \in DOMAIN signals', signals'[n].rule \in Keyed
        PROVE  KeyAt(o, signals'[n]) \in reported'
    BY <1>8, <1>9, <2>1, <2>2
  <2>3. ASSUME NEW m \in DOMAIN signals', NEW n \in DOMAIN signals', m # n,
               signals'[m].rule = signals'[n].rule, signals'[n].rule \in Keyed
        PROVE  KeyAt(o, signals'[m]) # KeyAt(o, signals'[n])
    <3>1. CASE m \in DOMAIN signals /\ n \in DOMAIN signals
      BY <1>1, <1>7, <1>9, <2>3, <3>1 DEF KeysInv
    <3>2. ASSUME m \in DOMAIN signals, NEW k \in DOMAIN new, n = a + k
          PROVE  KeyAt(o, signals'[m]) # KeyAt(o, signals'[n])
      <4>1. KeyAt(o, signals'[m]) \in reported BY <1>9, <2>1, <2>3, <3>2
      <4> QED BY <1>8, <1>9, <2>3, <3>2, <4>1
    <3>3. ASSUME n \in DOMAIN signals, NEW k \in DOMAIN new, m = a + k
          PROVE  KeyAt(o, signals'[m]) # KeyAt(o, signals'[n])
      <4>1. KeyAt(o, signals'[n]) \in reported BY <1>9, <2>1, <2>3, <3>3
      <4> QED BY <1>8, <1>9, <2>3, <3>3, <4>1
    <3>4. ASSUME NEW j \in DOMAIN new, NEW k \in DOMAIN new, m = a + j, n = a + k
          PROVE  FALSE
      <4>1. signals'[m] = new[j] /\ signals'[n] = new[k] BY <1>9, <3>4
      <4>2. j # k BY <2>3, <3>4
      <4>3. new[j].rule = new[k].rule /\ new[j].rule \in Keyed BY <2>3, <4>1
      <4> QED BY <4>2, <4>3 DEF Distinct
    <3> QED BY <1>9, <3>1, <3>2, <3>3, <3>4
  <2>4. \A n \in DOMAIN signals' : signals'[n].rule \in Keyed =>
          KeyAt(ordered', signals'[n]) \in reported'
    BY <1>3, <2>2
  <2>5. \A m, n \in DOMAIN signals' :
          m # n /\ signals'[m].rule = signals'[n].rule /\ signals'[n].rule \in Keyed =>
            KeyAt(ordered', signals'[m]) # KeyAt(ordered', signals'[n])
    BY SMTT(30), <1>3, <2>3
  <2> QED BY <2>4, <2>5 DEF KeysInv
<1>11. ScoreInv'
  BY <1>1, <1>3, <1>4, ScoreAdded DEF ScoreInv, S
<1> QED BY <1>3, <1>9, <1>10, <1>11 DEF S

(* A signal about one event.                                               *)
LEMMA SingleSignal ==
  ASSUME NEW o, NEW i \in DOMAIN o, NEW r, NEW m, Single(r, m, o[i])
  PROVE  Signal(r, m, <<i>>) \in Signals(o)
<1> DEFINE s == Signal(r, m, <<i>>)
<1>1. /\ s.rule = r /\ s.impact = m /\ s.events = <<i>>
      /\ DOMAIN s.events = {1} /\ s.events[1] = i /\ s.events # <<>>
  BY DEF Signal
<1>2. s \in [rule : Rules, impact : Nat, events : Seq(DOMAIN o)] BY DEF Signal, Single
<1> HIDE DEF s
<1>3. SignalOK(o, s) BY <1>1 DEF SignalOK, Chains, Single
<1> QED BY <1>2, <1>3 DEF Signals, s

(* The rules there are.                                                    *)
LEMMA RuleNames ==
  Rules = {"web_process_spawned_shell", "shell_downloaded_file",
    "tmp_file_made_executable", "recently_downloaded_binary_executed",
    "downloaded_binary_connected_outbound", "suspicious_reverse_shell_pattern",
    "package_manager_spawned_shell", "sensitive_file_access",
    "crypto_miner_process_name", "unexpected_network_tool_execution",
    "sensitive_file_read", "persistence_path_modified", "log_tampering",
    "privilege_change_after_suspicious_activity", "namespace_escape_attempt",
    "process_memory_access", "unexpected_network_listener",
    "kernel_tamper_syscall"}
  BY DEF Rules, RuleDefinitions

(* The maps, when an event does not change them.                           *)
LEMMA MapsStay ==
  ASSUME ordered \in Seq(Kinds), MapsInv, NEW e \in Kinds,
         ordered' = Append(ordered, e), UNCHANGED <<downloads, shellProcesses>>
  PROVE  MapsInv'
<1> DEFINE n == Append(ordered, e)
<1>1. /\ DOMAIN ordered \subseteq DOMAIN n /\ \A k \in DOMAIN ordered : n[k] = ordered[k]
  BY Grows
<1>2. /\ \A b, f : Brought(ordered, b, f) => Brought(n, b, f)
      /\ \A b, p : Ran(ordered, b, p) => Ran(n, b, p)
  BY BroughtStays, RanStays
<1>3. ordered' = n OBVIOUS
<1> HIDE DEF n
<1>4. UNCHANGED <<downloadProcesses, downloadedFiles, downloadedProcessPIDs, shellProcesses>>
  BY DEF downloads
<1>5. \A b, f : Brought(ordered, b, f) => Brought(ordered', b, f) BY <1>2, <1>3
<1>6. \A b, p : Ran(ordered, b, p) => Ran(ordered', b, p) BY <1>2, <1>3
<1> QED BY <1>1, <1>3, <1>4, <1>5, <1>6 DEF MapsInv

(* A step that changes no map and makes signals of its event alone.        *)
LEMMA PlainStep ==
  ASSUME DetectorInv, NEW e \in Kinds, ordered' = Append(ordered, e),
         UNCHANGED <<downloads, shellProcesses>>,
         NEW new \in Seq(NewSignals(e)), Distinct(new), AddAll(new),
         reported \subseteq reported'
  PROVE  DetectorInv'
<1>1. signals' \in Seq(Signals(ordered')) /\ KeysInv' /\ ScoreInv'
  BY SignalsAdded
<1>2. MapsInv' BY MapsStay DEF DetectorInv
<1>3. ordered' \in Seq(Kinds) BY Grows DEF DetectorInv
<1> QED BY <1>1, <1>2, <1>3 DEF DetectorInv

-----------------------------------------------------------------------------
(* A signal about the event of the step, and no other.                     *)
LEMMA NewSingle ==
  ASSUME DetectorInv, NEW e \in Kinds, NEW r, NEW m, Single(r, m, e),
         r \in Keyed => KeyOf(r, e) \in reported' \ reported
  PROVE  Signal(r, m, <<Len(ordered) + 1>>) \in NewSignals(e)
<1> DEFINE n == Append(ordered, e)
           i == Len(ordered) + 1
           s == Signal(r, m, <<i>>)
<1>1. i \in DOMAIN n /\ n[i] = e BY Grows DEF DetectorInv
<1>2. s \in Signals(n)
  <2> HIDE DEF n, i
  <2> QED BY <1>1, SingleSignal
<1>3. s.rule = r /\ s.events = <<i>> /\ Last(<<i>>) = i BY DEF Signal, Last
<1> HIDE DEF s
<1> QED BY <1>2, <1>3 DEF NewSignals, s

(* What the rules that report once for a key list, and the keys they keep. *)
LEMMA OnceSignals ==
  ASSUME DetectorInv, NEW e \in Kinds, NEW c, NEW r, NEW m,
         c => Single(r, m, e),
         Once(KeyOf(r, e), c, Signal(r, m, <<Len(ordered) + 1>>))
  PROVE  \E new : /\ new \in Seq(NewSignals(e)) /\ Distinct(new) /\ AddAll(new)
                  /\ reported \subseteq reported'
<1> DEFINE key == KeyOf(r, e)
           fresh == c /\ key \notin reported
           s == Signal(r, m, <<Len(ordered) + 1>>)
           new == When(fresh, s)
<1>1. /\ AddAll(new)
      /\ reported' = IF fresh THEN reported \union {key} ELSE reported
  BY DEF Once
<1>2. fresh => s \in NewSignals(e) BY <1>1, NewSingle
<1> HIDE DEF fresh, s
<1>3. new \in Seq(NewSignals(e)) BY <1>2, WhenSignals
<1>4. Distinct(new) BY DEF When, Distinct
<1>5. reported \subseteq reported' BY <1>1
<1> QED BY <1>1, <1>3, <1>4, <1>5

(* The rules that report once for a key.                                   *)
LEMMA OnceStep ==
  ASSUME DetectorInv, NEW e \in Kinds, ordered' = Append(ordered, e),
         UNCHANGED <<downloads, shellProcesses>>, NEW c, NEW r, NEW m,
         c => Single(r, m, e),
         Once(KeyOf(r, e), c, Signal(r, m, <<Len(ordered) + 1>>))
  PROVE  DetectorInv'
<1>1. PICK new : /\ new \in Seq(NewSignals(e)) /\ Distinct(new) /\ AddAll(new)
                 /\ reported \subseteq reported'
  BY OnceSignals
<1> QED BY <1>1, PlainStep

(* An event that is no file_write counts if it did not fail.               *)
LEMMA Plain ==
  ASSUME NEW e, mutationSucceeded(e), e.type # "file_write" PROVE Counts(e)
  BY DEF Counts

(* The cases of the switch that only use Once.                             *)
LEMMA OnceCases ==
  ASSUME DetectorInv, NEW e \in Kinds, ordered' = Append(ordered, e),
         UNCHANGED <<downloads, shellProcesses>>,
         LET i == Len(ordered) + 1 IN
         \/ e.type = "sensitive_read" /\ SensitiveRead(e, i)
         \/ e.type = "privilege_change" /\ PrivilegeChange(e, i)
         \/ e.type = "namespace_change" /\ NamespaceChange(e, i)
         \/ e.type = "process_access" /\ ProcessAccess(e, i)
         \/ e.type = "network_server" /\ NetworkServer(e, i)
         \/ e.type = "kernel_tamper" /\ KernelTamper(e, i)
  PROVE  DetectorInv'
<1> DEFINE i == Len(ordered) + 1
           ok == mutationSucceeded(e)
<1>1. CASE e.type = "sensitive_read" /\ SensitiveRead(e, i)
  <2> DEFINE r == "sensitive_file_read"
  <2>1. Single(r, 25, e)
    BY <1>1 DEF Single, Rules, Chains, Attempts, RuleDefinitions, Rule
  <2>2. KeyOf(r, e) = <<r, e.pid, e.path>> BY DEF KeyOf
  <2> QED BY <1>1, <2>1, <2>2, OnceStep DEF SensitiveRead
<1>2. CASE e.type = "kernel_tamper" /\ KernelTamper(e, i)
  <2> DEFINE r == "kernel_tamper_syscall"
  <2>1. Single(r, 50, e)
    BY <1>2 DEF Single, Rules, Chains, Attempts, RuleDefinitions, Rule
  <2>2. KeyOf(r, e) = <<r, e.pid, e.call>> BY DEF KeyOf
  <2> QED BY <1>2, <2>1, <2>2, OnceStep DEF KernelTamper
<1>3. CASE e.type = "privilege_change" /\ PrivilegeChange(e, i)
  <2> DEFINE r == "privilege_change_after_suspicious_activity"
  <2>1. ok => Single(r, 35, e)
    BY <1>3, Plain DEF Single, Rules, Chains, RuleDefinitions, Rule
  <2>2. KeyOf(r, e) = <<r, e.pid>> BY DEF KeyOf
  <2> QED BY <1>3, <2>1, <2>2, OnceStep DEF PrivilegeChange
<1>4. CASE e.type = "namespace_change" /\ NamespaceChange(e, i)
  <2> DEFINE r == "namespace_escape_attempt"
  <2>1. ok => Single(r, 40, e)
    BY <1>4, Plain DEF Single, Rules, Chains, RuleDefinitions, Rule
  <2>2. KeyOf(r, e) = <<r, e.pid>> BY DEF KeyOf
  <2> QED BY <1>4, <2>1, <2>2, OnceStep DEF NamespaceChange
<1>5. CASE e.type = "process_access" /\ ProcessAccess(e, i)
  <2> DEFINE r == "process_memory_access"
  <2>1. ok => Single(r, 35, e)
    BY <1>5, Plain DEF Single, Rules, Chains, RuleDefinitions, Rule
  <2>2. KeyOf(r, e) = <<r, e.pid, e.call>> BY DEF KeyOf
  <2> QED BY <1>5, <2>1, <2>2, OnceStep DEF ProcessAccess
<1>6. CASE e.type = "network_server" /\ NetworkServer(e, i)
  <2> DEFINE r == "unexpected_network_listener"
  <2>1. ok => Single(r, 30, e)
    BY <1>6, Plain DEF Single, Rules, Chains, RuleDefinitions, Rule
  <2>2. KeyOf(r, e) = <<r, e.pid, e.port>> BY DEF KeyOf
  <2> QED BY <1>6, <2>1, <2>2, OnceStep DEF NetworkServer
<1> QED BY <1>1, <1>2, <1>3, <1>4, <1>5, <1>6

(* Up to two signals, of different rules.                                  *)
LEMMA PairSignals ==
  ASSUME NEW S, NEW c, NEW s, c => s \in S, NEW d, NEW u, d => u \in S,
         s.rule # u.rule
  PROVE  /\ When(c, s) \o When(d, u) \in Seq(S)
         /\ Distinct(When(c, s) \o When(d, u))
<1> DEFINE v == When(c, s)
           w == When(d, u)
           new == v \o w
<1>1. v \in Seq(S) /\ w \in Seq(S) BY WhenSignals
<1>2. /\ \A k \in DOMAIN v : k = 1 /\ v[k] = s
      /\ \A k \in DOMAIN w : k = 1 /\ w[k] = u
  BY DEF When
<1> HIDE DEF v, w
<1>3. /\ new \in Seq(S)
      /\ \A n \in DOMAIN v : new[n] = v[n]
      /\ \A n \in DOMAIN w : new[Len(v) + n] = w[n]
      /\ \A n \in DOMAIN new :
           n \in DOMAIN v \/ \E k \in DOMAIN w : n = Len(v) + k
  BY <1>1, Concatenated
<1> HIDE DEF new
<1>4. \A n \in DOMAIN new :
        (n = 1 /\ new[n] = s) \/ (n = Len(v) + 1 /\ new[n] = u)
  BY <1>2, <1>3
<1>5. Distinct(new)
  <2> SUFFICES ASSUME NEW m \in DOMAIN new, NEW n \in DOMAIN new, m # n,
                      new[m].rule = new[n].rule
               PROVE  FALSE
    BY DEF Distinct
  <2>1. (m = 1 /\ new[m] = s) \/ (m = Len(v) + 1 /\ new[m] = u) BY <1>4
  <2>2. (n = 1 /\ new[n] = s) \/ (n = Len(v) + 1 /\ new[n] = u) BY <1>4
  <2> QED BY <2>1, <2>2
<1>6. new \in Seq(S) /\ Distinct(new) BY <1>3, <1>5
<1> QED BY <1>6 DEF new, v, w

(* chmod and the changes of files.                                         *)
LEMMA FileCases ==
  ASSUME DetectorInv, NEW e \in Kinds, ordered' = Append(ordered, e),
         UNCHANGED <<downloads, shellProcesses>>,
         LET i == Len(ordered) + 1 IN
         \/ e.type = "file_lifecycle" /\ FileLifecycle(e, i)
         \/ e.type = "chmod" /\ Chmod(e, i)
  PROVE  DetectorInv'
<1> DEFINE i == Len(ordered) + 1
<1>1. CASE e.type = "chmod" /\ Chmod(e, i)
  <2> DEFINE c == mutationSucceeded(e) /\ e.path \in TempPaths /\ e.call = "addx"
             r == "tmp_file_made_executable"
             s == Signal(r, 20, <<i>>)
  <2>1. r \notin Keyed BY DEF Keyed
  <2>2. c => Single(r, 20, e)
    BY <1>1, Plain DEF Single, Rules, Chains, RuleDefinitions, Rule
  <2> HIDE DEF r
  <2>3. c => s \in NewSignals(e) BY <2>1, <2>2, NewSingle
  <2>4. AddAll(When(c, s)) /\ reported' = reported BY <1>1 DEF Chmod, r
  <2> HIDE DEF c, s
  <2>5. When(c, s) \in Seq(NewSignals(e)) BY <2>3, WhenSignals
  <2>6. Distinct(When(c, s)) BY DEF When, Distinct
  <2> QED BY <2>4, <2>5, <2>6, PlainStep
<1>2. CASE e.type = "file_lifecycle" /\ FileLifecycle(e, i)
  <2> DEFINE q == "persistence_path_modified"
             r == "log_tampering"
             persists == <<q, e.call, e.path>>
             tampers == <<r, e.call, e.path>>
             first == /\ mutationSucceeded(e) /\ e.path \in PersistencePaths
                      /\ persists \notin reported
             second == /\ mutationSucceeded(e) /\ e.path \in LogPaths
                       /\ isLogTamperAction(e.call) /\ tampers \notin reported
             s == Signal(q, 35, <<i>>)
             u == Signal(r, 40, <<i>>)
  <2>1. /\ AddAll(When(first, s) \o When(second, u))
        /\ reported' = reported \union (IF first THEN {persists} ELSE {})
                                \union (IF second THEN {tampers} ELSE {})
    BY <1>2 DEF FileLifecycle
  <2>2. /\ mutationSucceeded(e) => Single(q, 35, e) /\ Single(r, 40, e)
    BY <1>2, Plain DEF Single, Rules, Chains, RuleDefinitions, Rule
  <2>3. KeyOf(q, e) = persists /\ KeyOf(r, e) = tampers BY DEF KeyOf
  <2>4. s.rule # u.rule BY DEF Signal
  <2>5. /\ first => mutationSucceeded(e) /\ persists \notin reported
        /\ second => mutationSucceeded(e) /\ tampers \notin reported
    OBVIOUS
  <2> HIDE DEF first, second, persists, tampers, q, r
  <2>6. (first => s \in NewSignals(e)) /\ (second => u \in NewSignals(e))
    BY <2>1, <2>2, <2>3, <2>5, NewSingle
  <2> HIDE DEF s, u
  <2>7. /\ When(first, s) \o When(second, u) \in Seq(NewSignals(e))
        /\ Distinct(When(first, s) \o When(second, u))
    BY <2>4, <2>6, PairSignals
  <2>8. reported \subseteq reported' BY <2>1
  <2> QED BY <2>1, <2>7, <2>8, PlainStep
<1> QED BY <1>1, <1>2

(* Evidence and the event it leads to.                                     *)
LEMMA AppendPlaces ==
  ASSUME NEW P, NEW T, T \subseteq P, NEW b \in Seq(P), NEW i \in T,
         \A k \in DOMAIN b : b[k] \in T
  PROVE  /\ Append(b, i) \in Seq(P) /\ Append(b, i) # <<>> /\ Last(Append(b, i)) = i
         /\ \A k \in DOMAIN Append(b, i) : Append(b, i)[k] \in T
<1> DEFINE a == Append(b, i)
<1>1. /\ Len(b) \in Nat /\ DOMAIN b = 1..Len(b) /\ a \in Seq(P)
      /\ Len(a) = Len(b) + 1 /\ DOMAIN a = 1..Len(b) + 1
      /\ \A k \in 1..Len(b) : a[k] = b[k]
      /\ a[Len(b) + 1] = i
  BY AppendProperties, LenProperties
<1>2. ASSUME NEW k \in 1..Len(b) + 1 PROVE k \in 1..Len(b) \/ k = Len(b) + 1
  BY <1>1
<1> HIDE DEF a
<1>3. a # <<>> /\ Last(a) = i BY <1>1 DEF Last
<1> QED BY <1>1, <1>2, <1>3 DEF a

(* connect: evidence are the chain of the process, or its shell.           *)
LEMMA ConnectStep ==
  ASSUME DetectorInv, NEW e \in Kinds, ordered' = Append(ordered, e),
         UNCHANGED <<downloads, shellProcesses>>,
         e.type = "connect", Connect(e, Len(ordered) + 1)
  PROVE  DetectorInv'
<1> DEFINE n == Append(ordered, e)
           i == Len(ordered) + 1
           b == downloadedProcessPIDs[e.pid]
           q == "downloaded_binary_connected_outbound"
           r == "suspicious_reverse_shell_pattern"
           key == <<r, e.pid, e.port>>
           linked == mutationSucceeded(e) /\ downloadedProcessPIDs[e.pid] # <<>>
           shell == /\ mutationSucceeded(e) /\ isShellConnection(e)
                    /\ isUnusualOutboundPort(e.port) /\ key \notin reported
           origin == IF shellProcesses[e.pid] # 0 THEN <<shellProcesses[e.pid]>>
                                                  ELSE <<>>
           s == Signal(q, 35, Append(b, i))
           u == Signal(r, 50, Append(origin, i))
           OfType(types) == {k \in DOMAIN n : Counts(n[k]) /\ n[k].type \in types}
<1>1. /\ n \in Seq(Kinds) /\ i \in DOMAIN n /\ n[i] = e
      /\ DOMAIN ordered \subseteq DOMAIN n
      /\ \A k \in DOMAIN ordered : n[k] = ordered[k]
  BY Grows DEF DetectorInv
<1>2. e.pid \in Pids BY KindsAssumption DEF KindsAssumption
<1>3. mutationSucceeded(e) => Counts(e) BY Plain
<1>4. /\ AddAll(When(linked, s) \o When(shell, u))
      /\ reported' = IF shell THEN reported \union {key} ELSE reported
  BY DEF Connect
<1>5. b # <<>> => Ran(n, b, e.pid)
  <2>1. b # <<>> => Ran(ordered, b, e.pid) BY <1>2 DEF DetectorInv, MapsInv
  <2> HIDE DEF b
  <2> QED BY <2>1, RanStays DEF DetectorInv
<1>6. /\ origin \in Seq(DOMAIN n)
      /\ \A k \in DOMAIN origin : origin[k] \in OfType({"execve"})
  <2> DEFINE p == shellProcesses[e.pid]
  <2>1. CASE p # 0
    <3>1. p \in DOMAIN ordered /\ ordered[p].type = "execve"
      BY <1>2, <2>1 DEF DetectorInv, MapsInv
    <3>2. n[p] \in Kinds /\ n[p].type = "execve"
      BY <1>1, <3>1, ElementOfSeq, LenProperties DEF DetectorInv
    <3>3. Counts(n[p]) BY <3>2, KindsAssumption DEF KindsAssumption, Counts
    <3>4. p \in DOMAIN n /\ origin = <<p>> BY <1>1, <2>1, <3>1
    <3> HIDE DEF p, origin, n
    <3>5. p \in OfType({"execve"}) BY <3>2, <3>3, <3>4
    <3> QED BY <3>4, <3>5
  <2>2. CASE p = 0 BY <2>2
  <2> QED BY <2>1, <2>2
<1>7. KeyOf(r, e) = key /\ q \notin Keyed BY DEF KeyOf, Keyed
<1> HIDE DEF n, i, b, origin
<1>8. linked => s \in NewSignals(e)
  <2> SUFFICES ASSUME mutationSucceeded(e), b # <<>> PROVE s \in NewSignals(e)
    BY DEF b
  <2> DEFINE evs == Append(b, i)
             T == OfType({"execve", "file_write", "connect"})
  <2>1. Ran(n, b, n[i].pid) BY <1>1, <1>5
  <2>2. b \in Seq(DOMAIN n) /\ \A k \in DOMAIN b : b[k] \in T
    BY <1>1, <2>1, RanPlaces DEF Link
  <2>3. i \in T /\ T \subseteq DOMAIN n BY <1>1, <1>3
  <2> HIDE DEF T
  <2>4. /\ evs \in Seq(DOMAIN n) /\ evs # <<>> /\ Last(evs) = i
        /\ \A k \in DOMAIN evs : evs[k] \in T
    BY <2>2, <2>3, AppendPlaces
  <2>5. \E x : \E c \in DOMAIN n : evs = Append(x, c) /\ Ran(n, x, n[c].pid)
    BY <1>1, <2>1
  <2>6. s.rule = q /\ s.impact = 35 /\ s.events = evs BY DEF Signal
  <2>7. s \in [rule : Rules, impact : Nat, events : Seq(DOMAIN n)]
    <3> HIDE DEF evs
    <3> QED BY <2>4, RuleNames DEF Signal, evs
  <2>8. /\ RuleDefinitions[q].impact = 35
        /\ RuleDefinitions[q].collectors = {"execve", "file_write", "connect"}
    BY DEF RuleDefinitions, Rule
  <2> HIDE DEF s, evs
  <2>9. SignalOK(n, s) BY <2>4, <2>5, <2>6, <2>8 DEF SignalOK, T
  <2> QED BY <1>7, <2>4, <2>6, <2>7, <2>9 DEF Signals, NewSignals, n, i
<1>9. shell => u \in NewSignals(e)
  <2> SUFFICES ASSUME shell PROVE u \in NewSignals(e) OBVIOUS
  <2> DEFINE evs == Append(origin, i)
             T == OfType({"execve", "connect"})
  <2>1. i \in T /\ T \subseteq DOMAIN n /\ OfType({"execve"}) \subseteq T BY <1>1, <1>3
  <2> HIDE DEF T, OfType
  <2>2. /\ evs \in Seq(DOMAIN n) /\ evs # <<>> /\ Last(evs) = i
        /\ \A k \in DOMAIN evs : evs[k] \in T
    BY <1>6, <2>1, AppendPlaces
  <2> HIDE DEF evs
  <2>3. u.rule = r /\ u.impact = 50 /\ u.events = evs BY DEF Signal, evs
  <2>4. u \in [rule : Rules, impact : Nat, events : Seq(DOMAIN n)]
    BY <2>2, RuleNames DEF Signal, evs
  <2>5. /\ RuleDefinitions[r].impact = 50
        /\ RuleDefinitions[r].collectors = {"execve", "connect"}
    BY DEF RuleDefinitions, Rule
  <2>6. KeyOf(r, e) \in reported' \ reported BY <1>4, <1>7
  <2> HIDE DEF u
  <2>7. SignalOK(n, u) BY <2>2, <2>3, <2>5 DEF SignalOK, T, OfType
  <2> QED BY <2>2, <2>3, <2>4, <2>6, <2>7 DEF Signals, NewSignals, n, i
<1>10. s.rule # u.rule BY DEF Signal
<1> HIDE DEF linked, shell, s, u
<1>11. /\ When(linked, s) \o When(shell, u) \in Seq(NewSignals(e))
       /\ Distinct(When(linked, s) \o When(shell, u))
  BY <1>8, <1>9, <1>10, PairSignals
<1>12. reported \subseteq reported' BY <1>4
<1> QED BY <1>4, <1>11, <1>12, PlainStep

(* What the maps say of the events so far, with one more event.            *)
LEMMA OldMaps ==
  ASSUME DetectorInv, NEW e \in Kinds, NEW n, n = Append(ordered, e)
  PROVE  /\ \A p \in Pids : LET d == downloadProcesses[p] IN
              d # 0 => /\ d \in DOMAIN ordered /\ d \in DOMAIN n
                       /\ IsDownload(n[d]) /\ n[d].pid = p
         /\ \A f \in Paths : downloadedFiles[f] # <<>> =>
              Brought(n, downloadedFiles[f], f)
         /\ \A p \in Pids : downloadedProcessPIDs[p] # <<>> =>
              Ran(n, downloadedProcessPIDs[p], p)
         /\ \A p \in Pids : shellProcesses[p] # 0 =>
              shellProcesses[p] \in DOMAIN n /\ n[shellProcesses[p]].type = "execve"
<1>1. /\ DOMAIN ordered \subseteq DOMAIN n
      /\ \A k \in DOMAIN ordered : n[k] = ordered[k]
  BY Grows DEF DetectorInv
<1>2. /\ \A b, f : Brought(ordered, b, f) => Brought(n, b, f)
      /\ \A b, p : Ran(ordered, b, p) => Ran(n, b, p)
  BY BroughtStays, RanStays DEF DetectorInv
<1> QED BY <1>1, <1>2 DEF DetectorInv, MapsInv

(* The maps of the detector after an event, entry by entry.                *)
LEMMA NewMaps ==
  ASSUME NEW n, ordered' = n,
         downloadProcesses' = [p \in Pids |-> downloadProcesses'[p]],
         \A p \in Pids : LET d == downloadProcesses'[p] IN
           d # 0 => d \in DOMAIN n /\ IsDownload(n[d]) /\ n[d].pid = p,
         downloadedFiles' = [f \in Paths |-> downloadedFiles'[f]],
         \A f \in Paths : downloadedFiles'[f] # <<>> =>
           Brought(n, downloadedFiles'[f], f),
         downloadedProcessPIDs' = [p \in Pids |-> downloadedProcessPIDs'[p]],
         \A p \in Pids : downloadedProcessPIDs'[p] # <<>> =>
           Ran(n, downloadedProcessPIDs'[p], p),
         shellProcesses' = [p \in Pids |-> shellProcesses'[p]],
         \A p \in Pids : shellProcesses'[p] # 0 =>
           shellProcesses'[p] \in DOMAIN n /\ n[shellProcesses'[p]].type = "execve"
  PROVE  MapsInv'
<1>1. \A f \in Paths : downloadedFiles'[f] # <<>> =>
        Brought(ordered', downloadedFiles'[f], f)
  OBVIOUS
<1>2. \A p \in Pids : downloadedProcessPIDs'[p] # <<>> =>
        Ran(ordered', downloadedProcessPIDs'[p], p)
  OBVIOUS
<1> QED BY <1>1, <1>2 DEF MapsInv

(* file_write: a file is brought by a write of the process that downloads. *)
LEMMA FileWriteStep ==
  ASSUME DetectorInv, NEW e \in Kinds, ordered' = Append(ordered, e),
         e.type = "file_write", FileWrite(e, Len(ordered) + 1),
         UNCHANGED shellProcesses
  PROVE  DetectorInv'
<1> DEFINE n == Append(ordered, e)
           i == Len(ordered) + 1
           d == downloadProcesses[e.pid]
           c == fileWriteChanged(e) /\ e.path \in SensitiveFiles
           r == "sensitive_file_access"
<1>1. /\ n \in Seq(Kinds) /\ i \in DOMAIN n /\ n[i] = e
      /\ \A k \in DOMAIN ordered : k <= i
  BY Grows DEF DetectorInv
<1>2. e.pid \in Pids /\ e.path \in Paths \union {NoPath}
  BY KindsAssumption DEF KindsAssumption
<1>3. fileWriteChanged(e) => Counts(e) BY DEF fileWriteChanged, Counts
<1>4. signals' \in Seq(Signals(ordered')) /\ KeysInv' /\ ScoreInv'
  <2>1. c => Single(r, 35, e)
    BY <1>3 DEF Single, Rules, Chains, RuleDefinitions, Rule
  <2>2. KeyOf(r, e) = <<r, e.path>> BY DEF KeyOf
  <2>3. Once(KeyOf(r, e), c, Signal(r, 35, <<i>>)) BY <2>2 DEF FileWrite
  <2>4. PICK new : /\ new \in Seq(NewSignals(e)) /\ Distinct(new) /\ AddAll(new)
                   /\ reported \subseteq reported'
    BY <2>1, <2>3, OnceSignals
  <2> QED BY <2>4, SignalsAdded
<1>5. /\ \A p \in Pids : LET k == downloadProcesses[p] IN
           k # 0 => /\ k \in DOMAIN ordered /\ k \in DOMAIN n
                    /\ IsDownload(n[k]) /\ n[k].pid = p
      /\ \A f \in Paths : downloadedFiles[f] # <<>> => Brought(n, downloadedFiles[f], f)
      /\ \A p \in Pids : downloadedProcessPIDs[p] # <<>> =>
           Ran(n, downloadedProcessPIDs[p], p)
      /\ \A p \in Pids : shellProcesses[p] # 0 =>
           shellProcesses[p] \in DOMAIN n /\ n[shellProcesses[p]].type = "execve"
  BY OldMaps
<1>6. /\ downloadedFiles' = [f \in Paths |-> downloadedFiles'[f]]
      /\ \A f \in Paths : downloadedFiles'[f] # <<>> => Brought(n, downloadedFiles'[f], f)
  <2> DEFINE w == fileWriteChanged(e) /\ d # 0 /\ e.path # NoPath
  <2>1. downloadedFiles' = IF w THEN [downloadedFiles EXCEPT ![e.path] = <<d, i>>]
                                ELSE downloadedFiles
    BY DEF FileWrite
  <2>2. downloadedFiles = [f \in Paths |-> downloadedFiles[f]]
    BY DEF DetectorInv, MapsInv
  <2>3. w => Brought(n, <<d, i>>, e.path)
    <3> SUFFICES ASSUME fileWriteChanged(e), d # 0 PROVE Brought(n, <<d, i>>, e.path)
      OBVIOUS
    <3>1. d \in DOMAIN n /\ d <= i /\ IsDownload(n[d]) /\ n[d].pid = e.pid
      BY <1>1, <1>2, <1>5
    <3> HIDE DEF n, i, d
    <3> QED BY <1>1, <3>1 DEF Brought
  <2>4. w => e.path \in Paths BY <1>2
  <2> HIDE DEF w, n, i, d
  <2> QED BY <1>5, <2>1, <2>2, <2>3, <2>4
<1>7. UNCHANGED <<downloadProcesses, downloadedProcessPIDs, shellProcesses>>
  BY DEF FileWrite
<1>8. MapsInv'
  <2>1. ordered' = n OBVIOUS
  <2> HIDE DEF n
  <2>2. /\ downloadProcesses' = [p \in Pids |-> downloadProcesses'[p]]
        /\ downloadedProcessPIDs' = [p \in Pids |-> downloadedProcessPIDs'[p]]
        /\ shellProcesses' = [p \in Pids |-> shellProcesses'[p]]
    BY <1>7 DEF DetectorInv, MapsInv
  <2>3. /\ \A p \in Pids : LET k == downloadProcesses'[p] IN
             k # 0 => k \in DOMAIN n /\ IsDownload(n[k]) /\ n[k].pid = p
        /\ \A p \in Pids : downloadedProcessPIDs'[p] # <<>> =>
             Ran(n, downloadedProcessPIDs'[p], p)
        /\ \A p \in Pids : shellProcesses'[p] # 0 =>
             shellProcesses'[p] \in DOMAIN n /\ n[shellProcesses'[p]].type = "execve"
    BY <1>5, <1>7
  <2> QED BY <1>6, <2>1, <2>2, <2>3, NewMaps
<1> QED BY <1>1, <1>4, <1>8 DEF DetectorInv

(* execve: shells, downloads, and the execution of what was downloaded.    *)
LEMMA ExecveStep ==
  ASSUME DetectorInv, NEW e \in Kinds, ordered' = Append(ordered, e),
         e.type = "execve", Execve(e, Len(ordered) + 1)
  PROVE  DetectorInv'
<1> DEFINE n == Append(ordered, e)
           i == Len(ordered) + 1
           S == {s \in NewSignals(e) : s.rule \notin Keyed}
           isShell == e.name = "shell"
           fetches == e.name = "download" /\ e.parent = "shell"
           files == IF fetches /\ e.output # NoPath
                      THEN [downloadedFiles EXCEPT ![e.output] = <<i>>]
                      ELSE downloadedFiles
           origin == IF e.exec \in Paths THEN files[e.exec] ELSE <<>>
           evs == Append(origin, i)
           ran == Signal("recently_downloaded_binary_executed", 30, evs)
           c1 == isShell /\ e.parent = "web"
           s1 == Signal("web_process_spawned_shell", 30, <<i>>)
           c2 == isShell /\ e.parent = "package"
           s2 == Signal("package_manager_spawned_shell", 5, <<i>>)
           s3 == Signal("shell_downloaded_file", 20, <<i>>)
           s5 == Signal("crypto_miner_process_name", 35, <<i>>)
           c6 == isUnexpectedNetworkToolExecution(e)
           s6 == Signal("unexpected_network_tool_execution", 20, <<i>>)
<1>1. /\ n \in Seq(Kinds) /\ i \in DOMAIN n /\ n[i] = e /\ i \in Nat \ {0}
      /\ \A k \in DOMAIN n : k <= i
  <2>1. DOMAIN n = 1..i BY AppendProperties, LenProperties DEF DetectorInv
  <2>2. n \in Seq(Kinds) /\ i \in DOMAIN n /\ n[i] = e /\ i \in Nat \ {0}
    BY Grows DEF DetectorInv
  <2> HIDE DEF i, n
  <2> QED BY <2>1, <2>2
<1>2. /\ e.pid \in Pids /\ e.output \in Paths \union {NoPath}
      /\ mutationSucceeded(e)
  BY KindsAssumption DEF KindsAssumption
<1>3. Counts(e) BY <1>2, Plain
<1>4. /\ \A p \in Pids : LET k == downloadProcesses[p] IN
           k # 0 => /\ k \in DOMAIN ordered /\ k \in DOMAIN n
                    /\ IsDownload(n[k]) /\ n[k].pid = p
      /\ \A f \in Paths : downloadedFiles[f] # <<>> => Brought(n, downloadedFiles[f], f)
      /\ \A p \in Pids : downloadedProcessPIDs[p] # <<>> =>
           Ran(n, downloadedProcessPIDs[p], p)
      /\ \A p \in Pids : shellProcesses[p] # 0 =>
           shellProcesses[p] \in DOMAIN n /\ n[shellProcesses[p]].type = "execve"
  BY OldMaps
<1>5. fetches => IsDownload(n[i]) BY <1>1 DEF IsDownload
<1>6. /\ downloadedFiles' = files
      /\ shellProcesses' = IF isShell THEN [shellProcesses EXCEPT ![e.pid] = i]
                                      ELSE shellProcesses
      /\ downloadProcesses' =
           IF fetches THEN [downloadProcesses EXCEPT ![e.pid] = i]
                      ELSE downloadProcesses
      /\ downloadedProcessPIDs' =
           IF origin # <<>> THEN [downloadedProcessPIDs EXCEPT ![e.pid] = evs]
                            ELSE downloadedProcessPIDs
  BY DEF Execve
<1>7. AddAll(When(c1, s1) \o When(c2, s2) \o When(fetches, s3)
             \o When(origin # <<>>, ran) \o When(e.miner, s5) \o When(c6, s6))
  BY DEF Execve
<1>8. ordered' = n OBVIOUS
<1>9. /\ downloadProcesses = [p \in Pids |-> downloadProcesses[p]]
      /\ downloadedFiles = [f \in Paths |-> downloadedFiles[f]]
      /\ downloadedProcessPIDs = [p \in Pids |-> downloadedProcessPIDs[p]]
      /\ shellProcesses = [p \in Pids |-> shellProcesses[p]]
      /\ ordered \in Seq(Kinds) /\ signals \in Seq(Signals(ordered))
  BY DEF DetectorInv, MapsInv
<1> HIDE DEF n, i, evs, isShell, fetches, c1, c2, c6
<1>10. /\ files = [f \in Paths |-> files[f]]
       /\ \A f \in Paths : files[f] # <<>> => Brought(n, files[f], f)
  <2>1. fetches /\ e.output # NoPath => e.output \in Paths BY <1>2
  <2>2. fetches => Brought(n, <<i>>, e.output) BY <1>1, <1>5 DEF Brought
  <2> QED BY <1>4, <1>9, <2>1, <2>2
<1>11. origin # <<>> => Brought(n, origin, e.exec) BY <1>10
<1> HIDE DEF files, origin
<1>12. origin # <<>> => Ran(n, evs, e.pid) /\ Last(evs) = i
  <2> SUFFICES ASSUME origin # <<>> PROVE Ran(n, evs, e.pid) /\ Last(evs) = i OBVIOUS
  <2>1. /\ origin \in Seq(DOMAIN n)
        /\ \A k \in DOMAIN origin : origin[k] \in DOMAIN n
    BY <1>1, <1>11, BroughtPlaces
  <2>2. \A k \in DOMAIN origin : origin[k] <= i BY <1>1, <2>1
  <2>3. Ran(n, evs, e.pid) BY <1>1, <1>11, <2>1, <2>2 DEF Ran, evs
  <2>4. Last(evs) = i BY <1>1, <2>1, FrontOfAppend DEF evs
  <2> QED BY <2>3, <2>4
<1>13. origin # <<>> => ran \in S
  <2> SUFFICES ASSUME origin # <<>> PROVE ran \in S OBVIOUS
  <2> DEFINE r == "recently_downloaded_binary_executed"
  <2>1. /\ evs \in Seq(DOMAIN n) /\ evs # <<>>
        /\ \A k \in DOMAIN evs : evs[k] \in DOMAIN n /\ Link(n[evs[k]])
    BY <1>1, <1>12, RanPlaces
  <2>2. ran.rule = r /\ ran.impact = 30 /\ ran.events = evs BY DEF Signal
  <2>3. ran \in [rule : Rules, impact : Nat, events : Seq(DOMAIN n)]
    BY <2>1, RuleNames DEF Signal
  <2>4. /\ RuleDefinitions[r].impact = 30 /\ r \notin Keyed
        /\ RuleDefinitions[r].collectors = {"execve", "file_write"}
    BY DEF RuleDefinitions, Rule, Keyed
  <2> HIDE DEF ran
  <2>5. SignalOK(n, ran) BY <1>12, <2>1, <2>2, <2>4 DEF SignalOK, Link
  <2> QED BY <1>12, <2>2, <2>3, <2>4, <2>5 DEF Signals, NewSignals, n, i
<1>14. s1 \in S /\ s2 \in S /\ s3 \in S /\ s5 \in S /\ s6 \in S
  <2>1. /\ Single("web_process_spawned_shell", 30, e)
        /\ Single("package_manager_spawned_shell", 5, e)
        /\ Single("shell_downloaded_file", 20, e)
        /\ Single("crypto_miner_process_name", 35, e)
        /\ Single("unexpected_network_tool_execution", 20, e)
    BY <1>3 DEF Single, Rules, Chains, RuleDefinitions, Rule
  <2>2. ASSUME NEW r, NEW m, Single(r, m, e), r \notin Keyed
        PROVE  Signal(r, m, <<i>>) \in S
    <3>1. Signal(r, m, <<i>>) \in NewSignals(e) BY <2>2, NewSingle DEF i
    <3> QED BY <2>2, <3>1 DEF Signal
  <2>3. {"web_process_spawned_shell", "package_manager_spawned_shell",
         "shell_downloaded_file", "crypto_miner_process_name",
         "unexpected_network_tool_execution"} \intersect Keyed = {}
    BY DEF Keyed
  <2> HIDE DEF S
  <2> QED BY <2>1, <2>2, <2>3
<1>15. signals' \in Seq(Signals(ordered')) /\ KeysInv' /\ ScoreInv'
  <2> DEFINE w1 == When(c1, s1)
             w2 == When(c2, s2)
             w3 == When(fetches, s3)
             w4 == When(origin # <<>>, ran)
             w5 == When(e.miner, s5)
             w6 == When(c6, s6)
             new == w1 \o w2 \o w3 \o w4 \o w5 \o w6
  <2> HIDE DEF S, s1, s2, s3, ran, s5, s6
  <2>1. /\ w1 \in Seq(S) /\ w2 \in Seq(S) /\ w3 \in Seq(S)
        /\ w4 \in Seq(S) /\ w5 \in Seq(S) /\ w6 \in Seq(S)
    BY <1>13, <1>14, WhenSignals
  <2>2. AddAll(new) BY <1>7
  <2> HIDE DEF w1, w2, w3, w4, w5, w6
  <2>3. w1 \o w2 \in Seq(S) BY <2>1, ConcatProperties
  <2>4. w1 \o w2 \o w3 \in Seq(S) BY <2>1, <2>3, ConcatProperties
  <2>5. w1 \o w2 \o w3 \o w4 \in Seq(S) BY <2>1, <2>4, ConcatProperties
  <2>6. w1 \o w2 \o w3 \o w4 \o w5 \in Seq(S) BY <2>1, <2>5, ConcatProperties
  <2>7. new \in Seq(S) BY <2>1, <2>6, ConcatProperties
  <2> HIDE DEF new
  <2>8. \A k \in DOMAIN new : new[k] \in S BY <2>7, ElementOfSeq, LenProperties
  <2>9. S \subseteq NewSignals(e) /\ \A s \in S : s.rule \notin Keyed BY DEF S
  <2>10. new \in Seq(NewSignals(e)) BY <2>7, <2>9
  <2>11. Distinct(new) BY <2>8, <2>9 DEF Distinct
  <2>12. reported \subseteq reported' BY DEF Execve
  <2> QED BY <2>2, <2>10, <2>11, <2>12, SignalsAdded
<1>16. MapsInv'
  <2>1. /\ downloadProcesses' = [p \in Pids |-> downloadProcesses'[p]]
        /\ downloadedProcessPIDs' = [p \in Pids |-> downloadedProcessPIDs'[p]]
        /\ shellProcesses' = [p \in Pids |-> shellProcesses'[p]]
        /\ downloadedFiles' = [f \in Paths |-> downloadedFiles'[f]]
    BY <1>6, <1>9, <1>10
  <2>2. \A p \in Pids : LET k == downloadProcesses'[p] IN
          k # 0 => k \in DOMAIN n /\ IsDownload(n[k]) /\ n[k].pid = p
    BY <1>1, <1>2, <1>4, <1>5, <1>6, <1>9
  <2>3. \A f \in Paths : downloadedFiles'[f] # <<>> => Brought(n, downloadedFiles'[f], f)
    BY <1>6, <1>10
  <2>4. \A p \in Pids : downloadedProcessPIDs'[p] # <<>> =>
          Ran(n, downloadedProcessPIDs'[p], p)
    BY <1>2, <1>4, <1>6, <1>9, <1>12
  <2>5. \A p \in Pids : shellProcesses'[p] # 0 =>
          shellProcesses'[p] \in DOMAIN n /\ n[shellProcesses'[p]].type = "execve"
    BY <1>1, <1>2, <1>4, <1>6, <1>9
  <2> QED BY <1>8, <2>1, <2>2, <2>3, <2>4, <2>5, NewMaps
<1> QED BY <1>1, <1>8, <1>15, <1>16 DEF DetectorInv

-----------------------------------------------------------------------------
(* No event yet.                                                           *)
LEMMA InitDetectorInv == Init => DetectorInv
<1> SUFFICES ASSUME Init PROVE DetectorInv OBVIOUS
<1>1. ordered \in Seq(Kinds) /\ signals \in Seq(Signals(ordered)) BY DEF Init
<1>2. MapsInv BY DEF Init, MapsInv
<1>3. signals = <<>> /\ DOMAIN signals = {} /\ score = 0 BY DEF Init
<1>4. KeysInv BY <1>3 DEF KeysInv
<1>5. ScoreInv
  <2>1. Impacts(signals) = <<>> BY <1>3 DEF Impacts
  <2> QED BY <1>3, <2>1, TotalEmpty DEF ScoreInv, Capped
<1> QED BY <1>1, <1>2, <1>4, <1>5 DEF DetectorInv

(* The loop body keeps the invariant, whatever the event.                  *)
LEMMA AnalyzeDetectorInv ==
  ASSUME DetectorInv, NEW e \in Kinds, Analyze(e)
  PROVE  DetectorInv'
<1> DEFINE i == Len(ordered) + 1
<1>1. ordered' = Append(ordered, e) BY DEF Analyze
<1>2. CASE e.type = "execve" /\ Execve(e, i) BY <1>1, <1>2, ExecveStep
<1>3. CASE e.type = "file_write" /\ FileWrite(e, i)
           /\ UNCHANGED <<shellProcesses, suspiciousProcessPIDs>>
  BY <1>1, <1>3, FileWriteStep
<1>4. ASSUME UNCHANGED <<downloads, shellProcesses>>,
             \/ e.type = "sensitive_read" /\ SensitiveRead(e, i)
             \/ e.type = "file_lifecycle" /\ FileLifecycle(e, i)
             \/ e.type = "chmod" /\ Chmod(e, i)
             \/ e.type = "connect" /\ Connect(e, i)
             \/ e.type = "privilege_change" /\ PrivilegeChange(e, i)
             \/ e.type = "namespace_change" /\ NamespaceChange(e, i)
             \/ e.type = "process_access" /\ ProcessAccess(e, i)
             \/ e.type = "network_server" /\ NetworkServer(e, i)
             \/ e.type = "kernel_tamper" /\ KernelTamper(e, i)
      PROVE  DetectorInv'
  <2>1. CASE e.type = "connect" /\ Connect(e, i) BY <1>1, <1>4, <2>1, ConnectStep
  <2>2. CASE \/ e.type = "file_lifecycle" /\ FileLifecycle(e, i)
             \/ e.type = "chmod" /\ Chmod(e, i)
    BY <1>1, <1>4, <2>2, FileCases
  <2>3. CASE \/ e.type = "sensitive_read" /\ SensitiveRead(e, i)
             \/ e.type = "privilege_change" /\ PrivilegeChange(e, i)
             \/ e.type = "namespace_change" /\ NamespaceChange(e, i)
             \/ e.type = "process_access" /\ ProcessAccess(e, i)
             \/ e.type = "network_server" /\ NetworkServer(e, i)
             \/ e.type = "kernel_tamper" /\ KernelTamper(e, i)
    BY <1>1, <1>4, <2>3, OnceCases
  <2> QED BY <1>4, <2>1, <2>2, <2>3
<1> QED BY <1>2, <1>3, <1>4 DEF Analyze

(* The invariant holds for a candidate as long as it is analyzed, and the  *)
(* compressor leaves it alone.                                             *)
LEMMA DetectorInvariance == Spec => []DetectorInv
<1>1. CompressorInit => DetectorInv BY InitDetectorInv DEF CompressorInit
<1>2. DetectorInv /\ [Next]_vars => DetectorInv'
  <2> SUFFICES ASSUME DetectorInv, [Next]_vars PROVE DetectorInv' OBVIOUS
  <2>1. ASSUME UNCHANGED detectorVars PROVE DetectorInv'
    BY <2>1 DEF detectorVars, downloads, DetectorInv, MapsInv, KeysInv, ScoreInv
  <2>2. CASE Finish BY <2>1, <2>2 DEF Finish
  <2>3. CASE UNCHANGED vars BY <2>1, <2>3 DEF vars
  <2>4. ASSUME NEW e \in Kinds, Event(e) PROVE DetectorInv'
    BY <2>4, AnalyzeDetectorInv DEF Event
  <2> QED BY <2>2, <2>3, <2>4 DEF Next
<1> QED BY <1>1, <1>2, PTL DEF Spec

(* Signal by signal.                                                       *)
LEMMA EverySignal ==
  ASSUME DetectorInv, NEW n \in DOMAIN signals
  PROVE  /\ signals[n] \in [rule : Rules, impact : Nat, events : Seq(DOMAIN ordered)]
         /\ SignalOK(ordered, signals[n])
<1>1. signals[n] \in Signals(ordered)
  BY ElementOfSeq, LenProperties DEF DetectorInv
<1> QED BY <1>1 DEF Signals

(* What mutationSucceeded and fileWriteChanged turn away is evidence of no *)
(* signal of a rule that is not about attempts, at whatever distance: not  *)
(* of a file it would have brought, nor of a process that would have run   *)
(* it, nor of a connection of that.                                        *)
THEOREM FailedNeverCountsCorrect == Spec => []FailedNeverCounts
<1>1. DetectorInv => FailedNeverCounts
  BY EverySignal DEF SignalOK, FailedNeverCounts, Counts, Attempts, AttemptRules
<1> QED BY <1>1, DetectorInvariance, PTL

(* A chain in the sense of the detector's maps is one in that of IsChain.  *)
LEMMA RanIsChain ==
  ASSUME ordered \in Seq(Kinds), NEW evs, NEW p, Ran(ordered, evs, p)
  PROVE  IsChain(evs) /\ ordered[Last(evs)].pid = p
<1>1. PICK b \in Seq(DOMAIN ordered), x \in DOMAIN ordered :
        /\ evs = Append(b, x) /\ ordered[x].type = "execve" /\ ordered[x].pid = p
        /\ Brought(ordered, b, ordered[x].exec) /\ \A k \in DOMAIN b : b[k] <= x
  BY DEF Ran
<1>2. CASE \E d \in DOMAIN ordered : /\ b = <<d>> /\ IsDownload(ordered[d])
                                     /\ ordered[d].output = ordered[x].exec
  <2>1. PICK d \in DOMAIN ordered : /\ b = <<d>> /\ IsDownload(ordered[d])
                                    /\ ordered[d].output = ordered[x].exec
    BY <1>2
  <2>2. evs = <<d, x>> /\ d <= x
    <3>1. 1 \in DOMAIN b /\ b[1] = d BY <2>1
    <3>2. d <= x BY <1>1, <3>1
    <3>3. Append(<<d>>, x) = <<d, x>>
      <4> DEFINE a == Append(<<d>>, x)
                 D == DOMAIN ordered
      <4>1. <<d>> \in Seq(D) /\ Len(<<d>>) = 1 /\ x \in D /\ <<d, x>> \in Seq(D)
        BY <2>1
      <4>2. /\ a \in Seq(D) /\ Len(a) = 2
            /\ \A k \in 1..1 : a[k] = <<d>>[k]
            /\ a[2] = x
        BY <4>1, AppendProperties
      <4> HIDE DEF a, D
      <4>3. \A k \in 1..Len(a) : a[k] = <<d, x>>[k] BY <4>2
      <4> QED BY <4>1, <4>2, <4>3, SeqEqual DEF a
    <3> QED BY <1>1, <2>1, <3>2, <3>3
  <2>3. Len(evs) = 2 /\ evs[1] = d /\ evs[2] = x BY <2>2
  <2>4. Last(evs) = x BY <2>3 DEF Last
  <2>5. \A k \in 1..(Len(evs) - 1) : evs[k] <= evs[k + 1]
    <3> SUFFICES ASSUME NEW k \in 1..(Len(evs) - 1) PROVE evs[k] <= evs[k + 1] OBVIOUS
    <3>1. k = 1 BY <2>3
    <3> QED BY <2>2, <2>3, <3>1
  <2> QED BY <1>1, <2>1, <2>3, <2>4, <2>5 DEF IsChain, IsDownload
<1>3. CASE \E d, w \in DOMAIN ordered :
             /\ b = <<d, w>> /\ d <= w /\ IsDownload(ordered[d])
             /\ ordered[w].type = "file_write"
             /\ ordered[w].pid = ordered[d].pid /\ ordered[w].path = ordered[x].exec
  <2>1. PICK d \in DOMAIN ordered, w \in DOMAIN ordered :
             /\ b = <<d, w>> /\ d <= w /\ IsDownload(ordered[d])
             /\ ordered[w].type = "file_write"
             /\ ordered[w].pid = ordered[d].pid /\ ordered[w].path = ordered[x].exec
    BY <1>3
  <2>2. evs = <<d, w, x>> /\ w <= x
    <3>1. 2 \in DOMAIN b /\ b[2] = w BY <2>1
    <3>2. w <= x BY <1>1, <3>1
    <3>3. Append(<<d, w>>, x) = <<d, w, x>>
      <4> DEFINE a == Append(<<d, w>>, x)
                 D == DOMAIN ordered
      <4>1. <<d, w>> \in Seq(D) /\ Len(<<d, w>>) = 2 /\ x \in D /\ <<d, w, x>> \in Seq(D)
        BY <2>1
      <4>2. /\ a \in Seq(D) /\ Len(a) = 3
            /\ \A k \in 1..2 : a[k] = <<d, w>>[k]
            /\ a[3] = x
        BY <4>1, AppendProperties
      <4> HIDE DEF a, D
      <4>3. \A k \in 1..Len(a) : a[k] = <<d, w, x>>[k] BY <4>2
      <4> QED BY <4>1, <4>2, <4>3, SeqEqual DEF a
    <3> QED BY <1>1, <2>1, <3>2, <3>3
  <2>3. Len(evs) = 3 /\ evs[1] = d /\ evs[2] = w /\ evs[3] = x BY <2>2
  <2>4. Last(evs) = x BY <2>3 DEF Last
  <2>5. \A k \in 1..(Len(evs) - 1) : evs[k] <= evs[k + 1]
    <3> SUFFICES ASSUME NEW k \in 1..(Len(evs) - 1) PROVE evs[k] <= evs[k + 1] OBVIOUS
    <3>1. k = 1 \/ k = 2 BY <2>3
    <3> QED BY <2>1, <2>2, <2>3, <3>1
  <2> QED BY <1>1, <2>1, <2>3, <2>4, <2>5 DEF IsChain, IsDownload
<1> QED BY <1>1, <1>2, <1>3 DEF Brought

(* The evidence of recently_downloaded_binary_executed is a chain, from a  *)
(* download by a shell's child to the execution of what it brought, and    *)
(* that of downloaded_binary_connected_outbound is one with a connection   *)
(* of the very process: however downloads, writes, executions and          *)
(* connections of other processes come between.                            *)
THEOREM DownloadChainSoundCorrect == Spec => []DownloadChainSound
<1>1. DetectorInv => DownloadChainSound
  <2> SUFFICES ASSUME DetectorInv, NEW n \in DOMAIN signals
               PROVE  LET s == signals[n] IN
                      /\ s.rule = "recently_downloaded_binary_executed" =>
                           IsChain(s.events)
                      /\ s.rule = "downloaded_binary_connected_outbound" =>
                           LET chain == Front(s.events)
                           IN /\ IsChain(chain)
                              /\ ordered[Last(s.events)].pid = ordered[Last(chain)].pid
    BY DEF DownloadChainSound
  <2> DEFINE s == signals[n]
  <2>1. SignalOK(ordered, s) /\ ordered \in Seq(Kinds)
    BY EverySignal DEF DetectorInv
  <2> HIDE DEF s
  <2>2. ASSUME s.rule = "recently_downloaded_binary_executed" PROVE IsChain(s.events)
    BY <2>1, <2>2, RanIsChain DEF SignalOK
  <2>3. ASSUME s.rule = "downloaded_binary_connected_outbound"
        PROVE  /\ IsChain(Front(s.events))
               /\ ordered[Last(s.events)].pid = ordered[Last(Front(s.events))].pid
    <3>1. PICK b : \E c \in DOMAIN ordered :
            s.events = Append(b, c) /\ Ran(ordered, b, ordered[c].pid)
      BY <2>1, <2>3 DEF SignalOK
    <3>2. PICK c \in DOMAIN ordered :
            s.events = Append(b, c) /\ Ran(ordered, b, ordered[c].pid)
      BY <3>1
    <3>3. b \in Seq(DOMAIN ordered) BY <2>1, <3>2, RanPlaces
    <3>4. Front(s.events) = b /\ Last(s.events) = c BY <3>2, <3>3, FrontOfAppend
    <3>5. IsChain(b) /\ ordered[Last(b)].pid = ordered[c].pid
      BY <2>1, <3>2, RanIsChain
    <3> QED BY <3>4, <3>5
  <2> QED BY <2>2, <2>3 DEF s
<1> QED BY <1>1, DetectorInvariance, PTL

(* An event that has another key differs in process, path, action or port. *)
LEMMA KeyTells ==
  ASSUME NEW r, NEW e, NEW f, KeyOf(r, e) # KeyOf(r, f)
  PROVE  e.pid # f.pid \/ e.path # f.path \/ e.call # f.call \/ e.port # f.port
  BY DEF KeyOf

(* The score is the capped sum of what the rules listed are worth, with    *)
(* evidence from the collectors of each rule; and a rule with a key is     *)
(* never listed twice for the same process and object, however its events  *)
(* repeat and whatever comes between.                                      *)
THEOREM ScoreExplainedCorrect == Spec => []ScoreExplained
<1>1. DetectorInv => ScoreExplained
  <2> SUFFICES ASSUME DetectorInv PROVE ScoreExplained OBVIOUS
  <2> DEFINE last(n) == ordered[Last(signals[n].events)]
  <2>1. \A n \in DOMAIN signals :
          /\ signals[n] \in Signals(ordered)
          /\ signals[n] \in [rule : Rules, impact : Nat, events : Seq(DOMAIN ordered)]
          /\ SignalOK(ordered, signals[n])
    BY ElementOfSeq, LenProperties DEF DetectorInv, Signals
  <2>2. score = Capped(Total(Impacts(signals))) BY DEF DetectorInv, ScoreInv
  <2>3. ASSUME NEW n \in DOMAIN signals, NEW k \in Range(signals[n].events)
        PROVE  ordered[k].type \in RuleDefinitions[signals[n].rule].collectors
    BY <2>1 DEF SignalOK, Range
  <2>4. ASSUME NEW n \in DOMAIN signals, signals[n].rule \notin Keyed,
               signals[n].rule \notin {"tmp_file_made_executable",
                                       "downloaded_binary_connected_outbound"}
        PROVE  last(n).type = "execve"
    <3> DEFINE r == signals[n].rule
               evs == signals[n].events
    <3>1. CASE r = "recently_downloaded_binary_executed"
      <4>1. PICK p : Ran(ordered, evs, p) BY <2>1, <3>1 DEF SignalOK
      <4> QED BY <4>1, RanIsChain DEF DetectorInv, IsChain
    <3>2. CASE r # "recently_downloaded_binary_executed"
      <4>1. r \in Rules BY <2>1
      <4>2. RuleDefinitions[r].collectors = {"execve"}
        <5> HIDE DEF r
        <5> QED BY <2>4, <3>2, <4>1, RuleNames DEF RuleDefinitions, Rule, Keyed, r
      <4>3. evs \in Seq(DOMAIN ordered) /\ evs # <<>> BY <2>1 DEF SignalOK
      <4>4. Len(evs) \in DOMAIN evs
        <5> HIDE DEF evs
        <5> QED BY <4>3, LenProperties, EmptySeq
      <4> QED BY <2>1, <4>2, <4>4 DEF SignalOK, Last
    <3> QED BY <3>1, <3>2
  <2>5. ASSUME NEW m \in DOMAIN signals, NEW n \in DOMAIN signals, m # n,
               signals[m].rule = signals[n].rule,
               signals[m].rule \notin {"tmp_file_made_executable",
                                       "downloaded_binary_connected_outbound"},
               last(m).type # "execve"
        PROVE  \/ last(m).pid # last(n).pid \/ last(m).path # last(n).path
               \/ last(m).call # last(n).call \/ last(m).port # last(n).port
    <3>1. signals[n].rule \in Keyed BY <2>4, <2>5
    <3>2. KeyAt(ordered, signals[m]) # KeyAt(ordered, signals[n])
      BY <2>5, <3>1 DEF DetectorInv, KeysInv
    <3>3. KeyOf(signals[m].rule, last(m)) # KeyOf(signals[m].rule, last(n))
      BY <2>5, <3>2 DEF KeyAt
    <3> HIDE DEF last
    <3> QED BY <3>3, KeyTells
  <2> QED BY <2>2, <2>3, <2>5 DEF ScoreExplained, Capped, Impacts
<1> QED BY <1>1, DetectorInvariance, PTL

-----------------------------------------------------------------------------
(* The timeline.  The events that the entry of the i-th stands for; an     *)
(* event without an entry of its own is in the class of an earlier one.    *)
Class(i) == IF SameWrite(i, i) THEN {j \in Places : SameWrite(i, j)} ELSE {i}

Covered(n) == {j \in Places : \E i \in 1..n : Narrated(i) /\ j \in Class(i)}

TimesOf(entries) == [n \in DOMAIN entries |-> entries[n].times]

(* Writes with the same key are the same to each other.                    *)
LEMMA SameWriteIs ==
  /\ \A i, j : SameWrite(i, j) => SameWrite(i, i) /\ SameWrite(j, j) /\ SameWrite(j, i)
  /\ \A i, j, k : SameWrite(i, j) /\ SameWrite(j, k) => SameWrite(i, k)
  BY DEF SameWrite

(* An entry tells how many events it stands for.                           *)
LEMMA ClassSize ==
  ASSUME ordered \in Seq(Kinds), NEW i \in Places
  PROVE  /\ IsFiniteSet(Class(i)) /\ Cardinality(Class(i)) = Times(i)
         /\ Times(i) \in Nat /\ Class(i) \subseteq Places
<1>1. Len(ordered) \in Nat BY LenProperties
<1>2. IsFiniteSet(Places) BY <1>1, FS_Interval DEF Places
<1>3. Class(i) \subseteq Places BY DEF Class
<1>4. IsFiniteSet(Class(i)) BY <1>2, <1>3, FS_Subset
<1>5. Cardinality(Class(i)) = Times(i)
  <2>1. CASE SameWrite(i, i) BY <2>1 DEF Class, Times
  <2>2. CASE ~SameWrite(i, i) BY <2>2, FS_Singleton DEF Class, Times
  <2> QED BY <2>1, <2>2
<1> QED BY <1>3, <1>4, <1>5, FS_CardinalityType

(* No event is told of twice.                                              *)
LEMMA CoveredOnce ==
  ASSUME NEW n \in Places, Narrated(n)
  PROVE  Covered(n - 1) \intersect Class(n) = {}
<1> SUFFICES ASSUME NEW j \in Covered(n - 1), j \in Class(n) PROVE FALSE OBVIOUS
<1>1. PICK i \in 1..(n - 1) : Narrated(i) /\ j \in Class(i) BY DEF Covered
<1>2. ~SameWrite(i, n) BY <1>1 DEF Narrated
<1>3. i # n BY <1>1 DEF Places
<1>4. CASE SameWrite(i, i) /\ SameWrite(n, n)
  BY <1>1, <1>2, <1>4, SameWriteIs DEF Class
<1>5. CASE SameWrite(i, i) /\ ~SameWrite(n, n)
  BY <1>1, <1>5, SameWriteIs DEF Class
<1>6. CASE ~SameWrite(i, i) /\ SameWrite(n, n)
  BY <1>1, <1>6, SameWriteIs DEF Class
<1>7. CASE ~SameWrite(i, i) /\ ~SameWrite(n, n)
  BY <1>1, <1>3, <1>7 DEF Class
<1> QED BY <1>4, <1>5, <1>6, <1>7

(* And each is: by the first of its writes.                                *)
LEMMA CoveredAll ==
  ASSUME ordered \in Seq(Kinds)
  PROVE  Covered(Len(ordered)) = Places
<1> SUFFICES ASSUME NEW j \in Places
             PROVE  \E i \in Places : Narrated(i) /\ j \in Class(i)
  BY DEF Covered, Places
<1>1. Len(ordered) \in Nat BY LenProperties
<1>2. CASE ~SameWrite(j, j)
  <2>1. Narrated(j) BY <1>2, SameWriteIs DEF Narrated
  <2> QED BY <1>2, <2>1 DEF Class
<1>3. CASE SameWrite(j, j)
  <2> DEFINE S == {i \in Places : SameWrite(i, j)}
  <2>1. PICK i \in S : \A k \in S : i <= k
    <3>1. S \subseteq Nat /\ S # {} BY <1>3 DEF Places
    <3> HIDE DEF S
    <3> QED BY <3>1, NatMin
  <2>2. i \in Places /\ SameWrite(i, j) OBVIOUS
  <2>3. Narrated(i)
    <3> SUFFICES ASSUME NEW k \in 1..(i - 1), SameWrite(k, i) PROVE FALSE
      BY DEF Narrated
    <3>1. k \in Places /\ ~(i <= k) BY <1>1, <2>2 DEF Places
    <3>2. SameWrite(k, j) BY <2>2, SameWriteIs
    <3> QED BY <2>1, <3>1, <3>2
  <2>4. j \in Class(i) BY <2>2, SameWriteIs DEF Class
  <2> QED BY <2>2, <2>3, <2>4
<1> QED BY <1>2, <1>3

(* What the loop of the timeline holds after each event.                   *)
Tells(f) ==
  f = [n \in 0..Len(ordered) |->
         IF n = 0 THEN <<>>
         ELSE IF Narrated(n) THEN Append(f[n - 1], Entry(n)) ELSE f[n - 1]]

(* The loop, step by step.                                                 *)
LEMMA TimelineIs ==
  ASSUME ordered \in Seq(Kinds)
  PROVE  \E f \in [0..Len(ordered) -> Seq({Entry(n) : n \in Places})] :
           Tells(f) /\ timeline = f[Len(ordered)]
<1> DEFINE k == Len(ordered)
           V == Seq({Entry(n) : n \in Places})
           g == [x \in V \X (1..k) |->
                   IF Narrated(x[2]) THEN Append(x[1], Entry(x[2])) ELSE x[1]]
           told == CHOOSE f : Tells(f)
<1>1. k \in Nat /\ Places = 1..k BY LenProperties DEF Places
<1>2. timeline = told[k] BY DEF timeline, Tells
<1>3. <<>> \in V /\ \A v \in V, n \in 1..k : Append(v, Entry(n)) \in V
  <2> DEFINE E == {Entry(n) : n \in Places}
  <2>1. \A n \in 1..k : Entry(n) \in E BY <1>1
  <2> HIDE DEF E
  <2> QED BY <2>1 DEF E
<1> HIDE DEF V, k
<1>4. g \in [V \X (1..k) -> V] BY <1>3
<1>5. \A v \in V, n \in 1..k :
        g[<<v, n>>] = IF Narrated(n) THEN Append(v, Entry(n)) ELSE v
  OBVIOUS
<1> HIDE DEF g
<1>6. PICK f \in [0..k -> V] : Iterates(<<>>, g, k, f) BY <1>1, <1>3, <1>4, Iteration
<1>7. Tells(f)
  <2>1. ASSUME NEW n \in 0..k, n # 0
        PROVE  g[<<f[n - 1], n>>] =
                 IF Narrated(n) THEN Append(f[n - 1], Entry(n)) ELSE f[n - 1]
    <3>1. n - 1 \in 0..k /\ n \in 1..k BY <1>1, <2>1
    <3> QED BY <1>5, <1>6, <3>1
  <2> QED BY <1>6, <2>1 DEF Iterates, Tells, k
<1>8. Tells(told) BY <1>7
<1> HIDE DEF told
<1>9. ASSUME NEW h, Tells(h) PROVE h = f
  <2> DEFINE S == {n \in 0..k : h[n] # f[n]}
  <2>1. h = [n \in 0..k |-> h[n]] /\ f = [n \in 0..k |-> f[n]]
    BY <1>7, <1>9 DEF Tells, k
  <2>2. /\ \A n \in 0..k : h[n] = IF n = 0 THEN <<>>
             ELSE IF Narrated(n) THEN Append(h[n - 1], Entry(n)) ELSE h[n - 1]
        /\ \A n \in 0..k : f[n] = IF n = 0 THEN <<>>
             ELSE IF Narrated(n) THEN Append(f[n - 1], Entry(n)) ELSE f[n - 1]
    BY <1>7, <1>9 DEF Tells, k
  <2>3. SUFFICES ASSUME S # {} PROVE FALSE BY <2>1
  <2>4. PICK n \in S : \A m \in S : n <= m
    <3>1. S \subseteq Nat OBVIOUS
    <3> HIDE DEF S
    <3> QED BY <2>3, <3>1, NatMin
  <2>5. n \in 0..k /\ h[n] # f[n] OBVIOUS
  <2>6. n # 0 BY <2>2, <2>5
  <2>7. n - 1 \in 0..k /\ ~(n <= n - 1) BY <1>1, <2>5, <2>6
  <2>8. n - 1 \notin S
    <3> HIDE DEF S
    <3> QED BY <2>4, <2>7
  <2>9. h[n - 1] = f[n - 1] BY <2>7, <2>8
  <2> QED BY <2>2, <2>5, <2>6, <2>9
<1>10. told = f BY <1>8, <1>9
<1> QED BY <1>2, <1>6, <1>7, <1>10 DEF V, k

(* After n events the entries stand for as many as they cover.             *)
LEMMA TimelineCounts ==
  ASSUME ordered \in Seq(Kinds)
  PROVE  Total(TimesOf(timeline)) = Len(ordered)
<1> DEFINE k == Len(ordered)
           E == {Entry(n) : n \in Places}
<1>1. k \in Nat /\ Places = 1..k BY LenProperties DEF Places
<1>2. PICK f \in [0..k -> Seq(E)] : Tells(f) /\ timeline = f[k] BY TimelineIs
<1>3. /\ f[0] = <<>>
      /\ \A n \in 1..k : f[n] = IF Narrated(n) THEN Append(f[n - 1], Entry(n))
                                              ELSE f[n - 1]
  <2>1. 0 \in 0..k /\ \A n \in 1..k : n \in 0..k /\ n # 0 BY <1>1
  <2> QED BY <1>2, <2>1 DEF Tells
<1>4. \A e \in E : e.times \in Nat
  BY ClassSize DEF Entry
<1> HIDE DEF k, E
<1>5. ASSUME NEW s \in Seq(E)
      PROVE  TimesOf(s) \in Seq(Nat) /\ Len(TimesOf(s)) = Len(s)
  <2>1. /\ Len(s) \in Nat /\ DOMAIN s = 1..Len(s)
        /\ \A n \in 1..Len(s) : s[n].times \in Nat
    BY <1>4, LenProperties, ElementOfSeq
  <2>2. TimesOf(s) = [n \in 1..Len(s) |-> s[n].times] BY <2>1 DEF TimesOf
  <2> QED BY <2>1, <2>2
<1>6. ASSUME NEW s \in Seq(E), NEW n \in 1..k
      PROVE  Total(TimesOf(Append(s, Entry(n)))) = Total(TimesOf(s)) + Times(n)
  <2> DEFINE u == Append(s, Entry(n))
  <2>1. Entry(n) \in E /\ Entry(n).times = Times(n) /\ Times(n) \in Nat
    BY <1>1, ClassSize DEF E, Entry
  <2>2. TimesOf(u) = Append(TimesOf(s), Times(n))
    <3> DEFINE v == Append(TimesOf(s), Times(n))
    <3> HIDE DEF E
    <3>1. /\ Len(s) \in Nat /\ DOMAIN s = 1..Len(s)
          /\ u \in Seq(E) /\ Len(u) = Len(s) + 1 /\ DOMAIN u = 1..(Len(s) + 1)
          /\ \A m \in 1..Len(s) : u[m] = s[m]
          /\ u[Len(s) + 1] = Entry(n)
      BY <2>1, AppendProperties, LenProperties
    <3>2. TimesOf(s) \in Seq(Nat) /\ Len(TimesOf(s)) = Len(s)
      BY <1>5
    <3>3. /\ v \in Seq(Nat) /\ Len(v) = Len(s) + 1
          /\ \A m \in 1..Len(s) : v[m] = TimesOf(s)[m]
          /\ v[Len(s) + 1] = Times(n)
      BY <2>1, <3>2, AppendProperties
    <3> HIDE DEF u, v
    <3>4. TimesOf(u) \in Seq(Nat) /\ Len(TimesOf(u)) = Len(s) + 1
      BY <1>5, <3>1
    <3>5. ASSUME NEW m \in 1..(Len(s) + 1) PROVE TimesOf(u)[m] = v[m]
      <4>1. TimesOf(u)[m] = u[m].times BY <3>1 DEF TimesOf
      <4>2. CASE m \in 1..Len(s) BY <3>1, <3>3, <4>1, <4>2 DEF TimesOf
      <4>3. CASE m = Len(s) + 1 BY <2>1, <3>1, <3>3, <4>1, <4>3
      <4> QED BY <3>1, <4>2, <4>3
    <3>6. TimesOf(u) = v BY <3>3, <3>4, <3>5, SeqEqual
    <3> QED BY <3>6 DEF u, v
  <2>3. Total(Append(TimesOf(s), Times(n))) = Total(TimesOf(s)) + Times(n)
    BY <1>5, <2>1, TotalAppend
  <2> QED BY <2>2, <2>3
<1>7. ASSUME NEW n \in 0..k
      PROVE  IsFiniteSet(Covered(n)) /\ Cardinality(Covered(n)) \in Nat
  <2>1. IsFiniteSet(Places) BY <1>1, FS_Interval
  <2> QED BY <2>1, FS_Subset, FS_CardinalityType DEF Covered
<1>8. ASSUME NEW n \in 1..k
      PROVE  Cardinality(Covered(n)) =
               Cardinality(Covered(n - 1)) + (IF Narrated(n) THEN Times(n) ELSE 0)
  <2>1. n - 1 \in 0..k /\ n \in Places /\ 1..n = (1..(n - 1)) \union {n} BY <1>1
  <2>2. CASE Narrated(n)
    <3>1. Class(n) \subseteq Places /\ IsFiniteSet(Class(n)) /\ Times(n) \in Nat
          /\ Cardinality(Class(n)) = Times(n)
      BY <2>1, ClassSize
    <3>2. Covered(n) = Covered(n - 1) \union Class(n) BY <2>1, <2>2, <3>1 DEF Covered
    <3>3. Cardinality(Covered(n - 1) \intersect Class(n)) = 0
      BY <2>1, <2>2, CoveredOnce, FS_EmptySet
    <3>4. IsFiniteSet(Covered(n - 1)) /\ Cardinality(Covered(n - 1)) \in Nat
      BY <1>7, <2>1
    <3> DEFINE A == Covered(n - 1)
               B == Class(n)
    <3>5. IsFiniteSet(A) /\ IsFiniteSet(B) BY <3>1, <3>4
    <3> HIDE DEF A, B
    <3>6. Cardinality(A \union B) =
            Cardinality(A) + Cardinality(B) - Cardinality(A \intersect B)
      BY <3>5, FS_Union
    <3> QED BY <2>2, <3>1, <3>2, <3>3, <3>4, <3>6 DEF A, B
  <2>3. CASE ~Narrated(n)
    <3>1. Covered(n) = Covered(n - 1) BY <2>1, <2>3 DEF Covered
    <3> QED BY <1>7, <2>1, <2>3, <3>1
  <2> QED BY <2>2, <2>3
<1>9. \A n \in 0..k : Total(TimesOf(f[n])) = Cardinality(Covered(n))
  <2> DEFINE S == {n \in 0..k : Total(TimesOf(f[n])) # Cardinality(Covered(n))}
  <2>1. SUFFICES ASSUME S # {} PROVE FALSE OBVIOUS
  <2>2. PICK n \in S : \A m \in S : n <= m
    <3>1. S \subseteq Nat OBVIOUS
    <3> HIDE DEF S
    <3> QED BY <2>1, <3>1, NatMin
  <2>3. n \in 0..k /\ Total(TimesOf(f[n])) # Cardinality(Covered(n)) OBVIOUS
  <2>4. n # 0
    <3>1. TimesOf(<<>>) = <<>> BY DEF TimesOf
    <3>2. Covered(0) = {} BY DEF Covered
    <3> QED BY <1>3, <2>3, <3>1, <3>2, TotalEmpty, FS_EmptySet
  <2>5. n \in 1..k /\ n - 1 \in 0..k /\ ~(n <= n - 1) BY <1>1, <2>3, <2>4
  <2>6. n - 1 \notin S
    <3> HIDE DEF S
    <3> QED BY <2>2, <2>5
  <2>7. Total(TimesOf(f[n - 1])) = Cardinality(Covered(n - 1)) BY <2>5, <2>6
  <2>8. f[n - 1] \in Seq(E) /\ Cardinality(Covered(n - 1)) \in Nat BY <1>2, <1>7, <2>5
  <2>9. Total(TimesOf(f[n])) =
          Total(TimesOf(f[n - 1])) + (IF Narrated(n) THEN Times(n) ELSE 0)
    BY <1>3, <1>6, <2>5, <2>7, <2>8
  <2> QED BY <1>8, <2>3, <2>5, <2>7, <2>9
<1>10. Cardinality(Covered(k)) = k
  <2>1. Covered(k) = Places BY CoveredAll DEF k
  <2> QED BY <1>1, <2>1, FS_Interval
<1> QED BY <1>1, <1>2, <1>9, <1>10 DEF k

(* Each event of the candidate is told of once: by an entry of its own, or *)
(* counted in that of the first write with its process and path, whatever  *)
(* failed or empty writes and other events come between.                   *)
THEOREM TimelineCompleteCorrect == Spec => []TimelineComplete
<1> DEFINE Inv == /\ incident # NoIncident => analyzed
                  /\ TimelineComplete
<1>1. CompressorInit => Inv BY DEF CompressorInit, TimelineComplete
<1>2. DetectorInv /\ Inv /\ [Next]_vars => Inv'
  <2> SUFFICES ASSUME DetectorInv, Inv, [Next]_vars PROVE Inv' OBVIOUS
  <2>1. CASE Finish
    <3>1. ordered' = ordered /\ analyzed' BY <2>1 DEF Finish, detectorVars
    <3>2. ASSUME incident' # NoIncident
          PROVE  Len(ordered') = Total([n \in DOMAIN incident'.timeline |->
                                          incident'.timeline[n].times])
      <4>1. incident'.timeline = timeline BY <2>1, <3>2 DEF Finish, Compress
      <4>2. Total(TimesOf(timeline)) = Len(ordered)
        BY TimelineCounts DEF DetectorInv
      <4> QED BY <3>1, <4>1, <4>2 DEF TimesOf
    <3> QED BY <3>1, <3>2 DEF TimelineComplete
  <2>2. ASSUME NEW e \in Kinds, Event(e) PROVE Inv'
    <3>1. incident' = NoIncident BY <2>2 DEF Event
    <3> QED BY <3>1 DEF TimelineComplete
  <2>3. CASE UNCHANGED vars BY <2>3 DEF vars, detectorVars, TimelineComplete
  <2> QED BY <2>1, <2>2, <2>3 DEF Next
<1>3. Spec => []Inv BY <1>1, <1>2, DetectorInvariance, PTL DEF Spec
<1> QED BY <1>3, PTL
=============================================================================
