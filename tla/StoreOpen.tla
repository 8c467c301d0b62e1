------------------------------ MODULE StoreOpen ------------------------------
(***************************************************************************)
(* Opening a database file: OpenSQLite of internal/store with the checks   *)
(* of path_security.go, the schema script and the upgrade of the incidents *)
(* table, as the commands reach it.  `init' creates the parent directory   *)
(* first, `run' and `demo' ("run") open as it is, the reading commands     *)
(* ("read") refuse a database that does not exist.  Several processes may  *)
(* open one path, any of them may die or meet an I/O error at any step.    *)
(*                                                                         *)
(* A file is "none", "irregular", "loose" (its mode lets group or others   *)
(* in) or "private"; a directory may also be "foreign" (another owner).    *)
(* SQLite is external: a statement is atomic, the first connection in WAL  *)
(* mode makes the sidecars with the mode of the database, and the close of *)
(* the last connection removes them.                                       *)
(***************************************************************************)
EXTENDS Naturals, Sequences, FiniteSets, SequencesExt

CONSTANTS
  Openers,     (* processes; each opens the database once                  *)
  Old          (* schemas of the databases it may find                     *)

(* The schema, statement by statement (CREATE ... IF NOT EXISTS).          *)
Script ==
  <<"events", "events_timestamp", "events_process", "events_file_path",
    "events_type_process", "events_type_file_path", "incidents",
    "incidents_start_time", "incident_events", "llm_reports", "rules", "config">>

Column == "incidents.dropped_events"

Schema == ToSet(Script) \union {Column}

ASSUME OldAssumption == Old \subseteq SUBSET Schema

Files == {"none", "irregular", "loose", "private"}

VARIABLES
  parent,      (* the directory of the database                            *)
  file,        (* the database file                                        *)
  side,        (* its -wal and -shm files                                  *)
  objects,     (* tables, indexes and the added column of the database     *)
  connected,   (* processes with a connection to the database              *)
  pc, cmd,     (* where each process is, and its command                   *)
  next,        (* the statement of the script it executes next             *)
  saw,         (* PRAGMA table_info showed it dropped_events               *)
  conn,        (* its pool of one connection: "free" or busy with "rows"   *)
  rivals,      (* history: processes that were opening at the same time    *)
  verdict      (* history: what doctor says when the command is told       *)

path == <<parent, file, side>>
local == <<cmd, next, saw, conn>>
openVars == <<path, objects, connected, pc, local, rivals, verdict>>

Settled == {"idle", "open", "closed", "failed", "faulted", "crashed"}

-----------------------------------------------------------------------------
(* tracejutsu doctor                                                       *)

(* checkDatabasePath and checkSQLiteSidecar: the checks that FAIL.         *)
DoctorFails ==
  IF parent = "missing" THEN {}
  ELSE IF parent = "notdir" THEN {"db_parent"}
  ELSE {d \in {"db_parent"} : parent = "loose"}
         \union {d \in {"db_owner"} : parent = "foreign"}
         \union {d \in {"database"} : file \in {"irregular", "loose"}}
         \union {s \in DOMAIN side : /\ file # "none"
                                     /\ side[s] \in {"irregular", "loose"}}

(* Its WARN, with the advice to run init.                                  *)
DoctorMissing == parent = "missing" \/ file = "none"

(* Sidecars without their database, which doctor does not look for.        *)
Orphans == file = "none" /\ \E s \in DOMAIN side : side[s] # "none"

Doctor == [fails |-> DoctorFails, missing |-> DoctorMissing, orphans |-> Orphans]

-----------------------------------------------------------------------------
OpenInit ==
  /\ parent \in {"missing", "notdir", "loose", "foreign", "private"}
  /\ file \in IF parent \in {"missing", "notdir"} THEN {"none"} ELSE Files
  /\ side \in [{"wal", "shm"} ->
                 IF parent \in {"missing", "notdir"} THEN {"none"} ELSE Files]
  /\ objects \in IF file = "private" THEN Old ELSE {{}}
  /\ connected = {}
  /\ pc = [o \in Openers |-> "idle"] /\ cmd = [o \in Openers |-> "none"]
  /\ next = [o \in Openers |-> 1] /\ saw = [o \in Openers |-> FALSE]
  /\ conn = [o \in Openers |-> "free"]
  /\ rivals = [o \in Openers |-> {}] /\ verdict = [o \in Openers |-> Doctor]

Opening == {o \in Openers : pc[o] \notin Settled}

Goto(o, l) == pc' = [pc EXCEPT ![o] = l]

Stay == UNCHANGED <<path, objects, connected, local, rivals, verdict>>

(* The command starts; what it does first depends on the command.          *)
Start(o) ==
  /\ pc[o] = "idle"
  /\ \E k \in {"init", "run", "read"} :
       /\ cmd' = [cmd EXCEPT ![o] = k]
       /\ Goto(o, CASE k = "init" -> "ensure" [] k = "read" -> "exists"
                    [] k = "run" -> "parent")
  /\ rivals' = [p \in Openers |-> IF p = o THEN Opening
                                  ELSE IF p \in Opening THEN rivals[p] \union {o}
                                  ELSE rivals[p]]
  /\ UNCHANGED <<path, objects, connected, next, saw, conn, verdict>>

(* db.Close of a process: the last connection takes the sidecars with it.  *)
Disconnect(o) ==
  /\ connected' = connected \ {o}
  /\ side' = IF o \in connected /\ connected' = {}
             THEN [s \in DOMAIN side |-> "none"] ELSE side
  /\ conn' = [conn EXCEPT ![o] = "free"]

(* OpenSQLite or the command returns an error; it closed what it opened.   *)
Fail(o) ==
  /\ Goto(o, "failed") /\ Disconnect(o)
  /\ verdict' = [verdict EXCEPT ![o] = Doctor]
  /\ UNCHANGED <<parent, file, objects, cmd, next, saw, rivals>>

(* ensureDatabaseParent: MkdirAll with mode 0700 when nothing is there.    *)
EnsureParent(o) ==
  /\ pc[o] = "ensure"
  /\ \/ parent = "notdir" /\ Fail(o)
     \/ /\ parent # "notdir"
        /\ parent' = IF parent = "missing" THEN "private" ELSE parent
        /\ Goto(o, "parent")
        /\ UNCHANGED <<file, side, objects, connected, local, rivals, verdict>>

(* openExistingSQLite                                                      *)
CheckExists(o) ==
  /\ pc[o] = "exists"
  /\ \/ file = "none" /\ Fail(o)
     \/ file # "none" /\ Goto(o, "parent") /\ Stay

ValidateParent(o) ==
  /\ pc[o] = "parent"
  /\ \/ parent # "private" /\ Fail(o)
     \/ parent = "private" /\ Goto(o, "lstat") /\ Stay

(* prepareSQLitePath looks whether the database is there ...               *)
LstatPath(o) ==
  /\ pc[o] = "lstat"
  /\ Goto(o, IF file = "none" THEN "reject" ELSE "check") /\ Stay

PrivateOrNone(f) == f \in {"none", "private"}

(* validateSQLiteFileInfo and validateSQLiteSidecars                       *)
ValidFiles == file = "private" /\ \A s \in DOMAIN side : PrivateOrNone(side[s])

(* ... and checks its mode and that of its sidecars, if it is;             *)
CheckFiles(o) ==
  /\ pc[o] = "check"
  /\ \/ ~ValidFiles /\ Fail(o)
     \/ ValidFiles /\ Goto(o, "pragma") /\ Stay

(* rejectSQLiteSidecars otherwise, ...                                     *)
RejectSidecars(o) ==
  /\ pc[o] = "reject"
  /\ \/ (\E s \in DOMAIN side : side[s] # "none") /\ Fail(o)
     \/ (\A s \in DOMAIN side : side[s] = "none") /\ Goto(o, "create") /\ Stay

(* ... then an exclusive create with mode 0600.                            *)
CreateFile(o) ==
  /\ pc[o] = "create"
  /\ \/ file # "none" /\ Fail(o)
     \/ /\ file = "none" /\ file' = "private"
        /\ Goto(o, "pragma")
        /\ UNCHANGED <<parent, side, objects, connected, local, rivals, verdict>>

(* sql.Open and the pragmas, the last of which turns to WAL mode.          *)
Pragmas(o) ==
  /\ pc[o] = "pragma"
  /\ connected' = connected \union {o}
  /\ side' = [s \in DOMAIN side |-> IF side[s] = "none" THEN file ELSE side[s]]
  /\ Goto(o, "schema")
  /\ UNCHANGED <<parent, file, objects, local, rivals, verdict>>

(* Mutant: CREATE without IF NOT EXISTS.                                   *)
ApplySchemaOnce(o) ==
  /\ pc[o] = "schema"
  /\ \/ Script[next[o]] \in objects /\ Fail(o)
     \/ /\ Script[next[o]] \notin objects
        /\ objects' = objects \union {Script[next[o]]}
                        \union {c \in {Column} : Script[next[o]] = "incidents"}
        /\ next' = [next EXCEPT ![o] = @ + 1]
        /\ Goto(o, IF next[o] = Len(Script) THEN "inspect" ELSE "schema")
        /\ UNCHANGED <<path, connected, cmd, saw, conn, rivals, verdict>>

(* One statement of the script; there is no transaction around it.  A new  *)
(* incidents table has the column.                                         *)
ApplySchema(o) ==
  /\ pc[o] = "schema"
  /\ objects' = objects \union {Script[next[o]]}
                  \union {c \in {Column} : /\ Script[next[o]] = "incidents"
                                           /\ "incidents" \notin objects}
  /\ next' = [next EXCEPT ![o] = @ + 1]
  /\ Goto(o, IF next[o] = Len(Script) THEN "inspect" ELSE "schema")
  /\ UNCHANGED <<path, connected, cmd, saw, conn, rivals, verdict>>

(* ensureIncidentDroppedEventsColumn: PRAGMA table_info occupies the pool. *)
InspectColumns(o) ==
  /\ pc[o] = "inspect" /\ conn[o] = "free"
  /\ saw' = [saw EXCEPT ![o] = Column \in objects]
  /\ conn' = [conn EXCEPT ![o] = "rows"]
  /\ Goto(o, "rows")
  /\ UNCHANGED <<path, objects, connected, cmd, next, rivals, verdict>>

(* Mutant: the column is added from within the loop over the rows.         *)
CloseRowsLate(o) ==
  /\ pc[o] = "rows"
  /\ conn' = [conn EXCEPT ![o] = IF saw[o] THEN "free" ELSE "rows"]
  /\ Goto(o, IF saw[o] THEN "validate" ELSE "alter")
  /\ UNCHANGED <<path, objects, connected, cmd, next, saw, rivals, verdict>>

(* The rows are closed: by the deferred Close when the column was found,   *)
(* before the ALTER when it was not.                                       *)
CloseRows(o) ==
  /\ pc[o] = "rows"
  /\ conn' = [conn EXCEPT ![o] = "free"]
  /\ Goto(o, IF saw[o] THEN "validate" ELSE "alter")
  /\ UNCHANGED <<path, objects, connected, cmd, next, saw, rivals, verdict>>

(* Mutant: an incidents table that was there before is left as it is.      *)
AddColumnForgotten(o) ==
  /\ pc[o] = "alter" /\ Goto(o, "validate") /\ Stay

(* ALTER TABLE incidents ADD COLUMN, an error when the column is there.    *)
AddColumn(o) ==
  /\ pc[o] = "alter" /\ conn[o] = "free"
  /\ \/ Column \in objects /\ Fail(o)
     \/ /\ Column \notin objects /\ objects' = objects \union {Column}
        /\ Goto(o, "validate")
        /\ UNCHANGED <<path, connected, local, rivals, verdict>>

(* validateSQLiteFile after the open, and OpenSQLite returns.              *)
ValidateAfter(o) ==
  /\ pc[o] = "validate"
  /\ \/ ~ValidFiles /\ Fail(o)
     \/ /\ ValidFiles /\ Goto(o, "open")
        /\ verdict' = [verdict EXCEPT ![o] = Doctor]
        /\ UNCHANGED <<path, objects, connected, local, rivals>>

(* The command ends.                                                       *)
Close(o) ==
  /\ pc[o] = "open" /\ Goto(o, "closed") /\ Disconnect(o)
  /\ UNCHANGED <<parent, file, objects, cmd, next, saw, rivals, verdict>>

(* A system call or a statement fails: I/O, a full disk, a busy database.  *)
Fault(o) ==
  /\ o \in Opening /\ Goto(o, "faulted") /\ Disconnect(o)
  /\ UNCHANGED <<parent, file, objects, cmd, next, saw, rivals, verdict>>

(* The process dies; its sidecars stay behind.                             *)
Crash(o) ==
  /\ o \in Opening \/ pc[o] = "open"
  /\ Goto(o, "crashed")
  /\ connected' = connected \ {o} /\ conn' = [conn EXCEPT ![o] = "free"]
  /\ UNCHANGED <<path, objects, cmd, next, saw, rivals, verdict>>

OpenStep(o) ==
  \/ EnsureParent(o) \/ CheckExists(o) \/ ValidateParent(o) \/ LstatPath(o)
  \/ CheckFiles(o) \/ RejectSidecars(o) \/ CreateFile(o) \/ Pragmas(o)
  \/ ApplySchema(o) \/ InspectColumns(o) \/ CloseRows(o) \/ AddColumn(o)
  \/ ValidateAfter(o)

OpenNext == \E o \in Openers :
  Start(o) \/ OpenStep(o) \/ Close(o) \/ Fault(o) \/ Crash(o)

OpenSpec == OpenInit /\ [][OpenNext]_openVars

(* A command that was started goes on by itself.                           *)
OpenFairSpec == OpenSpec /\ \A o \in Openers : WF_openVars(OpenStep(o))

-----------------------------------------------------------------------------
(* OpenSQLite returned nil: whatever database it found, and wherever other *)
(* processes died or gave up in theirs, the database has every table, every *)
(* index and the column later statements name; the one connection is free  *)
(* for them; and doctor has nothing to complain about.                     *)
OpenedIsReady ==
  \A o \in Openers : pc[o] = "open" =>
    /\ objects = Schema /\ conn[o] = "free" /\ o \in connected
    /\ verdict[o].fails = {} /\ ~verdict[o].missing

(* OpenSQLite refused: doctor shows a FAIL for this path, or it told the   *)
(* user to run init and this was not init, or there are sidecars without a *)
(* database, or the open lost a race against one that did not itself fail: *)
(* no crash and no half-made database makes a path unusable.               *)
FailureExplained ==
  \A o \in Openers : pc[o] = "failed" =>
    \/ verdict[o].fails # {} \/ verdict[o].orphans
    \/ verdict[o].missing /\ cmd[o] # "init"
    \/ \E p \in rivals[o] : pc[p] # "failed"

(* Every open returns, also one that finds a database to upgrade while the *)
(* pool has one connection.                                                *)
OpenReturns == \A o \in Openers : (o \in Opening) ~> (o \notin Opening)
=============================================================================
