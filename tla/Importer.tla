------------------------------ MODULE Importer ------------------------------
(***************************************************************************)
(* The background importer of the dashboard, sync_api/main.py: passes over *)
(* the report directories, each of them one database transaction, while    *)
(* the listener, the solo run, git and the operator go on writing and      *)
(* deleting files.                                                         *)
(*                                                                         *)
(* Rows are named by the file they came from.  The pass is split wherever  *)
(* it looks at the disk again, because the disk may have changed since.    *)
(* The scores it writes beside the rows are left out.                      *)
(***************************************************************************)
EXTENDS ReportFiles

CONSTANTS
  RootMayVanish,   \* may reports/ itself disappear and come back?
  MaxChanges,      \* bound on the changes others make to the workspace
  MaxCrashes,      \* bound on the passes that die half-way
  NoTestId

ASSUME ImporterAssumption ==
  /\ RootMayVanish \in BOOLEAN
  /\ MaxChanges \in Nat /\ MaxCrashes \in Nat
  /\ NoTestId \notin TestIds

VARIABLES
  root,        \* reports/ exists
  dirs,        \* the directories in it
  disk,        \* each file: absent, partly written, whole
  changes,     \* changes made so far
  crashes,     \* passes that died so far
  runs, rows,       \* the committed tables
  txRuns, txRows,   \* the tables as the open transaction sees them
  pc,          \* where _import_once stands
  names,       \* what iterdir gave _list_report_files and it has yet to look at
  listedDirs,  \* what it found: the directories
  listed,      \* ... and the files
  todoDirs,    \* directories the pass has yet to visit
  testId,      \* the directory it is in
  todo,        \* files of it that are not imported and not visited
  settling     \* the first stat of _is_file_stable

diskVars == <<root, dirs, disk, changes>>
dbVars == <<runs, rows>>
txVars == <<txRuns, txRows>>
passVars == <<names, listedDirs, listed, todoDirs, testId, todo, settling>>
vars == <<diskVars, crashes, dbVars, txVars, pc, passVars>>

FileStates == {"absent", "partial", "whole"}

TypeOK ==
  /\ root \in BOOLEAN /\ dirs \subseteq TestIds
  /\ disk \in [Files -> FileStates]
  /\ changes \in 0..MaxChanges /\ crashes \in 0..MaxCrashes
  /\ runs \subseteq TestIds /\ rows \subseteq Files
  /\ txRuns \subseteq TestIds /\ txRows \subseteq Files
  /\ pc \in {"idle", "listing", "scanning", "dirs", "files", "settling"}
  /\ names \subseteq TestIds
  /\ listedDirs \subseteq TestIds /\ todoDirs \subseteq listedDirs
  /\ listed \subseteq Files /\ todo \subseteq listed
  /\ testId \in TestIds \cup {NoTestId}
  /\ settling \in FileStates

Init ==
  /\ root = TRUE /\ dirs = {}
  /\ disk = [f \in Files |-> "absent"]
  /\ changes = 0 /\ crashes = 0
  /\ runs = {} /\ rows = {} /\ txRuns = {} /\ txRows = {}
  /\ pc = "idle"
  /\ names = {} /\ listedDirs = {} /\ listed = {} /\ todoDirs = {} /\ todo = {}
  /\ testId = NoTestId
  /\ settling = "absent"

-----------------------------------------------------------------------------
(* What the importer can see.                                               *)

Visible(f) == root /\ disk[f] # "absent"
Parses(f) == root /\ disk[f] = "whole" /\ f \notin Broken

In(t) == {f \in Files : TestIdOf[f] = t}

-----------------------------------------------------------------------------
(* _import_once.                                                            *)

(* `if not reports_root.exists(): return`.                                  *)
StartPass ==
  /\ pc = "idle" /\ root
  /\ pc' = "listing"
  /\ UNCHANGED <<diskVars, crashes, dbVars, txVars, passVars>>

(* _list_report_files, in a thread: it looks at the root once more and then *)
(* lists it ...                                                             *)
ListRoot ==
  /\ pc = "listing"
  /\ names' = IF root THEN dirs ELSE {}
  /\ pc' = "scanning"
  /\ UNCHANGED <<diskVars, crashes, dbVars, txVars, listedDirs, listed, todoDirs, testId, todo, settling>>

(* ... and looks at one directory after the other.  One that has gone by    *)
(* then is passed over; one that goes between is_dir() and glob() is kept   *)
(* without files, and its run is dropped either way.                        *)
ListTestDir(t) ==
  /\ pc = "scanning" /\ t \in names
  /\ names' = names \ {t}
  /\ IF root /\ t \in dirs
     THEN /\ listedDirs' = listedDirs \cup {t}
          /\ listed' = listed \cup {f \in In(t) : Visible(f)}
     ELSE UNCHANGED <<listedDirs, listed>>
  /\ UNCHANGED <<diskVars, crashes, dbVars, txVars, pc, todoDirs, testId, todo, settling>>

(* The session opens.                                                       *)
OpenSession ==
  /\ pc = "scanning" /\ names = {}
  /\ todoDirs' = listedDirs
  /\ txRuns' = runs /\ txRows' = rows
  /\ pc' = "dirs"
  /\ UNCHANGED <<diskVars, crashes, dbVars, names, listedDirs, listed, testId, todo, settling>>

(* _import_one_test_dir without report files: the run goes, and its rows    *)
(* with it.                                                                 *)
DropEmptyRun(t) ==
  /\ pc = "dirs" /\ t \in todoDirs
  /\ listed \cap In(t) = {}
  /\ txRuns' = txRuns \ {t}
  /\ txRows' = txRows \ In(t)
  /\ todoDirs' = todoDirs \ {t}
  /\ UNCHANGED <<diskVars, crashes, dbVars, pc, names, listedDirs, listed, testId, todo, settling>>

(* Mutant: only files with a later name than the imported ones are visited. *)
OpenTestDirLaterNamesOnly(t) ==
  /\ pc = "dirs" /\ t \in todoDirs
  /\ listed \cap In(t) # {}
  /\ txRuns' = txRuns \cup {t}
  /\ txRows' = txRows \ (In(t) \ listed)
  /\ todo' = {f \in listed \cap In(t) : \A g \in txRows \cap In(t) : g < f}
  /\ testId' = t
  /\ pc' = "files"
  /\ UNCHANGED <<diskVars, crashes, dbVars, names, listedDirs, listed, todoDirs, settling>>

(* ... with report files: the run is found or made, rows of files that are  *)
(* gone are deleted, the files without rows are to be visited.              *)
OpenTestDir(t) ==
  /\ pc = "dirs" /\ t \in todoDirs
  /\ listed \cap In(t) # {}
  /\ txRuns' = txRuns \cup {t}
  /\ txRows' = txRows \ (In(t) \ listed)
  /\ todo' = (listed \cap In(t)) \ txRows
  /\ testId' = t
  /\ pc' = "files"
  /\ UNCHANGED <<diskVars, crashes, dbVars, names, listedDirs, listed, todoDirs, settling>>

(* The files are visited in the order of their names.                       *)
IsNext(f) == f \in todo /\ \A g \in todo : f <= g

(* _is_file_stable: the first stat ...                                      *)
StatFile(f) ==
  /\ pc = "files" /\ IsNext(f)
  /\ IF Visible(f)
     THEN settling' = disk[f] /\ pc' = "settling" /\ UNCHANGED todo
     ELSE todo' = todo \ {f} /\ UNCHANGED <<settling, pc>>
  /\ UNCHANGED <<diskVars, crashes, dbVars, txVars, names, listedDirs, listed, todoDirs, testId>>

(* ... and the second, after which the file is read.                        *)
Readable(f) == disk[f] = settling /\ Parses(f)

LeaveFile(f) ==
  /\ pc = "settling" /\ IsNext(f)
  /\ todo' = todo \ {f} /\ pc' = "files" /\ settling' = "absent"
  /\ UNCHANGED <<diskVars, crashes, dbVars, txRuns, names, listedDirs, listed, todoDirs, testId>>

(* Nothing to import: the file is still changing, does not parse, is not a  *)
(* report, or has no results.                                               *)
SkipFile(f) ==
  /\ LeaveFile(f)
  /\ ~Readable(f) \/ f \in Empty \/ f \notin Solo \cup Listener
  /\ UNCHANGED txRows

(* _import_solo_report.                                                     *)
ImportSolo(f) ==
  /\ LeaveFile(f)
  /\ Readable(f) /\ f \in Solo \ Empty
  /\ txRows' = txRows \cup {f}

(* _import_listener_report: the row of the same session id stays if it is   *)
(* the newer one, else it gives way.                                        *)
Attempts(f) == {g \in txRows : SameSession(f, g)}

KeepNewerSession(f) ==
  /\ LeaveFile(f)
  /\ Readable(f) /\ f \in Listener
  /\ \E g \in Attempts(f) : ExistingIsNewer(g, f)
  /\ UNCHANGED txRows

(* Mutant: the attempt before it is not deleted.                            *)
ImportListenerBeside(f) ==
  /\ LeaveFile(f)
  /\ Readable(f) /\ f \in Listener
  /\ ~\E g \in Attempts(f) : ExistingIsNewer(g, f)
  /\ txRows' = txRows \cup {f}

ImportListener(f) ==
  /\ LeaveFile(f)
  /\ Readable(f) /\ f \in Listener
  /\ ~\E g \in Attempts(f) : ExistingIsNewer(g, f)
  /\ txRows' = (txRows \ Attempts(f)) \cup {f}

(* The directory is done with, but for its scores.                          *)
FinishTestDir ==
  /\ pc = "files" /\ todo = {}
  /\ todoDirs' = todoDirs \ {testId}
  /\ testId' = NoTestId
  /\ pc' = "dirs"
  /\ UNCHANGED <<diskVars, crashes, dbVars, txVars, names, listedDirs, listed, todo, settling>>

(* Mutant: what a pass that died had still to visit is kept.                *)
EndPassKeepsTodo ==
  /\ pc' = "idle"
  /\ names' = {} /\ listedDirs' = {} /\ listed' = {} /\ todoDirs' = {} /\ todo' = todo
  /\ testId' = NoTestId /\ settling' = "absent"
  /\ txRuns' = {} /\ txRows' = {}

(* The session is closed and its transaction is over.                       *)
EndPass ==
  /\ pc' = "idle"
  /\ names' = {} /\ listedDirs' = {} /\ listed' = {} /\ todoDirs' = {} /\ todo' = {}
  /\ testId' = NoTestId /\ settling' = "absent"
  /\ txRuns' = {} /\ txRows' = {}

(* Mutant: the runs of removed directories are not reconciled away.         *)
CommitUnreconciled ==
  /\ pc = "dirs" /\ todoDirs = {}
  /\ runs' = txRuns /\ rows' = txRows
  /\ EndPass
  /\ UNCHANGED <<diskVars, crashes>>

(* _reconcile_missing_test_runs, which drops the runs without a directory,  *)
(* and the commit.                                                          *)
Commit ==
  /\ pc = "dirs" /\ todoDirs = {}
  /\ runs' = txRuns \cap listedDirs
  /\ rows' = {f \in txRows : TestIdOf[f] \in listedDirs}
  /\ EndPass
  /\ UNCHANGED <<diskVars, crashes>>

(* The pass raises, the database goes away or the process is restarted: the *)
(* transaction is rolled back, the next pass starts from the beginning.     *)
Crash ==
  /\ pc # "idle" /\ crashes < MaxCrashes
  /\ crashes' = crashes + 1
  /\ EndPass
  /\ UNCHANGED <<diskVars, dbVars>>

VisitFile(f) ==
  StatFile(f) \/ SkipFile(f) \/ ImportSolo(f) \/ KeepNewerSession(f) \/ ImportListener(f)

ImporterStep ==
  \/ StartPass \/ ListRoot \/ OpenSession \/ FinishTestDir \/ Commit
  \/ \E t \in TestIds : ListTestDir(t) \/ DropEmptyRun(t) \/ OpenTestDir(t)
  \/ \E f \in Files : VisitFile(f)

-----------------------------------------------------------------------------
(* Everyone else who uses the workspace.                                    *)

Change ==
  /\ changes < MaxChanges
  /\ changes' = changes + 1
  /\ UNCHANGED <<crashes, dbVars, txVars, pc, passVars>>

(* A report is being written, or arrives with a git pull.                   *)
BeginWrite(f) ==
  /\ Change
  /\ root /\ disk[f] = "absent"
  /\ disk' = [disk EXCEPT ![f] = "partial"]
  /\ dirs' = dirs \cup {TestIdOf[f]}
  /\ UNCHANGED root

EndWrite(f) ==
  /\ root /\ disk[f] = "partial"
  /\ disk' = [disk EXCEPT ![f] = "whole"]
  /\ UNCHANGED <<root, dirs, changes, crashes, dbVars, txVars, pc, passVars>>

DeleteFile(f) ==
  /\ Change
  /\ Visible(f)
  /\ disk' = [disk EXCEPT ![f] = "absent"]
  /\ UNCHANGED <<root, dirs>>

RemoveDir(t) ==
  /\ Change
  /\ root /\ t \in dirs
  /\ dirs' = dirs \ {t}
  /\ disk' = [f \in Files |-> IF TestIdOf[f] = t THEN "absent" ELSE disk[f]]
  /\ UNCHANGED root

HideRoot ==
  /\ RootMayVanish /\ Change
  /\ root
  /\ root' = FALSE
  /\ UNCHANGED <<dirs, disk>>

ShowRoot ==
  /\ ~root
  /\ root' = TRUE
  /\ UNCHANGED <<dirs, disk, changes, crashes, dbVars, txVars, pc, passVars>>

OthersStep ==
  \/ \E f \in Files : BeginWrite(f) \/ EndWrite(f) \/ DeleteFile(f)
  \/ \E t \in TestIds : RemoveDir(t)
  \/ HideRoot \/ ShowRoot

Next == ImporterStep \/ Crash \/ OthersStep

Spec == Init /\ [][Next]_vars

(* The import loop never stops: a pass goes on unless it dies, and another  *)
(* one starts after the interval.                                           *)
FairSpec == Spec /\ WF_vars(ImporterStep)

-----------------------------------------------------------------------------
(* Safety.                                                                  *)

(* A pass begins only while reports/ is there, looks at each directory of   *)
(* the workspace once, and commits what is true to these looks: runs and    *)
(* rows only for what they showed, one session per session id, and no       *)
(* report lost that was still there, except to a later attempt of the same  *)
(* session.  Whatever was deleted, written or hidden meanwhile, and         *)
(* wherever passes died before it.  A name that iterdir does not give is    *)
(* looked at with iterdir.                                                  *)
Looked == IF pc \in {"idle", "listing"} THEN {} ELSE TestIds \ names
Db == INSTANCE ReportDb WITH
  there <- root, present <- {f \in Files : Visible(f)}, begun <- pc # "idle", looked <- Looked
ImplementsReportDb == Db!Spec

(* Inside the open transaction as well, a session id never has two rows.    *)
(* scalar_one_or_none would raise on the second one, in every later pass.   *)
OneAttemptPerSession ==
  \A f, g \in txRows : SameSession(f, g) => f = g

(* Liveness.                                                                *)

(* The workspace as the single source of truth: the tables as they have to  *)
(* be for the files that are there now.                                     *)
Usable == {f \in Files : Parses(f) /\ f \notin Empty}

MatchesWorkspace ==
  /\ runs = {TestIdOf[f] : f \in {g \in Files : Visible(g)}}
  /\ \A f \in rows : Visible(f)
  /\ Usable \cap Solo \subseteq rows
  /\ \A f \in Usable \cap Listener :
       f \in rows \/ \E g \in rows : SameSession(f, g) /\ ExistingIsNewer(g, f)

(* Once the others leave the workspace alone, the tables come to match it   *)
(* and stay so, also after deletions that bring an older attempt back,      *)
(* half-written files and passes that died.                                 *)
Converges == <>[](root => MatchesWorkspace)
=============================================================================
