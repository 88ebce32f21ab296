--------------------------- MODULE Importer_proofs ---------------------------
(***************************************************************************)
(* Proofs about Importer, for every workspace: any files in any number of  *)
(* directories, any deletions, any number of changes and of dead passes.   *)
(***************************************************************************)
EXTENDS Importer, TLAPS

-----------------------------------------------------------------------------
(* Types.                                                                   *)

(* No pass leaves anything behind for the next one, and the listing of the  *)
(* workspace touches nothing of what the session will work with.            *)
BetweenPasses ==
  /\ pc \in {"idle", "listing"} => names = {} /\ listed = {} /\ listedDirs = {}
  /\ pc \in {"idle", "listing", "scanning"} =>
       /\ todoDirs = {} /\ todo = {} /\ testId = NoTestId
       /\ txRuns = {} /\ txRows = {}

TypeInv == TypeOK /\ BetweenPasses

LEMMA TypeInvInit == Init => TypeInv
<1> SUFFICES ASSUME Init PROVE TypeInv
  OBVIOUS
<1>1. disk \in [Files -> FileStates] /\ settling \in FileStates
  BY DEF Init, FileStates
<1>2. changes \in 0..MaxChanges /\ crashes \in 0..MaxCrashes
  BY ImporterAssumption DEF Init
<1> QED
  BY <1>1, <1>2 DEF Init, TypeInv, TypeOK, BetweenPasses

(* The pass's variables after a pass that ended.                            *)
LEMMA EndPassType ==
  ASSUME EndPass
  PROVE  /\ pc' = "idle" /\ testId' = NoTestId
         /\ names' = {} /\ listedDirs' = {} /\ listed' = {} /\ todoDirs' = {} /\ todo' = {}
         /\ settling' \in FileStates
         /\ txRuns' = {} /\ txRows' = {}
  BY DEF EndPass, FileStates

LEMMA TypeInvImporterStep ==
  ASSUME TypeInv, ImporterStep
  PROVE  TypeInv'
<1> USE DEF TypeInv, TypeOK, BetweenPasses, diskVars, dbVars, txVars
<1>1. CASE StartPass
  BY <1>1 DEF StartPass, passVars
<1>2. CASE ListRoot
  BY <1>2 DEF ListRoot
<1>3. CASE OpenSession \/ FinishTestDir
  BY <1>3 DEF OpenSession, FinishTestDir
<1>4. CASE Commit
  <2>1. runs' \subseteq TestIds /\ rows' \subseteq Files
    BY <1>4 DEF Commit
  <2> QED
    BY <1>4, <2>1, EndPassType DEF Commit
<1>5. ASSUME NEW t \in TestIds, ListTestDir(t) \/ DropEmptyRun(t) PROVE TypeInv'
  <2>1. CASE ListTestDir(t)
    BY <2>1 DEF ListTestDir, In
  <2>2. CASE DropEmptyRun(t)
    BY <2>2 DEF DropEmptyRun
  <2> QED
    BY <1>5, <2>1, <2>2
<1>6. ASSUME NEW t \in TestIds, OpenTestDir(t) PROVE TypeInv'
  BY <1>6 DEF OpenTestDir
<1>7. ASSUME NEW f \in Files, VisitFile(f) PROVE TypeInv'
  <2>1. CASE StatFile(f)
    BY <2>1 DEF StatFile
  <2>2. CASE SkipFile(f)
    BY <2>2 DEF SkipFile, LeaveFile, FileStates
  <2>3. CASE ImportSolo(f)
    BY <2>3 DEF ImportSolo, LeaveFile, FileStates
  <2>4. CASE KeepNewerSession(f)
    BY <2>4 DEF KeepNewerSession, LeaveFile, FileStates
  <2>5. CASE ImportListener(f)
    BY <2>5 DEF ImportListener, LeaveFile, FileStates
  <2> QED
    BY <1>7, <2>1, <2>2, <2>3, <2>4, <2>5 DEF VisitFile
<1> QED
  BY <1>1, <1>2, <1>3, <1>4, <1>5, <1>6, <1>7 DEF ImporterStep

LEMMA TypeInvCrash ==
  ASSUME TypeInv, Crash
  PROVE  TypeInv'
<1>1. crashes' \in 0..MaxCrashes
  BY ImporterAssumption DEF TypeInv, TypeOK, BetweenPasses, Crash
<1> QED
  BY <1>1, EndPassType DEF TypeInv, TypeOK, BetweenPasses, Crash, diskVars, dbVars

LEMMA ChangeType ==
  ASSUME TypeInv, Change
  PROVE  changes' \in 0..MaxChanges
  BY ImporterAssumption DEF TypeInv, TypeOK, BetweenPasses, Change

LEMMA TypeInvOthersStep ==
  ASSUME TypeInv, OthersStep
  PROVE  TypeInv'
<1> USE DEF TypeInv, TypeOK, BetweenPasses, dbVars, txVars, passVars
<1>1. ASSUME NEW f \in Files, BeginWrite(f) PROVE TypeInv'
  <2>1. TestIdOf[f] \in TestIds
    BY ReportFilesAssumption
  <2>2. disk' \in [Files -> FileStates] /\ dirs' \subseteq TestIds
    BY <1>1, <2>1 DEF BeginWrite, FileStates
  <2> QED
    BY <1>1, <2>2, ChangeType DEF BeginWrite, Change
<1>2. ASSUME NEW f \in Files, EndWrite(f) PROVE TypeInv'
  <2>1. disk' \in [Files -> FileStates]
    BY <1>2 DEF EndWrite, FileStates
  <2> QED
    BY <1>2, <2>1 DEF EndWrite
<1>3. ASSUME NEW f \in Files, DeleteFile(f) PROVE TypeInv'
  <2>1. disk' \in [Files -> FileStates]
    BY <1>3 DEF DeleteFile, FileStates
  <2> QED
    BY <1>3, <2>1, ChangeType DEF DeleteFile, Change
<1>4. ASSUME NEW t \in TestIds, RemoveDir(t) PROVE TypeInv'
  <2>1. disk' \in [Files -> FileStates]
    BY <1>4 DEF RemoveDir, FileStates
  <2> QED
    BY <1>4, <2>1, ChangeType DEF RemoveDir, Change
<1>5. CASE HideRoot
  BY <1>5, ChangeType DEF HideRoot, Change
<1>6. CASE ShowRoot
  BY <1>6 DEF ShowRoot
<1> QED
  BY <1>1, <1>2, <1>3, <1>4, <1>5, <1>6 DEF OthersStep

LEMMA TypeInvStep ==
  ASSUME TypeInv, [Next]_vars
  PROVE  TypeInv'
<1>1. CASE UNCHANGED vars
  BY <1>1 DEF TypeInv, TypeOK, BetweenPasses, vars, diskVars, dbVars, txVars, passVars
<1> QED
  BY <1>1, TypeInvImporterStep, TypeInvCrash, TypeInvOthersStep DEF Next

(* Every variable of the importer keeps its type.                           *)
THEOREM TypeOKAlways == Spec => []TypeOK
<1>1. TypeInv => TypeOK
  BY DEF TypeInv
<1> QED
  BY <1>1, TypeInvInit, TypeInvStep, PTL DEF Spec

-----------------------------------------------------------------------------
(* One row per session id, in the tables and in the open transaction.       *)

Unique(files) == \A f, g \in files : SameSession(f, g) => f = g

Reports == Solo \cup Listener

RowsInv ==
  /\ rows \subseteq Reports /\ Unique(rows)
  /\ txRows \subseteq Reports /\ Unique(txRows)

(* Replacing the attempts of a session by a report of it leaves one.        *)
LEMMA ReplaceAttempts ==
  ASSUME NEW f \in Files, TypeInv, Unique(txRows)
  PROVE  Unique((txRows \ Attempts(f)) \cup {f})
  BY ReportFilesAssumption DEF Unique, Attempts, SameSession, TypeInv, TypeOK

LEMMA SubsetUnique ==
  ASSUME NEW files, Unique(files), NEW fewer \in SUBSET files
  PROVE  Unique(fewer)
  BY DEF Unique

LEMMA RowsImporterStep ==
  ASSUME TypeInv, RowsInv, ImporterStep
  PROVE  RowsInv'
<1> USE DEF RowsInv, diskVars, dbVars, txVars
<1>1. CASE StartPass
  BY <1>1 DEF StartPass, Unique
<1>2. CASE ListRoot \/ \E t \in TestIds : ListTestDir(t)
  BY <1>2 DEF ListRoot, ListTestDir, Unique
<1>3. CASE OpenSession \/ FinishTestDir
  BY <1>3 DEF OpenSession, FinishTestDir, Unique
<1>4. CASE Commit
  BY <1>4 DEF Commit, EndPass, Unique
<1>5. ASSUME NEW t \in TestIds, DropEmptyRun(t) PROVE RowsInv'
  BY <1>5 DEF DropEmptyRun, Unique
<1>6. ASSUME NEW t \in TestIds, OpenTestDir(t) PROVE RowsInv'
  BY <1>6 DEF OpenTestDir, Unique
<1>7. ASSUME NEW f \in Files, VisitFile(f) PROVE RowsInv'
  <2>1. CASE StatFile(f)
    BY <2>1 DEF StatFile, Unique
  <2>2. CASE SkipFile(f)
    BY <2>2 DEF SkipFile, LeaveFile, Unique
  <2>3. CASE ImportSolo(f)
    <3>1. \A g : ~SameSession(f, g) /\ ~SameSession(g, f)
      BY <2>3, ReportFilesAssumption DEF ImportSolo, SameSession
    <3> QED
      BY <2>3, <3>1 DEF ImportSolo, LeaveFile, Unique, Reports
  <2>4. CASE KeepNewerSession(f)
    BY <2>4 DEF KeepNewerSession, LeaveFile, Unique
  <2>5. CASE ImportListener(f)
    <3>1. Unique(txRows')
      BY <2>5, ReplaceAttempts DEF ImportListener
    <3> QED
      BY <2>5, <3>1 DEF ImportListener, LeaveFile, Reports, Unique
  <2> QED
    BY <1>7, <2>1, <2>2, <2>3, <2>4, <2>5 DEF VisitFile
<1> QED
  BY <1>1, <1>2, <1>3, <1>4, <1>5, <1>6, <1>7 DEF ImporterStep

LEMMA OthersKeepTables ==
  ASSUME OthersStep
  PROVE  UNCHANGED <<dbVars, txVars, pc, passVars>>
  BY DEF OthersStep, BeginWrite, EndWrite, DeleteFile, RemoveDir, HideRoot, ShowRoot, Change

LEMMA RowsInvStep ==
  ASSUME TypeInv, RowsInv, [Next]_vars
  PROVE  RowsInv'
<1>1. CASE Crash
  BY <1>1 DEF Crash, EndPass, RowsInv, Unique, dbVars
<1>2. CASE OthersStep
  BY <1>2, OthersKeepTables DEF RowsInv, Unique, dbVars, txVars
<1>3. CASE UNCHANGED vars
  BY <1>3 DEF vars, RowsInv, Unique, dbVars, txVars
<1> QED
  BY <1>1, <1>2, <1>3, RowsImporterStep DEF Next

(* Neither the tables nor the open transaction ever hold two rows of one    *)
(* session id in one test run, so the importer's scalar_one_or_none cannot  *)
(* raise.                                                                   *)
THEOREM OneAttemptPerSessionAlways == Spec => []OneAttemptPerSession
<1>1. Init => RowsInv
  BY DEF Init, RowsInv, Unique
<1>2. RowsInv => OneAttemptPerSession
  BY DEF RowsInv, Unique, OneAttemptPerSession
<1> QED
  BY <1>1, <1>2, TypeInvInit, TypeInvStep, RowsInvStep, PTL DEF Spec

-----------------------------------------------------------------------------
(* The importer implements ReportDb.  A pass keeps every report it saw and  *)
(* that has rows, or a later attempt of its session (Kept); directories it  *)
(* has yet to visit are as the tables have them, those it has visited as    *)
(* the listing had them.                                                    *)

FileHasDir == \A f \in Files : disk[f] # "absent" => TestIdOf[f] \in dirs

Passing == pc \in {"dirs", "files", "settling"}
Pending(t) == t \in todoDirs /\ t # testId

PassPlace ==
  /\ pc \in {"dirs", "files", "settling"} => names = {}
  /\ pc = "dirs" => testId = NoTestId
  /\ pc \in {"files", "settling"} => testId \in todoDirs /\ todo \subseteq In(testId)

ListedInListedDirs == \A f \in listed : TestIdOf[f] \in listedDirs

PendingUntouched ==
  \A f \in Files : Pending(TestIdOf[f]) => (f \in txRows <=> f \in rows)

VisitedAsListed ==
  Passing => \A t \in listedDirs :
    \/ Pending(t)
    \/ /\ (t \in txRuns) <=> (\E f \in listed : TestIdOf[f] = t)
       /\ \A f \in txRows : TestIdOf[f] = t => f \in listed

Kept(f) == f \in txRows \/ \E g \in txRows : SameSession(f, g) /\ f < g

NothingLost == Passing => \A f \in rows \cap listed : Kept(f)

PassInv ==
  /\ FileHasDir /\ PassPlace /\ ListedInListedDirs
  /\ PendingUntouched /\ VisitedAsListed /\ NothingLost

(* An attempt that gives way has the lesser name.                           *)
LEMMA OlderAttempt ==
  ASSUME NEW f \in Files, NEW g \in Files, SameSession(f, g), ~ExistingIsNewer(f, g)
  PROVE  f < g
  BY ReportFilesAssumption, NamesAreChronological DEF SameSession, ExistingIsNewer

LEMMA ImportKeeps ==
  ASSUME TypeInv, NEW new \in Files, ImportListener(new), NEW f \in Files, Kept(f)
  PROVE  Kept(f)'
<1>1. new \in txRows'
  BY DEF ImportListener
<1>2. ASSUME NEW g \in Attempts(new) PROVE SameSession(g, new) /\ g < new
  <2>1. SameSession(new, g) /\ g \in Files
    BY DEF Attempts, TypeInv, TypeOK
  <2>2. SameSession(g, new)
    BY <2>1 DEF SameSession
  <2>3. ~ExistingIsNewer(g, new)
    BY DEF ImportListener
  <2> QED
    BY <2>1, <2>2, <2>3, OlderAttempt
<1>3. \A g \in txRows \ Attempts(new) : g \in txRows'
  BY DEF ImportListener
<1>4. CASE f \in txRows
  BY <1>1, <1>2, <1>3, <1>4 DEF Kept
<1>5. ASSUME NEW g \in txRows, SameSession(f, g), f < g PROVE Kept(f)'
  <2>1. CASE g \in Attempts(new)
    <3>1. SameSession(f, new)
      BY <1>2, <1>5, <2>1 DEF SameSession
    <3>2. f < g /\ g < new /\ f \in Nat /\ g \in Nat /\ new \in Nat
      BY <1>2, <1>5, <2>1, ReportFilesAssumption DEF TypeInv, TypeOK
    <3>3. f < new
      BY <3>2
    <3> QED
      BY <1>1, <3>1, <3>3 DEF Kept
  <2> QED
    BY <1>3, <1>5, <2>1 DEF Kept
<1> QED
  BY <1>4, <1>5 DEF Kept

(* A file that is visited belongs to the directory the pass is in.          *)
LEMMA VisitedFile ==
  ASSUME TypeInv, PassInv, NEW f \in Files, LeaveFile(f)
  PROVE  /\ f \in listed /\ TestIdOf[f] = testId
         /\ Passing /\ Passing' /\ testId \in todoDirs
         /\ PassPlace'
  BY DEF TypeInv, TypeOK, PassInv, PassPlace, LeaveFile, IsNext, In, Passing

LEMMA PassVisitFile ==
  ASSUME TypeInv, PassInv, NEW f \in Files, VisitFile(f)
  PROVE  PassInv'
<1> USE DEF PassInv, diskVars, dbVars, txVars
<1>1. CASE StatFile(f)
  BY <1>1 DEF StatFile, TypeInv, TypeOK, FileHasDir, PassPlace, ListedInListedDirs,
              PendingUntouched, VisitedAsListed, NothingLost, Passing, Pending, Kept
<1>2. CASE SkipFile(f) \/ KeepNewerSession(f)
  <2>1. LeaveFile(f) /\ UNCHANGED txRows
    BY <1>2 DEF SkipFile, KeepNewerSession
  <2> QED
    BY <2>1, VisitedFile DEF LeaveFile, FileHasDir, ListedInListedDirs,
       PendingUntouched, VisitedAsListed, NothingLost, Pending, Kept
<1>3. ASSUME LeaveFile(f), txRows' \ txRows \subseteq {f},
             \A g \in txRows \ txRows' : TestIdOf[g] = testId,
             NothingLost'
      PROVE  PassInv'
  <2>1. PendingUntouched'
    BY <1>3, VisitedFile DEF PendingUntouched, Pending, LeaveFile
  <2>2. VisitedAsListed'
    BY <1>3, VisitedFile DEF VisitedAsListed, Pending, LeaveFile
  <2>3. FileHasDir' /\ ListedInListedDirs'
    BY <1>3 DEF FileHasDir, ListedInListedDirs, LeaveFile
  <2> QED
    BY <1>3, <2>1, <2>2, <2>3, VisitedFile
<1>4. CASE ImportSolo(f)
  <2>1. LeaveFile(f) /\ txRows' = txRows \cup {f}
    BY <1>4 DEF ImportSolo
  <2>2. NothingLost'
    BY <2>1, VisitedFile DEF NothingLost, Kept, LeaveFile
  <2> QED
    BY <1>3, <2>1, <2>2
<1>5. CASE ImportListener(f)
  <2>1. LeaveFile(f) /\ txRows' = (txRows \ Attempts(f)) \cup {f}
    BY <1>5 DEF ImportListener
  <2>2. NothingLost'
    <3>1. \A g \in rows \cap listed : Kept(g)'
      BY <1>5, <2>1, ImportKeeps, VisitedFile DEF NothingLost, TypeInv, TypeOK
    <3> QED
      BY <2>1, <3>1 DEF NothingLost, LeaveFile
  <2>3. \A g \in Attempts(f) : TestIdOf[g] = testId
    BY <2>1, VisitedFile DEF Attempts, SameSession
  <2> QED
    BY <1>3, <2>1, <2>2, <2>3
<1> QED
  BY <1>1, <1>2, <1>4, <1>5 DEF VisitFile

LEMMA PassOpenTestDir ==
  ASSUME TypeInv, PassInv, NEW t \in TestIds, OpenTestDir(t)
  PROVE  PassInv'
<1> USE DEF PassInv, diskVars, dbVars, txVars
<1>1. /\ pc = "dirs" /\ Passing /\ Passing' /\ testId = NoTestId
      /\ t \in todoDirs /\ t # NoTestId /\ Pending(t)
  BY ImporterAssumption DEF OpenTestDir, PassPlace, Passing, Pending
<1>2. \A u \in TestIds : Pending(u)' <=> (Pending(u) /\ u # t)
  BY <1>1, ImporterAssumption DEF OpenTestDir, Pending
<1>3. \A f \in Files : f \in txRows' <=> f \in txRows /\ (TestIdOf[f] = t => f \in listed)
  BY DEF OpenTestDir, In, TypeInv, TypeOK
<1>4. FileHasDir' /\ ListedInListedDirs'
  BY DEF OpenTestDir, FileHasDir, ListedInListedDirs
<1>5. PassPlace'
  BY <1>1 DEF OpenTestDir, PassPlace
<1>6. PendingUntouched'
  <2> SUFFICES ASSUME NEW f \in Files, Pending(TestIdOf[f])'
               PROVE  f \in txRows' <=> f \in rows'
    BY DEF PendingUntouched
  <2>1. TestIdOf[f] \in TestIds
    BY ReportFilesAssumption
  <2>2. Pending(TestIdOf[f]) /\ TestIdOf[f] # t
    BY <1>2, <2>1
  <2> QED
    BY <1>3, <2>2 DEF OpenTestDir, PendingUntouched
<1>7. VisitedAsListed'
  <2> SUFFICES ASSUME NEW u \in listedDirs, ~Pending(u)'
               PROVE  /\ (u \in txRuns') <=> (\E f \in listed : TestIdOf[f] = u)
                      /\ \A f \in txRows' : TestIdOf[f] = u => f \in listed
    BY DEF VisitedAsListed, OpenTestDir
  <2>1. u \in TestIds /\ txRows' \subseteq Files /\ listed \subseteq Files
    BY DEF TypeInv, TypeOK, OpenTestDir
  <2>2. CASE u = t
    <3>1. \E f \in listed : TestIdOf[f] = t
      BY DEF OpenTestDir, In
    <3>2. t \in txRuns'
      BY DEF OpenTestDir
    <3> QED
      BY <1>3, <2>1, <2>2, <3>1, <3>2
  <2>3. CASE u # t
    <3>1. ~Pending(u)
      BY <1>2, <2>1, <2>3
    <3>2. u \in txRuns' <=> u \in txRuns
      BY <2>3 DEF OpenTestDir
    <3> QED
      BY <1>1, <1>3, <2>1, <3>1, <3>2 DEF VisitedAsListed
  <2> QED
    BY <2>2, <2>3
<1>8. NothingLost'
  <2> SUFFICES ASSUME NEW f \in rows \cap listed
               PROVE  Kept(f)'
    BY DEF NothingLost, OpenTestDir
  <2>1. f \in Files /\ Kept(f)
    BY <1>1 DEF NothingLost, TypeInv, TypeOK
  <2>2. CASE TestIdOf[f] = t
    BY <1>1, <1>3, <2>1, <2>2 DEF PendingUntouched, Kept
  <2>3. CASE TestIdOf[f] # t
    <3>1. \A g \in txRows : SameSession(f, g) => TestIdOf[g] # t
      BY <2>3 DEF SameSession
    <3>2. txRows \subseteq Files
      BY DEF TypeInv, TypeOK
    <3> QED
      BY <1>3, <2>1, <2>3, <3>1, <3>2 DEF Kept
  <2> QED
    BY <2>2, <2>3
<1> QED
  BY <1>4, <1>5, <1>6, <1>7, <1>8

LEMMA PassImporterStep ==
  ASSUME TypeInv, PassInv, ImporterStep
  PROVE  PassInv'
<1> USE DEF PassInv, diskVars, dbVars, txVars
<1>1. CASE StartPass
  BY <1>1 DEF StartPass, passVars, FileHasDir, PassPlace, ListedInListedDirs,
              PendingUntouched, VisitedAsListed, NothingLost, Passing, Pending, Kept
<1>2. CASE ListRoot
  BY <1>2 DEF ListRoot, TypeInv, TypeOK, BetweenPasses, FileHasDir, PassPlace, ListedInListedDirs,
              PendingUntouched, VisitedAsListed, NothingLost, Passing, Pending, Kept
<1>6. ASSUME NEW t \in TestIds, ListTestDir(t) PROVE PassInv'
  <2>1. /\ ~Passing /\ ~Passing' /\ PassPlace' /\ FileHasDir'
        /\ todoDirs = {} /\ todoDirs' = {}
    BY <1>6 DEF ListTestDir, TypeInv, BetweenPasses, PassPlace, FileHasDir, Passing
  <2>2. ListedInListedDirs'
    BY <1>6 DEF ListTestDir, ListedInListedDirs, In
  <2> QED
    BY <2>1, <2>2 DEF PendingUntouched, VisitedAsListed, NothingLost, Pending
<1>7. CASE OpenSession
  <2>1. testId' = NoTestId /\ todoDirs' = listedDirs' /\ listedDirs' \subseteq TestIds
    BY <1>7 DEF OpenSession, TypeInv, TypeOK, BetweenPasses
  <2>2. FileHasDir' /\ PassPlace' /\ PendingUntouched' /\ ListedInListedDirs'
    BY <1>7, <2>1 DEF OpenSession, FileHasDir, PassPlace, PendingUntouched, ListedInListedDirs
  <2>4. VisitedAsListed'
    BY <2>1, ImporterAssumption DEF VisitedAsListed, Pending
  <2>5. NothingLost'
    BY <1>7 DEF OpenSession, NothingLost, Kept
  <2> QED
    BY <2>2, <2>4, <2>5
<1>3. CASE FinishTestDir
  <2>1. \A t \in listedDirs : Pending(t)' <=> Pending(t)
    BY <1>3, ImporterAssumption DEF FinishTestDir, Pending, TypeInv, TypeOK
  <2>2. Passing /\ Passing' /\ PassPlace'
    BY <1>3 DEF FinishTestDir, PassPlace, Passing
  <2>3. FileHasDir' /\ ListedInListedDirs' /\ NothingLost'
    BY <1>3, <2>2 DEF FinishTestDir, FileHasDir, ListedInListedDirs, NothingLost, Kept
  <2>4. VisitedAsListed'
    BY <1>3, <2>1, <2>2 DEF FinishTestDir, VisitedAsListed
  <2>5. PendingUntouched'
    BY <1>3, <2>1 DEF FinishTestDir, PendingUntouched, Pending, TypeInv, TypeOK
  <2> QED
    BY <2>2, <2>3, <2>4, <2>5
<1>4. CASE Commit
  BY <1>4 DEF Commit, EndPass, FileHasDir, PassPlace, ListedInListedDirs,
              PendingUntouched, VisitedAsListed, NothingLost, Passing, Pending
<1>5. ASSUME NEW t \in TestIds, DropEmptyRun(t) PROVE PassInv'
  <2>1. Passing /\ Passing' /\ PassPlace' /\ testId = NoTestId /\ t # NoTestId
    BY <1>5, ImporterAssumption DEF DropEmptyRun, PassPlace, Passing
  <2>2. \A u : Pending(u)' <=> Pending(u) /\ u # t
    BY <1>5, <2>1 DEF DropEmptyRun, Pending
  <2>3. \A f : f \in txRows' <=> f \in txRows /\ TestIdOf[f] # t
    BY <1>5 DEF DropEmptyRun, In, TypeInv, TypeOK
  <2>4. \A f \in listed : TestIdOf[f] # t
    BY <1>5 DEF DropEmptyRun, In, TypeInv, TypeOK
  <2>5. FileHasDir' /\ ListedInListedDirs'
    BY <1>5 DEF DropEmptyRun, FileHasDir, ListedInListedDirs
  <2>6. PendingUntouched'
    BY <1>5, <2>2, <2>3 DEF DropEmptyRun, PendingUntouched
  <2>7. VisitedAsListed'
    BY <1>5, <2>1, <2>2, <2>3, <2>4 DEF DropEmptyRun, VisitedAsListed
  <2>8. NothingLost'
    BY <1>5, <2>1, <2>3, <2>4 DEF DropEmptyRun, NothingLost, Kept, SameSession
  <2> QED
    BY <2>1, <2>5, <2>6, <2>7, <2>8
<1> QED
  BY <1>1, <1>2, <1>3, <1>4, <1>5, <1>6, <1>7, PassOpenTestDir, PassVisitFile DEF ImporterStep

LEMMA PassInvStep ==
  ASSUME TypeInv, PassInv, [Next]_vars
  PROVE  PassInv'
<1> USE DEF PassInv
<1>1. CASE Crash
  BY <1>1 DEF Crash, EndPass, diskVars, FileHasDir, PassPlace, ListedInListedDirs,
              PendingUntouched, VisitedAsListed, NothingLost, Passing, Pending
<1>2. CASE OthersStep
  <2>1. FileHasDir'
    BY <1>2 DEF OthersStep, BeginWrite, EndWrite, DeleteFile, RemoveDir, HideRoot,
                ShowRoot, FileHasDir, TypeInv, TypeOK
  <2>2. UNCHANGED <<dbVars, txVars, pc, passVars>>
    BY <1>2, OthersKeepTables
  <2> QED
    BY <2>1, <2>2 DEF dbVars, txVars, passVars, PassPlace, ListedInListedDirs,
       PendingUntouched, VisitedAsListed, NothingLost, Passing, Pending, Kept
<1>3. CASE UNCHANGED vars
  BY <1>3 DEF vars, diskVars, dbVars, txVars, passVars, FileHasDir, PassPlace,
     ListedInListedDirs, PendingUntouched, VisitedAsListed, NothingLost, Passing, Pending, Kept
<1> QED
  BY <1>1, <1>2, <1>3, PassImporterStep DEF Next

-----------------------------------------------------------------------------
(* The refinement.                                                          *)

Present == {f \in Files : Visible(f)}

ImporterInv == TypeInv /\ RowsInv /\ PassInv

Seen == <<root, Present, pc # "idle", Looked, listed, runs, rows>>

(* Who leaves the workspace alone leaves what can be seen of it alone.      *)
LEMMA SamePresent ==
  ASSUME UNCHANGED diskVars
  PROVE  UNCHANGED <<root, Present>>
  BY DEF diskVars, Present, Visible

(* The guard of a pass is the moment when it begins.                        *)
LEMMA StartingBegins ==
  ASSUME StartPass
  PROVE  Db!Begin
<1>1. Looked = {} /\ Looked' = {}
  BY DEF StartPass, Looked
<1> QED
  BY <1>1, SamePresent DEF StartPass, dbVars, passVars, Db!Begin, Db!workspace, Db!tables, Present

(* Listing the root looks at the directories it does not give.              *)
LEMMA ListingRootLooks ==
  ASSUME ImporterInv, ListRoot
  PROVE  Db!Look(TestIds \ dirs) \/ Db!Miss(TestIds)
<1>1. Looked = {} /\ Looked' = TestIds \ names'
  BY DEF ListRoot, Looked
<1>2. /\ UNCHANGED <<root, Present, listed, runs, rows>>
      /\ pc # "idle" /\ pc' # "idle"
  BY SamePresent DEF ListRoot, dbVars
<1>3. \A f \in Present : TestIdOf[f] \in dirs
  BY DEF ImporterInv, PassInv, FileHasDir, Present, Visible
<1>4. CASE root
  <2>1. names' = dirs
    BY <1>4 DEF ListRoot
  <2>2. {f \in Present : TestIdOf[f] \in TestIds \ dirs} = {}
    BY <1>3
  <2> QED
    BY <1>1, <1>2, <1>4, <2>1, <2>2 DEF Db!Look, Db!workspace, Db!tables, Present
<1>5. CASE ~root
  <2>1. names' = {}
    BY <1>5 DEF ListRoot
  <2> QED
    BY <1>1, <1>2, <1>5, <2>1 DEF Db!Miss, Db!workspace, Db!tables, Present
<1> QED
  BY <1>4, <1>5

(* Listing a directory looks at it.                                         *)
LEMMA ListingTestDirLooks ==
  ASSUME ImporterInv, NEW t \in TestIds, ListTestDir(t)
  PROVE  Db!Look({t}) \/ Db!Miss({t})
<1>1. /\ t \notin Looked /\ Looked' = Looked \cup {t}
  BY DEF ListTestDir, Looked
<1>2. /\ UNCHANGED <<root, Present, runs, rows>>
      /\ pc # "idle" /\ pc' # "idle"
  BY SamePresent DEF ListTestDir, dbVars
<1>3. \A f \in Present : TestIdOf[f] \in dirs
  BY DEF ImporterInv, PassInv, FileHasDir, Present, Visible
<1>4. CASE root
  <2>1. listed' = listed \cup {f \in Present : TestIdOf[f] \in {t}}
    <3>1. CASE t \in dirs
      <4>1. {f \in In(t) : Visible(f)} = {f \in Present : TestIdOf[f] \in {t}}
        BY DEF In, Present
      <4> QED
        BY <1>4, <3>1, <4>1 DEF ListTestDir
    <3>2. CASE t \notin dirs
      <4>1. {f \in Present : TestIdOf[f] \in {t}} = {}
        BY <1>3, <3>2
      <4> QED
        BY <3>2, <4>1 DEF ListTestDir
    <3> QED
      BY <3>1, <3>2
  <2> QED
    BY <1>1, <1>2, <1>4, <2>1 DEF Db!Look, Db!workspace, Db!tables, Present
<1>5. CASE ~root
  <2>1. UNCHANGED listed
    BY <1>5 DEF ListTestDir
  <2> QED
    BY <1>1, <1>2, <1>5, <2>1 DEF Db!Miss, Db!workspace, Db!tables, Present
<1> QED
  BY <1>4, <1>5

(* Committing is true to these looks.                                       *)
LEMMA CommitIsTrue ==
  ASSUME ImporterInv, Commit
  PROVE  Db!Commit
<1> USE DEF ImporterInv
<1>1. pc = "dirs" /\ \A t : ~Pending(t)
  BY DEF Commit, Pending
<1>2. \A t \in listedDirs :
        /\ (t \in txRuns) <=> (\E f \in listed : TestIdOf[f] = t)
        /\ \A f \in txRows : TestIdOf[f] = t => f \in listed
  BY <1>1 DEF PassInv, VisitedAsListed, Passing
<1>3. runs' = {TestIdOf[f] : f \in listed}
  BY <1>2 DEF Commit, PassInv, ListedInListedDirs
<1>4. rows' \subseteq listed \cap (Solo \cup Listener)
  BY <1>2 DEF Commit, RowsInv, Reports
<1>5. Unique(rows')
  BY DEF Commit, RowsInv, Unique
<1>6. ASSUME NEW f \in rows \cap listed
      PROVE  f \in rows' \/ \E g \in rows' : SameSession(f, g) /\ f < g
  <2>1. Kept(f) /\ TestIdOf[f] \in listedDirs
    BY <1>1 DEF PassInv, NothingLost, ListedInListedDirs, Passing
  <2>2. \A g \in txRows : TestIdOf[g] = TestIdOf[f] => g \in rows'
    BY <2>1 DEF Commit
  <2> QED
    BY <2>1, <2>2 DEF Kept, SameSession
<1>7. Db!OneSessionPerSid'
  BY <1>5 DEF Unique, Db!OneSessionPerSid, SameSession, Db!SameSession
<1>8. /\ listed' = {} /\ UNCHANGED <<root, Present>>
      /\ pc # "idle" /\ pc' = "idle" /\ Looked' = {}
  BY SamePresent DEF Commit, EndPass, Looked
<1>10. Looked = TestIds
  BY <1>1 DEF Looked, PassInv, PassPlace, Passing
<1>9. \A f \in rows \cap listed :
        f \in rows' \/ \E g \in rows' : Db!SameSession(f, g) /\ f < g
  BY <1>6 DEF SameSession, Db!SameSession
<1> QED
  BY <1>3, <1>4, <1>7, <1>8, <1>9, <1>10 DEF Db!Commit, Db!workspace, Present

(* Every other step of the importer leaves what ReportDb sees alone.        *)
LEMMA VisitingStutters ==
  ASSUME ImporterInv, ImporterStep,
         ~StartPass, ~ListRoot, ~\E t \in TestIds : ListTestDir(t), ~Commit
  PROVE  UNCHANGED Seen
<1> USE DEF dbVars, txVars, Looked, Seen
<1>1. CASE OpenSession \/ FinishTestDir
  BY <1>1, SamePresent DEF OpenSession, FinishTestDir
<1>2. ASSUME NEW t \in TestIds, DropEmptyRun(t) \/ OpenTestDir(t) PROVE UNCHANGED Seen
  BY <1>2, SamePresent DEF DropEmptyRun, OpenTestDir
<1>3. ASSUME NEW f \in Files, VisitFile(f) PROVE UNCHANGED Seen
  BY <1>3, SamePresent
     DEF VisitFile, StatFile, SkipFile, ImportSolo, KeepNewerSession, ImportListener, LeaveFile
<1> QED
  BY <1>1, <1>2, <1>3 DEF ImporterStep

LEMMA StepsMap ==
  ASSUME ImporterInv, [Next]_vars
  PROVE  [Db!Next]_Seen
<1>1. CASE ImporterStep
  <2>1. CASE StartPass
    BY <2>1, StartingBegins DEF Db!Next
  <2>2. CASE ListRoot
    <3>1. dirs \subseteq TestIds
      BY DEF ImporterInv, TypeInv, TypeOK
    <3> QED
      BY <2>2, <3>1, ListingRootLooks DEF Db!Next
  <2>3. ASSUME NEW t \in TestIds, ListTestDir(t) PROVE Db!Next
    BY <2>3, ListingTestDirLooks DEF Db!Next
  <2>4. CASE Commit
    BY <2>4, CommitIsTrue DEF Db!Next
  <2> QED
    BY <1>1, <2>1, <2>2, <2>3, <2>4, VisitingStutters
<1>2. CASE Crash
  <2>1. /\ listed' = {} /\ pc' = "idle" /\ Looked' = {}
        /\ UNCHANGED <<root, Present, runs, rows>>
    BY <1>2, SamePresent DEF Crash, EndPass, dbVars, Looked
  <2> QED
    BY <2>1 DEF Db!Next, Db!GiveUp, Db!workspace, Db!tables, Present
<1>3. CASE OthersStep
  <2>1. UNCHANGED <<listed, runs, rows, pc, names>>
    BY <1>3, OthersKeepTables DEF dbVars, passVars
  <2>2. root' \in BOOLEAN
    BY <1>3, TypeInvOthersStep DEF ImporterInv, TypeInv, TypeOK
  <2>3. Present' \in SUBSET IF root' THEN Files ELSE {}
    BY DEF Present, Visible
  <2> QED
    BY <2>1, <2>2, <2>3 DEF Db!Next, Db!Change, Db!pass, Db!tables, Present, Looked
<1>4. CASE UNCHANGED vars
  BY <1>4, SamePresent DEF vars, dbVars, passVars, Looked, Seen
<1> QED
  BY <1>1, <1>2, <1>3, <1>4 DEF Next

(* What the importer commits is always true to the looks of its own pass,   *)
(* one at each directory, however files come and go meanwhile and wherever  *)
(* passes died before it.                                                   *)
THEOREM ImplementsReportDbAlways == Spec => ImplementsReportDb
<1>1. Init => ImporterInv
  <2> SUFFICES ASSUME Init PROVE ImporterInv
    OBVIOUS
  <2>1. TypeInv
    BY TypeInvInit
  <2>2. RowsInv
    BY DEF Init, RowsInv, Unique
  <2>3. PassInv
    BY DEF Init, PassInv, FileHasDir, PassPlace, ListedInListedDirs, PendingUntouched,
       VisitedAsListed, NothingLost, Passing, Pending
  <2> QED
    BY <2>1, <2>2, <2>3 DEF ImporterInv
<1>2. ImporterInv /\ [Next]_vars => ImporterInv'
  BY TypeInvStep, RowsInvStep, PassInvStep DEF ImporterInv
<1>3. Init => Db!Init
  BY DEF Init, Db!Init, Visible, Looked
<1>4. ImporterInv /\ [Next]_vars => [Db!Next]_<<Db!workspace, Db!pass, Db!tables>>
  BY StepsMap DEF Seen, Db!workspace, Db!pass, Db!tables, Present
<1> QED
  BY <1>1, <1>2, <1>3, <1>4, PTL DEF Spec, ImplementsReportDb, Db!Spec
=============================================================================
