---------------------------- MODULE ReportFiles ----------------------------
(***************************************************************************)
(* The report files of a workspace as sync_api/parser.py reads them: what  *)
(* a file's name and its content say, once and for all.  A file is named   *)
(* by its place in the alphabetical order of the names.                    *)
(***************************************************************************)
EXTENDS Naturals, FiniteSets

CONSTANTS
  Files,       \* reports/<test_id>/*.json
  TestIds,     \* names of the directories
  TestIdOf,    \* the directory of each file
  Solo,        \* files with the name of a solo report
  Listener,    \* files with the name of a listener report
  Broken,      \* files that never parse to a JSON object
  Empty,       \* solo files without a single result
  Sid,         \* session_id of a listener report
  NoSid,       \* the empty session_id of an old report
  StartedAt,   \* listener_started_at
  NoTime       \* an old report without listener_started_at

ASSUME ReportFilesAssumption ==
  /\ Files \subseteq Nat /\ IsFiniteSet(Files)
  /\ TestIdOf \in [Files -> TestIds]
  /\ Solo \subseteq Files /\ Listener \subseteq Files /\ Solo \cap Listener = {}
  /\ Broken \subseteq Files /\ Empty \subseteq Solo
  /\ NoTime \notin Nat
  /\ StartedAt \in [Files -> Nat \cup {NoTime}]

(* Two reports of one session id in one test run: a re-run replaces the     *)
(* attempt before it.  Reports without a session id replace nothing.        *)
SameSession(f, g) ==
  /\ f \in Listener /\ g \in Listener
  /\ TestIdOf[f] = TestIdOf[g] /\ Sid[f] = Sid[g] /\ Sid[f] # NoSid

(* The attempts of one session differ in the timestamp that ends the name,  *)
(* the time when the report was saved; one starts after the other was       *)
(* saved.  Nothing is said of two sessions.                                 *)
ASSUME NamesAreChronological ==
  \A f, g \in Listener :
    /\ SameSession(f, g)
    /\ StartedAt[f] # NoTime /\ StartedAt[g] # NoTime /\ StartedAt[f] < StartedAt[g]
    => f < g

(* existing_is_newer: by start time where both have one, else by name.      *)
ExistingIsNewer(existing, new) ==
  IF StartedAt[existing] # NoTime /\ StartedAt[new] # NoTime
  THEN StartedAt[existing] >= StartedAt[new]
  ELSE existing >= new
=============================================================================
