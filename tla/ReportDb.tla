------------------------------ MODULE ReportDb ------------------------------
(***************************************************************************)
(* What the importer promises of the database, whatever happens to the     *)
(* workspace or to the importer meanwhile: while the workspace is there it *)
(* begins a pass, looks at each directory once, each at a moment of its    *)
(* own, and then changes the tables as a whole, true to these looks.       *)
(***************************************************************************)
EXTENDS ReportFiles

VARIABLES
  there,     \* reports/ can be reached
  present,   \* the files in it, none while it cannot
  begun,     \* a pass is on its way
  looked,    \* the directories it has looked at
  listed,    \* the files it saw there
  runs,      \* test ids with a row in test_runs
  rows       \* files with rows in test_results or in listener_sessions

workspace == <<there, present>>
pass == <<begun, looked, listed>>
tables == <<runs, rows>>

OneSessionPerSid == \A f, g \in rows : SameSession(f, g) => f = g

Init == /\ there = TRUE /\ present = {}
        /\ begun = FALSE /\ looked = {} /\ listed = {}
        /\ runs = {} /\ rows = {}

Change == /\ there' \in BOOLEAN
          /\ present' \in SUBSET IF there' THEN Files ELSE {}
          /\ UNCHANGED <<pass, tables>>

Begin == /\ there /\ ~begun
         /\ begun' = TRUE
         /\ UNCHANGED <<workspace, looked, listed, tables>>

Look(T) == /\ begun /\ there /\ T \cap looked = {}
           /\ looked' = looked \cup T
           /\ listed' = listed \cup {f \in present : TestIdOf[f] \in T}
           /\ UNCHANGED <<workspace, begun, tables>>

(* reports/ has gone since the pass began: what is yet to be looked at is   *)
(* taken for empty.                                                         *)
Miss(T) == /\ begun /\ ~there /\ T \cap looked = {}
           /\ looked' = looked \cup T
           /\ UNCHANGED <<workspace, begun, listed, tables>>

GiveUp == /\ begun' = FALSE /\ looked' = {} /\ listed' = {}
          /\ UNCHANGED <<workspace, tables>>

(* A run for each directory with a report, rows only for what was seen, one *)
(* session per session id, and a file seen again keeps its rows unless a    *)
(* later attempt took its place.                                            *)
Commit ==
  /\ begun /\ looked = TestIds
  /\ runs' = {TestIdOf[f] : f \in listed}
  /\ rows' \subseteq listed \cap (Solo \cup Listener)
  /\ OneSessionPerSid'
  /\ \A f \in rows \cap listed :
       f \in rows' \/ \E g \in rows' : SameSession(f, g) /\ f < g
  /\ begun' = FALSE /\ looked' = {} /\ listed' = {}
  /\ UNCHANGED workspace

Next == \/ Change \/ Begin \/ GiveUp \/ Commit
        \/ \E T \in SUBSET TestIds : Look(T) \/ Miss(T)

Spec == Init /\ [][Next]_<<workspace, pass, tables>>
=============================================================================
