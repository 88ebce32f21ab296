----------------------------- MODULE MCImporter -----------------------------
(***************************************************************************)
(* Importer on a small workspace.                                          *)
(***************************************************************************)
EXTENDS Importer

(* Three attempts of one session id in the first directory, the one in the  *)
(* middle an old report without a start time, and a solo report; in the     *)
(* second directory a report of the same session id and a solo report       *)
(* without results.                                                         *)
TwoRuns == <<"t1", "t1", "t1", "t2", "t1", "t2">>
SameSid == [f \in Files |-> "home"]
OldReports == <<1, NoTime, 2, NoTime, NoTime, NoTime>>
=============================================================================
