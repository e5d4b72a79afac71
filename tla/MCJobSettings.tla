----------------------------- MODULE MCJobSettings -----------------------------
(***************************************************************************)
(* JobManager under two settings, one of which is chosen at the start:     *)
(* three jobs over a database that always answers, and two jobs that may   *)
(* also destroy, over one that may fail, and one more crash.               *)
(***************************************************************************)
EXTENDS MCJobManager

VARIABLE setting

Faulty == INSTANCE JobManager WITH Faults <- TRUE

Drawn   == {j \in Job : created[j] > 0}
Deploys == {j \in Drawn : request[j].action = "deploy"}

SettingsInit == Init /\ setting \in {"sound", "faulty"}

SettingsNext ==
    /\ UNCHANGED setting
    /\ \/ setting = "sound" /\ Next /\ (Drawn = Deploys /\ crashes <= 1)'
       \/ setting = "faulty" /\ Faulty!Next /\ (Cardinality(Drawn) <= 2)'

SettingsSpec == SettingsInit /\ [][SettingsNext]_<<vars, setting>>

-------------------------------------------------------------------------------

\* Over a database that always answers, what memory says of a job is what its row
\* says, between the critical sections of the manager's lock.
SoundMemory == setting = "sound" => MemoryIsDurable
===============================================================================
