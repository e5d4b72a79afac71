------------------------ MODULE MCEnvironmentLifecycle ------------------------
(***************************************************************************)
(* EnvironmentLifecycle under three settings, one of which is chosen at    *)
(* the start: what may happen around the gate, and which handlers are      *)
(* called.  Each property is claimed for the settings in which the gate's  *)
(* premises hold.                                                          *)
(***************************************************************************)
EXTENDS EnvironmentLifecycle

VARIABLE setting

MCvars == <<vars, setting>>

Base == Action \cup {"create", "delete"}

\* Handlers called, failed writes, restarts and erased histories of each setting.
Setting ==
    [gate   |-> [ops |-> Base \cup {"project", "teardown"}, faults |-> 0, crashes |-> 2, erasures |-> 0],
     faults |-> [ops |-> Base \cup {"save", "teardown"},    faults |-> 2, crashes |-> 1, erasures |-> 0],
     erased |-> [ops |-> Base \cup {"save", "project"},     faults |-> 2, crashes |-> 1, erasures |-> 2]]

Within ==
    /\ \A r \in Request : request[r].op \in Setting[setting].ops \cup {"none"}
    /\ faults <= Setting[setting].faults
    /\ crashes <= Setting[setting].crashes
    /\ erasures <= Setting[setting].erasures

MCInit == Init /\ setting \in DOMAIN Setting
MCNext == Next /\ UNCHANGED setting /\ Within'
MCSpec == MCInit /\ [][MCNext]_MCvars

-------------------------------------------------------------------------------

\* No write fails and no history is erased: resources in AWS keep the document
\* they are destroyed with.
GateKeepsDocuments == setting = "gate" => ResourcesKeepTheirDocument

\* With faults and erased histories, resources the metadata knows of keep it.
GateKeepsTracked == setting = "erased" => TrackedResourcesKeepTheirDocument
===============================================================================
