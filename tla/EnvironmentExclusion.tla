------------------------- MODULE EnvironmentExclusion -------------------------
(***************************************************************************)
(* What the task manager promises to the rest of the platform: a job is    *)
(* accepted only for an idle environment, works at most once, and once it  *)
(* is over it is over for good, whatever ended it (a verdict, a refusal, a *)
(* cancellation, a crash of the process).                                  *)
(***************************************************************************)
CONSTANTS
    Job,      \* job ids
    Env,      \* environments
    Nowhere   \* the place of a job that holds no environment

VARIABLES
    phase,    \* "new", "waiting", "working" or "over"
    place     \* the environment a waiting or working job holds

Holding(j) == phase[j] \in {"waiting", "working"}

Init ==
    /\ phase = [j \in Job |-> "new"]
    /\ place = [j \in Job |-> Nowhere]

Accept(j, e) ==
    /\ phase[j] = "new"
    /\ \A k \in Job : ~(Holding(k) /\ place[k] = e)
    /\ phase' = [phase EXCEPT ![j] = "waiting"]
    /\ place' = [place EXCEPT ![j] = e]

Begin(j) ==
    /\ phase[j] = "waiting"
    /\ phase' = [phase EXCEPT ![j] = "working"]
    /\ UNCHANGED place

\* A crash ends many jobs at once.
Retire(S) ==
    /\ \A j \in S : phase[j] # "over"
    /\ phase' = [j \in Job |-> IF j \in S THEN "over" ELSE phase[j]]
    /\ place' = [j \in Job |-> IF j \in S THEN Nowhere ELSE place[j]]

Next == \/ \E S \in SUBSET Job : Retire(S)
        \/ \E j \in Job : Begin(j)
        \/ \E j \in Job, e \in Env : Accept(j, e)

Spec == Init /\ [][Next]_<<phase, place>>
===============================================================================
