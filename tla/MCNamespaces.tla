------------------------------ MODULE MCNamespaces -----------------------------
(***************************************************************************)
(* A small instance of ComponentPlan: what is stored at the start, and how *)
(* much of forms, jobs and environments one behaviour combines.            *)
(***************************************************************************)
EXTENDS ComponentPlan, FiniteSets

\* An environment that has just been created beside none, or two on one cluster that both
\* put their monitoring in a namespace that somebody else created.
Created(e, target) == ConfigureTarget(DefaultDocument(e), e, target)
InShop(e) ==
    Complete([Created(e, "existing_eks") EXCEPT !.on = {"prometheus"}, !.home["prometheus"] = Shop])
FirstDocuments ==
    {[e \in Env |-> IF e = "a" THEN Created(e, t) ELSE NoDoc] : t \in {"managed", "existing_eks"}}
    \cup {[e \in Env |-> InShop(e)]}

Bounded == forms + plans + Cardinality(Stored) <= 5
===============================================================================
