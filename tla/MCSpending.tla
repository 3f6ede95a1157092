----------------------------- MODULE MCSpending -----------------------------
(***************************************************************************)
(* Runs of one user; the user's 80 % lies between two amounts, that of the *)
(* org is an amount.  The models chosen at the start select one of two     *)
(* instances.  In the budget instance both runs use haiku: the process of  *)
(* the first run may be started again, while providers answer and the      *)
(* server does not learn that a client has gone.  In the router instance   *)
(* nothing is started again; sonnet has a price and is served by both      *)
(* providers, other has none and is served by the fallback.                *)
(***************************************************************************)
EXTENDS Spending

CONSTANTS h1, h2, h3, r1, r2, u1, org, haiku, sonnet, other, primary, fallback

MCRuns == {r1, r2}
MCUsers == {u1}
MCOrgs == {org}
MCRunOf == [h \in {h1, h2, h3} |-> IF h = h3 THEN r2 ELSE r1]
MCUserOf == [r \in MCRuns |-> u1]
MCOrgOf == [u \in MCUsers |-> org]
MCProviders == <<primary, fallback>>
MCServes == [m \in {haiku, sonnet, other} |->
               IF m = other THEN {fallback} ELSE {primary, fallback}]
MCLimit == [s \in MCUsers \cup MCOrgs |-> IF s = u1 THEN 2 ELSE 5]

Budget == \A h \in Harnesses : model[h] = haiku

Router == \A h \in Harnesses : model[h] # haiku

MCInit == Init /\ (Budget \/ Router)

(* h1 is the first process of its run, h2 the one that is started again. *)
MCNext ==
  /\ Next
  /\ client'[h1] = "new" => client'[h2] = "new"
  /\ IF Budget THEN UNCHANGED <<attempt, gone>> ELSE client'[h2] = "new"

MCSpec ==
  /\ MCInit
  /\ [][MCNext]_vars
  /\ \A h \in Harnesses : WF_vars(Handler(h))
=============================================================================
