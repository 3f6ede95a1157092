---------------------------- MODULE MCSessionEnd ----------------------------
(***************************************************************************)
(* Sessions with work in the repositories org-a/b and org/a-b, whose blob  *)
(* keys are the same, or in web and org/a.                                 *)
(***************************************************************************)
EXTENDS SessionEnd

CONSTANTS org, a, b, web, main, slash

MCSafe == {org, a, b, web, Dash}

Repo(origin) == [origin |-> origin, branch |-> main]

MCColliding == <<Repo(<<org, Dash, a, slash, b>>), Repo(<<org, slash, a, Dash, b>>)>>

MCTwo == <<Repo(<<web>>), Repo(<<org, slash, a>>)>>
=============================================================================
