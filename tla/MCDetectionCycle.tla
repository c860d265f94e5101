-------------------------- MODULE MCDetectionCycle --------------------------
(***************************************************************************)
(* A small instance.  Event 3 is the parent of 1, in one POST, and of 2,   *)
(* in the next; ClickHouse orders the ids 1, 2, 3.  Rule 2 looks at the    *)
(* parent.  Its matches on 1 and 2 share a dedup_key; all alerts share an  *)
(* incident, which rule 1 creates or raises.                               *)
(***************************************************************************)
EXTENDS DetectionCycle

MCPosts == <<{1, 3}, {2}>>
MCRule == {1, 2}
MCMatches == {<<1, 2>>, <<2, 1>>, <<2, 2>>, <<3, 1>>}
MCNeedsParent == {2}
MCParent == (1 :> 3) @@ (2 :> 3) @@ (3 :> 0)
MCProcess == (1 :> "p") @@ (2 :> "p") @@ (3 :> "q")
MCWindow == (1 :> "w") @@ (2 :> "w") @@ (3 :> "w")
MCTactics == (1 :> "t") @@ (2 :> "t")
MCSeverity == (1 :> 3) @@ (2 :> 1)

MCNone == {}
MCNothing == <<>>

MCTwoTactics == (1 :> "t") @@ (2 :> "u")
MCOnePost == <<{1, 2, 3}>>
MCPlaybook == {1, 2}
MCSteps == (1 :> <<"email", "dry_run">>) @@ (2 :> <<"email">>)
MCSeverityGte == (1 :> 1) @@ (2 :> 2)
=============================================================================
