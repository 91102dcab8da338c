------------------------- MODULE MCWorkspaceAccess -------------------------
EXTENDS WorkspaceAccess
CONSTANTS ann, bob

(* Ann's Workspace, the same with Bob as editor or as second admin, the one Bob
   has left for himself, and one the CRD refuses. *)
MCLists == {{<<ann, "admin">>},
            {<<ann, "admin">>, <<bob, "edit">>},
            {<<ann, "admin">>, <<bob, "admin">>, <<bob, "view">>},
            {<<bob, "admin">>},
            {<<bob, "view">>}}

(* Three requests race each other; two, and any one of the disruptions; one, and
   any three. *)
Mix(asks, n) ==
    [d \in Disruptions |-> CASE d = "ask" -> asks [] d = "any" -> n [] OTHER -> 1]
MCBudgets == {Mix(3, 0), Mix(2, 1), Mix(1, 3)}
=============================================================================
