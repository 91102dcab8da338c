----------------------- MODULE MCNamespaceOwnership -----------------------
EXTENDS NamespaceOwnership

(* Creates, and disruptions of some kinds, each once and so many in all. *)
Tale(creates, kinds, n) ==
    [creates |-> creates, budget |-> [d \in Disruptions |-> IF d \in kinds THEN 1 ELSE 0],
     disruptions |-> n]

(* Two names, of which it does not matter which comes first, and any two
   disruptions, or one Workspace deleted with its Namespace to be kept; the same
   name twice, and any two disruptions, or a Namespace that is deleted with its
   Workspace, or by itself, and restored and stripped of its owner. *)
MCStories ==
    {Tale(<<"a", "b">>, Disruptions \ {"orphan"}, 2), Tale(<<"a", "b">>, {"orphan"}, 1),
     Tale(<<"a", "a">>, Disruptions, 2),
     Tale(<<"a", "a">>, {"delete", "remove", "restore", "strip"}, 4)}

(* A Workspace is deleted but its Namespace shall stay. *)
MCOrphan == {Tale(<<"a">>, {"orphan"}, 1)}
=============================================================================
