------------------------- MODULE MCProjectMembers -------------------------
EXTENDS ProjectMembers

Entry(subject, role) == [subject |-> subject, role |-> role, serviceAccount |-> FALSE]
Account(subject, role) == [subject |-> subject, role |-> role, serviceAccount |-> TRUE]

(* Members are added; then one changes its role and is named twice, and the other
   one gives way to a service account. *)
MCSpecs ==
    << <<Entry("u", "admin"), Entry("v", "edit")>>,
       <<Account("u", "edit"), Entry("v", "view"), Entry("v", "admin")>> >>

(* Three users, so that they do not fit on a page of two. *)
MCThree ==
    << <<Entry("u", "admin"), Entry("v", "edit"), Entry("x", "view")>>,
       <<Entry("u", "admin"), Entry("v", "view")>> >>

Calm == [d \in Disruptions |-> 0]

(* Any two disruptions. *)
MCFaults == [d \in Disruptions |-> IF d = "any" THEN 2 ELSE 1]
=============================================================================
