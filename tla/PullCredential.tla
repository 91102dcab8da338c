--------------------------- MODULE PullCredential ---------------------------
(***************************************************************************)
(* What a workspace's pods are promised about the registry credentials:    *)
(* those that are published are honoured by the registry for as long as    *)
(* they are published.  Credentials are issued and revoked only while none *)
(* are published, and only the ones honoured are published.                *)
(***************************************************************************)
EXTENDS Naturals

CONSTANTS
    Robots,  \* what can be issued: a robot account stands for its credentials
    None     \* nothing

VARIABLES
    honoured,    \* the credentials the registry accepts
    published,   \* the credentials the pods are given
    withdrawals  \* how often somebody will still delete what is published

vars == <<honoured, published, withdrawals>>

Init == honoured = None /\ published = None

Issue ==
    /\ published = None /\ honoured = None
    /\ honoured' \in Robots
    /\ UNCHANGED <<published, withdrawals>>

Revoke ==
    /\ published = None /\ honoured # None
    /\ honoured' = None
    /\ UNCHANGED <<published, withdrawals>>

Publish ==
    /\ published = None /\ honoured # None
    /\ published' = honoured
    /\ UNCHANGED <<honoured, withdrawals>>

Withdraw ==
    /\ published # None /\ withdrawals > 0
    /\ published' = None /\ withdrawals' = withdrawals - 1
    /\ UNCHANGED honoured

Next == Issue \/ Revoke \/ Publish \/ Withdraw

Spec == Init /\ [][Next]_vars
=============================================================================
