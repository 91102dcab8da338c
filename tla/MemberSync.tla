----------------------------- MODULE MemberSync -----------------------------
(***************************************************************************)
(* What the operator promises about the members of a Harbor project: it    *)
(* works towards one version of the Workspace's member list at a time,     *)
(* never towards an older one than before, touches a member only to make   *)
(* it what that version asks for, one member at a time, and does not stop  *)
(* before the newest version is reached.                                   *)
(***************************************************************************)
EXTENDS Naturals

CONSTANTS
    Users,     \* users of the registry
    None,      \* not a member
    Versions,  \* how many versions of the member list there are
    Want(_, _), \* what version g makes of user u: a role, or None
    Asks(_, _)  \* the roles version g names for user u, more than one perhaps

VARIABLES
    gen,          \* the newest version
    goal,         \* the version the operator works towards
    member,       \* role of every user in the project
    account,      \* the users the registry knows
    interference  \* how often others may still change the members

vars == <<gen, goal, member, account, interference>>

Possible(u) == Want(goal, u) = None \/ u \in account

Init ==
    /\ gen = 1 /\ goal = 1
    /\ account \subseteq Users
    /\ DOMAIN member = Users /\ \A u \in Users \ account : member[u] = None

(* The member list is edited. *)
Edit ==
    /\ gen < Versions
    /\ gen' = gen + 1
    /\ UNCHANGED <<goal, member, account, interference>>

(* A user signs in for the first time. *)
SignIn ==
    /\ \E u \in Users \ account : account' = account \cup {u}
    /\ UNCHANGED <<gen, goal, member, interference>>

(* The operator turns to a newer version. *)
Start ==
    /\ goal' \in (goal + 1)..gen
    /\ UNCHANGED <<gen, member, account, interference>>

(* The operator makes a user what the version says.  One that is named twice
   may for a while have the role of the other entry.  What others were about to
   do to a member that is removed comes to nothing. *)
Sync ==
    /\ \E u \in Users :
          /\ Possible(u) /\ member[u] # Want(goal, u)
          /\ \E role \in {Want(goal, u)} \cup (IF member[u] = None THEN Asks(goal, u) ELSE {}) :
                member' = [member EXCEPT ![u] = role]
    /\ interference' \in 0..interference
    /\ UNCHANGED <<gen, goal, account>>

(* Somebody else changes the members. *)
Interfere ==
    /\ interference' < interference
    /\ DOMAIN member' = Users /\ \A u \in Users \ account : member'[u] = None
    /\ UNCHANGED <<gen, goal, account>>

Next == Edit \/ SignIn \/ Start \/ Sync \/ Interfere

Spec == Init /\ [][Next]_vars

FairSpec == Spec /\ WF_vars(Start) /\ WF_vars(Sync)
=============================================================================
