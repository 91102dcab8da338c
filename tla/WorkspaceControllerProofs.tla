--------------------- MODULE WorkspaceControllerProofs ---------------------
(***************************************************************************)
(* Proofs about WorkspaceController: for any children, any generations of  *)
(* the spec and any number of failures, crashes and changes by others, the *)
(* operator does not rest with work undone, however far its caches lag;    *)
(* with up-to-date reads its status is true at rest, and it never claims   *)
(* to be ready early.                                                      *)
(***************************************************************************)
EXTENDS WorkspaceController, WatchLemmas

(***************************************************************************)
(* Type correctness.  Statuses and Workspaces, as sets.                    *)
(***************************************************************************)
Statuses == {s \in [Fields -> Generations \cup {0} \cup Conditions \cup BOOLEAN] : IsStatus(s)}
Objects == [gen : Generations, label : BOOLEAN, status : Statuses]
Values == Contents \cup {Absent}

TypeWorkspace == ws \in Objects /\ wsCache \in Objects /\ wsWatch \in Seq(Objects)

TypeChildren ==
    /\ child \in [Kinds -> Values] /\ childCache \in [Kinds -> Values]
    /\ childWatch \in [Kinds -> Seq(Values)]

TypeOutside ==
    /\ webhooks \in BOOLEAN /\ foreign \in BOOLEAN /\ users \in BOOLEAN
    /\ queued \in BOOLEAN /\ timer \in BOOLEAN
    /\ budget \in [Disruptions -> Nat]

TypePass ==
    /\ pc \in {"idle", "backfill", "namespace", "harbor", "get", "put", "status", "report"}
    /\ w \in Objects /\ current \in BOOLEAN /\ fresh \in BOOLEAN /\ missing \in BOOLEAN
    /\ step \in 1..Len(Order) + 1 /\ seen \in Values
    /\ failure \in {"none", "Error", "Conflict"}
    /\ failure # "none" <=> pc = "report"
    /\ pc \in {"idle", "backfill", "namespace", "harbor"} => step = 1
    /\ pc \in {"get", "put"} => step <= Len(Order)
    /\ pc = "status" => step = Len(Order) + 1
    /\ pc = "idle" => w = NoCopy /\ ~current

TypeInv == TypeWorkspace /\ TypeChildren /\ TypeOutside /\ TypePass

(* The constants. *)
LEMMA KindFacts ==
    /\ Len(Order) \in Nat /\ Len(Order) >= 1
    /\ \A n \in 1..Len(Order) : Order[n] \in Kinds
    /\ \A k \in Kinds : k \notin {"observedGeneration", "Ready"}
    /\ \A k \in Kinds : \E n \in 1..Len(Order) : Order[n] = k
    /\ Observed \subseteq Kinds /\ Kinds \subseteq Fields
    /\ "observedGeneration" \in Fields /\ "Ready" \in Fields
<1>1. Len(Order) \in Nat /\ Len(Order) >= 1
  BY OrderAssumption
<1>2. \A n \in 1..Len(Order) : Order[n] \in STRING \ {"observedGeneration", "Ready"}
  BY OrderAssumption
<1>3. QED
  BY <1>1, <1>2, ObservedAssumption DEF Kinds, Fields

LEMMA WantFacts ==
    /\ Len(Wants) \in Nat /\ 1 \in Generations /\ Generations \subseteq Nat
    /\ \A g \in Generations : Wants[g] \in [Kinds -> Contents]
    /\ \A g \in Generations, k \in Kinds : Wants[g][k] \in Values
<1>1. Len(Wants) \in Nat /\ Len(Wants) >= 1
  BY WantsAssumption
<1>2. \A g \in Generations : Wants[g] \in [Kinds -> Contents]
  BY WantsAssumption DEF Generations
<1>3. QED
  BY <1>1, <1>2 DEF Generations, Values

(* A status put together field by field. *)
LEMMA StatusType ==
    ASSUME NEW s, s = [f \in Fields |-> s[f]],
           s["observedGeneration"] \in Generations \cup {0}, s["Ready"] \in Conditions,
           \A k \in Kinds : s[k] \in BOOLEAN
    PROVE  s \in Statuses
<1>1. \A f \in Fields : s[f] \in Generations \cup {0} \cup Conditions \cup BOOLEAN
  BY DEF Fields
<1>2. s \in [Fields -> Generations \cup {0} \cup Conditions \cup BOOLEAN]
  BY <1>1
<1>3. DOMAIN s = Fields
  BY <1>2
<1>4. QED
  BY <1>2, <1>3 DEF Statuses, IsStatus

LEMMA StatusFields ==
    ASSUME NEW s \in Statuses
    PROVE  /\ s = [f \in Fields |-> s[f]]
           /\ s["observedGeneration"] \in Generations \cup {0} /\ s["Ready"] \in Conditions
           /\ s["Ready"].reason \in Reasons /\ s["Ready"].gen \in Generations \cup {0}
           /\ \A k \in Kinds : s[k] \in BOOLEAN
<1>1. s["Ready"] \in Conditions
  BY DEF Statuses, IsStatus
<1>2. QED
  BY <1>1 DEF Statuses, IsStatus, Conditions

LEMMA ConditionType ==
    ASSUME NEW reason \in Reasons, NEW g \in Generations \cup {0}
    PROVE  /\ Condition(reason, g) \in Conditions
           /\ Condition(reason, g).reason = reason /\ Condition(reason, g).gen = g
  BY DEF Condition, Conditions

LEMMA EmptyStatusType ==
    EmptyStatus \in Statuses /\ EmptyStatus["Ready"].reason = "Unknown" /\ NoCopy \in Objects
<1>1. EmptyStatus = [f \in Fields |-> EmptyStatus[f]]
  BY DEF EmptyStatus
<1>2. EmptyStatus["observedGeneration"] = 0
  BY KindFacts DEF EmptyStatus
<1>3. EmptyStatus["Ready"] = Condition("Unknown", 0)
  BY KindFacts DEF EmptyStatus
<1>4. \A k \in Kinds : EmptyStatus[k] = FALSE
  BY KindFacts DEF EmptyStatus
<1>5. /\ Condition("Unknown", 0) \in Conditions
      /\ Condition("Unknown", 0).reason = "Unknown"
  BY ConditionType DEF Reasons
<1>6. EmptyStatus \in Statuses
  BY <1>1, <1>2, <1>3, <1>4, <1>5, StatusType
<1>7. QED
  BY <1>3, <1>5, <1>6, WantFacts DEF NoCopy, Objects

(* What the pass writes to the status. *)
LEMMA NewStatusType ==
    ASSUME TypeInv
    PROVE  /\ NewStatus \in Statuses
           /\ NewStatus["observedGeneration"] = w.gen
           /\ NewStatus["Ready"] = Condition(IF missing THEN "Pending" ELSE "True", w.gen)
           /\ \A k \in Observed : NewStatus[k] = (childCache[k] # Absent)
           /\ \A k \in Kinds \ Observed : NewStatus[k] = (Wants[w.gen][k] # Absent)
<1>1. NewStatus = [f \in Fields |-> NewStatus[f]]
  BY DEF NewStatus
<1>2. NewStatus["observedGeneration"] = w.gen
  BY KindFacts DEF NewStatus
<1>3. NewStatus["Ready"] = Condition(IF missing THEN "Pending" ELSE "True", w.gen)
  BY KindFacts DEF NewStatus
<1>4. \A k \in Observed : NewStatus[k] = (childCache[k] # Absent)
  BY KindFacts DEF NewStatus
<1>5. \A k \in Kinds \ Observed : NewStatus[k] = (Wants[w.gen][k] # Absent)
  BY KindFacts DEF NewStatus
<1>6. w.gen \in Generations
  BY DEF TypeInv, TypePass, Objects
<1>7. NewStatus["Ready"] \in Conditions
  <2>1. (IF missing THEN "Pending" ELSE "True") \in Reasons
    BY DEF Reasons
  <2>2. QED
    BY <1>3, <1>6, <2>1, ConditionType
<1>8. \A k \in Kinds : NewStatus[k] \in BOOLEAN
  BY <1>4, <1>5
<1>9. NewStatus \in Statuses
  BY <1>1, <1>2, <1>6, <1>7, <1>8, StatusType
<1>10. QED
  BY <1>2, <1>3, <1>4, <1>5, <1>9

LEMMA FailureStatusType ==
    ASSUME TypeInv, pc = "report"
    PROVE  /\ FailureStatus \in Statuses
           /\ FailureStatus["Ready"] = Condition(failure, w.gen)
<1>1. w.gen \in Generations /\ w.status \in Statuses /\ failure \in Reasons
  BY DEF TypeInv, TypePass, Objects, Reasons
<1>2. w.status = [f \in Fields |-> w.status[f]] /\ \A k \in Kinds : w.status[k] \in BOOLEAN
  BY <1>1, StatusFields
<1>3. FailureStatus = [f \in Fields |-> FailureStatus[f]]
  BY <1>2 DEF FailureStatus
<1>4. FailureStatus["observedGeneration"] = w.gen
  BY <1>2, KindFacts DEF FailureStatus
<1>5. FailureStatus["Ready"] = Condition(failure, w.gen)
  BY <1>2, KindFacts DEF FailureStatus
<1>6. \A k \in Kinds : FailureStatus[k] = w.status[k]
  BY <1>2, KindFacts DEF FailureStatus
<1>7. FailureStatus["Ready"] \in Conditions
  BY <1>1, <1>5, ConditionType
<1>8. FailureStatus \in Statuses
  BY <1>1, <1>2, <1>3, <1>4, <1>6, <1>7, StatusType
<1>9. QED
  BY <1>5, <1>8

(* A patch leaves the rest of the object alone; without changes since the copy was
   made, the new status is what comes out. *)
LEMMA MergeType ==
    ASSUME TypeInv, NEW new \in Statuses
    PROVE  /\ Merge(new) \in Statuses
           /\ Merge(new)["Ready"] = IF new["Ready"] # w.status["Ready"] THEN new["Ready"]
                                    ELSE ws.status["Ready"]
           /\ w.status = ws.status => Merge(new) = new
           /\ [ws EXCEPT !.status = Merge(new)] \in Objects
           /\ [ws EXCEPT !.status = Merge(new)].gen = ws.gen
           /\ [ws EXCEPT !.status = Merge(new)].label = ws.label
           /\ [ws EXCEPT !.status = Merge(new)].status = Merge(new)
<1>1. ws \in Objects /\ ws.status \in Statuses /\ w.status \in Statuses
  BY DEF TypeInv, TypePass, TypeWorkspace, Objects
<1>2. /\ new = [f \in Fields |-> new[f]] /\ ws.status = [f \in Fields |-> ws.status[f]]
      /\ new["observedGeneration"] \in Generations \cup {0} /\ new["Ready"] \in Conditions
      /\ ws.status["observedGeneration"] \in Generations \cup {0}
      /\ ws.status["Ready"] \in Conditions
      /\ \A k \in Kinds : new[k] \in BOOLEAN /\ ws.status[k] \in BOOLEAN
  BY <1>1, StatusFields
<1>3. Merge(new) = [f \in Fields |-> Merge(new)[f]]
  BY DEF Merge
<1>4. \A f \in Fields : Merge(new)[f] = IF new[f] # w.status[f] THEN new[f] ELSE ws.status[f]
  BY DEF Merge
<1>5. Merge(new) \in Statuses
  BY <1>2, <1>3, <1>4, KindFacts, StatusType
<1>6. w.status = ws.status => Merge(new) = new
  <2> SUFFICES ASSUME w.status = ws.status PROVE Merge(new) = new
    OBVIOUS
  <2>1. \A f \in Fields : Merge(new)[f] = new[f]
    BY <1>4
  <2>2. QED
    BY <1>2, <1>3, <2>1
<1>7. QED
  BY <1>1, <1>4, <1>5, <1>6, KindFacts DEF Objects

(* Writes. *)
LEMMA WriteWorkspaceType ==
    ASSUME TypeWorkspace, NEW obj \in Objects, WriteWorkspace(obj)
    PROVE  TypeWorkspace'
<1>1. Append(wsWatch, obj) \in Seq(Objects)
  BY LatestAppend DEF TypeWorkspace
<1>2. QED
  BY <1>1 DEF TypeWorkspace, WriteWorkspace

LEMMA WriteChildType ==
    ASSUME TypeChildren, NEW k \in Kinds, NEW content \in Values, WriteChild(k, content)
    PROVE  TypeChildren'
<1>1. Append(childWatch[k], content) \in Seq(Values)
  BY LatestAppend DEF TypeChildren
<1>2. QED
  BY <1>1 DEF TypeChildren, WriteChild

LEMMA DisruptType ==
    ASSUME budget \in [Disruptions -> Nat], NEW kind \in Disruptions, Disrupt(kind)
    PROVE  budget' \in [Disruptions -> Nat]
  BY DEF Disrupt, Disruptions

(* The pass is over. *)
LEMMA ForgetType ==
    ASSUME TypePass, pc' = "idle", Forget
    PROVE  TypePass'
<1>1. NoCopy \in Objects /\ Len(Order) \in Nat /\ Absent \in Values
  BY EmptyStatusType, KindFacts DEF Values
<1>2. /\ w' = NoCopy /\ current' = FALSE /\ step' = 1 /\ seen' = Absent
      /\ fresh' = FALSE /\ missing' = FALSE /\ failure' = "none"
  BY DEF Forget
<1>3. step' \in 1..Len(Order) + 1
  BY <1>1, <1>2
<1>4. QED
  BY <1>1, <1>2, <1>3 DEF TypePass

(* The child whose turn it is. *)
LEMMA KindType ==
    ASSUME TypeInv, pc \in {"get", "put"}
    PROVE  /\ Kind \in Kinds /\ w.gen \in Generations
           /\ Desired \in Values /\ Desired = Wants[w.gen][Kind]
<1>1. step \in 1..Len(Order) /\ w.gen \in Generations
  BY KindFacts DEF TypeInv, TypePass, Objects
<1>2. QED
  BY <1>1, KindFacts, WantFacts DEF Kind, Desired

LEMMA NextKindType ==
    ASSUME TypePass, pc \in {"get", "put"}, NextKind
    PROVE  TypePass'
<1>1. Absent \in Values /\ Len(Order) \in Nat
  BY KindFacts DEF Values
<1>2. /\ step' = step + 1 /\ seen' = Absent /\ fresh' = FALSE
      /\ pc' = IF step = Len(Order) THEN "status" ELSE "get"
      /\ UNCHANGED <<w, current, missing, failure>>
  BY DEF NextKind, Goto
<1>3. /\ step' \in 1..Len(Order) + 1
      /\ pc' \in {"get", "put"} => step' <= Len(Order)
      /\ pc' = "status" => step' = Len(Order) + 1
  BY <1>1, <1>2 DEF TypePass
<1>4. QED
  BY <1>1, <1>2, <1>3 DEF TypePass

LEMMA ReportErrorType ==
    ASSUME TypePass, ReportError
    PROVE  TypePass'
<1>1. /\ failure' = "Error" /\ pc' = "report"
      /\ UNCHANGED <<w, current, step, seen, fresh, missing>>
  BY DEF ReportError, Goto
<1>2. QED
  BY <1>1 DEF TypePass

LEMMA TypeInit == Init => TypeInv
<1> SUFFICES ASSUME Init PROVE TypeInv
  OBVIOUS
<1>1. PICK label \in Labels : ws = [gen |-> 1, label |-> label, status |-> EmptyStatus]
  BY DEF Init
<1>2. ws \in Objects
  BY <1>1, EmptyStatusType, WantFacts, InputAssumption DEF Objects
<1>3. TypeWorkspace
  <2>1. <<>> \in Seq(Objects)
    OBVIOUS
  <2>2. QED
    BY <1>2, <2>1 DEF Init, TypeWorkspace
<1>4. TypeChildren
  <2>1. <<>> \in Seq(Values) /\ Absent \in Values
    BY DEF Values
  <2>2. QED
    BY <2>1 DEF Init, TypeChildren
<1>5. TypeOutside
  BY InputAssumption, BudgetAssumption DEF Init, TypeOutside
<1>6. TypePass
  <2>1. NoCopy \in Objects /\ Len(Order) \in Nat /\ Absent \in Values
    BY EmptyStatusType, KindFacts DEF Values
  <2>2. QED
    <3>1. /\ pc = "idle" /\ w = NoCopy /\ current = FALSE /\ step = 1 /\ seen = Absent
          /\ fresh = FALSE /\ missing = FALSE /\ failure = "none"
      BY DEF Init
    <3>2. step \in 1..Len(Order) + 1
      BY <2>1, <3>1
    <3>3. QED
      BY <2>1, <3>1, <3>2 DEF TypePass
<1>7. QED
  BY <1>3, <1>4, <1>5, <1>6 DEF TypeInv

(* Every step keeps the types. *)
LEMMA TypeStep == TypeInv /\ [Next]_vars => TypeInv'
<1> SUFFICES ASSUME TypeInv, [Next]_vars PROVE TypeInv'
  OBVIOUS
<1>0. TypeWorkspace /\ TypeChildren /\ TypeOutside /\ TypePass
  BY DEF TypeInv
<1> SUFFICES TypeWorkspace' /\ TypeChildren' /\ TypeOutside' /\ TypePass'
  BY DEF TypeInv
<1>1. ASSUME UNCHANGED object PROVE TypeWorkspace'
  BY <1>0, <1>1 DEF TypeWorkspace, object
<1>2. ASSUME UNCHANGED children PROVE TypeChildren'
  BY <1>0, <1>2 DEF TypeChildren, children
<1>3. ASSUME UNCHANGED outside, queued' \in BOOLEAN, timer' \in BOOLEAN,
             UNCHANGED budget \/ \E kind \in Disruptions : Disrupt(kind)
      PROVE  TypeOutside'
  <2>1. budget' \in [Disruptions -> Nat]
    BY <1>0, <1>3, DisruptType DEF TypeOutside
  <2>2. QED
    BY <1>0, <1>3, <2>1 DEF TypeOutside, outside
<1>4. ASSUME UNCHANGED <<pc, locals>> PROVE TypePass'
  BY <1>0, <1>4 DEF TypePass, locals
<1>5. queued \in BOOLEAN /\ timer \in BOOLEAN /\ missing \in BOOLEAN
  BY <1>0 DEF TypeOutside, TypePass
<1>6. ASSUME NEW stage, Goto(stage) PROVE queued' \in BOOLEAN /\ timer' \in BOOLEAN
  BY <1>5, <1>6 DEF Goto, queue
<1>7. ASSUME Retry \/ Return(missing) \/ Return(FALSE) \/ Return(TRUE)
      PROVE  queued' \in BOOLEAN /\ timer' \in BOOLEAN /\ TypePass'
  <2>1. queued' \in BOOLEAN /\ timer' \in BOOLEAN
    BY <1>5, <1>7 DEF Retry, Return
  <2>2. pc' = "idle" /\ Forget
    BY <1>7 DEF Retry, Return
  <2>3. QED
    BY <1>0, <2>1, <2>2, ForgetType
<1>8. ASSUME NEW new \in Statuses, PatchStatus(new) PROVE TypeWorkspace'
  BY <1>0, <1>8, MergeType, WriteWorkspaceType DEF PatchStatus
<1>9. ASSUME NextKind PROVE queued' \in BOOLEAN /\ timer' \in BOOLEAN
  BY <1>6, <1>9 DEF NextKind
<1>10. ASSUME ReportError PROVE queued' \in BOOLEAN /\ timer' \in BOOLEAN /\ TypePass'
  BY <1>0, <1>6, <1>10, ReportErrorType DEF ReportError
<1>11. CASE Reconcile
  <2>1. UNCHANGED <<object, children, outside, budget>> /\ queued' = FALSE /\ timer' = timer
    BY <1>11 DEF Reconcile
  <2>2. wsCache \in Objects
    BY <1>0 DEF TypeWorkspace
  <2>3. TypePass'
    BY <1>0, <1>11, <2>2 DEF Reconcile, TypePass
  <2>4. QED
    BY <1>1, <1>2, <1>3, <1>5, <2>1, <2>3
<1>12. CASE BackfillLabel
  <2>1. UNCHANGED <<children, outside, budget>> /\ (Retry \/ Return(FALSE))
    BY <1>12 DEF BackfillLabel
  <2>2. TypeWorkspace'
    <3>1. [ws EXCEPT !.label = TRUE] \in Objects
      BY <1>0 DEF TypeWorkspace, Objects
    <3>2. QED
      BY <1>0, <1>1, <1>12, <3>1, WriteWorkspaceType DEF BackfillLabel
  <2>3. QED
    BY <1>2, <1>3, <1>7, <2>1, <2>2
<1>13. CASE ReconcileNamespace
  <2>1. /\ UNCHANGED <<object, children, outside, budget>>
        /\ Goto("report") \/ Goto("harbor")
    BY <1>13 DEF ReconcileNamespace
  <2>2. TypePass'
    BY <1>0, <1>13 DEF ReconcileNamespace, Goto, TypePass
  <2>3. QED
    BY <1>1, <1>2, <1>3, <1>6, <2>1, <2>2
<1>14. CASE ReconcileHarbor
  <2>1. UNCHANGED <<object, children, outside, budget>> /\ Goto("get")
    BY <1>14 DEF ReconcileHarbor
  <2>2. TypePass'
    BY <1>0, <1>14, KindFacts DEF ReconcileHarbor, Goto, TypePass, TypeOutside
  <2>3. QED
    BY <1>1, <1>2, <1>3, <1>6, <2>1, <2>2
<1>15. CASE DeleteChild
  <2>1. UNCHANGED <<object, outside, budget>> /\ NextKind /\ pc = "get"
    BY <1>15 DEF DeleteChild
  <2>2. TypeChildren'
    <3>1. Absent \in Values /\ Kind \in Kinds
      BY <2>1, KindType DEF Values
    <3>2. QED
      BY <1>0, <1>2, <1>15, <3>1, WriteChildType DEF DeleteChild
  <2>3. TypePass'
    BY <1>0, <2>1, NextKindType
  <2>4. QED
    BY <1>1, <1>3, <1>9, <2>1, <2>2, <2>3
<1>16. CASE GetChild
  <2>1. UNCHANGED <<object, children, outside, budget>> /\ Goto("put") /\ pc = "get"
    BY <1>16 DEF GetChild
  <2>2. childCache[Kind] \in Values
    BY <1>0, <2>1, KindType DEF TypeChildren
  <2>3. TypePass'
    BY <1>0, <1>16, <2>2 DEF GetChild, Goto, TypePass
  <2>4. QED
    BY <1>1, <1>2, <1>3, <1>6, <2>1, <2>3
<1>17. CASE PutChild
  <2>1. UNCHANGED <<object, outside, budget>> /\ pc = "put"
    BY <1>17 DEF PutChild
  <2>2. CASE PutUnchanged
    BY <1>0, <1>1, <1>2, <1>3, <1>9, <2>1, <2>2, NextKindType DEF PutUnchanged
  <2>3. CASE PutAccepted
    <3>1. Desired \in Values /\ Kind \in Kinds
      BY <2>1, KindType
    <3>2. TypeChildren'
      BY <1>0, <2>3, <3>1, WriteChildType DEF PutAccepted
    <3>3. QED
      BY <1>0, <1>1, <1>3, <1>9, <2>1, <2>3, <3>2, NextKindType DEF PutAccepted
  <2>4. CASE PutRejected
    <3>1. UNCHANGED children /\ (ReportError \/ Retry)
      BY <2>4 DEF PutRejected
    <3>2. QED
      BY <1>1, <1>2, <1>3, <1>7, <1>10, <2>1, <3>1
  <2>5. QED
    BY <1>17, <2>2, <2>3, <2>4 DEF PutChild
<1>18. CASE updateStatus
  <2>1. UNCHANGED <<children, outside, budget>> /\ Return(missing)
    BY <1>18 DEF updateStatus
  <2>2. TypeWorkspace'
    BY <1>1, <1>8, <1>18, NewStatusType DEF updateStatus
  <2>3. QED
    BY <1>2, <1>3, <1>7, <2>1, <2>2
<1>19. CASE setReadyConditionFalse
  <2>1. UNCHANGED <<children, outside, budget>> /\ (Return(FALSE) \/ Retry)
    BY <1>19 DEF setReadyConditionFalse
  <2>2. TypeWorkspace'
    BY <1>8, <1>19, FailureStatusType DEF setReadyConditionFalse
  <2>3. QED
    BY <1>2, <1>3, <1>7, <2>1, <2>2
<1>20. CASE CallFails
  <2>1. UNCHANGED <<object, children, outside>> /\ Disrupt("fail") /\ ReportError
    BY <1>20 DEF CallFails
  <2>2. QED
    BY <1>1, <1>2, <1>3, <1>10, <2>1 DEF Disruptions
<1>21. CASE PatchFails
  <2>1. UNCHANGED <<object, children, outside>> /\ Disrupt("fail") /\ (Return(TRUE) \/ Retry)
    BY <1>21 DEF PatchFails
  <2>2. QED
    BY <1>1, <1>2, <1>3, <1>7, <2>1 DEF Disruptions
<1>22. CASE Crash
  <2>1. /\ Disrupt("crash") /\ pc' = "idle" /\ queued' = TRUE /\ timer' = FALSE /\ Forget
        /\ UNCHANGED outside
    BY <1>22 DEF Crash
  <2>2. TypeWorkspace'
    <3>1. <<>> \in Seq(Objects)
      OBVIOUS
    <3>2. QED
      BY <1>0, <1>22, <3>1 DEF Crash, TypeWorkspace
  <2>3. TypeChildren'
    <3>1. <<>> \in Seq(Values)
      OBVIOUS
    <3>2. QED
      BY <1>0, <1>22, <3>1 DEF Crash, TypeChildren
  <2>4. TypePass' /\ TypeOutside'
    BY <1>0, <1>3, <2>1, ForgetType DEF Disruptions
  <2>5. QED
    BY <2>2, <2>3, <2>4
<1>23. CASE Resync \/ TimerFires
  <2>1. /\ UNCHANGED <<object, children, outside, budget>> /\ UNCHANGED <<pc, locals>>
        /\ queued' = TRUE /\ timer' \in {FALSE, timer}
    BY <1>23 DEF Resync, TimerFires
  <2>2. QED
    BY <1>1, <1>2, <1>3, <1>4, <1>5, <2>1
<1>24. CASE SpecEdited
  <2>1. [ws EXCEPT !.gen = @ + 1, !.label = @ \/ webhooks] \in Objects
    <3>1. ws.gen + 1 \in Generations /\ (ws.label \/ webhooks) \in BOOLEAN
      BY <1>0, <1>24, WantFacts DEF SpecEdited, TypeWorkspace, TypeOutside, Objects, Generations
    <3>2. QED
      BY <1>0, <3>1 DEF TypeWorkspace, Objects
  <2>2. TypeWorkspace'
    BY <1>0, <1>24, <2>1, WriteWorkspaceType DEF SpecEdited
  <2>3. TypePass'
    BY <1>0, <1>24 DEF SpecEdited, TypePass
  <2>4. UNCHANGED <<children, outside, queue, budget>>
    BY <1>24 DEF SpecEdited
  <2>5. QED
    BY <1>2, <1>3, <1>5, <2>2, <2>3, <2>4 DEF queue
<1>25. CASE ChildDrifts
  <2>1. TypeChildren' /\ fresh' \in BOOLEAN
    <3>1. PICK k \in Kinds, content \in Values :
             WriteChild(k, content) /\ fresh' = (fresh /\ Kind # k)
      BY <1>25 DEF ChildDrifts, Values
    <3>2. QED
      BY <1>0, <3>1, WriteChildType DEF TypePass
  <2>2. TypePass'
    BY <1>0, <1>25, <2>1 DEF ChildDrifts, TypePass
  <2>3. UNCHANGED <<object, outside, queue>> /\ Disrupt("drift")
    BY <1>25 DEF ChildDrifts
  <2>4. QED
    BY <1>1, <1>3, <1>5, <2>1, <2>2, <2>3 DEF queue, Disruptions
<1>26. CASE UsersProvisioned \/ NamespaceFreed
  <2>1. /\ UNCHANGED <<object, children, budget, webhooks>> /\ UNCHANGED <<pc, locals>>
        /\ UNCHANGED queue /\ users' \in {users, TRUE} /\ foreign' \in {foreign, FALSE}
    BY <1>26 DEF UsersProvisioned, NamespaceFreed
  <2>2. TypeOutside'
    BY <1>0, <2>1 DEF TypeOutside, queue
  <2>3. QED
    BY <1>1, <1>2, <1>4, <2>1, <2>2
<1>27. CASE DeliverWorkspace
  <2>1. Head(wsWatch) \in Objects /\ Tail(wsWatch) \in Seq(Objects)
    BY <1>0, <1>27, LatestTail DEF DeliverWorkspace, TypeWorkspace
  <2>2. TypeWorkspace'
    BY <1>0, <1>27, <2>1 DEF DeliverWorkspace, TypeWorkspace
  <2>3. /\ UNCHANGED <<children, outside, timer, budget>> /\ UNCHANGED <<pc, locals>>
        /\ queued' \in BOOLEAN
    BY <1>5, <1>27 DEF DeliverWorkspace
  <2>4. QED
    BY <1>2, <1>3, <1>4, <1>5, <2>2, <2>3
<1>28. CASE DeliverChild
  <2>1. PICK k \in Kinds :
           /\ childWatch[k] # <<>>
           /\ childCache' = [childCache EXCEPT ![k] = Head(childWatch[k])]
           /\ childWatch' = [childWatch EXCEPT ![k] = Tail(@)]
    BY <1>28 DEF DeliverChild
  <2>2. Head(childWatch[k]) \in Values /\ Tail(childWatch[k]) \in Seq(Values)
    BY <1>0, <2>1, LatestTail DEF TypeChildren
  <2>3. TypeChildren'
    BY <1>0, <1>28, <2>1, <2>2 DEF DeliverChild, TypeChildren
  <2>4. /\ UNCHANGED <<object, outside, timer, budget>> /\ UNCHANGED <<pc, locals>>
        /\ queued' = TRUE
    BY <1>28 DEF DeliverChild
  <2>5. QED
    BY <1>1, <1>3, <1>4, <1>5, <2>3, <2>4
<1>29. CASE UNCHANGED vars
  BY <1>1, <1>2, <1>3, <1>4, <1>5, <1>29 DEF vars, queue
<1>30. QED
  BY <1>11, <1>12, <1>13, <1>14, <1>15, <1>16, <1>17, <1>18, <1>19, <1>20, <1>21, <1>22,
     <1>23, <1>24, <1>25, <1>26, <1>27, <1>28, <1>29 DEF Next, Worker, Environment

(* TypeOK always holds: no failure is reported without a reason, and no pass goes
   past the last of its children. *)
THEOREM TypeCorrect == Spec => []TypeOK
<1>1. \A obj \in Objects : IsWorkspace(obj)
  <2>1. \A s \in Statuses : IsStatus(s)
    BY DEF Statuses
  <2>2. QED
    BY <2>1 DEF Objects, IsWorkspace
<1>2. TypeInv => TypeOK
  <2> SUFFICES ASSUME TypeInv PROVE TypeOK
    OBVIOUS
  <2>1. IsWorkspace(ws) /\ IsWorkspace(wsCache) /\ IsWorkspace(w)
    BY <1>1 DEF TypeInv, TypeWorkspace, TypePass
  <2>2. \A n \in DOMAIN wsWatch : IsWorkspace(wsWatch[n])
    BY <1>1 DEF TypeInv, TypeWorkspace
  <2>3. QED
    BY <2>1, <2>2 DEF TypeInv, TypeChildren, TypeOutside, TypePass, TypeOK, Values
<1>3. QED
  BY <1>2, TypeInit, TypeStep, PTL DEF Spec

-----------------------------------------------------------------------------
(***************************************************************************)
(* At rest, however far the caches lag.  The pass works towards what its   *)
(* cache says: as long as the Workspace has not been queued again, no      *)
(* event has been delivered since the pass began but for those that leave  *)
(* the generation as it is.  A child without events on the way is          *)
(* therefore one the pass found, and left, as it should be.                *)
(***************************************************************************)
CachesTrack ==
    /\ Latest(wsWatch, wsCache) = ws
    /\ \A k \in Kinds : Latest(childWatch[k], childCache[k]) = child[k]

(* An earlier version of the Workspace: labels, and reasons, do not go away. *)
Earlier(obj) ==
    /\ obj.label => ws.label
    /\ obj.status["Ready"].reason # "Unknown" => Ready.reason # "Unknown"

VersionsEarlier ==
    /\ Earlier(wsCache) /\ Earlier(w)
    /\ \A n \in DOMAIN wsWatch : Earlier(wsWatch[n])

CopyCurrent ==
    /\ current => ws = w
    /\ pc # "idle" /\ ~queued => w.gen = wsCache.gen
    /\ pc = "backfill" => ~w.label
    /\ pc \notin {"idle", "backfill"} => w.label

(* Before the label there is no status, and before the namespace no success. *)
LabelFirst == ~ws.label => ws.status = EmptyStatus

NamespaceFirst ==
    /\ foreign \/ failure = "Conflict" => Ready.reason \notin {"True", "Pending"}
    /\ pc \in {"harbor", "get", "put", "status"} => ~foreign

InPlace(k, g) == childWatch[k] = <<>> => child[k] = Wants[g][k]

PassInPlace ==
    pc \in {"get", "put", "status"} /\ ~queued =>
        /\ \A n \in 1..Len(Order) : n < step => InPlace(Order[n], w.gen)
        /\ pc = "put" /\ childWatch[Kind] = <<>> => seen = child[Kind]

IdleExplained ==
    pc = "idle" /\ ~queued /\ ~timer =>
        \/ \A k \in Kinds : InPlace(k, wsCache.gen)
        \/ Ready.reason \in {"Conflict", "Error"}
        \/ BackfilledOnly

LagParts ==
    /\ CachesTrack /\ VersionsEarlier /\ CopyCurrent /\ LabelFirst /\ NamespaceFirst
    /\ PassInPlace /\ IdleExplained
LagInv == TypeInv /\ LagParts

(* Who changes the Workspace ... *)
LEMMA WorkspaceSteps ==
    ASSUME TypeInv, [Next]_vars
    PROVE  \/ UNCHANGED object
           \/ SpecEdited
           \/ BackfillLabel /\ current /\ ~webhooks /\ WriteWorkspace([ws EXCEPT !.label = TRUE])
           \/ updateStatus /\ PatchStatus(NewStatus)
           \/ setReadyConditionFalse /\ PatchStatus(FailureStatus)
           \/ DeliverWorkspace
           \/ Crash
<1>1. CASE Worker
  BY <1>1 DEF Worker, Reconcile, BackfillLabel, ReconcileNamespace, ReconcileHarbor, DeleteChild,
              GetChild, PutChild, updateStatus, setReadyConditionFalse
<1>2. CASE Environment
  BY <1>2 DEF Environment, CallFails, PatchFails, Resync, ChildDrifts, UsersProvisioned,
              NamespaceFreed
<1>3. CASE DeliverWorkspace \/ DeliverChild \/ TimerFires \/ UNCHANGED vars
  BY <1>3 DEF DeliverChild, TimerFires, vars
<1>4. QED
  BY <1>1, <1>2, <1>3 DEF Next

(* ... and the children. *)
LEMMA ChildSteps ==
    ASSUME TypeInv, [Next]_vars
    PROVE  \/ UNCHANGED children
           \/ \E k \in Kinds, content \in Values : WriteChild(k, content)
           \/ DeliverChild
           \/ Crash
<1>1. CASE DeleteChild
  <2>1. Kind \in Kinds /\ Absent \in Values
    BY <1>1, KindType DEF DeleteChild, Values
  <2>2. QED
    BY <1>1, <2>1 DEF DeleteChild
<1>2. CASE PutChild
  <2>1. Kind \in Kinds /\ Desired \in Values
    BY <1>2, KindType DEF PutChild
  <2>2. QED
    BY <1>2, <2>1 DEF PutChild, PutUnchanged, PutAccepted, PutRejected
<1>3. CASE ChildDrifts
  BY <1>3 DEF ChildDrifts, Values
<1>4. CASE Worker /\ ~DeleteChild /\ ~PutChild
  BY <1>4 DEF Worker, Reconcile, BackfillLabel, ReconcileNamespace, ReconcileHarbor,
              GetChild, updateStatus, setReadyConditionFalse
<1>5. CASE Environment /\ ~ChildDrifts
  BY <1>5 DEF Environment, CallFails, PatchFails, Resync, SpecEdited, UsersProvisioned,
              NamespaceFreed
<1>6. CASE DeliverWorkspace \/ DeliverChild \/ TimerFires \/ UNCHANGED vars
  BY <1>6 DEF DeliverWorkspace, TimerFires, vars
<1>7. QED
  BY <1>1, <1>2, <1>3, <1>4, <1>5, <1>6 DEF Next

(* The work queue forgets the Workspace only when a pass begins, and a timer
   only to queue it; the pass keeps its copy until it ends. *)
LEMMA PassSteps ==
    ASSUME TypeInv, [Next]_vars, ~Reconcile
    PROVE  /\ queued => queued'
           /\ timer => timer' \/ queued'
           /\ \/ pc' = "idle" /\ Forget
              \/ w' = w /\ (pc = "idle" <=> pc' = "idle") /\ (SpecEdited \/ UNCHANGED current)
<1> USE DEF Goto, Retry, Return, queue, locals
<1>0. queued \in BOOLEAN /\ timer \in BOOLEAN
  BY DEF TypeInv, TypeOutside
<1>1. CASE BackfillLabel \/ updateStatus \/ setReadyConditionFalse \/ PatchFails \/ Crash
  BY <1>0, <1>1 DEF BackfillLabel, updateStatus, setReadyConditionFalse, PatchFails, Crash
<1>2. CASE ReconcileNamespace \/ ReconcileHarbor \/ DeleteChild \/ GetChild
  BY <1>0, <1>2 DEF ReconcileNamespace, ReconcileHarbor, DeleteChild, GetChild, NextKind
<1>3. CASE PutChild \/ CallFails
  BY <1>0, <1>3
     DEF PutChild, PutUnchanged, PutAccepted, PutRejected, NextKind, ReportError, CallFails
<1>4. CASE Resync \/ TimerFires \/ UsersProvisioned \/ NamespaceFreed \/ UNCHANGED vars
  BY <1>0, <1>4 DEF Resync, TimerFires, UsersProvisioned, NamespaceFreed, vars
<1>5. CASE SpecEdited \/ ChildDrifts \/ DeliverWorkspace \/ DeliverChild
  BY <1>0, <1>5 DEF SpecEdited, ChildDrifts, DeliverWorkspace, DeliverChild
<1>6. QED
  BY <1>1, <1>2, <1>3, <1>4, <1>5 DEF Next, Worker, Environment

(* What the writes to the Workspace leave alone. *)
LEMMA WorkspaceGrows ==
    ASSUME TypeInv, [Next]_vars
    PROVE  /\ ws' \in Objects
           /\ ws.label => ws'.label
           /\ Ready.reason # "Unknown" => Ready'.reason # "Unknown"
           /\ wsCache' = wsCache \/ DeliverWorkspace \/ Crash
           /\ \A n \in DOMAIN wsWatch' :
                 wsWatch'[n] = ws' \/ \E m \in DOMAIN wsWatch : wsWatch'[n] = wsWatch[m]
<1>0. ws \in Objects /\ ws' \in Objects /\ wsWatch \in Seq(Objects)
  BY TypeStep DEF TypeInv, TypeWorkspace
<1>1. ASSUME NEW obj \in Objects, WriteWorkspace(obj)
      PROVE  /\ wsCache' = wsCache /\ ws' = obj
             /\ \A n \in DOMAIN wsWatch' :
                 wsWatch'[n] = ws' \/ \E m \in DOMAIN wsWatch : wsWatch'[n] = wsWatch[m]
  <2>1. wsCache' = wsCache /\ ws' = obj /\ wsWatch' \in {wsWatch, Append(wsWatch, obj)}
    BY <1>1 DEF WriteWorkspace
  <2>2. QED
    BY <1>0, <2>1
<1>2. ASSUME NEW new \in Statuses, PatchStatus(new), new["Ready"].reason # "Unknown"
      PROVE  /\ ws'.label = ws.label /\ wsCache' = wsCache
             /\ Ready.reason # "Unknown" => Ready'.reason # "Unknown"
             /\ \A n \in DOMAIN wsWatch' :
                 wsWatch'[n] = ws' \/ \E m \in DOMAIN wsWatch : wsWatch'[n] = wsWatch[m]
  <2> DEFINE obj == [ws EXCEPT !.status = Merge(new)]
  <2>1. /\ obj \in Objects /\ obj.label = ws.label /\ obj.status = Merge(new)
        /\ Merge(new)["Ready"] \in {new["Ready"], Ready}
    BY MergeType DEF Ready
  <2>2. WriteWorkspace(obj)
    BY <1>2 DEF PatchStatus
  <2> HIDE DEF obj
  <2>3. QED
    BY <1>1, <1>2, <2>1, <2>2 DEF Ready
<1>3. CASE UNCHANGED object
  BY <1>0, <1>3 DEF object, Ready
<1>4. CASE SpecEdited
  <2> DEFINE obj == [ws EXCEPT !.gen = @ + 1, !.label = @ \/ webhooks]
  <2>1. WriteWorkspace(obj) /\ ws' = obj
    BY <1>4 DEF SpecEdited, WriteWorkspace
  <2>2. (ws.label => obj.label) /\ obj.status = ws.status
    BY <1>0 DEF Objects
  <2> HIDE DEF obj
  <2>3. QED
    BY <1>0, <1>1, <2>1, <2>2 DEF Ready
<1>5. CASE BackfillLabel /\ WriteWorkspace([ws EXCEPT !.label = TRUE])
  <2> DEFINE obj == [ws EXCEPT !.label = TRUE]
  <2>1. WriteWorkspace(obj) /\ ws' = obj
    BY <1>5 DEF WriteWorkspace
  <2>2. obj.label /\ obj.status = ws.status
    BY <1>0 DEF Objects
  <2> HIDE DEF obj
  <2>3. QED
    BY <1>0, <1>1, <2>1, <2>2 DEF Ready
<1>6. CASE updateStatus /\ PatchStatus(NewStatus)
  <2>1. NewStatus \in Statuses /\ NewStatus["Ready"].reason # "Unknown"
    BY NewStatusType DEF Condition
  <2>2. QED
    BY <1>0, <1>2, <1>6, <2>1
<1>7. CASE setReadyConditionFalse /\ PatchStatus(FailureStatus)
  <2>1. pc = "report" /\ failure # "Unknown"
    BY <1>7 DEF setReadyConditionFalse, TypeInv, TypePass
  <2>2. FailureStatus \in Statuses /\ FailureStatus["Ready"].reason # "Unknown"
    BY <2>1, FailureStatusType DEF Condition
  <2>3. QED
    BY <1>0, <1>2, <1>7, <2>2
<1>8. CASE DeliverWorkspace
  <2>1. ws' = ws /\ wsWatch # <<>> /\ wsWatch' = Tail(wsWatch)
    BY <1>8 DEF DeliverWorkspace
  <2>2. \A n \in DOMAIN wsWatch' : \E m \in DOMAIN wsWatch : wsWatch'[n] = wsWatch[m]
    BY <1>0, <2>1, HeadOrTail
  <2>3. QED
    BY <1>0, <1>8, <2>1, <2>2 DEF Ready
<1>9. CASE Crash
  BY <1>0, <1>9 DEF Crash, Ready
<1>10. QED
  BY <1>3, <1>4, <1>5, <1>6, <1>7, <1>8, <1>9, WorkspaceSteps

(* The caches will show what is. *)
LEMMA TracksStep ==
    ASSUME TypeInv, CachesTrack, [Next]_vars
    PROVE  CachesTrack'
<1>0. /\ ws \in Objects /\ wsCache \in Objects /\ wsWatch \in Seq(Objects) /\ ws' \in Objects
      /\ child \in [Kinds -> Values] /\ childCache \in [Kinds -> Values]
      /\ childWatch \in [Kinds -> Seq(Values)]
  BY TypeStep DEF TypeInv, TypeWorkspace, TypeChildren
<1>1. Latest(wsWatch', wsCache') = ws'
  <2>1. ASSUME NEW obj, WriteWorkspace(obj) PROVE Latest(wsWatch', wsCache') = ws'
    <3>1. /\ ws' = obj /\ wsCache' = wsCache /\ obj \in Objects
          /\ wsWatch' = IF obj = ws THEN wsWatch ELSE Append(wsWatch, obj)
      BY <1>0, <2>1 DEF WriteWorkspace
    <3>2. CASE obj = ws
      BY <3>1, <3>2 DEF CachesTrack
    <3>3. CASE obj # ws
      BY <1>0, <3>1, <3>3, LatestAppend
    <3>4. QED
      BY <3>2, <3>3
  <2>2. CASE UNCHANGED object
    BY <2>2 DEF object, CachesTrack
  <2>3. CASE DeliverWorkspace
    BY <1>0, <2>3, LatestTail DEF DeliverWorkspace, CachesTrack
  <2>4. CASE Crash
    BY <2>4, LatestEmpty DEF Crash
  <2>5. QED
    BY <2>1, <2>2, <2>3, <2>4, WorkspaceSteps DEF SpecEdited, PatchStatus
<1>2. ASSUME NEW k \in Kinds PROVE Latest(childWatch'[k], childCache'[k]) = child'[k]
  <2>0. Latest(childWatch[k], childCache[k]) = child[k]
    BY DEF CachesTrack
  <2>1. CASE UNCHANGED children
    BY <2>0, <2>1 DEF children
  <2>2. CASE \E j \in Kinds, content \in Values : WriteChild(j, content)
    <3>1. PICK j \in Kinds, content \in Values : WriteChild(j, content)
      BY <2>2
    <3>2. CASE j = k
      <4>1. /\ child'[k] = content /\ childCache' = childCache
            /\ childWatch'[k] = Append(childWatch[k], content)
        BY <1>0, <3>1, <3>2 DEF WriteChild
      <4>2. QED
        BY <1>0, <4>1, LatestAppend
    <3>3. CASE j # k
      BY <1>0, <2>0, <3>1, <3>3 DEF WriteChild
    <3>4. QED
      BY <3>2, <3>3
  <2>3. CASE DeliverChild
    <3>1. PICK j \in Kinds :
             /\ childWatch[j] # <<>>
             /\ childCache' = [childCache EXCEPT ![j] = Head(childWatch[j])]
             /\ childWatch' = [childWatch EXCEPT ![j] = Tail(@)]
             /\ child' = child
      BY <2>3 DEF DeliverChild
    <3>2. CASE j = k
      <4>1. childCache'[k] = Head(childWatch[k]) /\ childWatch'[k] = Tail(childWatch[k])
        BY <1>0, <3>1, <3>2
      <4>2. QED
        BY <1>0, <2>0, <3>1, <3>2, <4>1, LatestTail
    <3>3. CASE j # k
      BY <1>0, <2>0, <3>1, <3>3
    <3>4. QED
      BY <3>2, <3>3
  <2>4. CASE Crash
    <3>1. childWatch'[k] = <<>> /\ childCache' = child /\ child' = child
      BY <2>4 DEF Crash
    <3>2. QED
      BY <3>1, LatestEmpty
  <2>5. QED
    BY <2>1, <2>2, <2>3, <2>4, ChildSteps
<1>3. QED
  BY <1>1, <1>2 DEF CachesTrack

(* No copy, and no version on the way, knows more than the API server. *)
LEMMA EarlierStep ==
    ASSUME TypeInv, VersionsEarlier, [Next]_vars
    PROVE  VersionsEarlier'
<1> DEFINE Before(obj) ==
      /\ obj.label => ws'.label
      /\ obj.status["Ready"].reason # "Unknown" => Ready'.reason # "Unknown"
<1>1. \A obj : Earlier(obj) => Before(obj)
  BY WorkspaceGrows DEF Earlier
<1>2. Before(ws')
  BY DEF Ready
<1>3. Before(NoCopy)
  <2>1. NoCopy.label = FALSE /\ NoCopy.status = EmptyStatus
    BY DEF NoCopy
  <2>2. QED
    BY <2>1, EmptyStatusType
<1>4. Before(wsCache')
  <2>1. CASE wsCache' = wsCache
    BY <1>1, <2>1 DEF VersionsEarlier
  <2>2. CASE DeliverWorkspace
    <3>1. wsCache' = Head(wsWatch) /\ wsWatch # <<>> /\ wsWatch \in Seq(Objects)
      BY <2>2 DEF DeliverWorkspace, TypeInv, TypeWorkspace
    <3>2. wsCache' = wsWatch[1] /\ 1 \in DOMAIN wsWatch
      BY <3>1, HeadOrTail
    <3>3. QED
      BY <1>1, <3>2 DEF VersionsEarlier
  <2>3. CASE Crash
    BY <1>2, <2>3 DEF Crash
  <2>4. QED
    BY <2>1, <2>2, <2>3, WorkspaceGrows
<1>5. Before(w')
  <2>1. CASE Reconcile
    BY <1>1, <2>1 DEF Reconcile, VersionsEarlier
  <2>2. CASE ~Reconcile
    <3>1. w' = w \/ w' = NoCopy
      BY <2>2, PassSteps DEF Forget
    <3>2. QED
      BY <1>1, <1>3, <3>1 DEF VersionsEarlier
  <2>3. QED
    BY <2>1, <2>2
<1>6. ASSUME NEW n \in DOMAIN wsWatch' PROVE Before(wsWatch'[n])
  <2>1. wsWatch'[n] = ws' \/ \E m \in DOMAIN wsWatch : wsWatch'[n] = wsWatch[m]
    BY WorkspaceGrows
  <2>2. QED
    BY <1>1, <1>2, <2>1 DEF VersionsEarlier
<1>7. QED
  BY <1>4, <1>5, <1>6 DEF VersionsEarlier, Earlier

(* The copy of the pass. *)
LEMMA CopyStep ==
    ASSUME TypeInv, CachesTrack, CopyCurrent, [Next]_vars
    PROVE  CopyCurrent'
<1>1. CASE Reconcile
  <2>1. /\ w' = wsCache /\ ws' = ws /\ wsCache' = wsCache /\ current' = (wsWatch = <<>>)
        /\ pc' = IF wsCache.label THEN "namespace" ELSE "backfill"
    BY <1>1 DEF Reconcile, object
  <2>2. wsWatch = <<>> => wsCache = ws
    BY DEF CachesTrack, Latest
  <2>3. wsCache.label \in BOOLEAN
    BY DEF TypeInv, TypeWorkspace, Objects
  <2>4. QED
    BY <2>1, <2>2, <2>3 DEF CopyCurrent
<1>2. CASE ~Reconcile /\ pc' = "idle" /\ Forget
  BY <1>2 DEF Forget, CopyCurrent
<1>3. CASE ~Reconcile /\ ~(pc' = "idle" /\ Forget)
  <2>1. /\ w' = w /\ (pc = "idle" <=> pc' = "idle") /\ (SpecEdited \/ UNCHANGED current)
        /\ queued => queued'
    BY <1>3, PassSteps
  <2>2. current' => ws' = w'
    <3>1. CASE SpecEdited
      BY <3>1 DEF SpecEdited
    <3>2. CASE ~SpecEdited
      <4>1. \/ UNCHANGED object \/ DeliverWorkspace
            \/ Return(FALSE) \/ Retry \/ Return(missing) \/ Crash
        BY <3>2, WorkspaceSteps DEF BackfillLabel, updateStatus, setReadyConditionFalse
      <4>2. ws' = ws
        BY <1>3, <4>1 DEF object, DeliverWorkspace, Return, Retry, Crash
      <4>3. QED
        BY <2>1, <3>2, <4>2 DEF CopyCurrent
    <3>3. QED
      BY <3>1, <3>2
  <2>3. pc' # "idle" /\ ~queued' => w'.gen = wsCache'.gen
    <3>1. wsCache' = wsCache \/ DeliverWorkspace
      BY <1>3, WorkspaceGrows DEF Crash
    <3>2. DeliverWorkspace /\ ~queued' => wsCache'.gen = wsCache.gen
      BY DEF DeliverWorkspace
    <3>3. QED
      BY <2>1, <3>1, <3>2 DEF CopyCurrent
  <2>4. (pc = "backfill" <=> pc' = "backfill")
    <3>1. CASE Worker
      BY <1>3, <3>1
         DEF Worker, BackfillLabel, ReconcileNamespace, ReconcileHarbor, DeleteChild, GetChild,
             PutChild, PutUnchanged, PutAccepted, PutRejected, updateStatus, ReportError,
             setReadyConditionFalse, NextKind, Goto, Return, Retry
    <3>2. CASE Environment
      BY <1>3, <3>2
         DEF Environment, CallFails, PatchFails, Crash, Resync, SpecEdited, ChildDrifts,
             UsersProvisioned, NamespaceFreed, ReportError, Goto, Return, Retry
    <3>3. CASE DeliverWorkspace \/ DeliverChild \/ TimerFires \/ UNCHANGED vars
      BY <3>3 DEF DeliverWorkspace, DeliverChild, TimerFires, vars
    <3>4. QED
      BY <3>1, <3>2, <3>3 DEF Next
  <2>5. QED
    BY <2>1, <2>2, <2>3, <2>4 DEF CopyCurrent
<1>4. QED
  BY <1>1, <1>2, <1>3

(* What a patch makes of the Ready condition. *)
LEMMA PatchedReady ==
    ASSUME TypeInv, NEW new \in Statuses, PatchStatus(new)
    PROVE  /\ ws'.label = ws.label /\ ws'.gen = ws.gen /\ wsCache' = wsCache
           /\ ws'.status = Merge(new)
           /\ Ready' = IF new["Ready"] # w.status["Ready"] THEN new["Ready"] ELSE Ready
<1> DEFINE obj == [ws EXCEPT !.status = Merge(new)]
<1>1. /\ obj.label = ws.label /\ obj.gen = ws.gen /\ obj.status = Merge(new)
      /\ Merge(new)["Ready"] = IF new["Ready"] # w.status["Ready"] THEN new["Ready"] ELSE Ready
  BY MergeType DEF Ready
<1>2. ws' = obj /\ wsCache' = wsCache
  BY DEF PatchStatus, WriteWorkspace
<1> HIDE DEF obj
<1>3. QED
  BY <1>1, <1>2 DEF Ready

LEMMA LabelStep ==
    ASSUME TypeInv, VersionsEarlier, CopyCurrent, LabelFirst, [Next]_vars
    PROVE  LabelFirst'
<1>0. ws \in Objects
  BY DEF TypeInv, TypeWorkspace
<1>1. CASE UNCHANGED object \/ DeliverWorkspace \/ Crash
  BY <1>1 DEF object, DeliverWorkspace, Crash, LabelFirst
<1>2. CASE SpecEdited
  <2>1. ws' = [ws EXCEPT !.gen = @ + 1, !.label = @ \/ webhooks]
    BY <1>2 DEF SpecEdited, WriteWorkspace
  <2>2. ws'.status = ws.status /\ (ws.label => ws'.label)
    BY <1>0, <2>1 DEF Objects
  <2>3. QED
    BY <2>2 DEF LabelFirst
<1>3. CASE WriteWorkspace([ws EXCEPT !.label = TRUE])
  BY <1>0, <1>3 DEF WriteWorkspace, LabelFirst, Objects
<1>4. CASE pc \in {"status", "report"} /\ ws'.label = ws.label
  <2>1. ws.label
    BY <1>4 DEF CopyCurrent, VersionsEarlier, Earlier
  <2>2. QED
    BY <1>4, <2>1 DEF LabelFirst
<1>5. CASE updateStatus /\ PatchStatus(NewStatus)
  BY <1>4, <1>5, NewStatusType, PatchedReady DEF updateStatus
<1>6. CASE setReadyConditionFalse /\ PatchStatus(FailureStatus)
  BY <1>4, <1>6, FailureStatusType, PatchedReady DEF setReadyConditionFalse
<1>7. QED
  BY <1>1, <1>2, <1>3, <1>5, <1>6, WorkspaceSteps

LEMMA NamespaceStep ==
    ASSUME TypeInv, NamespaceFirst, [Next]_vars
    PROVE  NamespaceFirst'
<1>0. /\ ws \in Objects /\ foreign \in BOOLEAN
      /\ failure # "none" <=> pc = "report"
  BY DEF TypeInv, TypeWorkspace, TypeOutside, TypePass
<1>1. ASSUME Ready' = Ready, foreign' => foreign, failure' = "Conflict" => failure = "Conflict"
      PROVE  foreign' \/ failure' = "Conflict" => Ready'.reason \notin {"True", "Pending"}
  BY <1>1 DEF NamespaceFirst
<1>2. CASE ReconcileNamespace
  BY <1>0, <1>2 DEF ReconcileNamespace, Goto, object, outside, Ready, NamespaceFirst
<1>3. CASE updateStatus
  <2>1. ~foreign' /\ failure' = "none" /\ pc' = "idle"
    BY <1>3 DEF updateStatus, Return, Forget, outside, NamespaceFirst
  <2>2. QED
    BY <2>1 DEF NamespaceFirst
<1>4. CASE setReadyConditionFalse
  <2>1. /\ pc = "report" /\ PatchStatus(FailureStatus) /\ foreign' = foreign
        /\ failure' = "none" /\ pc' = "idle"
    BY <1>4 DEF setReadyConditionFalse, Return, Retry, Forget, outside
  <2>2. Ready' \in {Condition(failure, w.gen), Ready}
    BY <2>1, FailureStatusType, PatchedReady
  <2>3. failure \notin {"True", "Pending"}
    BY DEF TypeInv, TypePass
  <2>4. QED
    BY <2>1, <2>2, <2>3 DEF NamespaceFirst, Condition
<1>5. CASE SpecEdited
  <2>1. ws' = [ws EXCEPT !.gen = @ + 1, !.label = @ \/ webhooks]
    BY <1>5 DEF SpecEdited, WriteWorkspace
  <2>2. Ready' = Ready
    BY <1>0, <2>1 DEF Objects, Ready
  <2>3. QED
    BY <1>1, <1>5, <2>2 DEF SpecEdited, outside, NamespaceFirst
<1>6. CASE BackfillLabel
  <2>1. ws' = [ws EXCEPT !.label = TRUE] \/ ws' = ws
    BY <1>6 DEF BackfillLabel, WriteWorkspace, object
  <2>2. Ready' = Ready
    BY <1>0, <2>1 DEF Objects, Ready
  <2>3. QED
    BY <1>1, <1>6, <2>2 DEF BackfillLabel, Return, Retry, Forget, outside, NamespaceFirst
<1>7. CASE Crash \/ PatchFails
  BY <1>1, <1>7 DEF Crash, PatchFails, Return, Retry, Forget, object, outside, Ready, NamespaceFirst
<1>8. CASE Reconcile \/ ReconcileHarbor \/ DeleteChild \/ GetChild
  BY <1>0, <1>1, <1>8 DEF Reconcile, ReconcileHarbor, DeleteChild, GetChild, NextKind, Goto,
                          object, outside, Ready, NamespaceFirst
<1>9. CASE PutChild
  BY <1>0, <1>1, <1>9 DEF PutChild, PutUnchanged, PutAccepted, PutRejected, NextKind, ReportError,
                          Retry, Forget, Goto, object, outside, Ready, NamespaceFirst
<1>10. CASE CallFails \/ ChildDrifts
  BY <1>0, <1>1, <1>10 DEF CallFails, ChildDrifts, ReportError, Goto, object, outside, Ready,
                           NamespaceFirst
<1>11. CASE Resync \/ TimerFires \/ UsersProvisioned \/ NamespaceFreed
  BY <1>0, <1>1, <1>11 DEF Resync, TimerFires, UsersProvisioned, NamespaceFreed, object, outside,
                           locals, Ready, NamespaceFirst
<1>12. CASE DeliverWorkspace \/ DeliverChild \/ UNCHANGED vars
  BY <1>0, <1>1, <1>12 DEF DeliverWorkspace, DeliverChild, vars, object, outside, locals, Ready,
                           NamespaceFirst
<1>13. QED
  BY <1>2, <1>3, <1>4, <1>5, <1>6, <1>7, <1>8, <1>9, <1>10, <1>11, <1>12
     DEF Next, Worker, Environment

(* A child about which there is no event has not changed, unless one was
   delivered, which queues the Workspace. *)
LEMMA NoEventNoChange ==
    ASSUME TypeInv, [Next]_vars, ~DeliverChild, ~Crash, NEW k \in Kinds, childWatch'[k] = <<>>
    PROVE  childWatch[k] = <<>> /\ child'[k] = child[k] /\ childCache'[k] = childCache[k]
<1>0. /\ child \in [Kinds -> Values] /\ childWatch \in [Kinds -> Seq(Values)]
  BY DEF TypeInv, TypeChildren
<1>1. CASE UNCHANGED children
  BY <1>1 DEF children
<1>2. CASE \E j \in Kinds, content \in Values : WriteChild(j, content)
  <2>1. PICK j \in Kinds, content \in Values : WriteChild(j, content)
    BY <1>2
  <2>2. CASE j = k
    <3>1. childWatch'[k] = Append(childWatch[k], content)
      BY <1>0, <2>1, <2>2 DEF WriteChild
    <3>2. Append(childWatch[k], content) # <<>>
      BY <1>0, LatestAppend
    <3>3. QED
      BY <3>1, <3>2
  <2>3. CASE j # k
    BY <1>0, <2>1, <2>3 DEF WriteChild
  <2>4. QED
    BY <2>2, <2>3
<1>3. QED
  BY <1>1, <1>2, ChildSteps

(* The same for a child that is written. *)
LEMMA WriteIsEvent ==
    ASSUME TypeInv, NEW k \in Kinds, NEW content \in Values, WriteChild(k, content)
    PROVE  childWatch'[k] # <<>> /\ child' = [child EXCEPT ![k] = content]
<1>1. childWatch'[k] = Append(childWatch[k], content)
  BY DEF WriteChild, TypeInv, TypeChildren
<1>2. Append(childWatch[k], content) # <<>>
  BY LatestAppend DEF TypeInv, TypeChildren
<1>3. QED
  BY <1>1, <1>2 DEF WriteChild

(* Steps besides the pass that do not queue the Workspace. *)
Bystander ==
    /\ \/ SpecEdited \/ ChildDrifts \/ UsersProvisioned \/ NamespaceFreed
       \/ DeliverWorkspace \/ UNCHANGED vars
    /\ ~queued'

LEMMA BystanderStep ==
    ASSUME TypeInv, Bystander
    PROVE  /\ UNCHANGED <<pc, w, step, seen, missing, failure>>
           /\ UNCHANGED <<queued, timer, webhooks>>
           /\ ws'.status = ws.status /\ (ws.label => ws'.label) /\ wsCache'.gen = wsCache.gen
<1>0. queued \in BOOLEAN /\ ws \in Objects
  BY DEF TypeInv, TypeOutside, TypeWorkspace
<1>1. CASE SpecEdited
  <2>1. ws' = [ws EXCEPT !.gen = @ + 1, !.label = @ \/ webhooks] /\ wsCache' = wsCache
    BY <1>1 DEF SpecEdited, WriteWorkspace
  <2>2. ws'.status = ws.status /\ (ws.label => ws'.label)
    BY <1>0, <2>1 DEF Objects
  <2>3. QED
    BY <1>1, <2>1, <2>2 DEF SpecEdited, outside, queue
<1>2. CASE DeliverWorkspace
  <2>1. queued' = (queued \/ wsCache'.gen # wsCache.gen)
    BY <1>2 DEF DeliverWorkspace
  <2>2. queued' = queued /\ wsCache'.gen = wsCache.gen
    BY <1>0, <2>1 DEF Bystander
  <2>3. QED
    BY <1>2, <2>2 DEF DeliverWorkspace, outside, locals
<1>3. CASE ChildDrifts \/ UsersProvisioned \/ NamespaceFreed \/ UNCHANGED vars
  BY <1>3 DEF ChildDrifts, UsersProvisioned, NamespaceFreed, vars, object, outside, queue, locals
<1>4. QED
  BY <1>1, <1>2, <1>3 DEF Bystander

(* The steps after which the Workspace is not queued. *)
LEMMA UnqueuedSteps ==
    ASSUME [Next]_vars, ~queued'
    PROVE  /\ ~DeliverChild /\ ~Crash /\ ~Retry
           /\ \/ Reconcile \/ BackfillLabel \/ ReconcileNamespace \/ ReconcileHarbor
              \/ DeleteChild \/ GetChild \/ PutChild \/ updateStatus \/ setReadyConditionFalse
              \/ CallFails \/ PatchFails \/ Bystander
<1>1. ~DeliverChild /\ ~Crash /\ ~Retry /\ ~Resync /\ ~TimerFires
  BY DEF DeliverChild, Crash, Retry, Resync, TimerFires
<1>2. QED
  BY <1>1 DEF Next, Worker, Environment, Bystander

(* The children the pass has dealt with. *)
LEMMA PassInPlaceStep ==
    ASSUME TypeInv, CachesTrack, PassInPlace, [Next]_vars
    PROVE  PassInPlace'
<1> SUFFICES ASSUME pc' \in {"get", "put", "status"}, ~queued'
             PROVE  /\ \A n \in 1..Len(Order) : n < step' => InPlace(Order[n], w.gen)'
                    /\ pc' = "put" /\ childWatch'[Kind'] = <<>> => seen' = child'[Kind']
  BY DEF PassInPlace
<1>0. Len(Order) \in Nat /\ step \in Nat /\ ~DeliverChild /\ ~Crash
  BY KindFacts, UnqueuedSteps DEF TypeInv, TypePass
<1>1. ASSUME NEW n \in 1..Len(Order), InPlace(Order[n], w.gen), w' = w
      PROVE  InPlace(Order[n], w.gen)'
  <2>1. Order[n] \in Kinds
    BY KindFacts
  <2>2. QED
    BY <1>0, <1>1, <2>1, NoEventNoChange DEF InPlace
<1>2. ASSUME ~queued, pc \in {"get", "put", "status"}, NEW n \in 1..Len(Order), n < step, w' = w
      PROVE  InPlace(Order[n], w.gen)'
  BY <1>1, <1>2 DEF PassInPlace
<1>3. ASSUME NextKind, pc \in {"get", "put"}, InPlace(Kind, w.gen) \/ childWatch'[Kind] # <<>>
      PROVE  /\ \A n \in 1..Len(Order) : n < step' => InPlace(Order[n], w.gen)'
             /\ pc' = "put" /\ childWatch'[Kind'] = <<>> => seen' = child'[Kind']
  <2>1. w' = w /\ step' = step + 1 /\ pc' # "put" /\ queued' = queued
    BY <1>3 DEF NextKind, Goto, queue
  <2>2. step \in 1..Len(Order)
    BY <1>3, KindFacts DEF TypeInv, TypePass
  <2>3. InPlace(Order[step], w.gen) \/ childWatch'[Order[step]] # <<>>
    BY <1>3 DEF Kind
  <2>4. PICK m \in 1..Len(Order) : m = step
    BY <2>2
  <2>5. InPlace(Order[m], w.gen)'
    <3>1. CASE childWatch'[Order[m]] # <<>>
      BY <3>1 DEF InPlace
    <3>2. CASE InPlace(Order[m], w.gen)
      BY <1>1, <2>1, <3>2
    <3>3. QED
      BY <2>3, <2>4, <3>1, <3>2
  <2>6. ASSUME NEW n \in 1..Len(Order), n < step' PROVE InPlace(Order[n], w.gen)'
    <3>1. CASE n = m
      BY <2>5, <3>1
    <3>2. CASE n # m
      <4>1. n < step
        BY <1>0, <2>1, <2>4, <2>6, <3>2
      <4>2. QED
        BY <1>2, <1>3, <2>1, <4>1
    <3>3. QED
      BY <3>1, <3>2
  <2>7. QED
    BY <2>1, <2>6
<1>4. CASE ReconcileHarbor
  <2>1. step' = 1 /\ pc' = "get"
    BY <1>4 DEF ReconcileHarbor, Goto, TypeInv, TypePass
  <2>2. QED
    BY <2>1
<1>5. CASE DeleteChild
  <2>1. /\ pc = "get" /\ NextKind /\ Desired = Absent
        /\ IF child[Kind] = Absent THEN UNCHANGED children ELSE WriteChild(Kind, Absent)
    BY <1>5 DEF DeleteChild
  <2>2. Kind \in Kinds /\ Desired = Wants[w.gen][Kind] /\ Absent \in Values
    BY <2>1, KindType DEF Values
  <2>3. InPlace(Kind, w.gen) \/ childWatch'[Kind] # <<>>
    <3>1. CASE child[Kind] = Absent
      BY <2>1, <2>2, <3>1 DEF InPlace
    <3>2. CASE child[Kind] # Absent
      BY <2>1, <2>2, <3>2, WriteIsEvent
    <3>3. QED
      BY <3>1, <3>2
  <2>4. QED
    BY <1>3, <2>1, <2>3
<1>6. CASE GetChild
  <2>1. /\ pc = "get" /\ pc' = "put" /\ seen' = childCache[Kind]
        /\ UNCHANGED <<w, step, child, childWatch, queued>>
    BY <1>6 DEF GetChild, Goto, queue, children
  <2>2. Kind \in Kinds /\ Kind' = Kind
    BY <2>1, KindType DEF Kind
  <2>3. childWatch[Kind] = <<>> => childCache[Kind] = child[Kind]
    BY <2>2 DEF CachesTrack, Latest
  <2>4. QED
    BY <1>2, <2>1, <2>2, <2>3
<1>7. CASE PutChild
  <2>1. pc = "put"
    BY <1>7 DEF PutChild
  <2>2. Kind \in Kinds /\ Desired = Wants[w.gen][Kind] /\ Desired \in Values
    BY <2>1, KindType
  <2>3. CASE PutUnchanged
    <3>1. NextKind /\ seen = Desired /\ queued' = queued
      BY <2>3 DEF PutUnchanged, NextKind, Goto, queue
    <3>2. InPlace(Kind, w.gen)
      BY <2>1, <2>2, <3>1 DEF PassInPlace, InPlace
    <3>3. QED
      BY <1>3, <2>1, <3>1, <3>2
  <2>4. CASE PutAccepted
    <3>1. NextKind /\ WriteChild(Kind, Desired)
      BY <2>4 DEF PutAccepted
    <3>2. childWatch'[Kind] # <<>>
      BY <2>2, <3>1, WriteIsEvent
    <3>3. QED
      BY <1>3, <2>1, <3>1, <3>2
  <2>5. CASE PutRejected
    BY <2>5 DEF PutRejected, ReportError, Retry, Goto
  <2>6. QED
    BY <1>7, <2>3, <2>4, <2>5 DEF PutChild
<1>8. CASE Bystander
  <2>1. UNCHANGED <<pc, w, step, seen, queued>>
    BY <1>8, BystanderStep
  <2>2. Kind' = Kind
    BY <2>1 DEF Kind
  <2>3. ASSUME pc = "put", childWatch'[Kind] = <<>> PROVE seen = child'[Kind]
    <3>1. Kind \in Kinds
      BY <2>3, KindType
    <3>2. childWatch[Kind] = <<>> /\ child'[Kind] = child[Kind]
      BY <1>0, <2>3, <3>1, NoEventNoChange
    <3>3. QED
      BY <2>1, <2>3, <3>2 DEF PassInPlace
  <2>4. QED
    BY <1>2, <2>1, <2>2, <2>3
<1>9. CASE Reconcile \/ BackfillLabel \/ ReconcileNamespace \/ updateStatus
  BY <1>9 DEF Reconcile, BackfillLabel, ReconcileNamespace, updateStatus, Goto, Return, Retry
<1>10. CASE setReadyConditionFalse \/ CallFails \/ PatchFails
  BY <1>10 DEF setReadyConditionFalse, CallFails, PatchFails, ReportError, Goto, Return, Retry
<1>11. QED
  BY <1>4, <1>5, <1>6, <1>7, <1>8, <1>9, <1>10, UnqueuedSteps

(* A pass that ends without a retry has dealt with every child. *)
LEMMA PassEndInPlace ==
    ASSUME TypeInv, CopyCurrent, PassInPlace, updateStatus, ~queued'
    PROVE  /\ \A k \in Kinds : InPlace(k, w.gen) /\ childWatch'[k] = childWatch[k]
                               /\ child'[k] = child[k]
           /\ w.gen = wsCache.gen /\ wsCache' = wsCache
<1>1. pc = "status" /\ ~queued /\ UNCHANGED children
  BY DEF updateStatus, Return
<1>2. ASSUME NEW k \in Kinds PROVE InPlace(k, w.gen)
  <2>1. PICK n \in 1..Len(Order) : Order[n] = k
    BY KindFacts
  <2>2. n < step
    BY <1>1, KindFacts DEF TypeInv, TypePass
  <2>3. QED
    BY <1>1, <2>1, <2>2 DEF PassInPlace
<1>3. w.gen = wsCache.gen
  BY <1>1 DEF CopyCurrent
<1>4. wsCache' = wsCache
  BY DEF updateStatus, PatchStatus, WriteWorkspace, object
<1>5. QED
  BY <1>1, <1>2, <1>3, <1>4 DEF children

(* The label is backfilled before anything else. *)
LEMMA BackfillIsFirst ==
    ASSUME TypeInv, CopyCurrent, LabelFirst, BackfillLabel, ~queued'
    PROVE  BackfilledOnly'
<1>1. /\ pc = "backfill" /\ ~webhooks /\ current /\ ws' = [ws EXCEPT !.label = TRUE]
      /\ webhooks' = webhooks
  BY DEF BackfillLabel, Retry, WriteWorkspace, outside
<1>2. ws.status = EmptyStatus /\ ws \in Objects
  BY <1>1 DEF CopyCurrent, LabelFirst, TypeInv, TypeWorkspace
<1>3. ws'.label /\ ws'.status = EmptyStatus
  BY <1>1, <1>2 DEF Objects
<1>4. QED
  BY <1>1, <1>3 DEF BackfilledOnly

LEMMA IdleExplainedStep ==
    ASSUME TypeInv, VersionsEarlier, CopyCurrent, LabelFirst, NamespaceFirst, PassInPlace,
           IdleExplained, [Next]_vars
    PROVE  IdleExplained'
<1> SUFFICES ASSUME pc' = "idle", ~queued', ~timer'
             PROVE  \/ \A k \in Kinds : InPlace(k, wsCache.gen)'
                    \/ Ready'.reason \in {"Conflict", "Error"}
                    \/ BackfilledOnly'
  BY DEF IdleExplained
<1>1. ~DeliverChild /\ ~Crash /\ ~Retry
  BY UnqueuedSteps
<1>2. CASE Bystander
  <2>1. /\ UNCHANGED <<pc, queued, timer, webhooks>>
        /\ ws'.status = ws.status /\ (ws.label => ws'.label) /\ wsCache'.gen = wsCache.gen
    BY <1>2, BystanderStep
  <2>2. Ready' = Ready /\ (BackfilledOnly => BackfilledOnly')
    BY <2>1 DEF Ready, BackfilledOnly
  <2>3. \A k \in Kinds : InPlace(k, wsCache.gen) => InPlace(k, wsCache.gen)'
    BY <1>1, <2>1, NoEventNoChange DEF InPlace
  <2>4. QED
    BY <2>1, <2>2, <2>3 DEF IdleExplained
<1>3. CASE BackfillLabel
  BY <1>3, BackfillIsFirst
<1>4. CASE updateStatus
  BY <1>4, PassEndInPlace DEF InPlace
<1>5. CASE setReadyConditionFalse
  <2>1. pc = "report" /\ PatchStatus(FailureStatus) /\ failure = "Conflict"
    BY <1>1, <1>5 DEF setReadyConditionFalse
  <2>2. /\ Ready' = IF Condition(failure, w.gen) # w.status["Ready"]
                    THEN Condition(failure, w.gen) ELSE Ready
        /\ Condition(failure, w.gen).reason = "Conflict"
    BY <2>1, FailureStatusType, PatchedReady DEF Condition
  <2>3. CASE Condition(failure, w.gen) # w.status["Ready"]
    BY <2>2, <2>3
  <2>4. CASE Condition(failure, w.gen) = w.status["Ready"]
    <3>1. Ready.reason # "Unknown"
      BY <2>2, <2>4 DEF VersionsEarlier, Earlier
    <3>2. Ready.reason \notin {"True", "Pending"}
      BY <2>1 DEF NamespaceFirst
    <3>3. Ready.reason \in Reasons
      BY StatusFields DEF TypeInv, TypeWorkspace, Objects, Ready
    <3>4. QED
      BY <2>2, <2>4, <3>1, <3>2, <3>3 DEF Reasons
  <2>5. QED
    BY <2>3, <2>4
<1>6. CASE PatchFails
  BY <1>1, <1>6 DEF PatchFails, Return
<1>7. CASE Reconcile \/ ReconcileNamespace \/ ReconcileHarbor \/ DeleteChild \/ GetChild
  BY <1>7 DEF Reconcile, ReconcileNamespace, ReconcileHarbor, DeleteChild, GetChild, NextKind, Goto
<1>8. CASE PutChild \/ CallFails
  BY <1>1, <1>8 DEF PutChild, PutUnchanged, PutAccepted, PutRejected, CallFails, ReportError,
                    NextKind, Goto
<1>9. QED
  BY <1>2, <1>3, <1>4, <1>5, <1>6, <1>7, <1>8, UnqueuedSteps

LEMMA LagInit == Init => LagInv
<1> SUFFICES ASSUME Init PROVE LagInv
  OBVIOUS
<1>1. TypeInv
  BY TypeInit
<1>2. /\ wsWatch = <<>> /\ wsCache = ws /\ w = NoCopy /\ queued /\ pc = "idle" /\ ~current
      /\ failure = "none" /\ ws.status = EmptyStatus
  BY DEF Init
<1>3. CachesTrack
  BY <1>2, LatestEmpty DEF Init, CachesTrack
<1>4. VersionsEarlier
  <2>1. NoCopy.label = FALSE /\ NoCopy.status = EmptyStatus
    BY DEF NoCopy
  <2>2. QED
    BY <1>2, <2>1, EmptyStatusType DEF VersionsEarlier, Earlier, Ready
<1>5. CopyCurrent /\ LabelFirst /\ PassInPlace /\ IdleExplained
  BY <1>2 DEF CopyCurrent, LabelFirst, PassInPlace, IdleExplained
<1>6. NamespaceFirst
  BY <1>2, EmptyStatusType DEF NamespaceFirst, Ready
<1>7. QED
  BY <1>1, <1>3, <1>4, <1>5, <1>6 DEF LagInv, LagParts

LEMMA LagStep == LagInv /\ [Next]_vars => LagInv'
  BY TypeStep, TracksStep, EarlierStep, CopyStep, LabelStep, NamespaceStep, PassInPlaceStep,
     IdleExplainedStep DEF LagInv, LagParts

(* What nothing on the way means: the caches are right. *)
LEMMA SettledChildren ==
    ASSUME LagInv, Settled, \A k \in Kinds : InPlace(k, wsCache.gen)
    PROVE  wsCache = ws /\ Reconciled
<1>1. wsCache = ws /\ ws.gen \in Generations
  BY DEF Settled, LagInv, LagParts, CachesTrack, Latest, TypeInv, TypeWorkspace, Objects
<1>2. \A k \in Kinds : child[k] = Wants[ws.gen][k]
  BY <1>1 DEF Settled, InPlace
<1>3. Wants[ws.gen] \in [Kinds -> Contents] /\ child \in [Kinds -> Values]
  BY <1>1, WantFacts DEF LagInv, TypeInv, TypeChildren
<1>4. child = Wants[ws.gen]
  BY <1>2, <1>3
<1>5. QED
  BY <1>1, <1>4 DEF Reconciled

(* SettledExplained always holds, however far the caches lag: the queue, the watches
   and the retries of the controller between them leave no edit of the spec and no
   change of a child unattended. *)
THEOREM ExplainedAtRest == Spec => []SettledExplained
<1>1. LagInv => SettledExplained
  <2> SUFFICES ASSUME LagInv, Settled
               PROVE  Reconciled \/ Ready.reason \in {"Conflict", "Error"} \/ BackfilledOnly
    BY DEF SettledExplained
  <2>1. \/ \A k \in Kinds : InPlace(k, wsCache.gen)
        \/ Ready.reason \in {"Conflict", "Error"}
        \/ BackfilledOnly
    BY DEF LagInv, LagParts, IdleExplained, Settled
  <2>2. QED
    BY <2>1, SettledChildren
<1>2. QED
  BY <1>1, LagInit, LagStep, PTL DEF Spec

-----------------------------------------------------------------------------
(***************************************************************************)
(* With up-to-date reads.  Then the status is as the pass found it until   *)
(* the pass itself changes it, so a patch writes what was computed; and    *)
(* unless others interfere the children are as the pass has left them.     *)
(***************************************************************************)
CopyFresh == pc # "idle" => w.status = ws.status /\ w.gen <= ws.gen /\ Ready.gen <= w.gen
ReadyBounded == Ready.gen <= ws.gen

Undrifted == budget["drift"] = Budget["drift"]
DriftCounted == budget["drift"] <= Budget["drift"]

PassDone ==
    pc \in {"get", "put", "status"} /\ Undrifted =>
        /\ \A n \in 1..Len(Order) : n < step => child[Order[n]] = Wants[w.gen][Order[n]]
        /\ pc = "put" => seen = child[Kind]

IdleTruthful ==
    pc = "idle" /\ ~queued /\ ~timer =>
        \/ Ready = Condition("Conflict", wsCache.gen)
        \/ BackfilledOnly
        \/ /\ ws.status["observedGeneration"] = wsCache.gen
           /\ Ready = Condition("True", wsCache.gen)
           /\ \A k \in Kinds : /\ InPlace(k, wsCache.gen)
                               /\ childWatch[k] = <<>> => ws.status[k] = (child[k] # Absent)

FreshInv ==
    /\ LagInv /\ CopyFresh /\ ReadyBounded /\ DriftCounted /\ PassDone /\ ReadyMeansDone
    /\ IdleTruthful

(* Where the numbers are. *)
LEMMA GenerationTypes ==
    ASSUME TypeInv
    PROVE  /\ ws.gen \in Nat /\ w.gen \in Nat /\ Ready.gen \in Nat /\ ws.gen \in Generations
           /\ w.gen \in Generations /\ Ready.reason \in Reasons
           /\ budget["drift"] \in Nat /\ Budget["drift"] \in Nat
<1>1. ws.gen \in Generations /\ ws.status \in Statuses /\ w.gen \in Generations
  BY DEF TypeInv, TypeWorkspace, TypePass, Objects
<1>2. Ready.reason \in Reasons /\ Ready.gen \in Generations \cup {0}
  BY <1>1, StatusFields DEF Ready
<1>3. budget["drift"] \in Nat /\ Budget["drift"] \in Nat
  BY BudgetAssumption DEF TypeInv, TypeOutside, Disruptions
<1>4. ws.gen \in Nat /\ w.gen \in Nat
  BY <1>1, WantFacts
<1>5. Ready.gen \in Nat
  <2>1. CASE Ready.gen \in Generations
    BY <2>1, WantFacts
  <2>2. CASE Ready.gen \in {0}
    BY <2>2
  <2>3. QED
    BY <1>2, <2>1, <2>2
<1>6. QED
  BY <1>1, <1>2, <1>3, <1>4, <1>5

(* What becomes of the Workspace in a step. *)
LEMMA FreshWorkspace ==
    ASSUME TypeInv, CopyFresh, [Next]_vars
    PROVE  \/ /\ ~updateStatus /\ ~setReadyConditionFalse
              /\ ws'.status = ws.status /\ (ws'.gen = ws.gen \/ ws'.gen = ws.gen + 1)
           \/ updateStatus /\ ws'.status = NewStatus /\ ws'.gen = ws.gen
           \/ setReadyConditionFalse /\ ws'.status = FailureStatus /\ ws'.gen = ws.gen
<1>0. ws \in Objects
  BY DEF TypeInv, TypeWorkspace
<1>1. CASE updateStatus
  <2>1. w.status = ws.status
    BY <1>1 DEF updateStatus, CopyFresh
  <2>2. CASE NewStatus = w.status
    BY <1>1, <2>1, <2>2 DEF updateStatus, object
  <2>3. CASE NewStatus # w.status
    <3>1. PatchStatus(NewStatus) /\ NewStatus \in Statuses
      BY <1>1, <2>3, NewStatusType DEF updateStatus
    <3>2. QED
      BY <1>1, <2>1, <3>1, MergeType, PatchedReady
  <2>4. QED
    BY <2>2, <2>3
<1>2. CASE setReadyConditionFalse
  <2>1. w.status = ws.status /\ PatchStatus(FailureStatus) /\ FailureStatus \in Statuses
    BY <1>2, FailureStatusType DEF setReadyConditionFalse, CopyFresh
  <2>2. QED
    BY <1>2, <2>1, MergeType, PatchedReady
<1>3. CASE SpecEdited /\ ~updateStatus /\ ~setReadyConditionFalse
  <2>1. ws' = [ws EXCEPT !.gen = @ + 1, !.label = @ \/ webhooks]
    BY <1>3 DEF SpecEdited, WriteWorkspace
  <2>2. ws'.status = ws.status /\ ws'.gen = ws.gen + 1
    BY <1>0, <2>1 DEF Objects
  <2>3. QED
    BY <1>3, <2>2
<1>4. CASE WriteWorkspace([ws EXCEPT !.label = TRUE]) /\ ~updateStatus /\ ~setReadyConditionFalse
  BY <1>0, <1>4 DEF WriteWorkspace, Objects
<1>5. CASE (UNCHANGED object \/ DeliverWorkspace \/ Crash) /\ ~updateStatus /\ ~setReadyConditionFalse
  BY <1>5 DEF object, DeliverWorkspace, Crash
<1>6. QED
  BY <1>1, <1>2, <1>3, <1>4, <1>5, WorkspaceSteps

(* Only drift counts as drift, and nothing else writes a child that is not the
   one whose turn it is. *)
LEMMA DriftSteps ==
    ASSUME TypeInv, [Next]_vars
    PROVE  /\ \/ ~ChildDrifts /\ budget'["drift"] = budget["drift"]
              \/ ChildDrifts /\ budget'["drift"] < budget["drift"]
           /\ \/ ChildDrifts
              \/ child' = child
              \/ /\ pc \in {"get", "put"} /\ Kind \in Kinds
                 /\ child' = [child EXCEPT ![Kind] = Wants[w.gen][Kind]]
<1>0. budget \in [Disruptions -> Nat]
  BY DEF TypeInv, TypeOutside
<1>1. \A kind \in Disruptions : Disrupt(kind) =>
         /\ kind # "drift" => budget'["drift"] = budget["drift"]
         /\ kind = "drift" => budget'["drift"] < budget["drift"]
  BY <1>0 DEF Disrupt, Disruptions
<1>2. \/ ~ChildDrifts /\ budget'["drift"] = budget["drift"]
      \/ ChildDrifts /\ budget'["drift"] < budget["drift"]
  <2>1. CASE ChildDrifts
    BY <1>1, <2>1 DEF ChildDrifts, Disruptions
  <2>2. CASE ~ChildDrifts /\ (CallFails \/ PatchFails \/ Crash)
    BY <1>1, <2>2 DEF CallFails, PatchFails, Crash, Disruptions
  <2>3. CASE ~ChildDrifts /\ ~(CallFails \/ PatchFails \/ Crash)
    <3>1. budget' = budget
      BY <2>3 DEF Next, Worker, Environment, Reconcile, BackfillLabel, ReconcileNamespace,
                  ReconcileHarbor, DeleteChild, GetChild, PutChild, updateStatus,
                  setReadyConditionFalse, Resync, SpecEdited, UsersProvisioned, NamespaceFreed,
                  DeliverWorkspace, DeliverChild, TimerFires, vars
    <3>2. QED
      BY <2>3, <3>1
  <2>4. QED
    BY <2>1, <2>2, <2>3
<1>3. ASSUME ~ChildDrifts
      PROVE  \/ child' = child
             \/ /\ pc \in {"get", "put"} /\ Kind \in Kinds
                /\ child' = [child EXCEPT ![Kind] = Wants[w.gen][Kind]]
  <2>1. CASE DeleteChild
    <3>1. pc = "get" /\ Kind \in Kinds /\ Desired = Wants[w.gen][Kind] /\ Desired = Absent
      BY <2>1, KindType DEF DeleteChild
    <3>2. QED
      BY <2>1, <3>1 DEF DeleteChild, WriteChild, children
  <2>2. CASE PutChild
    <3>1. pc = "put" /\ Kind \in Kinds /\ Desired = Wants[w.gen][Kind]
      BY <2>2, KindType DEF PutChild
    <3>2. QED
      BY <2>2, <3>1 DEF PutChild, PutUnchanged, PutAccepted, PutRejected, WriteChild, children
  <2>3. CASE ~DeleteChild /\ ~PutChild
    BY <1>3, <2>3 DEF Next, Worker, Environment, Reconcile, BackfillLabel, ReconcileNamespace,
                ReconcileHarbor, GetChild, updateStatus,
                setReadyConditionFalse, Resync, SpecEdited, UsersProvisioned, NamespaceFreed,
                DeliverWorkspace, DeliverChild, TimerFires, CallFails, PatchFails, Crash, vars,
                children
  <2>4. QED
    BY <2>1, <2>2, <2>3
<1>4. QED
  BY <1>2, <1>3

LEMMA CopyFreshStep ==
    ASSUME MaxLag = 0, TypeInv, CachesTrack, CopyFresh, ReadyBounded, [Next]_vars
    PROVE  CopyFresh' /\ ReadyBounded'
<1>0. ws.gen \in Nat /\ w.gen \in Nat /\ Ready.gen \in Nat /\ w.gen \in Generations
  BY GenerationTypes
<1>1. ReadyBounded'
  <2>1. CASE ws'.status = ws.status /\ (ws'.gen = ws.gen \/ ws'.gen = ws.gen + 1)
    BY <1>0, <2>1 DEF ReadyBounded, Ready
  <2>2. CASE updateStatus /\ ws'.status = NewStatus /\ ws'.gen = ws.gen
    <3>1. Ready'.gen = w.gen
      BY <2>2, NewStatusType DEF Ready, Condition
    <3>2. QED
      BY <2>2, <3>1 DEF ReadyBounded, CopyFresh, updateStatus
  <2>3. CASE setReadyConditionFalse /\ ws'.status = FailureStatus /\ ws'.gen = ws.gen
    <3>1. Ready'.gen = w.gen
      BY <2>3, FailureStatusType DEF setReadyConditionFalse, Ready, Condition
    <3>2. QED
      BY <2>3, <3>1 DEF ReadyBounded, CopyFresh, setReadyConditionFalse
  <2>4. QED
    BY <2>1, <2>2, <2>3, FreshWorkspace
<1>2. CASE Reconcile
  <2>1. wsWatch = <<>>
    BY <1>2 DEF Reconcile, TypeInv, TypeWorkspace
  <2>2. w' = ws /\ ws' = ws
    BY <1>2, <2>1 DEF Reconcile, object, CachesTrack, Latest
  <2>3. QED
    BY <1>0, <1>1, <2>2 DEF CopyFresh, ReadyBounded, Ready
<1>3. CASE ~Reconcile /\ pc' = "idle"
  BY <1>1, <1>3 DEF CopyFresh
<1>4. CASE ~Reconcile /\ pc' # "idle"
  <2>1. w' = w /\ pc # "idle"
    BY <1>4, PassSteps
  <2>2. ~updateStatus /\ ~setReadyConditionFalse
    BY <1>4 DEF updateStatus, setReadyConditionFalse, Return, Retry
  <2>3. ws'.status = ws.status /\ (ws'.gen = ws.gen \/ ws'.gen = ws.gen + 1)
    BY <2>2, FreshWorkspace
  <2>4. QED
    BY <1>0, <1>1, <2>1, <2>3 DEF CopyFresh, Ready
<1>5. QED
  BY <1>2, <1>3, <1>4

(* The children the pass has dealt with stay in place without drift. *)
LEMMA PassDoneStep ==
    ASSUME MaxLag = 0, TypeInv, CachesTrack, DriftCounted, PassDone, [Next]_vars
    PROVE  DriftCounted' /\ PassDone'
<1>0. /\ Len(Order) \in Nat /\ step \in Nat /\ child \in [Kinds -> Values]
      /\ budget["drift"] \in Nat /\ budget'["drift"] \in Nat /\ Budget["drift"] \in Nat
  BY KindFacts, GenerationTypes, TypeStep
     DEF TypeInv, TypePass, TypeChildren, TypeOutside, Disruptions
<1>1. DriftCounted' /\ (Undrifted' => Undrifted /\ ~ChildDrifts)
  BY <1>0, DriftSteps DEF DriftCounted, Undrifted
<1> SUFFICES ASSUME pc' \in {"get", "put", "status"}, Undrifted, ~ChildDrifts
             PROVE  /\ \A n \in 1..Len(Order) : n < step' => child'[Order[n]] = Wants[w'.gen][Order[n]]
                    /\ pc' = "put" => seen' = child'[Kind']
  BY <1>1 DEF PassDone
<1>2. ASSUME w' = w, pc \in {"get", "put", "status"}, NEW n \in 1..Len(Order), n < step
      PROVE  child'[Order[n]] = Wants[w'.gen][Order[n]]
  <2>1. Order[n] \in Kinds /\ child[Order[n]] = Wants[w.gen][Order[n]]
    BY <1>2, KindFacts DEF PassDone
  <2>2. \/ child' = child
        \/ Kind \in Kinds /\ child' = [child EXCEPT ![Kind] = Wants[w.gen][Kind]]
    BY DriftSteps
  <2>3. QED
    BY <1>0, <1>2, <2>1, <2>2
<1>3. ASSUME NextKind, pc \in {"get", "put"}, child'[Kind] = Wants[w.gen][Kind]
      PROVE  /\ \A n \in 1..Len(Order) : n < step' => child'[Order[n]] = Wants[w'.gen][Order[n]]
             /\ pc' = "put" => seen' = child'[Kind']
  <2>1. w' = w /\ step' = step + 1 /\ pc' # "put"
    BY <1>3 DEF NextKind, Goto
  <2>2. ASSUME NEW n \in 1..Len(Order), n < step'
        PROVE  child'[Order[n]] = Wants[w'.gen][Order[n]]
    <3>1. CASE n = step
      BY <1>3, <2>1, <3>1 DEF Kind
    <3>2. CASE n # step
      <4>1. n < step
        BY <1>0, <2>1, <2>2, <3>2
      <4>2. QED
        BY <1>2, <1>3, <2>1, <4>1
    <3>3. QED
      BY <3>1, <3>2
  <2>3. QED
    BY <2>1, <2>2
<1>4. ASSUME UNCHANGED <<pc, w, step, seen>>, child' = child
      PROVE  /\ \A n \in 1..Len(Order) : n < step' => child'[Order[n]] = Wants[w'.gen][Order[n]]
             /\ pc' = "put" => seen' = child'[Kind']
  BY <1>2, <1>4 DEF PassDone, Kind
<1>5. CASE ReconcileHarbor
  <2>1. step' = 1 /\ pc' = "get"
    BY <1>5 DEF ReconcileHarbor, Goto, TypeInv, TypePass
  <2>2. QED
    BY <2>1
<1>6. CASE DeleteChild
  <2>1. /\ pc = "get" /\ NextKind /\ Desired = Absent
        /\ IF child[Kind] = Absent THEN UNCHANGED children ELSE WriteChild(Kind, Absent)
    BY <1>6 DEF DeleteChild
  <2>2. Kind \in Kinds /\ Desired = Wants[w.gen][Kind]
    BY <2>1, KindType
  <2>3. child'[Kind] = Wants[w.gen][Kind]
    BY <1>0, <2>1, <2>2 DEF WriteChild, children
  <2>4. QED
    BY <1>3, <2>1, <2>3
<1>7. CASE GetChild
  <2>1. /\ pc = "get" /\ pc' = "put" /\ seen' = childCache[Kind] /\ Len(childWatch[Kind]) <= 0
        /\ UNCHANGED <<w, step, child>>
    BY <1>7 DEF GetChild, Goto, children
  <2>2. Kind \in Kinds /\ Kind' = Kind
    BY <2>1, KindType DEF Kind
  <2>3. childWatch[Kind] = <<>>
    BY <2>1, <2>2 DEF TypeInv, TypeChildren
  <2>4. childCache[Kind] = child[Kind]
    BY <2>2, <2>3 DEF CachesTrack, Latest
  <2>5. QED
    BY <1>2, <2>1, <2>2, <2>4
<1>8. CASE PutChild
  <2>1. pc = "put"
    BY <1>8 DEF PutChild
  <2>2. Kind \in Kinds /\ Desired = Wants[w.gen][Kind]
    BY <2>1, KindType
  <2>3. CASE PutUnchanged
    <3>1. NextKind /\ seen = Desired /\ child' = child
      BY <2>3 DEF PutUnchanged, children
    <3>2. QED
      BY <1>3, <2>1, <2>2, <3>1 DEF PassDone
  <2>4. CASE PutAccepted
    <3>1. NextKind /\ child'[Kind] = Desired
      BY <1>0, <2>2, <2>4 DEF PutAccepted, WriteChild
    <3>2. QED
      BY <1>3, <2>1, <2>2, <3>1
  <2>5. CASE PutRejected
    BY <2>5 DEF PutRejected, ReportError, Retry, Goto
  <2>6. QED
    BY <1>8, <2>3, <2>4, <2>5 DEF PutChild
<1>9. CASE Reconcile \/ BackfillLabel \/ ReconcileNamespace \/ updateStatus
  BY <1>9 DEF Reconcile, BackfillLabel, ReconcileNamespace, updateStatus, Goto, Return, Retry
<1>10. CASE setReadyConditionFalse \/ CallFails \/ PatchFails \/ Crash
  BY <1>10 DEF setReadyConditionFalse, CallFails, PatchFails, ReportError, Goto, Return, Retry, Crash
<1>11. CASE Resync \/ TimerFires \/ DeliverChild \/ DeliverWorkspace
  BY <1>4, <1>11 DEF Resync, TimerFires, DeliverChild, DeliverWorkspace, children, locals
<1>12. CASE SpecEdited \/ UsersProvisioned \/ NamespaceFreed \/ UNCHANGED vars
  BY <1>4, <1>12 DEF SpecEdited, UsersProvisioned, NamespaceFreed, vars, children, locals
<1>13. QED
  BY <1>5, <1>6, <1>7, <1>8, <1>9, <1>10, <1>11, <1>12 DEF Next, Worker, Environment

(* Ready is only ever written by a pass that has dealt with every child. *)
LEMMA ReadyDoneStep ==
    ASSUME MaxLag = 0, TypeInv, CopyFresh, ReadyBounded, DriftCounted, PassDone, ReadyMeansDone,
           [Next]_vars
    PROVE  ReadyMeansDone'
<1> SUFFICES ASSUME Ready'.reason \in {"True", "Pending"}, Ready'.gen = ws'.gen, Undrifted'
             PROVE  child' = Wants[ws'.gen]
  BY DEF ReadyMeansDone, Undrifted, Reconciled
<1>0. /\ ws.gen \in Nat /\ w.gen \in Nat /\ Ready.gen \in Nat /\ w.gen \in Generations
      /\ budget["drift"] \in Nat /\ Budget["drift"] \in Nat
  BY GenerationTypes
<1>1. Undrifted /\ ~ChildDrifts
  <2>1. budget'["drift"] \in Nat
    BY TypeStep DEF TypeInv, TypeOutside, Disruptions
  <2>2. QED
    BY <1>0, <2>1, DriftSteps DEF DriftCounted, Undrifted
<1>2. /\ child \in [Kinds -> Values] /\ ws.gen \in Generations
      /\ \A g \in Generations : Wants[g] \in [Kinds -> Contents]
  BY WantFacts, GenerationTypes DEF TypeInv, TypeChildren
<1>3. CASE /\ ~updateStatus /\ ~setReadyConditionFalse
           /\ ws'.status = ws.status /\ (ws'.gen = ws.gen \/ ws'.gen = ws.gen + 1)
  <2>1. Ready' = Ready
    BY <1>3 DEF Ready
  <2>2. ws'.gen = ws.gen
    BY <1>0, <1>3, <2>1 DEF ReadyBounded
  <2>3. child = Wants[ws.gen]
    BY <1>1, <2>1, <2>2 DEF ReadyMeansDone, Undrifted, Reconciled
  <2>4. CASE child' = child
    BY <2>2, <2>3, <2>4
  <2>5. CASE /\ pc \in {"get", "put"} /\ Kind \in Kinds
             /\ child' = [child EXCEPT ![Kind] = Wants[w.gen][Kind]]
    <3>1. w.gen = ws.gen
      BY <1>0, <2>1, <2>2, <2>5 DEF CopyFresh
    <3>2. child' = child
      BY <1>2, <2>3, <2>5, <3>1
    <3>3. QED
      BY <2>2, <2>3, <3>2
  <2>6. QED
    BY <1>1, <2>4, <2>5, DriftSteps
<1>4. CASE updateStatus /\ ws'.status = NewStatus /\ ws'.gen = ws.gen
  <2>1. pc = "status" /\ child' = child
    BY <1>4 DEF updateStatus, children
  <2>2. Ready'.gen = w.gen
    BY <1>4, NewStatusType DEF Ready, Condition
  <2>3. ASSUME NEW k \in Kinds PROVE child[k] = Wants[w.gen][k]
    <3>1. PICK n \in 1..Len(Order) : Order[n] = k
      BY KindFacts
    <3>2. n < step
      BY <2>1, KindFacts DEF TypeInv, TypePass
    <3>3. QED
      BY <1>1, <2>1, <3>1, <3>2 DEF PassDone
  <2>4. child = Wants[w.gen]
    BY <1>0, <1>2, <2>3
  <2>5. QED
    BY <1>4, <2>1, <2>2, <2>4
<1>5. CASE setReadyConditionFalse /\ ws'.status = FailureStatus /\ ws'.gen = ws.gen
  <2>1. Ready'.reason = failure
    BY <1>5, FailureStatusType DEF setReadyConditionFalse, Ready, Condition
  <2>2. QED
    BY <2>1 DEF TypeInv, TypePass
<1>6. QED
  BY <1>3, <1>4, <1>5, FreshWorkspace

(* What the status says when the operator has nothing left to do. *)
LEMMA IdleTruthfulStep ==
    ASSUME MaxLag = 0, TypeInv, CachesTrack, CopyCurrent, LabelFirst, PassInPlace, CopyFresh,
           IdleTruthful, [Next]_vars
    PROVE  IdleTruthful'
<1> DEFINE Done ==
        /\ ws.status["observedGeneration"] = wsCache.gen
        /\ Ready = Condition("True", wsCache.gen)
        /\ \A k \in Kinds : /\ InPlace(k, wsCache.gen)
                            /\ childWatch[k] = <<>> => ws.status[k] = (child[k] # Absent)
<1> SUFFICES ASSUME pc' = "idle", ~queued', ~timer'
             PROVE  (Ready = Condition("Conflict", wsCache.gen))' \/ BackfilledOnly' \/ Done'
  BY DEF IdleTruthful
<1>1. ~DeliverChild /\ ~Crash /\ ~Retry
  BY UnqueuedSteps
<1>2. CASE Bystander
  <2>1. /\ UNCHANGED <<pc, queued, timer, webhooks>>
        /\ ws'.status = ws.status /\ (ws.label => ws'.label) /\ wsCache'.gen = wsCache.gen
    BY <1>2, BystanderStep
  <2>2. Ready' = Ready /\ (BackfilledOnly => BackfilledOnly')
    BY <2>1 DEF Ready, BackfilledOnly
  <2>3. \A k \in Kinds : childWatch'[k] = <<>> => childWatch[k] = <<>> /\ child'[k] = child[k]
    BY <1>1, NoEventNoChange
  <2>4. Done => Done'
    BY <2>1, <2>2, <2>3 DEF InPlace
  <2>5. QED
    BY <2>1, <2>2, <2>4 DEF IdleTruthful
<1>3. CASE BackfillLabel
  BY <1>3, BackfillIsFirst
<1>4. CASE updateStatus
  <2>1. /\ \A k \in Kinds : InPlace(k, w.gen) /\ childWatch'[k] = childWatch[k]
                            /\ child'[k] = child[k]
        /\ w.gen = wsCache.gen /\ wsCache' = wsCache
    BY <1>4, PassEndInPlace
  <2>2. ws'.status = NewStatus
    BY <1>4, FreshWorkspace DEF updateStatus, setReadyConditionFalse
  <2>3. ~missing
    BY <1>4 DEF updateStatus, Return
  <2>4. ws'.status["observedGeneration"] = wsCache.gen /\ Ready' = Condition("True", wsCache.gen)
    BY <2>1, <2>2, <2>3, NewStatusType DEF Ready
  <2>5. ASSUME NEW k \in Kinds, childWatch[k] = <<>>
        PROVE  ws'.status[k] = (child[k] # Absent)
    <3>1. CASE k \in Observed
      <4>1. childCache[k] = child[k]
        BY <2>5 DEF CachesTrack, Latest
      <4>2. QED
        BY <2>2, <3>1, <4>1, NewStatusType
    <3>2. CASE k \in Kinds \ Observed
      <4>1. child[k] = Wants[w.gen][k]
        BY <2>1, <2>5 DEF InPlace
      <4>2. QED
        BY <2>2, <3>2, <4>1, NewStatusType
    <3>3. QED
      BY <2>5, <3>1, <3>2
  <2>6. QED
    BY <2>1, <2>4, <2>5 DEF InPlace
<1>5. CASE setReadyConditionFalse
  <2>1. pc = "report" /\ PatchStatus(FailureStatus) /\ failure = "Conflict" /\ ~queued
    BY <1>1, <1>5 DEF setReadyConditionFalse, Return
  <2>2. Ready' = Condition("Conflict", w.gen)
    <3>1. ws'.status = FailureStatus
      BY <1>5, <2>1, FreshWorkspace DEF updateStatus
    <3>2. QED
      BY <2>1, <3>1, FailureStatusType DEF Ready
  <2>3. w.gen = wsCache.gen /\ wsCache' = wsCache
    BY <2>1 DEF CopyCurrent, PatchStatus, WriteWorkspace
  <2>4. QED
    BY <2>2, <2>3
<1>6. CASE PatchFails
  BY <1>1, <1>6 DEF PatchFails, Return
<1>7. CASE Reconcile \/ ReconcileNamespace \/ ReconcileHarbor \/ DeleteChild \/ GetChild
  BY <1>7 DEF Reconcile, ReconcileNamespace, ReconcileHarbor, DeleteChild, GetChild, NextKind, Goto
<1>8. CASE PutChild \/ CallFails
  BY <1>1, <1>8 DEF PutChild, PutUnchanged, PutAccepted, PutRejected, CallFails, ReportError,
                    NextKind, Goto
<1>9. QED
  BY <1>2, <1>3, <1>4, <1>5, <1>6, <1>7, <1>8, UnqueuedSteps

LEMMA FreshInit == Init => FreshInv
<1> SUFFICES ASSUME Init PROVE FreshInv
  OBVIOUS
<1>1. LagInv
  BY LagInit
<1>2. pc = "idle" /\ queued /\ budget = Budget /\ ws.gen = 1 /\ ws.status = EmptyStatus
  BY DEF Init
<1>3. Ready = Condition("Unknown", 0) /\ Ready.reason = "Unknown" /\ Ready.gen = 0
  BY <1>2, KindFacts DEF Ready, EmptyStatus, Condition
<1>4. CopyFresh /\ PassDone /\ IdleTruthful
  BY <1>2 DEF CopyFresh, PassDone, IdleTruthful
<1>5. DriftCounted
  <2>1. Budget["drift"] \in Nat
    BY BudgetAssumption DEF Disruptions
  <2>2. QED
    BY <1>2, <2>1 DEF DriftCounted
<1>6. ReadyBounded /\ ReadyMeansDone
  BY <1>2, <1>3 DEF ReadyBounded, ReadyMeansDone
<1>7. QED
  BY <1>1, <1>4, <1>5, <1>6 DEF FreshInv

LEMMA FreshStep == MaxLag = 0 /\ FreshInv /\ [Next]_vars => FreshInv'
  BY LagStep, CopyFreshStep, PassDoneStep, ReadyDoneStep, IdleTruthfulStep
     DEF FreshInv, LagInv, LagParts

(* ReadyMeansDone always holds when reads are up to date: Ready=True for the current
   generation is only ever on the status when every child is in place. *)
THEOREM ReadyIsDone == MaxLag = 0 => (Spec => []ReadyMeansDone)
<1> SUFFICES ASSUME MaxLag = 0 PROVE Spec => []ReadyMeansDone
  OBVIOUS
<1>1. FreshInv /\ [Next]_vars => FreshInv'
  BY FreshStep
<1>2. FreshInv => ReadyMeansDone
  BY DEF FreshInv
<1>3. QED
  BY <1>1, <1>2, FreshInit, PTL DEF Spec

(* SettledReconciled always holds when reads are up to date: the operator comes to
   rest with the children as the spec wants them, or with the namespace conflict on
   the status, or having only written the label. *)
THEOREM ReconciledAtRest == MaxLag = 0 => (Spec => []SettledReconciled)
<1> SUFFICES ASSUME MaxLag = 0 PROVE Spec => []SettledReconciled
  OBVIOUS
<1>1. FreshInv /\ [Next]_vars => FreshInv'
  BY FreshStep
<1>2. FreshInv => SettledReconciled
  <2> SUFFICES ASSUME FreshInv, Settled
               PROVE  Reconciled \/ Ready.reason = "Conflict" \/ BackfilledOnly
    BY DEF SettledReconciled
  <2>1. \/ Ready = Condition("Conflict", wsCache.gen)
        \/ BackfilledOnly
        \/ \A k \in Kinds : InPlace(k, wsCache.gen)
    BY DEF FreshInv, IdleTruthful, Settled
  <2>2. QED
    BY <2>1, SettledChildren DEF FreshInv, Condition
<1>3. QED
  BY <1>1, <1>2, FreshInit, PTL DEF Spec

(* SettledTruthful always holds when reads are up to date and the webhooks run: at
   rest the status describes the current generation and the children that exist, or
   the namespace conflict that the current generation met. *)
THEOREM TruthfulAtRest ==
    MaxLag = 0 /\ Deployments \subseteq {TRUE} => (Spec => []SettledTruthful)
<1> SUFFICES ASSUME MaxLag = 0, Deployments \subseteq {TRUE} PROVE Spec => []SettledTruthful
  OBVIOUS
<1> DEFINE Inv == FreshInv /\ webhooks
<1>1. Init => Inv
  BY FreshInit DEF Init
<1>2. Inv /\ [Next]_vars => Inv'
  <2> SUFFICES ASSUME Inv, [Next]_vars PROVE webhooks' = webhooks
    BY FreshStep
  <2>1. CASE Worker
    BY <2>1 DEF Worker, Reconcile, BackfillLabel, ReconcileNamespace, ReconcileHarbor, DeleteChild,
                GetChild, PutChild, updateStatus, setReadyConditionFalse, outside
  <2>2. CASE Environment
    BY <2>2 DEF Environment, CallFails, PatchFails, Crash, Resync, SpecEdited, ChildDrifts,
                UsersProvisioned, NamespaceFreed, outside
  <2>3. CASE DeliverWorkspace \/ DeliverChild \/ TimerFires \/ UNCHANGED vars
    BY <2>3 DEF DeliverWorkspace, DeliverChild, TimerFires, vars, outside
  <2>4. QED
    BY <2>1, <2>2, <2>3 DEF Next
<1>3. Inv => SettledTruthful
  <2> SUFFICES ASSUME Inv, Settled, Ready # Condition("Conflict", ws.gen)
               PROVE  Truthful
    BY DEF SettledTruthful
  <2>1. wsCache = ws
    BY DEF Settled, FreshInv, LagInv, LagParts, CachesTrack, Latest
  <2>2. ~BackfilledOnly
    BY DEF BackfilledOnly
  <2>3. QED
    BY <2>1, <2>2 DEF FreshInv, IdleTruthful, Settled, Truthful
<1>4. QED
  BY <1>1, <1>2, <1>3, PTL DEF Spec
=============================================================================
