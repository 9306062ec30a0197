----------------------- MODULE ActionAuthority_proofs -----------------------
(***************************************************************************)
(* Machine-checked proofs of the safety properties of ActionAuthority, for *)
(* any number of runs, actions, decision requests, conversations and       *)
(* managed tasks.  Each property is a conjunct or a consequence of one     *)
(* inductive invariant:                                                    *)
(*                                                                         *)
(*    TypeOK       every other invariant dereferences act and actRun       *)
(*    EffectInv    gives AtMostOneEffect and NoEffectWithoutIntent         *)
(*    LedgerInv    gives AttentionMatchesLedger                            *)
(*    InferenceInv gives NoAbandonedExecution, OneLiveInference            *)
(*                 (its step uses LedgerInv: a proposal is not automatic)  *)
(*    AggregateInv gives RunStatusAggregates (its step uses InferenceInv)  *)
(*    CancelInv    gives CancelCleansUp      (its step uses InferenceInv)  *)
(***************************************************************************)
EXTENDS ActionAuthority, TLAPS

-----------------------------------------------------------------------------
(* Preliminaries.                                                          *)

\* The aggregate of _recompute_run is one of the run statuses.
LEMMA AggregateType == \A S, b, i : Aggregate(S, b, i) \in RunStatus
  BY DEF Aggregate, RunStatus

\* The statuses the code writes without recomputing.
LEMMA RunStatusValues == {"none", "running", "uncertain"} \subseteq RunStatus
  BY DEF RunStatus

\* The effect of Interrupt(r), pointwise: what the proofs use of it.
InterruptSummary(r) ==
    /\ active' \in [Runs -> BOOLEAN]
    /\ inference' \in [Runs -> InferenceStatus]
    /\ actStatus' \in [Actions -> ActionStatus]
    /\ attention' \in [Actions -> AttentionState]
    /\ runStatus' \in [Runs -> RunStatus]
    /\ notice' \in [Runs -> {"none", "open", "resolved"}]
    /\ UNCHANGED <<runKind, runChat, fresh, actRun, automatic, aged, acknowledged>>
    /\ \A q \in Runs :
          IF q = r /\ inference[r] = "running"
          THEN ~active'[q] /\ inference'[q] = "interrupted"
          ELSE (active'[q] <=> active[q]) /\ inference'[q] = inference[q]
    /\ \A a \in Actions :
          LET unsure == inference[r] = "running" /\ actRun[a] = r
                                                /\ actStatus[a] = "executing"
          IN  /\ actStatus'[a] = IF unsure THEN "uncertain" ELSE actStatus[a]
              /\ attention'[a] = IF unsure THEN "uncertain" ELSE attention[a]

\* What interrupt_run does to the ledger, one run and one action at a time.
LEMMA InterruptEffect ==
    ASSUME TypeOK, NEW r \in Runs, Interrupt(r)
    PROVE  InterruptSummary(r)
<1> USE DEF TypeOK, Domains, Interrupt
<1>1. active' \in [Runs -> BOOLEAN] /\ inference' \in [Runs -> InferenceStatus]
  BY DEF InferenceStatus
<1>2. actStatus' \in [Actions -> ActionStatus] /\ attention' \in [Actions -> AttentionState]
  BY DEF ActionStatus, AttentionState, ActionsOf
<1>3. runStatus' \in [Runs -> RunStatus]
  BY AggregateType
<1>4. notice' \in [Runs -> {"none", "open", "resolved"}]
  OBVIOUS
<1>5. \A a \in Actions :
         LET unsure == inference[r] = "running" /\ actRun[a] = r
                                               /\ actStatus[a] = "executing"
         IN  /\ actStatus'[a] = IF unsure THEN "uncertain" ELSE actStatus[a]
             /\ attention'[a] = IF unsure THEN "uncertain" ELSE attention[a]
  BY DEF ActionsOf
<1>6. \A q \in Runs :
         IF q = r /\ inference[r] = "running"
         THEN ~active'[q] /\ inference'[q] = "interrupted"
         ELSE (active'[q] <=> active[q]) /\ inference'[q] = inference[q]
  OBVIOUS
<1> QED BY <1>1, <1>2, <1>3, <1>4, <1>5, <1>6 DEF InterruptSummary

-----------------------------------------------------------------------------
(* Types.                                                                  *)

\* The empty ledger is well typed.
LEMMA InitType == Init => TypeOK
  BY ConstantsAssumption DEF ConstantsAssumption, Init, TypeOK, Domains,
       References, RunKind, RunStatus,
     InferenceStatus, ActionStatus, AttentionState, TaskStatus, Transcripts, Processes,
     PC, Referring, Holding

\* Every transaction keeps the columns in their domains and the references
\* valid.
LEMMA NextType == TypeOK /\ [Next]_vars => TypeOK'
<1> SUFFICES ASSUME TypeOK, [Next]_vars PROVE TypeOK'
  OBVIOUS
<1> USE ConstantsAssumption, AggregateType, RunStatusValues
     DEF ConstantsAssumption, TypeOK, Domains, References, RunKind,
     InferenceStatus, ActionStatus, AttentionState, TaskStatus, Transcripts,
     Processes, PC, Settled, Referring, Holding, runVars, actionVars, cancelVars
<1>1. ASSUME NEW r \in Runs, NEW c \in Chats, OwnerMessage(r, c) PROVE TypeOK'
  BY <1>1 DEF OwnerMessage, InsertRun
<1>2. ASSUME NEW r \in Runs, NEW t \in Tasks, ClaimTask(r, t) PROVE TypeOK'
  BY <1>2 DEF ClaimTask, InsertRun
<1>3. ASSUME NEW r \in Runs, Heartbeat(r) PROVE TypeOK'
  BY <1>3 DEF Heartbeat
<1>4. ASSUME NEW r \in Runs, HeartbeatAges(r) PROVE TypeOK'
  BY <1>4 DEF HeartbeatAges
<1>5. ASSUME NEW r \in Runs, FinishRun(r) PROVE TypeOK'
  BY <1>5 DEF FinishRun
<1>6. ASSUME NEW r \in Runs, StopInference(r) PROVE TypeOK'
  <2>1. InterruptSummary(r)
    BY <1>6, InterruptEffect DEF StopInference
  <2>a. effects' \in [Actions -> Nat]
    BY <1>6 DEF StopInference
  <2>b. /\ unresolved' \subseteq Runs /\ UNCHANGED <<task, recovering, cancelVars>>
        /\ pc' \in [Processes -> PC] /\ act' \in [Processes -> Actions \cup {None}]
    BY <1>6 DEF StopInference
  <2>2. Domains'
    BY <2>a, <2>b, <2>1 DEF InterruptSummary
  <2>3. References'
    BY <1>6, <2>1 DEF StopInference, InterruptSummary, Alive
  <2> QED BY <2>2, <2>3
<1>7. ASSUME NEW r \in Runs, BeginRead(r) PROVE TypeOK'
  BY <1>7 DEF BeginRead
<1>7a. ASSUME NEW r \in Runs, ResolutionFails(r) PROVE TypeOK'
  BY <1>7a DEF ResolutionFails
<1>7b. ASSUME NEW r \in Runs, DispatchUnrecorded(r) PROVE TypeOK'
  BY <1>7b DEF DispatchUnrecorded
<1>8. ASSUME NEW r \in Runs, NEW a \in Actions, Propose(r, a) PROVE TypeOK'
  BY <1>8 DEF Propose, Recompute
<1>9. ASSUME NEW r \in Runs, NEW a \in Actions, BeginAutomatic(r, a)
      PROVE  TypeOK'
  BY <1>9 DEF BeginAutomatic
<1>10. ASSUME NEW r \in Runs, NEW a \in Actions, NEW s \in {"succeeded", "failed"},
             RecordExecution(r, a, s)
      PROVE  TypeOK'
  BY <1>10 DEF RecordExecution
<1>11. ASSUME NEW p \in Processes, Dispatch(p) PROVE TypeOK'
  BY <1>11 DEF Dispatch
<1>12. ASSUME NEW p \in Processes, Refuse(p) PROVE TypeOK'
  BY <1>12 DEF Refuse
<1>13. ASSUME NEW p \in Processes, NEW s \in Settled, FinishAction(p, s)
      PROVE  TypeOK'
<2>1. Domains'
  <3>1. /\ actStatus' \in [Actions -> ActionStatus]
        /\ attention' \in [Actions -> AttentionState]
        /\ runStatus' \in [Runs -> RunStatus]
    <4>1. CASE InFlight(act[p])
      <5>1. Complete(actRun[act[p]], act[p], s) /\ s \in ActionStatus
        BY <1>13, <4>1 DEF FinishAction
      <5>2. actStatus' \in [Actions -> ActionStatus]
        BY <5>1 DEF Complete
      <5>3. attention' \in [Actions -> AttentionState]
        BY <5>1 DEF Complete
      <5>4. runStatus' \in [Runs -> RunStatus]
        BY <5>1 DEF Complete, Recompute
      <5> QED BY <5>2, <5>3, <5>4
    <4>2. CASE ~InFlight(act[p])
      BY <1>13, <4>2 DEF FinishAction
    <4> QED BY <4>1, <4>2
  <3> QED BY <1>13, <3>1 DEF FinishAction
<2>2. References'
  BY <1>13 DEF FinishAction, InFlight, Complete, Recompute
<2> QED BY <2>1, <2>2
<1>14. ASSUME NEW p \in Processes, Crash(p) PROVE TypeOK'
  BY <1>14 DEF Crash, Alive
<1>15. ASSUME NEW q \in Requests, NEW a \in Actions, NEW approve \in BOOLEAN,
             CheckDecision(q, a, approve)
      PROVE  TypeOK'
  BY <1>15 DEF CheckDecision
<1>16. ASSUME NEW q \in Requests, BeginExecution(q) PROVE TypeOK'
  BY <1>16 DEF BeginExecution, Recompute
<1>17. ASSUME NEW q \in Requests, RejectDecision(q) PROVE TypeOK'
  BY <1>17 DEF RejectDecision
<1>18. ASSUME NEW q \in Requests, CancelAction(q) PROVE TypeOK'
  BY <1>18 DEF CancelAction, CancelPrepared, Recompute
<1>19. ASSUME NEW a \in Actions, Acknowledge(a) PROVE TypeOK'
  BY <1>19 DEF Acknowledge
<1>20. ASSUME NEW S \in SUBSET Runs, DismissNotices(S) PROVE TypeOK'
  BY <1>20 DEF DismissNotices
<1>21. ASSUME NEW a \in Actions, ActionAges(a) PROVE TypeOK'
  BY <1>21 DEF ActionAges
<1>22. ASSUME NEW a \in Actions, SupersedeProposal(a) PROVE TypeOK'
  BY <1>22 DEF SupersedeProposal, CancelPrepared, Recompute
<1>23. ASSUME NEW a \in Actions, ReconcileStale(a) PROVE TypeOK'
  BY <1>23 DEF ReconcileStale, Stale
<1>24. ASSUME NEW r \in Runs, Fence(r) PROVE TypeOK'
  BY <1>24 DEF Fence, Abandoned
<1>25. ASSUME NEW r \in Runs, Recover(r) PROVE TypeOK'
  <2>1. InterruptSummary(r)
    BY <1>25, InterruptEffect DEF Recover
  <2>2. Domains'
    BY <1>25, <2>1 DEF Recover, InterruptSummary
  <2>3. References'
    BY <1>25, <2>1 DEF Recover, InterruptSummary
  <2> QED BY <2>2, <2>3
<1>26. ASSUME ReconcilerCrash PROVE TypeOK'
  BY <1>26 DEF ReconcilerCrash
<1>27. ASSUME NEW t \in Tasks, NEW s \in {"active", "complete"},
             MergeStatus(t, s)
      PROVE  TypeOK'
  BY <1>27 DEF MergeStatus
<1>28. ASSUME NEW t \in Tasks, CancelTask(t) PROVE TypeOK'
  BY <1>28 DEF CancelTask
<1>29. ASSUME NEW t \in Tasks, NEW a \in Actions, CleanupAction(t, a)
      PROVE  TypeOK'
<2>1. Domains'
  <3>1. /\ actStatus' \in [Actions -> ActionStatus]
        /\ attention' \in [Actions -> AttentionState]
        /\ runStatus' \in [Runs -> RunStatus]
    <4>1. CASE actStatus[a] = "prepared"
      <5>1. CancelPrepared(a)
        BY <1>29, <4>1 DEF CleanupAction
      <5>2. actStatus' \in [Actions -> ActionStatus]
        BY <5>1 DEF CancelPrepared
      <5>3. attention' \in [Actions -> AttentionState]
        BY <5>1 DEF CancelPrepared
      <5>4. runStatus' \in [Runs -> RunStatus]
        BY <5>1 DEF CancelPrepared, Recompute
      <5> QED BY <5>2, <5>3, <5>4
    <4>2. CASE ~(actStatus[a] = "prepared")
      BY <1>29, <4>2 DEF CleanupAction
    <4> QED BY <4>1, <4>2
  <3> QED BY <1>29, <3>1 DEF CleanupAction
<2>2. References'
  BY <1>29 DEF CleanupAction, CancelPrepared, Recompute
<2> QED BY <2>1, <2>2
<1>30. ASSUME NEW t \in Tasks, NEW r \in Runs, CleanupRun(t, r) PROVE TypeOK'
  <2>1. InterruptSummary(r)
    BY <1>30, InterruptEffect DEF CleanupRun
  <2>2. Domains'
    BY <1>30, <2>1 DEF CleanupRun, InterruptSummary
  <2>3. References'
    BY <1>30, <2>1 DEF CleanupRun, InterruptSummary
  <2> QED BY <2>2, <2>3
<1>31. ASSUME NEW t \in Tasks, CleanupDone(t) PROVE TypeOK'
  BY <1>31 DEF CleanupDone
<1>32. ASSUME NEW t \in Tasks, CleanupCrash(t) PROVE TypeOK'
  BY <1>32 DEF CleanupCrash
<1>33. CASE UNCHANGED vars
  BY <1>33 DEF vars, runVars, actionVars, cancelVars
<1> HIDE ConstantsAssumption, AggregateType, RunStatusValues
     DEF ConstantsAssumption, TypeOK, Domains, References, RunKind,
     InferenceStatus, ActionStatus, AttentionState, TaskStatus, Transcripts,
     Processes, PC, Settled, Referring, Holding, runVars, actionVars, cancelVars
<1>34. CASE \E r \in Runs : RunStep(r)
  BY <1>34, <1>1, <1>2, <1>3, <1>4, <1>5, <1>6, <1>7,
     <1>7a, <1>7b, <1>8, <1>9, <1>10
       DEF RunStep
<1>35. CASE \E p \in Processes : ProcessStep(p)
  BY <1>35, <1>11, <1>12, <1>13, <1>14 DEF ProcessStep
<1>36. CASE \E q \in Requests : RequestStep(q)
  BY <1>36, <1>15, <1>16, <1>17, <1>18 DEF RequestStep
<1>37. CASE OwnerStep
  BY <1>37, <1>19, <1>20 DEF OwnerStep
<1>38. CASE \E a \in Actions : ActionAges(a) \/ SupersedeProposal(a)
  BY <1>38, <1>21, <1>22
<1>39. CASE ReconcilerStep
  BY <1>39, <1>23, <1>24, <1>25, <1>26 DEF ReconcilerStep
<1>40. CASE \E t \in Tasks : TaskStep(t)
  BY <1>40, <1>27, <1>28, <1>29, <1>30, <1>31, <1>32 DEF TaskStep
<1> QED BY <1>33, <1>34, <1>35, <1>36, <1>37, <1>38, <1>39, <1>40 DEF Next

-----------------------------------------------------------------------------
(* Effects.                                                                *)

\* Every step keeps the discipline that makes effects unique: a begun action
\* has one holder, and a holder that has not dispatched yet finds no effect.
LEMMA EffectStep == TypeOK /\ EffectInv /\ [Next]_vars => EffectInv'
<1> SUFFICES ASSUME TypeOK, EffectInv, [Next]_vars PROVE EffectInv'
  OBVIOUS
<1> USE ConstantsAssumption DEF ConstantsAssumption, TypeOK, Domains,
     References, EffectInv, Unissued, Processes, Referring, Holding, Settled,
     runVars, actionVars, cancelVars
<1>1. ASSUME NEW r \in Runs, NEW c \in Chats, OwnerMessage(r, c)
      PROVE  EffectInv'
  BY <1>1 DEF OwnerMessage, InsertRun
<1>2. ASSUME NEW r \in Runs, NEW t \in Tasks, ClaimTask(r, t) PROVE EffectInv'
  BY <1>2 DEF ClaimTask, InsertRun
<1>3. ASSUME NEW r \in Runs, Heartbeat(r) PROVE EffectInv'
  BY <1>3 DEF Heartbeat
<1>4. ASSUME NEW r \in Runs, HeartbeatAges(r) PROVE EffectInv'
  BY <1>4 DEF HeartbeatAges
<1>5. ASSUME NEW r \in Runs, FinishRun(r) PROVE EffectInv'
  BY <1>5 DEF FinishRun
<1>6. ASSUME NEW r \in Runs, StopInference(r) PROVE EffectInv'
  <2>0. InterruptSummary(r)
    BY <1>6, InterruptEffect DEF StopInference
  <2>1. /\ pc' = [pc EXCEPT ![r] = "dead"] /\ act' = [act EXCEPT ![r] = None]
        /\ unresolved' = unresolved \ {r}
        /\ \A a \in Actions : actStatus'[a] \in Unissued <=> actStatus[a] \in Unissued
    BY <1>6, <2>0 DEF StopInference, InterruptSummary
  <2>2. CASE pc[r] # "begun"
    <3>1. effects' = effects
      BY <1>6, <2>2 DEF StopInference
    <3> QED BY <2>1, <3>1
  <2>3. CASE pc[r] = "begun"
    <3>1. PICK n \in {0, 1} : effects' = [effects EXCEPT ![act[r]] = @ + n]
      BY <1>6, <2>3 DEF StopInference
    <3>2. act[r] \in Actions /\ effects[act[r]] = 0 /\ actStatus[act[r]] \notin Unissued
      BY <2>3
    <3> QED BY <2>1, <2>3, <3>1, <3>2
  <2> QED BY <2>2, <2>3
<1>7. ASSUME NEW r \in Runs, BeginRead(r) PROVE EffectInv'
  BY <1>7 DEF BeginRead
<1>7a. ASSUME NEW r \in Runs, ResolutionFails(r) PROVE EffectInv'
  BY <1>7a DEF ResolutionFails
<1>7b. ASSUME NEW r \in Runs, DispatchUnrecorded(r) PROVE EffectInv'
  BY <1>7b DEF DispatchUnrecorded
<1>8. ASSUME NEW r \in Runs, NEW a \in Actions, Propose(r, a) PROVE EffectInv'
  BY <1>8 DEF Propose, Unused
<1>9. ASSUME NEW r \in Runs, NEW a \in Actions, BeginAutomatic(r, a)
      PROVE  EffectInv'
  BY <1>9 DEF BeginAutomatic, Unused
<1>10. ASSUME NEW r \in Runs, NEW a \in Actions, NEW s \in {"succeeded", "failed"},
             RecordExecution(r, a, s)
      PROVE  EffectInv'
  BY <1>10 DEF RecordExecution, Unused
<1>11. ASSUME NEW p \in Processes, Dispatch(p) PROVE EffectInv'
  BY <1>11 DEF Dispatch
<1>12. ASSUME NEW p \in Processes, Refuse(p) PROVE EffectInv'
  BY <1>12 DEF Refuse
<1>13. ASSUME NEW p \in Processes, NEW s \in Settled, FinishAction(p, s)
      PROVE  EffectInv'
  BY <1>13 DEF FinishAction, InFlight, Complete, Outcomes
<1>14. ASSUME NEW p \in Processes, Crash(p) PROVE EffectInv'
  BY <1>14 DEF Crash
<1>15. ASSUME NEW q \in Requests, NEW a \in Actions, NEW approve \in BOOLEAN,
             CheckDecision(q, a, approve)
      PROVE  EffectInv'
  BY <1>15 DEF CheckDecision
<1>16. ASSUME NEW q \in Requests, BeginExecution(q) PROVE EffectInv'
  BY <1>16 DEF BeginExecution, Executable
<1>17. ASSUME NEW q \in Requests, RejectDecision(q) PROVE EffectInv'
  BY <1>17 DEF RejectDecision
<1>18. ASSUME NEW q \in Requests, CancelAction(q) PROVE EffectInv'
  BY <1>18 DEF CancelAction, CancelPrepared
<1>19. ASSUME NEW a \in Actions, Acknowledge(a) PROVE EffectInv'
  BY <1>19 DEF Acknowledge
<1>20. ASSUME NEW S \in SUBSET Runs, DismissNotices(S) PROVE EffectInv'
  BY <1>20 DEF DismissNotices
<1>21. ASSUME NEW a \in Actions, ActionAges(a) PROVE EffectInv'
  BY <1>21 DEF ActionAges
<1>22. ASSUME NEW a \in Actions, SupersedeProposal(a) PROVE EffectInv'
  BY <1>22 DEF SupersedeProposal, CancelPrepared, Recompute
<1>23. ASSUME NEW a \in Actions, ReconcileStale(a) PROVE EffectInv'
  BY <1>23 DEF ReconcileStale, Stale
<1>24. ASSUME NEW r \in Runs, Fence(r) PROVE EffectInv'
  BY <1>24 DEF Fence, Abandoned
<1>25. ASSUME NEW r \in Runs, Recover(r) PROVE EffectInv'
  <2>1. InterruptSummary(r)
    BY <1>25, InterruptEffect DEF Recover
  <2> QED BY <1>25, <2>1 DEF Recover, InterruptSummary
<1>26. ASSUME ReconcilerCrash PROVE EffectInv'
  BY <1>26 DEF ReconcilerCrash
<1>27. ASSUME NEW t \in Tasks, NEW s \in {"active", "complete"},
             MergeStatus(t, s)
      PROVE  EffectInv'
  BY <1>27 DEF MergeStatus
<1>28. ASSUME NEW t \in Tasks, CancelTask(t) PROVE EffectInv'
  BY <1>28 DEF CancelTask
<1>29. ASSUME NEW t \in Tasks, NEW a \in Actions, CleanupAction(t, a)
      PROVE  EffectInv'
  BY <1>29 DEF CleanupAction, CancelPrepared, Recompute
<1>30. ASSUME NEW t \in Tasks, NEW r \in Runs, CleanupRun(t, r) PROVE EffectInv'
  <2>1. InterruptSummary(r)
    BY <1>30, InterruptEffect DEF CleanupRun
  <2> QED BY <1>30, <2>1 DEF CleanupRun, InterruptSummary
<1>31. ASSUME NEW t \in Tasks, CleanupDone(t) PROVE EffectInv'
  BY <1>31 DEF CleanupDone
<1>32. ASSUME NEW t \in Tasks, CleanupCrash(t) PROVE EffectInv'
  BY <1>32 DEF CleanupCrash
<1>33. CASE UNCHANGED vars
  BY <1>33 DEF vars, runVars, actionVars, cancelVars
<1> HIDE ConstantsAssumption DEF ConstantsAssumption, TypeOK, Domains,
     References, EffectInv, Unissued, Processes, Referring, Holding, Settled,
     runVars, actionVars, cancelVars
<1>34. CASE \E r \in Runs : RunStep(r)
  BY <1>34, <1>1, <1>2, <1>3, <1>4, <1>5, <1>6, <1>7,
     <1>7a, <1>7b, <1>8, <1>9, <1>10
       DEF RunStep
<1>35. CASE \E p \in Processes : ProcessStep(p)
  BY <1>35, <1>11, <1>12, <1>13, <1>14 DEF ProcessStep
<1>36. CASE \E q \in Requests : RequestStep(q)
  BY <1>36, <1>15, <1>16, <1>17, <1>18 DEF RequestStep
<1>37. CASE OwnerStep
  BY <1>37, <1>19, <1>20 DEF OwnerStep
<1>38. CASE \E a \in Actions : ActionAges(a) \/ SupersedeProposal(a)
  BY <1>38, <1>21, <1>22
<1>39. CASE ReconcilerStep
  BY <1>39, <1>23, <1>24, <1>25, <1>26 DEF ReconcilerStep
<1>40. CASE \E t \in Tasks : TaskStep(t)
  BY <1>40, <1>27, <1>28, <1>29, <1>30, <1>31, <1>32 DEF TaskStep
<1> QED BY <1>33, <1>34, <1>35, <1>36, <1>37, <1>38, <1>39, <1>40 DEF Next

-----------------------------------------------------------------------------
(* The owner's queue.                                                      *)

\* Every step keeps the owner's queue and the evidence columns in agreement
\* with the status of the actions.
LEMMA LedgerStep == TypeOK /\ LedgerInv /\ [Next]_vars => LedgerInv'
<1> SUFFICES ASSUME TypeOK, LedgerInv, [Next]_vars PROVE LedgerInv'
  OBVIOUS
<1> USE ConstantsAssumption DEF ConstantsAssumption, TypeOK, Domains,
     References, LedgerInv, AttentionMatchesLedger, ActionStatus,
     AttentionState, Referring, Holding, Processes, Settled, runVars,
     actionVars, cancelVars
<1>1. ASSUME NEW r \in Runs, NEW c \in Chats, OwnerMessage(r, c)
      PROVE  LedgerInv'
  BY <1>1 DEF OwnerMessage, InsertRun
<1>2. ASSUME NEW r \in Runs, NEW t \in Tasks, ClaimTask(r, t) PROVE LedgerInv'
  BY <1>2 DEF ClaimTask, InsertRun
<1>3. ASSUME NEW r \in Runs, Heartbeat(r) PROVE LedgerInv'
  BY <1>3 DEF Heartbeat
<1>4. ASSUME NEW r \in Runs, HeartbeatAges(r) PROVE LedgerInv'
  BY <1>4 DEF HeartbeatAges
<1>5. ASSUME NEW r \in Runs, FinishRun(r) PROVE LedgerInv'
  BY <1>5 DEF FinishRun
<1>6. ASSUME NEW r \in Runs, StopInference(r) PROVE LedgerInv'
  <2>1. InterruptSummary(r)
    BY <1>6, InterruptEffect DEF StopInference
  <2> QED BY <1>6, <2>1 DEF StopInference, InterruptSummary
<1>7. ASSUME NEW r \in Runs, BeginRead(r) PROVE LedgerInv'
  BY <1>7 DEF BeginRead
<1>7a. ASSUME NEW r \in Runs, ResolutionFails(r) PROVE LedgerInv'
  BY <1>7a DEF ResolutionFails
<1>7b. ASSUME NEW r \in Runs, DispatchUnrecorded(r) PROVE LedgerInv'
  BY <1>7b DEF DispatchUnrecorded
<1>8. ASSUME NEW r \in Runs, NEW a \in Actions, Propose(r, a) PROVE LedgerInv'
  BY <1>8 DEF Propose, Unused
<1>9. ASSUME NEW r \in Runs, NEW a \in Actions, BeginAutomatic(r, a)
      PROVE  LedgerInv'
  BY <1>9 DEF BeginAutomatic, Unused
<1>10. ASSUME NEW r \in Runs, NEW a \in Actions, NEW s \in {"succeeded", "failed"},
             RecordExecution(r, a, s)
      PROVE  LedgerInv'
  BY <1>10 DEF RecordExecution, Unused
<1>11. ASSUME NEW p \in Processes, Dispatch(p) PROVE LedgerInv'
  BY <1>11 DEF Dispatch
<1>12. ASSUME NEW p \in Processes, Refuse(p) PROVE LedgerInv'
  BY <1>12 DEF Refuse
<1>13. ASSUME NEW p \in Processes, NEW s \in Settled, FinishAction(p, s)
      PROVE  LedgerInv'
  BY <1>13 DEF FinishAction, InFlight, Complete, Outcomes
<1>14. ASSUME NEW p \in Processes, Crash(p) PROVE LedgerInv'
  BY <1>14 DEF Crash
<1>15. ASSUME NEW q \in Requests, NEW a \in Actions, NEW approve \in BOOLEAN,
             CheckDecision(q, a, approve)
      PROVE  LedgerInv'
  BY <1>15 DEF CheckDecision
<1>16. ASSUME NEW q \in Requests, BeginExecution(q) PROVE LedgerInv'
  BY <1>16 DEF BeginExecution, Executable
<1>17. ASSUME NEW q \in Requests, RejectDecision(q) PROVE LedgerInv'
  BY <1>17 DEF RejectDecision
<1>18. ASSUME NEW q \in Requests, CancelAction(q) PROVE LedgerInv'
  BY <1>18 DEF CancelAction, CancelPrepared
<1>19. ASSUME NEW a \in Actions, Acknowledge(a) PROVE LedgerInv'
  BY <1>19 DEF Acknowledge
<1>20. ASSUME NEW S \in SUBSET Runs, DismissNotices(S) PROVE LedgerInv'
  BY <1>20 DEF DismissNotices
<1>21. ASSUME NEW a \in Actions, ActionAges(a) PROVE LedgerInv'
  BY <1>21 DEF ActionAges
<1>22. ASSUME NEW a \in Actions, SupersedeProposal(a) PROVE LedgerInv'
  BY <1>22 DEF SupersedeProposal, CancelPrepared, Recompute
<1>23. ASSUME NEW a \in Actions, ReconcileStale(a) PROVE LedgerInv'
  BY <1>23 DEF ReconcileStale, Stale
<1>24. ASSUME NEW r \in Runs, Fence(r) PROVE LedgerInv'
  BY <1>24 DEF Fence, Abandoned
<1>25. ASSUME NEW r \in Runs, Recover(r) PROVE LedgerInv'
  <2>1. InterruptSummary(r)
    BY <1>25, InterruptEffect DEF Recover
  <2> QED BY <1>25, <2>1 DEF Recover, InterruptSummary
<1>26. ASSUME ReconcilerCrash PROVE LedgerInv'
  BY <1>26 DEF ReconcilerCrash
<1>27. ASSUME NEW t \in Tasks, NEW s \in {"active", "complete"},
             MergeStatus(t, s)
      PROVE  LedgerInv'
  BY <1>27 DEF MergeStatus
<1>28. ASSUME NEW t \in Tasks, CancelTask(t) PROVE LedgerInv'
  BY <1>28 DEF CancelTask
<1>29. ASSUME NEW t \in Tasks, NEW a \in Actions, CleanupAction(t, a)
      PROVE  LedgerInv'
  BY <1>29 DEF CleanupAction, CancelPrepared, Recompute
<1>30. ASSUME NEW t \in Tasks, NEW r \in Runs, CleanupRun(t, r) PROVE LedgerInv'
  <2>1. InterruptSummary(r)
    BY <1>30, InterruptEffect DEF CleanupRun
  <2> QED BY <1>30, <2>1 DEF CleanupRun, InterruptSummary
<1>31. ASSUME NEW t \in Tasks, CleanupDone(t) PROVE LedgerInv'
  BY <1>31 DEF CleanupDone
<1>32. ASSUME NEW t \in Tasks, CleanupCrash(t) PROVE LedgerInv'
  BY <1>32 DEF CleanupCrash
<1>33. CASE UNCHANGED vars
  BY <1>33 DEF vars, runVars, actionVars, cancelVars
<1> HIDE ConstantsAssumption DEF ConstantsAssumption, TypeOK, Domains,
     References, LedgerInv, AttentionMatchesLedger, ActionStatus,
     AttentionState, Referring, Holding, Processes, Settled, runVars,
     actionVars, cancelVars
<1>34. CASE \E r \in Runs : RunStep(r)
  BY <1>34, <1>1, <1>2, <1>3, <1>4, <1>5, <1>6, <1>7,
     <1>7a, <1>7b, <1>8, <1>9, <1>10
       DEF RunStep
<1>35. CASE \E p \in Processes : ProcessStep(p)
  BY <1>35, <1>11, <1>12, <1>13, <1>14 DEF ProcessStep
<1>36. CASE \E q \in Requests : RequestStep(q)
  BY <1>36, <1>15, <1>16, <1>17, <1>18 DEF RequestStep
<1>37. CASE OwnerStep
  BY <1>37, <1>19, <1>20 DEF OwnerStep
<1>38. CASE \E a \in Actions : ActionAges(a) \/ SupersedeProposal(a)
  BY <1>38, <1>21, <1>22
<1>39. CASE ReconcilerStep
  BY <1>39, <1>23, <1>24, <1>25, <1>26 DEF ReconcilerStep
<1>40. CASE \E t \in Tasks : TaskStep(t)
  BY <1>40, <1>27, <1>28, <1>29, <1>30, <1>31, <1>32 DEF TaskStep
<1> QED BY <1>33, <1>34, <1>35, <1>36, <1>37, <1>38, <1>39, <1>40 DEF Next

-----------------------------------------------------------------------------
(* Inference.                                                              *)

\* interrupt_run, by whichever process, leaves no automatic execution of the
\* run behind.
LEMMA InterruptInference ==
    ASSUME TypeOK, InferenceInv, NEW r \in Runs, Interrupt(r),
           \/ UNCHANGED <<pc, act>>
           \/ pc' = [pc EXCEPT ![r] = "dead"] /\ act' = [act EXCEPT ![r] = None]
    PROVE  InferenceInv'
<1> USE ConstantsAssumption DEF ConstantsAssumption, TypeOK, Domains,
     References, InferenceInv
<1>0. InterruptSummary(r)
  BY InterruptEffect
<1> USE <1>0 DEF InterruptSummary
<1>1. NoAbandonedExecution'
  <2> SUFFICES ASSUME NEW a \in Actions, actStatus'[a] = "executing", automatic'[a]
               PROVE  inference'[actRun'[a]] = "running"
    BY DEF NoAbandonedExecution
  <2>1. actStatus[a] = "executing" /\ automatic[a] /\ actRun'[a] = actRun[a] /\ actRun[a] \in Runs
    OBVIOUS
  <2>2. inference[actRun[a]] = "running"
    BY <2>1 DEF NoAbandonedExecution
  <2>3. actRun[a] # r
    BY <2>1, <2>2
  <2> QED BY <2>1, <2>2, <2>3
<1>2. OneLiveInference'
  BY DEF OneLiveInference
<1>3. \A q \in Runs : active'[q] => inference'[q] = "running"
  OBVIOUS
<1>4. \A a \in Actions : actRun'[a] # None => runKind'[actRun'[a]] # "none"
  OBVIOUS
<1>5. \A a \in Actions :
        (actStatus'[a] = "executing" /\ automatic'[a] /\ pc'[actRun'[a]] # "dead")
            => act'[actRun'[a]] = a /\ pc'[actRun'[a]] \in Holding
  BY DEF Processes
<1> QED BY <1>1, <1>2, <1>3, <1>4, <1>5

\* Every step keeps inference_active unique per transcript, and each
\* automatic execution with the process that began it while that process
\* lives.
LEMMA InferenceStep == TypeOK /\ LedgerInv /\ InferenceInv /\ [Next]_vars => InferenceInv'
<1> SUFFICES ASSUME TypeOK, LedgerInv, InferenceInv, [Next]_vars PROVE InferenceInv'
  OBVIOUS
<1> USE ConstantsAssumption DEF ConstantsAssumption, TypeOK, Domains,
     References, InferenceInv, NoAbandonedExecution, OneLiveInference,
     InferenceStatus, Processes, Referring, Holding, runVars, actionVars,
     cancelVars
<1>1. ASSUME NEW r \in Runs, NEW c \in Chats, OwnerMessage(r, c)
      PROVE  InferenceInv'
  BY <1>1 DEF OwnerMessage, InsertRun, NoLiveInference
<1>2. ASSUME NEW r \in Runs, NEW t \in Tasks, ClaimTask(r, t)
      PROVE  InferenceInv'
  BY <1>2 DEF ClaimTask, InsertRun, NoLiveInference
<1>3. ASSUME NEW r \in Runs, Heartbeat(r) PROVE InferenceInv'
  BY <1>3 DEF Heartbeat
<1>4. ASSUME NEW r \in Runs, HeartbeatAges(r) PROVE InferenceInv'
  BY <1>4 DEF HeartbeatAges
<1>5. ASSUME NEW r \in Runs, FinishRun(r) PROVE InferenceInv'
  BY <1>5 DEF FinishRun, LiveRun
<1>6. ASSUME NEW r \in Runs, StopInference(r) PROVE InferenceInv'
  BY <1>6, InterruptInference DEF StopInference
<1>7. ASSUME NEW r \in Runs, BeginRead(r) PROVE InferenceInv'
  BY <1>7 DEF BeginRead
<1>7a. ASSUME NEW r \in Runs, ResolutionFails(r) PROVE InferenceInv'
  BY <1>7a DEF ResolutionFails
<1>7b. ASSUME NEW r \in Runs, DispatchUnrecorded(r) PROVE InferenceInv'
  BY <1>7b DEF DispatchUnrecorded
<1>8. ASSUME NEW r \in Runs, NEW a \in Actions, Propose(r, a)
      PROVE  InferenceInv'
  BY <1>8 DEF Propose, Unused, LiveRun
<1>9. ASSUME NEW r \in Runs, NEW a \in Actions, BeginAutomatic(r, a)
      PROVE  InferenceInv'
  BY <1>9 DEF BeginAutomatic, Unused, LiveRun
<1>10. ASSUME NEW r \in Runs, NEW a \in Actions, NEW s \in {"succeeded", "failed"},
             RecordExecution(r, a, s)
      PROVE  InferenceInv'
  BY <1>10 DEF RecordExecution, Unused
<1>11. ASSUME NEW p \in Processes, Dispatch(p) PROVE InferenceInv'
  BY <1>11 DEF Dispatch
<1>12. ASSUME NEW p \in Processes, Refuse(p) PROVE InferenceInv'
  BY <1>12 DEF Refuse
<1>13. ASSUME NEW p \in Processes, NEW s \in Settled, FinishAction(p, s)
      PROVE  InferenceInv'
  BY <1>13 DEF FinishAction, InFlight, Complete, Outcomes, Settled
<1>14. ASSUME NEW p \in Processes, Crash(p) PROVE InferenceInv'
  BY <1>14 DEF Crash
<1>15. ASSUME NEW q \in Requests, NEW a \in Actions, NEW approve \in BOOLEAN,
             CheckDecision(q, a, approve)
      PROVE  InferenceInv'
  BY <1>15 DEF CheckDecision
<1>16. ASSUME NEW q \in Requests, BeginExecution(q) PROVE InferenceInv'
  BY <1>16 DEF BeginExecution, Executable, LedgerInv
<1>17. ASSUME NEW q \in Requests, RejectDecision(q) PROVE InferenceInv'
  BY <1>17 DEF RejectDecision
<1>18. ASSUME NEW q \in Requests, CancelAction(q) PROVE InferenceInv'
  BY <1>18 DEF CancelAction, CancelPrepared
<1>19. ASSUME NEW a \in Actions, Acknowledge(a) PROVE InferenceInv'
  BY <1>19 DEF Acknowledge
<1>20. ASSUME NEW S \in SUBSET Runs, DismissNotices(S) PROVE InferenceInv'
  BY <1>20 DEF DismissNotices
<1>21. ASSUME NEW a \in Actions, ActionAges(a) PROVE InferenceInv'
  BY <1>21 DEF ActionAges
<1>22. ASSUME NEW a \in Actions, SupersedeProposal(a) PROVE InferenceInv'
  BY <1>22 DEF SupersedeProposal, CancelPrepared, Recompute
<1>23. ASSUME NEW a \in Actions, ReconcileStale(a) PROVE InferenceInv'
  BY <1>23 DEF ReconcileStale, Stale
<1>24. ASSUME NEW r \in Runs, Fence(r) PROVE InferenceInv'
  BY <1>24 DEF Fence, Abandoned
<1>25. ASSUME NEW r \in Runs, Recover(r) PROVE InferenceInv'
  BY <1>25, InterruptInference DEF Recover
<1>26. ASSUME ReconcilerCrash PROVE InferenceInv'
  BY <1>26 DEF ReconcilerCrash
<1>27. ASSUME NEW t \in Tasks, NEW s \in {"active", "complete"},
             MergeStatus(t, s)
      PROVE  InferenceInv'
  BY <1>27 DEF MergeStatus
<1>28. ASSUME NEW t \in Tasks, CancelTask(t) PROVE InferenceInv'
  BY <1>28 DEF CancelTask
<1>29. ASSUME NEW t \in Tasks, NEW a \in Actions, CleanupAction(t, a)
      PROVE  InferenceInv'
  BY <1>29 DEF CleanupAction, CancelPrepared, Recompute
<1>30. ASSUME NEW t \in Tasks, NEW r \in Runs, CleanupRun(t, r)
      PROVE  InferenceInv'
  BY <1>30, InterruptInference DEF CleanupRun
<1>31. ASSUME NEW t \in Tasks, CleanupDone(t) PROVE InferenceInv'
  BY <1>31 DEF CleanupDone
<1>32. ASSUME NEW t \in Tasks, CleanupCrash(t) PROVE InferenceInv'
  BY <1>32 DEF CleanupCrash
<1>33. CASE UNCHANGED vars
  BY <1>33 DEF vars, runVars, actionVars, cancelVars
<1> HIDE ConstantsAssumption DEF ConstantsAssumption, TypeOK, Domains,
     References, InferenceInv, NoAbandonedExecution, OneLiveInference,
     InferenceStatus, Processes, Referring, Holding, runVars, actionVars,
     cancelVars
<1>34. CASE \E r \in Runs : RunStep(r)
  BY <1>34, <1>1, <1>2, <1>3, <1>4, <1>5, <1>6, <1>7,
     <1>7a, <1>7b, <1>8, <1>9, <1>10
       DEF RunStep
<1>35. CASE \E p \in Processes : ProcessStep(p)
  BY <1>35, <1>11, <1>12, <1>13, <1>14 DEF ProcessStep
<1>36. CASE \E q \in Requests : RequestStep(q)
  BY <1>36, <1>15, <1>16, <1>17, <1>18 DEF RequestStep
<1>37. CASE OwnerStep
  BY <1>37, <1>19, <1>20 DEF OwnerStep
<1>38. CASE \E a \in Actions : ActionAges(a) \/ SupersedeProposal(a)
  BY <1>38, <1>21, <1>22
<1>39. CASE ReconcilerStep
  BY <1>39, <1>23, <1>24, <1>25, <1>26 DEF ReconcilerStep
<1>40. CASE \E t \in Tasks : TaskStep(t)
  BY <1>40, <1>27, <1>28, <1>29, <1>30, <1>31, <1>32 DEF TaskStep
<1> QED BY <1>33, <1>34, <1>35, <1>36, <1>37, <1>38, <1>39, <1>40 DEF Next

-----------------------------------------------------------------------------
(* The status of a run.                                                    *)

\* The two facts about the precedence of _recompute_run that its callers rely
\* on: uncertainty wins, and an inactive run ignores the flag.
LEMMA AggregateFacts ==
    ASSUME NEW S, NEW b \in BOOLEAN, NEW i
    PROVE  /\ "uncertain" \in S => Aggregate(S, b, i) = "uncertain"
           /\ ~b => Aggregate(S, b, i) = Aggregate(S, FALSE, i)
  BY DEF Aggregate

\* A read recorded after an interruption cannot change the aggregate, which
\* is why record_execution may leave the run row alone.
LEMMA AggregateIgnoresRead ==
    ASSUME NEW S, NEW s \in {"succeeded", "failed"}
    PROVE  Aggregate({s} \cup S, FALSE, "interrupted") = Aggregate(S, FALSE, "interrupted")
<1>1. \A x \in {"uncertain", "executing", "prepared"} : x \in {s} \cup S <=> x \in S
  OBVIOUS
<1> QED BY <1>1 DEF Aggregate

\* Giving one action of run r a status changes the statuses of r in the way
\* _recompute_run sees them, and of no other run.
LEMMA StatusesAfter ==
    ASSUME TypeOK, NEW r \in Runs, NEW a \in Actions, NEW s,
           \/ actRun' = actRun /\ actRun[a] = r
           \/ actRun' = [actRun EXCEPT ![a] = r] /\ actRun[a] = None,
           actStatus' = [actStatus EXCEPT ![a] = s]
    PROVE  /\ StatusesOf(r, actStatus)' = StatusesWith(r, a, s)
           /\ \A q \in Runs \ {r} : StatusesOf(q, actStatus)' = StatusesOf(q, actStatus)
<1> USE ConstantsAssumption DEF ConstantsAssumption, TypeOK, Domains
<1>1. ActionsOf(r)' = ActionsOf(r) \cup {a}
  BY DEF ActionsOf
<1>2. \A q \in Runs \ {r} : ActionsOf(q)' = ActionsOf(q) /\ a \notin ActionsOf(q)
  BY DEF ActionsOf
<1>3. \A b \in Actions : actStatus'[b] = IF b = a THEN s ELSE actStatus[b]
  OBVIOUS
<1>4. \A q : ActionsOf(q) \subseteq Actions
  BY DEF ActionsOf
<1> QED BY <1>1, <1>2, <1>3, <1>4 DEF StatusesOf, StatusesWith

\* A writer that sets one action and recomputes keeps the aggregate exact.
LEMMA RecomputeAggregates ==
    ASSUME TypeOK, InferenceInv, RunStatusAggregates,
           NEW r \in Runs, NEW a \in Actions, NEW s,
           \/ actRun' = actRun /\ actRun[a] = r
           \/ actRun' = [actRun EXCEPT ![a] = r] /\ actRun[a] = None,
           actStatus' = [actStatus EXCEPT ![a] = s],
           Recompute(r, StatusesWith(r, a, s)), UNCHANGED <<runKind, inference>>
    PROVE  RunStatusAggregates'
<1>1. /\ StatusesOf(r, actStatus)' = StatusesWith(r, a, s)
      /\ \A q \in Runs \ {r} : StatusesOf(q, actStatus)' = StatusesOf(q, actStatus)
  BY StatusesAfter
<1>2. /\ runStatus'[r] = Aggregate(StatusesWith(r, a, s), active[r], inference[r])
      /\ \A q \in Runs \ {r} : runStatus'[q] = runStatus[q]
  BY DEF Recompute, TypeOK, Domains
<1>3. active[r] \in BOOLEAN /\ (inference[r] # "running" => ~active[r])
  BY DEF TypeOK, Domains, InferenceInv
<1>4. /\ "uncertain" \in StatusesWith(r, a, s) => runStatus'[r] = "uncertain"
      /\ inference[r] # "running" =>
            runStatus'[r] = Aggregate(StatusesWith(r, a, s), FALSE, inference[r])
  <2>1. "uncertain" \in StatusesWith(r, a, s) => runStatus'[r] = "uncertain"
    BY <1>2 DEF Aggregate
  <2>2. inference[r] # "running" => active[r] = FALSE
    BY <1>3
  <2> QED BY <1>2, <2>1, <2>2
<1> QED BY <1>1, <1>2, <1>4 DEF RunStatusAggregates

\* interrupt_run keeps the aggregate exact.
LEMMA InterruptAggregates ==
    ASSUME TypeOK, RunStatusAggregates, NEW r \in Runs, Interrupt(r)
    PROVE  RunStatusAggregates'
<1>0. InterruptSummary(r)
  BY InterruptEffect
<1>1. \A q \in Runs : ActionsOf(q)' = ActionsOf(q) /\ ActionsOf(q) \subseteq Actions
  BY <1>0 DEF ActionsOf, InterruptSummary
<1>2. \A q \in Runs : (q # r \/ inference[r] # "running")
          => StatusesOf(q, actStatus)' = StatusesOf(q, actStatus)
  <2> SUFFICES ASSUME NEW q \in Runs, q # r \/ inference[r] # "running"
               PROVE  StatusesOf(q, actStatus)' = StatusesOf(q, actStatus)
    OBVIOUS
  <2>1. \A a \in ActionsOf(q) : actStatus'[a] = actStatus[a]
    BY <1>0 DEF ActionsOf, InterruptSummary
  <2> QED BY <1>1, <2>1 DEF StatusesOf
<1>3. \A q \in Runs : (q # r \/ inference[r] # "running") =>
          runStatus'[q] = runStatus[q] /\ inference'[q] = inference[q] /\ runKind'[q] = runKind[q]
  BY <1>0 DEF Interrupt, InterruptSummary, TypeOK, Domains
<1>4. CASE inference[r] = "running"
  <2>1. /\ runStatus'[r] = Aggregate(StatusesOf(r, actStatus'), FALSE, "interrupted")
        /\ inference'[r] = "interrupted"
    BY <1>4 DEF Interrupt, TypeOK, Domains
  <2>2. StatusesOf(r, actStatus') = StatusesOf(r, actStatus)'
    BY <1>1 DEF StatusesOf
  <2>3. "uncertain" \in StatusesOf(r, actStatus') => runStatus'[r] = "uncertain"
    BY <2>1, AggregateFacts
  <2> QED BY <1>2, <1>3, <2>1, <2>2, <2>3 DEF RunStatusAggregates
<1>5. CASE inference[r] # "running"
  BY <1>2, <1>3, <1>5 DEF RunStatusAggregates
<1> QED BY <1>4, <1>5

\* It is enough to look at the one run a step changes.
LEMMA AggregatesExcept ==
    ASSUME RunStatusAggregates, NEW r \in Runs,
           \A q \in Runs \ {r} : /\ StatusesOf(q, actStatus)' = StatusesOf(q, actStatus)
                                 /\ runKind'[q] = runKind[q]
                                 /\ runStatus'[q] = runStatus[q]
                                 /\ inference'[q] = inference[q],
           inference'[r] # "running" =>
               runStatus'[r] = Aggregate(StatusesOf(r, actStatus)', FALSE, inference'[r]),
           "uncertain" \in StatusesOf(r, actStatus)' => runStatus'[r] = "uncertain"
    PROVE  RunStatusAggregates'
  BY DEF RunStatusAggregates

\* A step that touches neither statuses nor inference keeps the aggregate.
LEMMA AggregateFrame ==
    ASSUME RunStatusAggregates, UNCHANGED <<runKind, runStatus, inference, actRun, actStatus>>
    PROVE  RunStatusAggregates'
<1>1. \A q \in Runs : ActionsOf(q)' = ActionsOf(q)
  BY DEF ActionsOf
<1>2. \A q \in Runs : StatusesOf(q, actStatus)' = StatusesOf(q, actStatus)
  BY <1>1 DEF StatusesOf
<1> QED BY <1>2 DEF RunStatusAggregates

\* A new run has no actions yet, so "running" is its aggregate.
LEMMA InsertAggregates ==
    ASSUME TypeOK, InferenceInv, RunStatusAggregates, NEW r \in Runs, NEW kind, NEW x,
           InsertRun(r, kind, x), UNCHANGED <<actRun, actStatus>>
    PROVE  RunStatusAggregates'
<1>1. ActionsOf(r) = {}
  BY ConstantsAssumption DEF ConstantsAssumption, InsertRun, ActionsOf,
       InferenceInv, TypeOK, Domains
<1>2. \A q \in Runs : ActionsOf(q)' = ActionsOf(q)
  BY DEF ActionsOf
<1>3. \A q \in Runs : StatusesOf(q, actStatus)' = StatusesOf(q, actStatus)
  BY <1>2 DEF StatusesOf
<1>4. StatusesOf(r, actStatus) = {}
  BY <1>1 DEF StatusesOf
<1>5. inference'[r] = "running"
  BY DEF InsertRun, TypeOK, Domains
<1>6. \A q \in Runs \ {r} : /\ runKind'[q] = runKind[q] /\ runStatus'[q] = runStatus[q]
                            /\ inference'[q] = inference[q]
  BY DEF InsertRun, TypeOK, Domains
<1> QED BY <1>3, <1>4, <1>5, <1>6, AggregatesExcept

\* finish_run keeps the aggregate exact.
LEMMA FinishAggregates ==
    ASSUME TypeOK, RunStatusAggregates, NEW r \in Runs, FinishRun(r)
    PROVE  RunStatusAggregates'
<1>1. \A q \in Runs : ActionsOf(q)' = ActionsOf(q)
  BY DEF ActionsOf, FinishRun, actionVars
<1>2. \A q \in Runs : StatusesOf(q, actStatus)' = StatusesOf(q, actStatus)
  BY <1>1 DEF StatusesOf, FinishRun, actionVars
<1>3. /\ inference'[r] = "succeeded"
      /\ runStatus'[r] = Aggregate(StatusesOf(r, actStatus), FALSE, "succeeded")
  BY DEF FinishRun, TypeOK, Domains
<1>4. "uncertain" \in StatusesOf(r, actStatus) => runStatus'[r] = "uncertain"
  BY <1>3, AggregateFacts
<1>5. \A q \in Runs \ {r} : /\ runKind'[q] = runKind[q] /\ runStatus'[q] = runStatus[q]
                            /\ inference'[q] = inference[q]
  BY DEF FinishRun, TypeOK, Domains
<1> QED BY <1>2, <1>3, <1>4, <1>5, AggregatesExcept

\* begin_automatic_execution does not recompute, and need not: inference is
\* running and an execution adds no uncertainty.
LEMMA BeginAutomaticAggregates ==
    ASSUME TypeOK, InferenceInv, RunStatusAggregates, NEW r \in Runs, NEW a \in Actions,
           BeginAutomatic(r, a)
    PROVE  RunStatusAggregates'
<1>1. /\ actRun' = [actRun EXCEPT ![a] = r] /\ actRun[a] = None
      /\ actStatus' = [actStatus EXCEPT ![a] = "executing"]
      /\ UNCHANGED <<runKind, runStatus, inference>>
  BY DEF BeginAutomatic, Unused, TypeOK, References, runVars
<1>2. /\ StatusesOf(r, actStatus)' = StatusesWith(r, a, "executing")
      /\ \A q \in Runs \ {r} : StatusesOf(q, actStatus)' = StatusesOf(q, actStatus)
  BY <1>1, StatusesAfter
<1>3. "uncertain" \in StatusesWith(r, a, "executing") => "uncertain" \in StatusesOf(r, actStatus)
  BY DEF StatusesWith, StatusesOf
<1>4. inference[r] = "running" /\ runKind[r] # "none"
  BY DEF BeginAutomatic, LiveRun, InferenceInv, TypeOK, References
<1>5. "uncertain" \in StatusesWith(r, a, "executing") => runStatus[r] = "uncertain"
  BY <1>3, <1>4 DEF RunStatusAggregates
<1> QED BY <1>1, <1>2, <1>4, <1>5, AggregatesExcept

\* record_execution does not recompute, and need not: the run is running or
\* was interrupted, never finished, because its process still lives.
LEMMA RecordExecutionAggregates ==
    ASSUME TypeOK, AggregateInv, NEW r \in Runs, NEW a \in Actions,
           NEW s \in {"succeeded", "failed"}, RecordExecution(r, a, s)
    PROVE  RunStatusAggregates'
<1>1. /\ actRun' = [actRun EXCEPT ![a] = r] /\ actRun[a] = None
      /\ actStatus' = [actStatus EXCEPT ![a] = s]
      /\ UNCHANGED <<runKind, runStatus, inference>>
  BY DEF RecordExecution, Unused, TypeOK, References, runVars
<1>2. /\ StatusesOf(r, actStatus)' = StatusesWith(r, a, s)
      /\ \A q \in Runs \ {r} : StatusesOf(q, actStatus)' = StatusesOf(q, actStatus)
  BY <1>1, StatusesAfter
<1>3. StatusesWith(r, a, s) = {s} \cup StatusesOf(r, actStatus)
  <2>1. a \notin ActionsOf(r)
    BY <1>1, ConstantsAssumption DEF ConstantsAssumption, ActionsOf
  <2> QED BY <2>1 DEF StatusesWith, StatusesOf
<1>4. runKind[r] # "none" /\ inference[r] \in {"running", "interrupted"}
  BY DEF RecordExecution, TypeOK, References, Domains, InferenceStatus,
       AggregateInv
<1>5. inference[r] # "running" =>
         runStatus[r] = Aggregate({s} \cup StatusesOf(r, actStatus), FALSE, inference[r])
  BY <1>4, AggregateIgnoresRead DEF AggregateInv, RunStatusAggregates
<1>6. "uncertain" \in {s} \cup StatusesOf(r, actStatus) => runStatus[r] = "uncertain"
  BY <1>4 DEF AggregateInv, RunStatusAggregates
<1> QED BY <1>1, <1>2, <1>3, <1>5, <1>6, AggregatesExcept DEF AggregateInv

\* reconcile_stale_executions writes "uncertain" without recomputing, which
\* is what recomputing would give.
LEMMA ReconcileStaleAggregates ==
    ASSUME TypeOK, RunStatusAggregates, NEW a \in Actions, ReconcileStale(a)
    PROVE  RunStatusAggregates'
<1>1. PICK r \in Runs : r = actRun[a]
  BY DEF ReconcileStale, Stale, TypeOK, Domains, References
<1>2. actRun' = actRun /\ actStatus' = [actStatus EXCEPT ![a] = "uncertain"]
  BY DEF ReconcileStale, Stale
<1>3. /\ StatusesOf(r, actStatus)' = StatusesWith(r, a, "uncertain")
      /\ \A q \in Runs \ {r} : StatusesOf(q, actStatus)' = StatusesOf(q, actStatus)
  BY <1>1, <1>2, StatusesAfter
<1>4. "uncertain" \in StatusesOf(r, actStatus)'
  BY <1>3 DEF StatusesWith
<1>5. Aggregate(StatusesOf(r, actStatus)', FALSE, inference'[r]) = "uncertain"
  BY <1>4 DEF Aggregate
<1>6. /\ runStatus'[r] = "uncertain"
      /\ \A q \in Runs \ {r} : /\ runKind'[q] = runKind[q] /\ runStatus'[q] = runStatus[q]
                               /\ inference'[q] = inference[q]
  BY <1>1 DEF ReconcileStale, Stale, TypeOK, Domains
<1> QED BY <1>1, <1>3, <1>5, <1>6, AggregatesExcept

\* Every step keeps the status of a run equal to the aggregate of its actions
\* once inference has ended.
LEMMA AggregateStep ==
    TypeOK /\ InferenceInv /\ AggregateInv /\ [Next]_vars => AggregateInv'
<1> SUFFICES ASSUME TypeOK, InferenceInv, AggregateInv, [Next]_vars PROVE AggregateInv'
  OBVIOUS
<1> USE ConstantsAssumption DEF ConstantsAssumption, TypeOK, Domains,
     References, AggregateInv, Processes, runVars, actionVars, cancelVars
<1>1. ASSUME NEW r \in Runs, NEW c \in Chats, OwnerMessage(r, c)
      PROVE  AggregateInv'
  <2>1. RunStatusAggregates'
    BY <1>1, InsertAggregates DEF OwnerMessage, actionVars
  <2> QED BY <1>1, <2>1 DEF OwnerMessage, InsertRun
<1>2. ASSUME NEW r \in Runs, NEW t \in Tasks, ClaimTask(r, t)
      PROVE  AggregateInv'
  <2>1. RunStatusAggregates'
    BY <1>2, InsertAggregates DEF ClaimTask, actionVars
  <2> QED BY <1>2, <2>1 DEF ClaimTask, InsertRun
<1>3. ASSUME NEW r \in Runs, Heartbeat(r) PROVE AggregateInv'
  BY <1>3, AggregateFrame DEF Heartbeat, Alive
<1>4. ASSUME NEW r \in Runs, HeartbeatAges(r) PROVE AggregateInv'
  BY <1>4, AggregateFrame DEF HeartbeatAges, Alive
<1>5. ASSUME NEW r \in Runs, FinishRun(r) PROVE AggregateInv'
  <2>1. RunStatusAggregates'
    BY <1>5, FinishAggregates DEF FinishRun
  <2> QED BY <1>5, <2>1 DEF FinishRun
<1>6. ASSUME NEW r \in Runs, StopInference(r) PROVE AggregateInv'
  <2>1. RunStatusAggregates'
    BY <1>6, InterruptAggregates DEF StopInference
  <2>2. InterruptSummary(r)
    BY <1>6, InterruptEffect DEF StopInference
  <2> QED BY <1>6, <2>1, <2>2 DEF StopInference, InterruptSummary
<1>7. ASSUME NEW r \in Runs, BeginRead(r) PROVE AggregateInv'
  BY <1>7, AggregateFrame DEF BeginRead, Alive
<1>7a. ASSUME NEW r \in Runs, ResolutionFails(r) PROVE AggregateInv'
  BY <1>7a, AggregateFrame DEF ResolutionFails, Alive
<1>7b. ASSUME NEW r \in Runs, DispatchUnrecorded(r) PROVE AggregateInv'
  BY <1>7b, AggregateFrame DEF DispatchUnrecorded, Alive
<1>8. ASSUME NEW r \in Runs, NEW a \in Actions, Propose(r, a)
      PROVE  AggregateInv'
  <2>1. RunStatusAggregates'
    BY <1>8, RecomputeAggregates DEF Propose, Unused
  <2> QED BY <1>8, <2>1 DEF Propose, Unused
<1>9. ASSUME NEW r \in Runs, NEW a \in Actions, BeginAutomatic(r, a)
      PROVE  AggregateInv'
  <2>1. RunStatusAggregates'
    BY <1>9, BeginAutomaticAggregates DEF BeginAutomatic
  <2> QED BY <1>9, <2>1 DEF BeginAutomatic
<1>10. ASSUME NEW r \in Runs, NEW a \in Actions, NEW s \in {"succeeded", "failed"},
             RecordExecution(r, a, s)
      PROVE  AggregateInv'
  <2>1. RunStatusAggregates'
    BY <1>10, RecordExecutionAggregates DEF RecordExecution
  <2> QED BY <1>10, <2>1 DEF RecordExecution
<1>11. ASSUME NEW p \in Processes, Dispatch(p) PROVE AggregateInv'
  BY <1>11, AggregateFrame DEF Dispatch, Alive
<1>12. ASSUME NEW p \in Processes, Refuse(p) PROVE AggregateInv'
  BY <1>12, AggregateFrame DEF Refuse, Alive
<1>13. ASSUME NEW p \in Processes, NEW s \in Settled, FinishAction(p, s)
      PROVE  AggregateInv'
  <2> DEFINE a == act[p]
  <2>1. a \in Actions /\ actRun[a] \in Runs
    BY <1>13 DEF FinishAction, Referring, Holding
  <2>2. CASE actStatus[a] = "executing"
    <3>1. /\ actRun' = actRun /\ actStatus' = [actStatus EXCEPT ![a] = s]
          /\ Recompute(actRun[a], StatusesWith(actRun[a], a, s))
          /\ UNCHANGED <<runKind, inference>>
      BY <1>13, <2>2 DEF FinishAction, InFlight, Complete
    <3>2. RunStatusAggregates'
      BY <2>1, <3>1, RecomputeAggregates
    <3> QED BY <1>13, <3>2 DEF FinishAction
  <2>3. CASE actStatus[a] # "executing"
    BY <1>13, <2>3, AggregateFrame DEF FinishAction, InFlight
  <2> QED BY <2>2, <2>3
<1>14. ASSUME NEW p \in Processes, Crash(p) PROVE AggregateInv'
  BY <1>14, AggregateFrame DEF Crash, Alive
<1>15. ASSUME NEW q \in Requests, NEW a \in Actions, NEW approve \in BOOLEAN,
             CheckDecision(q, a, approve)
      PROVE  AggregateInv'
  BY <1>15, AggregateFrame DEF CheckDecision, Alive
<1>16. ASSUME NEW q \in Requests, BeginExecution(q) PROVE AggregateInv'
  <2> DEFINE x == act[q]
  <2>1. x \in Actions /\ actRun[x] \in Runs
    BY <1>16 DEF BeginExecution, Referring, Holding
  <2>2. /\ actRun' = actRun /\ actStatus' = [actStatus EXCEPT ![x] = "executing"]
        /\ Recompute(actRun[x], StatusesWith(actRun[x], x, "executing"))
        /\ UNCHANGED <<runKind, inference>>
    BY <1>16 DEF BeginExecution
  <2>3. RunStatusAggregates'
    BY <2>1, <2>2, RecomputeAggregates
  <2> QED BY <1>16, <2>2, <2>3 DEF BeginExecution
<1>17. ASSUME NEW q \in Requests, RejectDecision(q) PROVE AggregateInv'
  BY <1>17, AggregateFrame DEF RejectDecision, Alive
<1>18. ASSUME NEW q \in Requests, CancelAction(q) PROVE AggregateInv'
  <2> DEFINE x == act[q]
  <2>1. x \in Actions /\ actRun[x] \in Runs
    BY <1>18 DEF CancelAction, Referring, Holding
  <2>2. /\ actRun' = actRun /\ actStatus' = [actStatus EXCEPT ![x] = "cancelled"]
        /\ Recompute(actRun[x], StatusesWith(actRun[x], x, "cancelled"))
        /\ UNCHANGED <<runKind, inference>>
    BY <1>18 DEF CancelAction, CancelPrepared
  <2>3. RunStatusAggregates'
    BY <2>1, <2>2, RecomputeAggregates
  <2> QED BY <1>18, <2>2, <2>3 DEF CancelAction
<1>19. ASSUME NEW a \in Actions, Acknowledge(a) PROVE AggregateInv'
  BY <1>19, AggregateFrame DEF Acknowledge, Alive
<1>20. ASSUME NEW S \in SUBSET Runs, DismissNotices(S) PROVE AggregateInv'
  BY <1>20, AggregateFrame DEF DismissNotices, Alive
<1>21. ASSUME NEW a \in Actions, ActionAges(a) PROVE AggregateInv'
  BY <1>21, AggregateFrame DEF ActionAges, Alive
<1>22. ASSUME NEW a \in Actions, SupersedeProposal(a) PROVE AggregateInv'
  <2> DEFINE x == a
  <2>1. x \in Actions /\ actRun[x] \in Runs
    BY <1>22 DEF SupersedeProposal, Managed
  <2>2. /\ actRun' = actRun /\ actStatus' = [actStatus EXCEPT ![x] = "cancelled"]
        /\ Recompute(actRun[x], StatusesWith(actRun[x], x, "cancelled"))
        /\ UNCHANGED <<runKind, inference>>
    BY <1>22 DEF SupersedeProposal, CancelPrepared
  <2>3. RunStatusAggregates'
    BY <2>1, <2>2, RecomputeAggregates
  <2> QED BY <1>22, <2>2, <2>3 DEF SupersedeProposal
<1>23. ASSUME NEW a \in Actions, ReconcileStale(a) PROVE AggregateInv'
  <2>1. RunStatusAggregates'
    BY <1>23, ReconcileStaleAggregates DEF ReconcileStale, Stale
  <2> QED BY <1>23, <2>1 DEF ReconcileStale, Stale
<1>24. ASSUME NEW r \in Runs, Fence(r) PROVE AggregateInv'
  BY <1>24, AggregateFrame DEF Fence, Abandoned, Alive
<1>25. ASSUME NEW r \in Runs, Recover(r) PROVE AggregateInv'
  <2>1. RunStatusAggregates'
    BY <1>25, InterruptAggregates DEF Recover
  <2>2. InterruptSummary(r)
    BY <1>25, InterruptEffect DEF Recover
  <2> QED BY <1>25, <2>1, <2>2 DEF Recover, InterruptSummary
<1>26. ASSUME ReconcilerCrash PROVE AggregateInv'
  BY <1>26, AggregateFrame DEF ReconcilerCrash, Alive
<1>27. ASSUME NEW t \in Tasks, NEW s \in {"active", "complete"},
             MergeStatus(t, s)
      PROVE  AggregateInv'
  BY <1>27, AggregateFrame DEF MergeStatus, Alive
<1>28. ASSUME NEW t \in Tasks, CancelTask(t) PROVE AggregateInv'
  BY <1>28, AggregateFrame DEF CancelTask, Alive
<1>29. ASSUME NEW t \in Tasks, NEW a \in Actions, CleanupAction(t, a)
      PROVE  AggregateInv'
  <2>1. actStatus[a] = "prepared" => actRun[a] \in Runs
    OBVIOUS
  <2>2. CASE actStatus[a] = "prepared"
    <3>1. /\ actRun' = actRun /\ actStatus' = [actStatus EXCEPT ![a] = "cancelled"]
          /\ Recompute(actRun[a], StatusesWith(actRun[a], a, "cancelled"))
          /\ UNCHANGED <<runKind, inference, pc>>
      BY <1>29, <2>2 DEF CleanupAction, CancelPrepared
    <3>2. RunStatusAggregates'
      BY <2>1, <2>2, <3>1, RecomputeAggregates
    <3> QED BY <3>1, <3>2
  <2>3. CASE actStatus[a] # "prepared"
    BY <1>29, <2>3, AggregateFrame DEF CleanupAction
  <2> QED BY <2>2, <2>3
<1>30. ASSUME NEW t \in Tasks, NEW r \in Runs, CleanupRun(t, r)
      PROVE  AggregateInv'
  <2>1. RunStatusAggregates'
    BY <1>30, InterruptAggregates DEF CleanupRun
  <2>2. InterruptSummary(r)
    BY <1>30, InterruptEffect DEF CleanupRun
  <2> QED BY <1>30, <2>1, <2>2 DEF CleanupRun, InterruptSummary
<1>31. ASSUME NEW t \in Tasks, CleanupDone(t) PROVE AggregateInv'
  BY <1>31, AggregateFrame DEF CleanupDone, Alive
<1>32. ASSUME NEW t \in Tasks, CleanupCrash(t) PROVE AggregateInv'
  BY <1>32, AggregateFrame DEF CleanupCrash, Alive
<1>33. CASE UNCHANGED vars
  BY <1>33, AggregateFrame DEF vars, runVars, actionVars, cancelVars
<1> HIDE ConstantsAssumption DEF ConstantsAssumption, TypeOK, Domains,
     References, AggregateInv, Processes, runVars, actionVars, cancelVars
<1>34. CASE \E r \in Runs : RunStep(r)
  BY <1>34, <1>1, <1>2, <1>3, <1>4, <1>5, <1>6, <1>7,
     <1>7a, <1>7b, <1>8, <1>9, <1>10
       DEF RunStep
<1>35. CASE \E p \in Processes : ProcessStep(p)
  BY <1>35, <1>11, <1>12, <1>13, <1>14 DEF ProcessStep
<1>36. CASE \E q \in Requests : RequestStep(q)
  BY <1>36, <1>15, <1>16, <1>17, <1>18 DEF RequestStep
<1>37. CASE OwnerStep
  BY <1>37, <1>19, <1>20 DEF OwnerStep
<1>38. CASE \E a \in Actions : ActionAges(a) \/ SupersedeProposal(a)
  BY <1>38, <1>21, <1>22
<1>39. CASE ReconcilerStep
  BY <1>39, <1>23, <1>24, <1>25, <1>26 DEF ReconcilerStep
<1>40. CASE \E t \in Tasks : TaskStep(t)
  BY <1>40, <1>27, <1>28, <1>29, <1>30, <1>31, <1>32 DEF TaskStep
<1> QED BY <1>33, <1>34, <1>35, <1>36, <1>37, <1>38, <1>39, <1>40 DEF Next

-----------------------------------------------------------------------------
(* Cancellation, and what is final.                                        *)

\* Every step keeps what cancel_task has to clean up on the lists it read.
LEMMA CancelStep == TypeOK /\ InferenceInv /\ CancelInv /\ [Next]_vars => CancelInv'
<1> SUFFICES ASSUME TypeOK, InferenceInv, CancelInv, [Next]_vars PROVE CancelInv'
  OBVIOUS
<1> USE ConstantsAssumption DEF ConstantsAssumption, TypeOK, Domains,
     References, CancelInv, Transcripts, Processes, runVars, actionVars,
     cancelVars
<1>1. ASSUME NEW r \in Runs, NEW c \in Chats, OwnerMessage(r, c)
      PROVE  CancelInv'
  BY <1>1 DEF OwnerMessage, InsertRun
<1>2. ASSUME NEW r \in Runs, NEW t \in Tasks, ClaimTask(r, t) PROVE CancelInv'
  BY <1>2 DEF ClaimTask, InsertRun
<1>3. ASSUME NEW r \in Runs, Heartbeat(r) PROVE CancelInv'
  BY <1>3 DEF Heartbeat
<1>4. ASSUME NEW r \in Runs, HeartbeatAges(r) PROVE CancelInv'
  BY <1>4 DEF HeartbeatAges
<1>5. ASSUME NEW r \in Runs, FinishRun(r) PROVE CancelInv'
  BY <1>5 DEF FinishRun
<1>6. ASSUME NEW r \in Runs, StopInference(r) PROVE CancelInv'
  <2>1. InterruptSummary(r)
    BY <1>6, InterruptEffect DEF StopInference
  <2> QED BY <1>6, <2>1 DEF StopInference, InterruptSummary
<1>7. ASSUME NEW r \in Runs, BeginRead(r) PROVE CancelInv'
  BY <1>7 DEF BeginRead
<1>7a. ASSUME NEW r \in Runs, ResolutionFails(r) PROVE CancelInv'
  BY <1>7a DEF ResolutionFails
<1>7b. ASSUME NEW r \in Runs, DispatchUnrecorded(r) PROVE CancelInv'
  BY <1>7b DEF DispatchUnrecorded
<1>8. ASSUME NEW r \in Runs, NEW a \in Actions, Propose(r, a) PROVE CancelInv'
  BY <1>8 DEF Propose, Unused, ManagedTaskActive, Managed
<1>9. ASSUME NEW r \in Runs, NEW a \in Actions, BeginAutomatic(r, a)
      PROVE  CancelInv'
  BY <1>9 DEF BeginAutomatic, Unused
<1>10. ASSUME NEW r \in Runs, NEW a \in Actions, NEW s \in {"succeeded", "failed"},
             RecordExecution(r, a, s)
      PROVE  CancelInv'
  BY <1>10 DEF RecordExecution, Unused
<1>11. ASSUME NEW p \in Processes, Dispatch(p) PROVE CancelInv'
  BY <1>11 DEF Dispatch
<1>12. ASSUME NEW p \in Processes, Refuse(p) PROVE CancelInv'
  BY <1>12 DEF Refuse
<1>13. ASSUME NEW p \in Processes, NEW s \in Settled, FinishAction(p, s)
      PROVE  CancelInv'
  BY <1>13 DEF FinishAction, InFlight, Complete, Outcomes, Settled
<1>14. ASSUME NEW p \in Processes, Crash(p) PROVE CancelInv'
  BY <1>14 DEF Crash
<1>15. ASSUME NEW q \in Requests, NEW a \in Actions, NEW approve \in BOOLEAN,
             CheckDecision(q, a, approve)
      PROVE  CancelInv'
  BY <1>15 DEF CheckDecision
<1>16. ASSUME NEW q \in Requests, BeginExecution(q) PROVE CancelInv'
  BY <1>16 DEF BeginExecution, Referring, Holding
<1>17. ASSUME NEW q \in Requests, RejectDecision(q) PROVE CancelInv'
  BY <1>17 DEF RejectDecision
<1>18. ASSUME NEW q \in Requests, CancelAction(q) PROVE CancelInv'
  BY <1>18 DEF CancelAction, CancelPrepared, Referring, Holding
<1>19. ASSUME NEW a \in Actions, Acknowledge(a) PROVE CancelInv'
  BY <1>19 DEF Acknowledge
<1>20. ASSUME NEW S \in SUBSET Runs, DismissNotices(S) PROVE CancelInv'
  BY <1>20 DEF DismissNotices
<1>21. ASSUME NEW a \in Actions, ActionAges(a) PROVE CancelInv'
  BY <1>21 DEF ActionAges
<1>22. ASSUME NEW a \in Actions, SupersedeProposal(a) PROVE CancelInv'
  BY <1>22 DEF SupersedeProposal, CancelPrepared
<1>23. ASSUME NEW a \in Actions, ReconcileStale(a) PROVE CancelInv'
  BY <1>23 DEF ReconcileStale, Stale
<1>24. ASSUME NEW r \in Runs, Fence(r) PROVE CancelInv'
  BY <1>24 DEF Fence, Abandoned
<1>25. ASSUME NEW r \in Runs, Recover(r) PROVE CancelInv'
  <2>1. InterruptSummary(r)
    BY <1>25, InterruptEffect DEF Recover
  <2> QED BY <1>25, <2>1 DEF Recover, InterruptSummary
<1>26. ASSUME ReconcilerCrash PROVE CancelInv'
  BY <1>26 DEF ReconcilerCrash
<1>27. ASSUME NEW t \in Tasks, NEW s \in {"active", "complete"},
             MergeStatus(t, s)
      PROVE  CancelInv'
  BY <1>27 DEF MergeStatus
<1>28. ASSUME NEW t \in Tasks, CancelTask(t) PROVE CancelInv'
  BY <1>28 DEF CancelTask
<1>29. ASSUME NEW t \in Tasks, NEW a \in Actions, CleanupAction(t, a)
      PROVE  CancelInv'
  BY <1>29 DEF CleanupAction, CancelPrepared
<1>30. ASSUME NEW t \in Tasks, NEW r \in Runs, CleanupRun(t, r) PROVE CancelInv'
  <2>1. InterruptSummary(r)
    BY <1>30, InterruptEffect DEF CleanupRun
  <2> QED BY <1>30, <2>1 DEF CleanupRun, InterruptSummary, InferenceInv
<1>31. ASSUME NEW t \in Tasks, CleanupDone(t) PROVE CancelInv'
  BY <1>31 DEF CleanupDone
<1>32. ASSUME NEW t \in Tasks, CleanupCrash(t) PROVE CancelInv'
  BY <1>32 DEF CleanupCrash
<1>33. CASE UNCHANGED vars
  BY <1>33 DEF vars, runVars, actionVars, cancelVars
<1> HIDE ConstantsAssumption DEF ConstantsAssumption, TypeOK, Domains,
     References, CancelInv, Transcripts, Processes, runVars, actionVars,
     cancelVars
<1>34. CASE \E r \in Runs : RunStep(r)
  BY <1>34, <1>1, <1>2, <1>3, <1>4, <1>5, <1>6, <1>7,
     <1>7a, <1>7b, <1>8, <1>9, <1>10
       DEF RunStep
<1>35. CASE \E p \in Processes : ProcessStep(p)
  BY <1>35, <1>11, <1>12, <1>13, <1>14 DEF ProcessStep
<1>36. CASE \E q \in Requests : RequestStep(q)
  BY <1>36, <1>15, <1>16, <1>17, <1>18 DEF RequestStep
<1>37. CASE OwnerStep
  BY <1>37, <1>19, <1>20 DEF OwnerStep
<1>38. CASE \E a \in Actions : ActionAges(a) \/ SupersedeProposal(a)
  BY <1>38, <1>21, <1>22
<1>39. CASE ReconcilerStep
  BY <1>39, <1>23, <1>24, <1>25, <1>26 DEF ReconcilerStep
<1>40. CASE \E t \in Tasks : TaskStep(t)
  BY <1>40, <1>27, <1>28, <1>29, <1>30, <1>31, <1>32 DEF TaskStep
<1> QED BY <1>33, <1>34, <1>35, <1>36, <1>37, <1>38, <1>39, <1>40 DEF Next

\* No step rewrites a settled action.
LEMMA SettledStep ==
    TypeOK /\ [Next]_vars =>
        \A x \in Actions : actStatus[x] \in Settled => actStatus'[x] = actStatus[x]
<1> SUFFICES ASSUME TypeOK, [Next]_vars
             PROVE  \A x \in Actions : actStatus[x] \in Settled => actStatus'[x] = actStatus[x]
  OBVIOUS

     <1> DEFINE Kept == \A x \in Actions : actStatus[x] \in Settled => actStatus'[x] = actStatus[x]
<1> USE ConstantsAssumption DEF ConstantsAssumption, TypeOK, Domains,
     References, Settled, Processes, Referring, Holding, runVars, actionVars,
     cancelVars
<1>1. ASSUME NEW r \in Runs, NEW c \in Chats, OwnerMessage(r, c) PROVE Kept
  BY <1>1 DEF OwnerMessage, InsertRun
<1>2. ASSUME NEW r \in Runs, NEW t \in Tasks, ClaimTask(r, t) PROVE Kept
  BY <1>2 DEF ClaimTask, InsertRun
<1>3. ASSUME NEW r \in Runs, Heartbeat(r) PROVE Kept
  BY <1>3 DEF Heartbeat
<1>4. ASSUME NEW r \in Runs, HeartbeatAges(r) PROVE Kept
  BY <1>4 DEF HeartbeatAges
<1>5. ASSUME NEW r \in Runs, FinishRun(r) PROVE Kept
  BY <1>5 DEF FinishRun
<1>6. ASSUME NEW r \in Runs, StopInference(r) PROVE Kept
  <2>1. InterruptSummary(r)
    BY <1>6, InterruptEffect DEF StopInference
  <2> QED BY <1>6, <2>1 DEF StopInference, InterruptSummary
<1>7. ASSUME NEW r \in Runs, BeginRead(r) PROVE Kept
  BY <1>7 DEF BeginRead
<1>7a. ASSUME NEW r \in Runs, ResolutionFails(r) PROVE Kept
  BY <1>7a DEF ResolutionFails
<1>7b. ASSUME NEW r \in Runs, DispatchUnrecorded(r) PROVE Kept
  BY <1>7b DEF DispatchUnrecorded
<1>8. ASSUME NEW r \in Runs, NEW a \in Actions, Propose(r, a) PROVE Kept
  BY <1>8 DEF Propose, Unused
<1>9. ASSUME NEW r \in Runs, NEW a \in Actions, BeginAutomatic(r, a) PROVE Kept
  BY <1>9 DEF BeginAutomatic, Unused
<1>10. ASSUME NEW r \in Runs, NEW a \in Actions, NEW s \in {"succeeded", "failed"},
             RecordExecution(r, a, s)
      PROVE  Kept
  BY <1>10 DEF RecordExecution, Unused
<1>11. ASSUME NEW p \in Processes, Dispatch(p) PROVE Kept
  BY <1>11 DEF Dispatch
<1>12. ASSUME NEW p \in Processes, Refuse(p) PROVE Kept
  BY <1>12 DEF Refuse
<1>13. ASSUME NEW p \in Processes, NEW s \in Settled, FinishAction(p, s)
      PROVE  Kept
  BY <1>13 DEF FinishAction, InFlight, Complete
<1>14. ASSUME NEW p \in Processes, Crash(p) PROVE Kept
  BY <1>14 DEF Crash
<1>15. ASSUME NEW q \in Requests, NEW a \in Actions, NEW approve \in BOOLEAN,
             CheckDecision(q, a, approve)
      PROVE  Kept
  BY <1>15 DEF CheckDecision
<1>16. ASSUME NEW q \in Requests, BeginExecution(q) PROVE Kept
  BY <1>16 DEF BeginExecution, Executable
<1>17. ASSUME NEW q \in Requests, RejectDecision(q) PROVE Kept
  BY <1>17 DEF RejectDecision
<1>18. ASSUME NEW q \in Requests, CancelAction(q) PROVE Kept
  BY <1>18 DEF CancelAction, CancelPrepared
<1>19. ASSUME NEW a \in Actions, Acknowledge(a) PROVE Kept
  BY <1>19 DEF Acknowledge
<1>20. ASSUME NEW S \in SUBSET Runs, DismissNotices(S) PROVE Kept
  BY <1>20 DEF DismissNotices
<1>21. ASSUME NEW a \in Actions, ActionAges(a) PROVE Kept
  BY <1>21 DEF ActionAges
<1>22. ASSUME NEW a \in Actions, SupersedeProposal(a) PROVE Kept
  BY <1>22 DEF SupersedeProposal, CancelPrepared, Recompute
<1>23. ASSUME NEW a \in Actions, ReconcileStale(a) PROVE Kept
  BY <1>23 DEF ReconcileStale, Stale
<1>24. ASSUME NEW r \in Runs, Fence(r) PROVE Kept
  BY <1>24 DEF Fence, Abandoned
<1>25. ASSUME NEW r \in Runs, Recover(r) PROVE Kept
  <2>1. InterruptSummary(r)
    BY <1>25, InterruptEffect DEF Recover
  <2> QED BY <1>25, <2>1 DEF Recover, InterruptSummary
<1>26. ASSUME ReconcilerCrash PROVE Kept
  BY <1>26 DEF ReconcilerCrash
<1>27. ASSUME NEW t \in Tasks, NEW s \in {"active", "complete"},
             MergeStatus(t, s)
      PROVE  Kept
  BY <1>27 DEF MergeStatus
<1>28. ASSUME NEW t \in Tasks, CancelTask(t) PROVE Kept
  BY <1>28 DEF CancelTask
<1>29. ASSUME NEW t \in Tasks, NEW a \in Actions, CleanupAction(t, a) PROVE Kept
  BY <1>29 DEF CleanupAction, CancelPrepared, Recompute
<1>30. ASSUME NEW t \in Tasks, NEW r \in Runs, CleanupRun(t, r) PROVE Kept
  <2>1. InterruptSummary(r)
    BY <1>30, InterruptEffect DEF CleanupRun
  <2> QED BY <1>30, <2>1 DEF CleanupRun, InterruptSummary
<1>31. ASSUME NEW t \in Tasks, CleanupDone(t) PROVE Kept
  BY <1>31 DEF CleanupDone
<1>32. ASSUME NEW t \in Tasks, CleanupCrash(t) PROVE Kept
  BY <1>32 DEF CleanupCrash
<1>33. CASE UNCHANGED vars
  BY <1>33 DEF vars, runVars, actionVars, cancelVars
<1> HIDE ConstantsAssumption DEF ConstantsAssumption, TypeOK, Domains,
     References, Settled, Processes, Referring, Holding, runVars, actionVars,
     cancelVars
<1>34. CASE \E r \in Runs : RunStep(r)
  BY <1>34, <1>1, <1>2, <1>3, <1>4, <1>5, <1>6, <1>7,
     <1>7a, <1>7b, <1>8, <1>9, <1>10
       DEF RunStep
<1>35. CASE \E p \in Processes : ProcessStep(p)
  BY <1>35, <1>11, <1>12, <1>13, <1>14 DEF ProcessStep
<1>36. CASE \E q \in Requests : RequestStep(q)
  BY <1>36, <1>15, <1>16, <1>17, <1>18 DEF RequestStep
<1>37. CASE OwnerStep
  BY <1>37, <1>19, <1>20 DEF OwnerStep
<1>38. CASE \E a \in Actions : ActionAges(a) \/ SupersedeProposal(a)
  BY <1>38, <1>21, <1>22
<1>39. CASE ReconcilerStep
  BY <1>39, <1>23, <1>24, <1>25, <1>26 DEF ReconcilerStep
<1>40. CASE \E t \in Tasks : TaskStep(t)
  BY <1>40, <1>27, <1>28, <1>29, <1>30, <1>31, <1>32 DEF TaskStep
<1> QED BY <1>33, <1>34, <1>35, <1>36, <1>37, <1>38, <1>39, <1>40 DEF Next

-----------------------------------------------------------------------------
(* The theorems.                                                           *)

\* The invariants together are inductive.
Inv == TypeOK /\ EffectInv /\ LedgerInv /\ InferenceInv /\ AggregateInv /\ CancelInv

\* The empty ledger satisfies every invariant.
LEMMA InitInv == Init => Inv
<1> SUFFICES ASSUME Init PROVE Inv
  OBVIOUS
<1>1. TypeOK
  BY InitType
<1>2. EffectInv
  BY ConstantsAssumption DEF ConstantsAssumption, Init, EffectInv, Processes,
       Holding
<1>3. LedgerInv
  BY DEF Init, LedgerInv, AttentionMatchesLedger
<1>4. InferenceInv
  BY DEF Init, InferenceInv, NoAbandonedExecution, OneLiveInference
<1>5. AggregateInv
  BY DEF Init, AggregateInv, RunStatusAggregates
<1>6. CancelInv
  BY ConstantsAssumption DEF ConstantsAssumption, Init, CancelInv
<1> QED BY <1>1, <1>2, <1>3, <1>4, <1>5, <1>6 DEF Inv

\* In every state the ledger can reach, all the invariants hold.
LEMMA Invariance == Spec => []Inv
<1>1. Inv /\ [Next]_vars => Inv'
  BY NextType, EffectStep, LedgerStep, InferenceStep, AggregateStep, CancelStep
       DEF Inv
<1> QED BY InitInv, <1>1, PTL DEF Spec

\* Type correctness: the tables of actions/authority.py keep their domains, and
\* no process or action row refers to something that does not exist.
THEOREM TypeCorrect == Spec => []TypeOK
<1>1. Inv => TypeOK
  BY DEF Inv
<1> QED BY Invariance, <1>1, PTL

\* For any number of approvals, cancellations, recoveries and crashes, the
\* external effect of one action leaves Atlas at most once.
THEOREM EffectUniqueness == Spec => []AtMostOneEffect
<1>1. Inv => AtMostOneEffect
  BY DEF Inv, EffectInv, AtMostOneEffect
<1> QED BY Invariance, <1>1, PTL

\* The effect of an action that was not approved, or was cancelled, never
\* happened and no process is about to make it happen; and an effect leaves
\* Atlas without any action row only in a call whose authority could not be
\* resolved at first.
THEOREM EffectIntent == Spec => []NoEffectWithoutIntent
<1>1. Inv => NoEffectWithoutIntent
  <2> SUFFICES ASSUME Inv
               PROVE  NoEffectWithoutIntent
    OBVIOUS
  <2>1. ASSUME NEW a \in Actions, actStatus[a] \in Unissued
        PROVE  /\ effects[a] = 0
               /\ \A p \in Processes : ~(act[p] = a /\ pc[p] \in Holding)
    BY <2>1 DEF Inv, EffectInv
  <2>2. \A r \in Runs : pc[r] = "unrecorded" => r \in unresolved
    BY DEF Inv, EffectInv
  <2> QED BY <2>1, <2>2 DEF NoEffectWithoutIntent, Unissued
<1> QED BY Invariance, <1>1, PTL

\* The owner's queue tells the truth about the ledger.
THEOREM QueueIsTruthful == Spec => []AttentionMatchesLedger
<1>1. Inv => AttentionMatchesLedger
  BY DEF Inv, LedgerInv
<1> QED BY Invariance, <1>1, PTL

\* No effect an inference started on its own is left executing after it ended.
THEOREM NothingAbandoned == Spec => []NoAbandonedExecution
<1>1. Inv => NoAbandonedExecution
  BY DEF Inv, InferenceInv
<1> QED BY Invariance, <1>1, PTL

\* At most one inference is live per conversation and per managed task.
THEOREM SingleInference == Spec => []OneLiveInference
<1>1. Inv => OneLiveInference
  BY DEF Inv, InferenceInv
<1> QED BY Invariance, <1>1, PTL

\* Once inference has ended, the status shown for a run is the aggregate of its
\* actions, although three writers do not recompute it.
THEOREM StatusIsAggregate == Spec => []RunStatusAggregates
<1>1. Inv => RunStatusAggregates
  BY DEF Inv, AggregateInv
<1> QED BY Invariance, <1>1, PTL

\* A completed cancellation leaves no proposal to approve and no live inference.
THEOREM CancellationIsClean == Spec => []CancelCleansUp
<1>1. Inv => CancelCleansUp
  BY ConstantsAssumption
     DEF ConstantsAssumption, Inv, CancelInv, CancelCleansUp
<1> QED BY Invariance, <1>1, PTL

\* No late result, second decision or recovery rewrites a settled action.
THEOREM SettledActionsAreFinal == Spec => SettledIsFinal
<1>1. TypeOK /\ [Next]_vars =>
        [\A a \in Actions : actStatus[a] \in Settled => actStatus'[a] = actStatus[a]]_vars
  BY SettledStep
<1> QED BY TypeCorrect, <1>1, PTL DEF Spec, SettledIsFinal
=============================================================================
