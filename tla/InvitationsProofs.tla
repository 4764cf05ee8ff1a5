-------------------------- MODULE InvitationsProofs --------------------------
(***************************************************************************)
(* Proofs about Invitations, for every value of the constants that meets  *)
(* ConstantsAssumption.                                                     *)
(***************************************************************************)
EXTENDS Invitations, TLAPS

USE ConstantsAssumption

(***************************************************************************)
(* Type correctness: every step of the tasks, the views and the clock      *)
(* keeps the table, the clock and the task queue in their types.           *)
(***************************************************************************)
LEMMA TypeStep == TypeOK /\ [Next]_vars => TypeOK'
<1> SUFFICES ASSUME TypeOK, [Next]_vars PROVE TypeOK'
  OBVIOUS
<1>1. ASSUME NEW i \in Invitation, CreateInvitation(i) PROVE TypeOK'
  BY <1>1 DEF CreateInvitation, TypeOK, States
<1>2. ASSUME NEW i \in Invitation, AcceptInvitation(i) PROVE TypeOK'
  BY <1>2 DEF AcceptInvitation, TypeOK, States
<1>3. ASSUME NEW i \in Invitation, RequestSend(i) PROVE TypeOK'
  BY <1>3 DEF RequestSend, TypeOK
<1>4. ASSUME NEW i \in Invitation, LoadInvitation(i) PROVE TypeOK'
  BY <1>4 DEF LoadInvitation, TypeOK
<1>5. ASSUME NEW i \in Invitation, SendSucceeded(i) PROVE TypeOK'
  BY <1>5 DEF SendSucceeded, TypeOK, States
<1>6. ASSUME NEW i \in Invitation, SendFailed(i) PROVE TypeOK'
  BY <1>6 DEF SendFailed, TypeOK, States
<1>7. CASE Tick
  BY <1>7 DEF Tick, TypeOK
<1>8. CASE ScheduleCancel
  <2>1. NoArgument \in Task
    BY DEF NoArgument, Task
  <2>2. QED
    BY <1>8, <2>1 DEF ScheduleCancel, TypeOK
<1>9. ASSUME NEW S \in SUBSET Invitation, CallCancel(S) PROVE TypeOK'
  <2>1. [given |-> TRUE, sel |-> S] \in Task
    BY DEF Task
  <2>2. QED
    BY <1>9, <2>1 DEF CallCancel, TypeOK
<1>10. ASSUME NEW t \in queue, RunCancel(t) PROVE TypeOK'
  BY <1>10 DEF RunCancel, TypeOK, States
<1>11. CASE UNCHANGED vars
  BY <1>11 DEF vars, TypeOK
<1>12. QED
  BY <1>1, <1>2, <1>3, <1>4, <1>5, <1>6, <1>7, <1>8, <1>9, <1>10, <1>11 DEF Next

THEOREM TypeCorrect == Spec => []TypeOK
<1>1. Init => TypeOK
  BY DEF Init, TypeOK, States
<1>2. QED
  BY <1>1, TypeStep, PTL DEF Spec

-----------------------------------------------------------------------------
(***************************************************************************)
(* ExpiredOnlyWhenOld holds in every state, whoever calls the task:        *)
(* cancel_expired_invitations expires a row only when                       *)
(* created <= now - INVITATION_LIFETIME at the time the worker runs, and   *)
(* the clock never goes back, so the row stays old.  The invariant is      *)
(* inductive together with TypeOK (the clock and the stamps are numbers).  *)
(***************************************************************************)
IInvOld == TypeOK /\ ExpiredOnlyWhenOld

LEMMA OldStep == IInvOld /\ [Next]_vars => ExpiredOnlyWhenOld'
<1> SUFFICES ASSUME TypeOK, ExpiredOnlyWhenOld, [Next]_vars
             PROVE  ExpiredOnlyWhenOld'
  BY DEF IInvOld
<1>1. ASSUME NEW i \in Invitation, CreateInvitation(i) PROVE ExpiredOnlyWhenOld'
  BY <1>1 DEF CreateInvitation, ExpiredOnlyWhenOld, Old, TypeOK
<1>2. ASSUME NEW i \in Invitation, AcceptInvitation(i) PROVE ExpiredOnlyWhenOld'
  BY <1>2 DEF AcceptInvitation, ExpiredOnlyWhenOld, Old, TypeOK
<1>3. ASSUME NEW i \in Invitation,
             RequestSend(i) \/ LoadInvitation(i) \/ SendSucceeded(i) \/ SendFailed(i)
      PROVE  ExpiredOnlyWhenOld'
  BY <1>3 DEF RequestSend, LoadInvitation, SendSucceeded, SendFailed,
              ExpiredOnlyWhenOld, Old
<1>4. CASE Tick
  BY <1>4 DEF Tick, ExpiredOnlyWhenOld, Old, TypeOK
<1>5. CASE ScheduleCancel \/ \E S \in SUBSET Invitation : CallCancel(S)
  BY <1>5 DEF ScheduleCancel, CallCancel, ExpiredOnlyWhenOld, Old
<1>6. ASSUME NEW t \in queue, RunCancel(t) PROVE ExpiredOnlyWhenOld'
  <2> SUFFICES ASSUME NEW i \in Invitation, state'[i] = "expired"
               PROVE  created[i] + Lifetime <= now
    BY <1>6 DEF RunCancel, ExpiredOnlyWhenOld, Old
  <2>1. CASE i \in CancelHits(t)
    BY <2>1 DEF CancelHits, TypeOK
  <2>2. CASE i \notin CancelHits(t)
    BY <1>6, <2>2 DEF RunCancel, ExpiredOnlyWhenOld, Old
  <2>3. QED
    BY <2>1, <2>2
<1>7. CASE UNCHANGED vars
  BY <1>7 DEF vars, ExpiredOnlyWhenOld, Old
<1>8. QED
  BY <1>1, <1>2, <1>3, <1>4, <1>5, <1>6, <1>7 DEF Next

THEOREM ExpiredOnlyWhenOldInv == Spec => []ExpiredOnlyWhenOld
<1>1. Init => IInvOld
  BY DEF Init, IInvOld, TypeOK, States, ExpiredOnlyWhenOld
<1>2. IInvOld /\ [Next]_vars => IInvOld'
  BY TypeStep, OldStep DEF IInvOld
<1>3. QED
  BY <1>1, <1>2, PTL DEF Spec, IInvOld

-----------------------------------------------------------------------------
(***************************************************************************)
(* Under the periodic schedule alone (no caller passes its own selection), *)
(* every queued cancel_expired_invitations call is the call without        *)
(* argument, so the task selects only PENDING rows.                         *)
(***************************************************************************)
OnlyScheduledTasks == \A t \in queue : ~t.given

LEMMA ScheduledStep ==
    ASSUME ~ExplicitCalls
    PROVE  OnlyScheduledTasks /\ [Next]_vars => OnlyScheduledTasks'
<1> SUFFICES ASSUME OnlyScheduledTasks, [Next]_vars PROVE OnlyScheduledTasks'
  OBVIOUS
<1>1. CASE ScheduleCancel
  BY <1>1 DEF ScheduleCancel, OnlyScheduledTasks, NoArgument
<1>2. CASE \E S \in SUBSET Invitation : CallCancel(S)
  BY <1>2 DEF CallCancel
<1>3. ASSUME NEW t \in queue, RunCancel(t) PROVE OnlyScheduledTasks'
  BY <1>3 DEF RunCancel, OnlyScheduledTasks
<1>4. CASE \/ \E i \in Invitation :
              \/ CreateInvitation(i) \/ AcceptInvitation(i)
              \/ RequestSend(i) \/ LoadInvitation(i)
              \/ SendSucceeded(i) \/ SendFailed(i)
           \/ Tick \/ UNCHANGED vars
  BY <1>4 DEF CreateInvitation, AcceptInvitation, RequestSend, LoadInvitation,
              SendSucceeded, SendFailed, Tick, vars, OnlyScheduledTasks
<1>5. QED
  BY <1>1, <1>2, <1>3, <1>4 DEF Next

\* A run of the call without argument expires only rows that are PENDING.
LEMMA ScheduledHitsPending ==
    ASSUME NEW t \in queue, OnlyScheduledTasks
    PROVE  CancelHits(t) \subseteq Pending
BY DEF OnlyScheduledTasks, CancelHits, CancelSelection

\* The step relation that StatesNeverRevert requires of every step.
NeverRevertStep ==
    \A i \in Invitation :
        state'[i] # state[i] => <<state[i], state'[i]>> \in AllowedTransition

(***************************************************************************)
(* StatesNeverRevert, for every number of rows, lifetime and clock bound:  *)
(* when only the periodic schedule calls cancel_expired_invitations, no    *)
(* step moves an invitation other than absent -> PENDING -> ACCEPTED |     *)
(* EXPIRED.  The failing send_invitation cannot revert an expiry because   *)
(* it saves error_message alone.                                            *)
(***************************************************************************)
LEMMA NeverRevertOfStep ==
    ASSUME TypeOK, OnlyScheduledTasks, [Next]_vars
    PROVE  [NeverRevertStep]_vars
<1>1. ASSUME NEW i \in Invitation, CreateInvitation(i) PROVE NeverRevertStep
  BY <1>1 DEF CreateInvitation, NeverRevertStep, AllowedTransition, TypeOK
<1>2. ASSUME NEW i \in Invitation, AcceptInvitation(i) PROVE NeverRevertStep
  BY <1>2 DEF AcceptInvitation, NeverRevertStep, AllowedTransition, TypeOK
<1>3. ASSUME NEW t \in queue, RunCancel(t) PROVE NeverRevertStep
  <2>1. CancelHits(t) \subseteq Pending
    BY ScheduledHitsPending
  <2>2. QED
    BY <1>3, <2>1 DEF RunCancel, Pending, NeverRevertStep, AllowedTransition
<1>4. CASE \/ \E i \in Invitation :
              \/ RequestSend(i) \/ LoadInvitation(i)
              \/ SendSucceeded(i) \/ SendFailed(i)
           \/ Tick \/ ScheduleCancel \/ \E S \in SUBSET Invitation : CallCancel(S)
  BY <1>4 DEF RequestSend, LoadInvitation, SendSucceeded, SendFailed, Tick,
              ScheduleCancel, CallCancel, NeverRevertStep
<1>5. CASE UNCHANGED vars
  BY <1>5
<1>6. QED
  BY <1>1, <1>2, <1>3, <1>4, <1>5 DEF Next

THEOREM StatesNeverRevertThm ==
    ASSUME ~ExplicitCalls
    PROVE  Spec => StatesNeverRevert
<1>1. Init => OnlyScheduledTasks
  BY DEF Init, OnlyScheduledTasks
<1>2. Spec => [](TypeOK /\ OnlyScheduledTasks)
  BY <1>1, TypeCorrect, ScheduledStep, PTL DEF Spec
<1>3. TypeOK /\ OnlyScheduledTasks /\ [Next]_vars => [NeverRevertStep]_vars
  BY NeverRevertOfStep
<1>4. QED
  BY <1>2, <1>3, PTL DEF Spec, StatesNeverRevert, NeverRevertStep

-----------------------------------------------------------------------------
(***************************************************************************)
(* Refinement: under the periodic schedule, the tasks implement the        *)
(* lifecycle of spec.md (InvitationLifecycle) with the identity mapping on *)
(* state, created and now.  A run of cancel_expired_invitations that hits  *)
(* some rows is one Expire step of the lifecycle, one that hits none is a  *)
(* stutter, and the send_invitation steps and the calls are stutters.      *)
(***************************************************************************)
LifecycleVars == <<state, created, now>>

LEMMA RunCancelRefines ==
    ASSUME TypeOK, OnlyScheduledTasks, NEW t \in queue, RunCancel(t)
    PROVE  [Lifecycle!Next]_LifecycleVars
<1>1. CASE CancelHits(t) = {}
  <2>1. state' = state
    BY <1>1 DEF RunCancel, TypeOK
  <2>2. QED
    BY <2>1 DEF RunCancel, LifecycleVars
<1>2. CASE CancelHits(t) # {}
  <2>1. \A i \in CancelHits(t) : state[i] = "pending" /\ created[i] + Lifetime <= now
    BY ScheduledHitsPending DEF CancelHits, Pending, TypeOK
  <2>2. Lifecycle!Expire(CancelHits(t))
    BY <1>2, <2>1 DEF RunCancel, Lifecycle!Expire, Lifecycle!Old
  <2>3. CancelHits(t) \in SUBSET Invitation
    BY ScheduledHitsPending DEF Pending
  <2>4. QED
    BY <2>2, <2>3 DEF Lifecycle!Next
<1>3. QED
  BY <1>1, <1>2

LEMMA StepRefines ==
    ASSUME TypeOK, OnlyScheduledTasks, [Next]_vars
    PROVE  [Lifecycle!Next]_LifecycleVars
<1>1. ASSUME NEW i \in Invitation, CreateInvitation(i)
      PROVE  [Lifecycle!Next]_LifecycleVars
  BY <1>1 DEF CreateInvitation, Lifecycle!Next, Lifecycle!Create
<1>2. ASSUME NEW i \in Invitation, AcceptInvitation(i)
      PROVE  [Lifecycle!Next]_LifecycleVars
  BY <1>2 DEF AcceptInvitation, Lifecycle!Next, Lifecycle!Accept
<1>3. CASE Tick
  BY <1>3 DEF Tick, Lifecycle!Next, Lifecycle!Tick
<1>4. ASSUME NEW t \in queue, RunCancel(t)
      PROVE  [Lifecycle!Next]_LifecycleVars
  BY <1>4, RunCancelRefines
<1>5. CASE \/ \E i \in Invitation :
              \/ RequestSend(i) \/ LoadInvitation(i)
              \/ SendSucceeded(i) \/ SendFailed(i)
           \/ ScheduleCancel \/ \E S \in SUBSET Invitation : CallCancel(S)
           \/ UNCHANGED vars
  BY <1>5 DEF RequestSend, LoadInvitation, SendSucceeded, SendFailed,
              ScheduleCancel, CallCancel, vars, LifecycleVars
<1>6. QED
  BY <1>1, <1>2, <1>3, <1>4, <1>5 DEF Next

(***************************************************************************)
(* LifecycleSpec, for every value of the constants: when only the periodic *)
(* schedule calls cancel_expired_invitations, every behaviour of the tasks *)
(* and views is a behaviour of the invitation lifecycle of spec.md.        *)
(***************************************************************************)
THEOREM RefinesLifecycle ==
    ASSUME ~ExplicitCalls
    PROVE  Spec => LifecycleSpec
<1>1. Init => Lifecycle!Init
  BY DEF Init, Lifecycle!Init
<1>2. Init => OnlyScheduledTasks
  BY DEF Init, OnlyScheduledTasks
<1>3. Spec => [](TypeOK /\ OnlyScheduledTasks)
  BY <1>2, TypeCorrect, ScheduledStep, PTL DEF Spec
<1>4. TypeOK /\ OnlyScheduledTasks /\ [Next]_vars => [Lifecycle!Next]_LifecycleVars
  BY StepRefines
<1>5. QED
  BY <1>1, <1>3, <1>4, PTL DEF Spec, LifecycleSpec, Lifecycle!Spec, LifecycleVars

=============================================================================
