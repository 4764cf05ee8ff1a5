----------------------------- MODULE Invitations -----------------------------
(***************************************************************************)
(* The invitation table and the two celery tasks of                        *)
(* src/nodeconductor/users/tasks.py that act on it:                         *)
(*   - cancel_expired_invitations(invitations=None): expires, in one        *)
(*     UPDATE, the invitations older than INVITATION_LIFETIME among the     *)
(*     ones passed, or among all PENDING ones when none are passed;         *)
(*   - send_invitation(uuid, sender): loads the row, mails it, and on an    *)
(*     SMTP error stores the error message with save(update_fields=...).    *)
(* Creating and accepting an invitation happen in views that are not in    *)
(* src/; they are modelled from spec.md (PENDING -> ACCEPTED).              *)
(* Tasks run asynchronously: a call only enqueues the task, a worker runs  *)
(* it later, and between the two any other step may happen.               *)
(***************************************************************************)
EXTENDS Naturals, FiniteSets

CONSTANTS
    Invitation,     \* the invitation rows the model may create
    Lifetime,       \* settings.NODECONDUCTOR['INVITATION_LIFETIME'], in ticks
    MaxTime,        \* bound on the clock
    MaxTasks,       \* bound on queued cancel_expired_invitations tasks
    ExplicitCalls   \* whether some caller passes its own selection of rows

ASSUME ConstantsAssumption ==
    /\ Lifetime \in Nat
    /\ MaxTime \in Nat
    /\ MaxTasks \in Nat \ {0}
    /\ ExplicitCalls \in BOOLEAN

VARIABLES
    state,      \* state[i]: Invitation.state; "absent" before the row exists
    created,    \* created[i]: Invitation.created
    now,        \* timezone.now(), in ticks
    queue,      \* queued cancel_expired_invitations calls, as their arguments
    sendJob,    \* sendJob[i]: where the send_invitation task of row i is
    snap,       \* snap[i]: the state of the row as the running send_invitation
                \* loaded it; "absent" when no task holds a copy
    errorMsg    \* errorMsg[i]: Invitation.error_message is set

vars == <<state, created, now, queue, sendJob, snap, errorMsg>>

States == {"absent", "pending", "accepted", "expired"}

(***************************************************************************)
(* The argument of cancel_expired_invitations: given = FALSE is the call   *)
(* without argument (invitations=None) made by the periodic schedule;      *)
(* otherwise sel is the set of rows of the queryset passed.                *)
(***************************************************************************)
Task == [given : BOOLEAN, sel : SUBSET Invitation]

NoArgument == [given |-> FALSE, sel |-> {}]

Pending == {i \in Invitation : state[i] = "pending"}

\* An invitation is old once its lifetime has run out.
Old(i) == created[i] + Lifetime <= now

TypeOK ==
    /\ state \in [Invitation -> States]
    /\ created \in [Invitation -> 0..MaxTime]
    /\ now \in 0..MaxTime
    /\ queue \in SUBSET Task
    /\ sendJob \in [Invitation -> {"idle", "queued", "loaded"}]
    /\ snap \in [Invitation -> States]
    /\ errorMsg \in [Invitation -> BOOLEAN]

Init ==
    /\ state = [i \in Invitation |-> "absent"]
    /\ created = [i \in Invitation |-> 0]
    /\ now = 0
    /\ queue = {}
    /\ sendJob = [i \in Invitation |-> "idle"]
    /\ snap = [i \in Invitation |-> "absent"]
    /\ errorMsg = [i \in Invitation |-> FALSE]

(***************************************************************************)
(* Views outside src/ (spec.md): a row is created PENDING, stamped with    *)
(* the clock (created is auto_now_add), and a PENDING row can be accepted. *)
(***************************************************************************)
CreateInvitation(i) ==
    /\ state[i] = "absent"
    /\ state' = [state EXCEPT ![i] = "pending"]
    /\ created' = [created EXCEPT ![i] = now]
    /\ UNCHANGED <<now, queue, sendJob, snap, errorMsg>>

AcceptInvitation(i) ==
    /\ state[i] = "pending"
    /\ state' = [state EXCEPT ![i] = "accepted"]
    /\ UNCHANGED <<created, now, queue, sendJob, snap, errorMsg>>

\* The clock advances.
Tick ==
    /\ now < MaxTime
    /\ now' = now + 1
    /\ UNCHANGED <<state, created, queue, sendJob, snap, errorMsg>>

(***************************************************************************)
(* Calls of the registered task 'nodeconductor.users.cancel_expired_       *)
(* invitations': the periodic schedule calls it with no argument; a caller *)
(* may pass a queryset of rows, chosen among the PENDING ones when it      *)
(* calls.  The call only enqueues the task.                                *)
(***************************************************************************)
ScheduleCancel ==
    /\ NoArgument \notin queue
    /\ Cardinality(queue) < MaxTasks
    /\ queue' = queue \cup {NoArgument}
    /\ UNCHANGED <<state, created, now, sendJob, snap, errorMsg>>

CallCancel(S) ==
    /\ ExplicitCalls
    /\ S \subseteq Pending
    /\ Cardinality(queue) < MaxTasks
    /\ queue' = queue \cup {[given |-> TRUE, sel |-> S]}
    /\ UNCHANGED <<state, created, now, sendJob, snap, errorMsg>>

(***************************************************************************)
(* A worker runs cancel_expired_invitations(t):                             *)
(*   expiration_date = timezone.now() - INVITATION_LIFETIME                 *)
(*   if not invitations: invitations = all PENDING rows                     *)
(*   invitations.filter(created__lte=expiration_date).update(state=EXPIRED) *)
(* "not invitations" holds for None and for an empty queryset alike.  The  *)
(* UPDATE is one statement, so the step is atomic.                          *)
(***************************************************************************)
\* Mutant: the fallback selects every row, not only the PENDING ones.
CancelSelectionAnyState(t) ==
    IF ~t.given \/ t.sel = {} THEN {i \in Invitation : state[i] # "absent"} ELSE t.sel

CancelSelection(t) ==
    IF ~t.given \/ t.sel = {} THEN Pending ELSE t.sel

\* Mutant: the lifetime is not subtracted from timezone.now().
CancelHitsNoLifetime(t) ==
    {i \in CancelSelection(t) : created[i] <= now}

\* Mutant: created__gte instead of created__lte.
CancelHitsYoung(t) ==
    {i \in CancelSelection(t) : created[i] >= now - Lifetime}

CancelHits(t) ==
    {i \in CancelSelection(t) : created[i] <= now - Lifetime}

\* Mutant: the UPDATE writes a state that is not one of Invitation.State.
RunCancelBadState(t) ==
    /\ t \in queue
    /\ state' = [i \in Invitation |->
                    IF i \in CancelHits(t) THEN "canceled" ELSE state[i]]
    /\ queue' = queue \ {t}
    /\ UNCHANGED <<created, now, sendJob, snap, errorMsg>>

RunCancel(t) ==
    /\ t \in queue
    /\ state' = [i \in Invitation |->
                    IF i \in CancelHits(t) THEN "expired" ELSE state[i]]
    /\ queue' = queue \ {t}
    /\ UNCHANGED <<created, now, sendJob, snap, errorMsg>>

(***************************************************************************)
(* send_invitation(invitation_uuid, sender_name), called for an existing   *)
(* row: the worker loads the row (objects.get), renders the mail and calls *)
(* send_mail.  On SMTPException it sets error_message and saves only that  *)
(* field, then re-raises; the task is not retried.                          *)
(***************************************************************************)
RequestSend(i) ==
    /\ state[i] # "absent"
    /\ sendJob[i] = "idle"
    /\ sendJob' = [sendJob EXCEPT ![i] = "queued"]
    /\ UNCHANGED <<state, created, now, queue, snap, errorMsg>>

LoadInvitation(i) ==
    /\ sendJob[i] = "queued"
    /\ sendJob' = [sendJob EXCEPT ![i] = "loaded"]
    /\ snap' = [snap EXCEPT ![i] = state[i]]
    /\ UNCHANGED <<state, created, now, queue, errorMsg>>

SendSucceeded(i) ==
    /\ sendJob[i] = "loaded"
    /\ sendJob' = [sendJob EXCEPT ![i] = "idle"]
    /\ snap' = [snap EXCEPT ![i] = "absent"]
    /\ UNCHANGED <<state, created, now, queue, errorMsg>>

\* Mutant: invitation.save() without update_fields writes back the whole
\* row as it was loaded, its state included.
SendFailedFullSave(i) ==
    /\ sendJob[i] = "loaded"
    /\ sendJob' = [sendJob EXCEPT ![i] = "idle"]
    /\ errorMsg' = [errorMsg EXCEPT ![i] = TRUE]
    /\ state' = [state EXCEPT ![i] = snap[i]]
    /\ snap' = [snap EXCEPT ![i] = "absent"]
    /\ UNCHANGED <<created, now, queue>>

SendFailed(i) ==
    /\ sendJob[i] = "loaded"
    /\ sendJob' = [sendJob EXCEPT ![i] = "idle"]
    /\ errorMsg' = [errorMsg EXCEPT ![i] = TRUE]
    /\ snap' = [snap EXCEPT ![i] = "absent"]
    /\ UNCHANGED <<state, created, now, queue>>

Next ==
    \/ \E i \in Invitation :
          \/ CreateInvitation(i)
          \/ AcceptInvitation(i)
          \/ RequestSend(i)
          \/ LoadInvitation(i)
          \/ SendSucceeded(i)
          \/ SendFailed(i)
    \/ Tick
    \/ ScheduleCancel
    \/ \E S \in SUBSET Invitation : CallCancel(S)
    \/ \E t \in queue : RunCancel(t)

(***************************************************************************)
(* The periodic schedule keeps calling the task, and a worker eventually   *)
(* runs what is queued.  Users (create, accept) and mail delivery are not  *)
(* assumed to make progress.                                                *)
(***************************************************************************)
Fairness ==
    /\ WF_vars(ScheduleCancel)
    /\ WF_vars(\E t \in queue : RunCancel(t))

Spec == Init /\ [][Next]_vars /\ Fairness

-----------------------------------------------------------------------------
(***************************************************************************)
(* Properties.                                                              *)
(***************************************************************************)

\* The allowed changes of an invitation's state (spec.md section 3):
\* created as PENDING, then PENDING -> ACCEPTED or PENDING -> EXPIRED.
AllowedTransition ==
    {<<"absent", "pending">>, <<"pending", "accepted">>, <<"pending", "expired">>}

(***************************************************************************)
(* StatesNeverRevert: no step of any actor (the expiry task, a failing     *)
(* send_invitation saving its error, a user accepting) moves an invitation *)
(* other than absent -> PENDING -> ACCEPTED | EXPIRED.  It would fail if   *)
(* cancel_expired_invitations expired an accepted row, or if the failing   *)
(* send wrote back the whole row it loaded before an expiry.               *)
(***************************************************************************)
StatesNeverRevert ==
    [][\A i \in Invitation :
          state'[i] # state[i] => <<state[i], state'[i]>> \in AllowedTransition]_vars

(***************************************************************************)
(* ExpiredOnlyWhenOld: cancel_expired_invitations expires only invitations *)
(* whose lifetime (created + INVITATION_LIFETIME <= now) has run out, also *)
(* when the task ran long after it was queued.                             *)
(***************************************************************************)
ExpiredOnlyWhenOld ==
    \A i \in Invitation : state[i] = "expired" => Old(i)

(***************************************************************************)
(* ExpireOnlySelected: a cancel_expired_invitations call given a selection *)
(* of rows changes no row outside that selection.                          *)
(***************************************************************************)
ExpireOnlySelected ==
    [][\A t \in queue :
          (t.given /\ RunCancel(t)) =>
             \A i \in Invitation \ t.sel : state'[i] = state[i]]_vars

(***************************************************************************)
(* OldPendingEventuallyClosed: under the periodic schedule, an invitation  *)
(* that is pending after its lifetime ran out stops being pending (it is   *)
(* expired by the task, or accepted first).                                *)
(***************************************************************************)
OldPendingEventuallyClosed ==
    \A i \in Invitation : (state[i] = "pending" /\ Old(i)) ~> state[i] # "pending"

\* The invitation lifecycle of spec.md that this module implements.
Lifecycle == INSTANCE InvitationLifecycle

LifecycleSpec == Lifecycle!Spec

=============================================================================
