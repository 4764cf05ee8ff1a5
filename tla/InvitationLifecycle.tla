------------------------- MODULE InvitationLifecycle -------------------------
(***************************************************************************)
(* What an invitation promises, independent of how the tasks implement it  *)
(* (spec.md, section 3: "Invitations transition PENDING -> ACCEPTED |      *)
(* EXPIRED and never revert"; GLOSSARY: "a time-limited offer of a role    *)
(* grant").  An invitation row is created pending, stamped with the clock; *)
(* it is then either accepted, or expired once its lifetime has run out.   *)
(* Invitations.tla is shown to implement this specification.              *)
(***************************************************************************)
EXTENDS Naturals

CONSTANTS
    Invitation,     \* the invitation rows the model may create
    Lifetime,       \* settings.NODECONDUCTOR['INVITATION_LIFETIME'], in ticks
    MaxTime         \* bound on the clock

VARIABLES
    state,          \* state[i]: the row's state; "absent" before it is created
    created,        \* created[i]: the row's creation time stamp
    now             \* timezone.now(), in ticks

States == {"absent", "pending", "accepted", "expired"}

\* An invitation is old once its lifetime has run out.
Old(i) == created[i] + Lifetime <= now

Init ==
    /\ state = [i \in Invitation |-> "absent"]
    /\ created = [i \in Invitation |-> 0]
    /\ now = 0

Create(i) ==
    /\ state[i] = "absent"
    /\ state' = [state EXCEPT ![i] = "pending"]
    /\ created' = [created EXCEPT ![i] = now]
    /\ UNCHANGED now

Accept(i) ==
    /\ state[i] = "pending"
    /\ state' = [state EXCEPT ![i] = "accepted"]
    /\ UNCHANGED <<created, now>>

\* Any non-empty set of old pending invitations may expire at once.
Expire(S) ==
    /\ S # {}
    /\ \A i \in S : state[i] = "pending" /\ Old(i)
    /\ state' = [i \in Invitation |-> IF i \in S THEN "expired" ELSE state[i]]
    /\ UNCHANGED <<created, now>>

Tick ==
    /\ now < MaxTime
    /\ now' = now + 1
    /\ UNCHANGED <<state, created>>

Next ==
    \/ \E i \in Invitation : Create(i) \/ Accept(i)
    \/ \E S \in SUBSET Invitation : Expire(S)
    \/ Tick

Spec == Init /\ [][Next]_<<state, created, now>>

=============================================================================
