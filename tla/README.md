# Verification models of nodeconductor (waldur-core)

This directory holds TLA+ models of the parts of `src/nodeconductor/` whose
behaviour depends on the order of steps: Celery tasks racing API requests,
and Django signal receivers that run inside, or next to, the request that saved
a row. Other parts are listed with the reason they are left out. Each model has
TLC configurations that check it on small instances. Where it matters most,
TLAPS proofs cover every value of the constants.

## 1. The system, as far as the source under `src/` goes

| Part | Source | State | Operations | Interacts with |
|---|---|---|---|---|
| Invitation tasks | `users/tasks.py` | Invitation rows: state PENDING/ACCEPTED/EXPIRED, `created`, `error_message` | `cancel_expired_invitations(invitations=None)` (periodic, or called with a selection), `send_invitation(uuid, sender)` | views that create/accept invitations (not in src) |
| Structure signal wiring | `structure/apps.py` | Customers, projects, project groups, services, service-project links, roles, quotas | post_save / pre_delete / post_delete / role-granted / role-revoked receivers, connected in `StructureConfig.ready` | every API request that saves these models |
| Cloud models | `cloud/models.py` | Cloud, CloudProjectMembership, Flavor, SecurityGroup, IpMapping and their `Permissions` paths | post_save receivers `create_dummy_flavors`, `create_dummy_security_groups`, `propagate_new_key` | permission filtering (`filter_queryset_for_user`), the role and project-group wiring of `structure/apps.py` |
| Cost tracking | `cost_tracking/serializers.py`, `models.py` | PriceEstimate, price-list items | serializers | cannot be imported as written (see §5) |
| Token authentication | `core/authentication.py` | the thread-local current user of the logging middleware | header token, falling back to the `x-auth-token` query parameter; `user_capturing_auth` | every request |
| IaaS estimates, billing handlers, utils, logging URLs | `iaas/cost_tracking.py`, `billing/handlers.py`, `structure/utils.py`, `logging/urls.py` | none of their own | generators, logging, HTTP look-ups, router registration | external backends |

Behaviours that make this code hard to test:

- **Invitation tasks.** A selection passed to `cancel_expired_invitations` is
  evaluated later, by the worker. It is not re-filtered by state
  (`tasks.py:29`). An empty selection is falsy and falls back to all pending
  rows (`tasks.py:27`). `send_invitation` loads the row, sends mail, and saves
  `error_message` with `update_fields` (`tasks.py:62`). Expiry needs the
  periodic task to keep running.
- **Structure signals.** Receivers run synchronously in connection order. A
  receiver that raises skips the ones after it. Under autocommit the saved row
  stays. Under `ATOMIC_REQUESTS` the whole request rolls back. The receivers that
  link projects to services (`apps.py:220`, `apps.py:226`) read only what other
  requests have committed.

- **Permissions.** Each cloud model reaches its customer, project and
  project group along its own path: a flavor through `cloud__projects`, a
  security group through the membership's project, a membership through the
  cloud. Whether a user sees a child whenever they see its parent depends on
  which rows the requests can create. The project-group delete guard runs in
  `pre_delete`, before the DELETE. The `nc_user_count` quota is kept only by
  the role-granted and role-revoked signals.
- **Token authentication.** The query parameter is used only when the header
  is empty. The current user is set in a thread-local and never cleared here.

Hazards are listed, each at its line, in `PROJECT.json` under "hazards".

## 2. Modules

| Module | Models | Kind |
|---|---|---|
| `InvitationLifecycle` | The promise of spec.md §3: an invitation is created pending, then either accepted or, once old, expired; it never reverts. | abstract spec |
| `Invitations` | Both tasks of `users/tasks.py`, the periodic schedule, explicit callers, and the views that create and accept invitations (modelled from the spec). | detailed spec |
| `InvitationsProofs` | TLAPS proofs about `Invitations`. | proofs |
| `MCInvitations` | Symmetry set for TLC. | MC |
| `ServiceProjectLinks` | What other requests see of projects, services and their links: rows created once with a customer, links only between existing rows of one customer, links gone only with an end. | abstract spec |
| `StructureSignals` | Customer, Project and Service saves and deletes and their receivers, under autocommit or per-request transactions. | detailed spec |
| `StructureSignalsProofs` | TLAPS proofs about `StructureSignals`, and its refinement of `ServiceProjectLinks`. | proofs |
| `StructureSignalsLinkedProofs` | TLAPS proof of `AvailableServicesLinked` under autocommit. | proofs |
| `MCStructureSignals` | Symmetry set for TLC. | MC |
| `Permissions` | The permission paths of the cloud models; project groups; roles and the `nc_user_count` quota receivers; clouds, memberships and their sync; SSH keys and `propagate_new_key`. | detailed spec |
| `PermissionsProofs` | TLAPS proofs about `Permissions`. | proofs |
| `MCPermissions` | Symmetry set for TLC. | MC |
| `TokenAuthentication` | `get_authorization_value`, `authenticate` and the capturing wrapper, over strings of a four-letter alphabet. | detailed spec |
| `MCTokenAuthentication` | The token table for TLC. | MC |

### Invitations

State: `state`, `created`, `now` (the clock in ticks), `queue` (Celery tasks
`cancel_expired_invitations` not yet run), `sendJob` and `snap` (the row that
`send_invitation` loaded), and `errorMsg`.

A queued task is a record `[given, sel]`. `given = FALSE` is the periodic call
with no argument. Otherwise `sel` is the caller's selection.

- `CancelSelection` is lines 27-28: no selection, or an empty one, means all
  pending rows.
- `CancelHits` is lines 26 and 29: keep the rows with `created <= now - lifetime`.
- `RunCancel` is the whole task, ending in the `update` of line 30.
- `LoadInvitation`, `SendSucceeded` and `SendFailed` are the three stages of
  `send_invitation`. The failed branch writes only `error_message`
  (`update_fields`).

The mail text and the template context (lines 36-57) are abstracted away.

`Lifecycle == INSTANCE InvitationLifecycle` maps the detailed state onto the
abstract one. `state`, `created` and `now` map identically, and the queue and
the send job are hidden.

### StructureSignals

Each saved row has a request phase:

- `"saved"`: the row is written and its post_save receivers are pending.
- `"handled"`: under `ATOMIC_REQUESTS`, the receivers have run and the commit
  is pending.
- `"idle"`: no request is open on the row.

Under autocommit the row is visible at save time. Under `ATOMIC_REQUESTS` it
becomes visible only at `CommitProject` / `CommitService`.

- `CustomerPostSave` is `create_customer_roles` plus
  `connect_customer_to_shared_service_settings`: one shared service per shared
  settings, available for all.
- `ProjectPostSave` is `create_project_roles` plus
  `connect_project_to_all_available_services`.
- `ServicePostSave` is `connect_service_to_all_projects_if_it_is_available_for_all`.
- The `*Fails` actions are a receiver raising: nothing after it runs. Under
  `ATOMIC_REQUESTS` the request rolls back.
- Deletes cascade to roles and links. A delete waits while another open
  request holds a lock on the row through a link it inserted
  (`HeldByOpenRequest`).

The handler bodies are in `structure/handlers.py`, which is not under `src/`.
They are modelled from spec.md and `test_signals.py` and marked spec_modelled
in the map.

`Links` instantiates `ServiceProjectLinks` with the rows as another request
sees them: a row whose request has run its receivers but not committed
(`"handled"`) already counts as existing, since its commit is the step that
publishes it. A row not yet created is given the customer it will have (a
shared service's customer is fixed by its settings). Under this mapping every
save, receiver and commit is one `Write` step or a stutter, and every delete
is `DeleteProject` / `DeleteService`. `LinksSpec == Links!Spec` is checked by
TLC under autocommit and proved by TLAPS in both modes.

### Permissions

State: `projCustomer`, `projState` (exists, deleting, deleted), `revoking`
(the users whose project roles the open DELETE's `pre_delete` has revoked),
the project groups (`groupState`, `groupCustomer`,
`groupProjects`), `roles` (pairs of a user and the customer, project or
group they hold a role on), `ncUsers` (the quota usage per customer),
`clouds`, `cloudCustomer`, `msState` (each (cloud, project) membership:
absent, new, in_sync, scheduled), `keys`, `keyOwner` and `pushed` (the
(key, membership) pairs pushed to a tenant).

- Each `*Scope` operator is one `Permissions` class: the set of customers,
  projects and groups its `customer_path`, `project_path` and
  `project_group_path` reach. `Visible(u, scope)` is `filter_queryset_for_user`:
  a role on anything the paths reach.
- `CreateCloud` is the save plus `create_dummy_flavors`. `CreateMembership`
  is the save plus `create_dummy_security_groups`. Its guard
  `TenantConflict` is `unique_together ('cloud', 'tenant_id')` while the
  tenant id is still blank.
- `AddSshKey` is the save plus `propagate_new_key`: a push to every IN_SYNC
  membership the owner sees. `AddSshKeyPushFails` is the loop raising part
  way.
- `BeginDeleteProjectGroup` is the `pre_delete` guard. `FinishDeleteProjectGroup`
  is the DELETE, which cascades to the group's links and roles.
- `GrantRole` and `RevokeRole` are `add_user` and `remove_user` with their
  signal receivers. The quota receiver adds 1 on a grant and subtracts 1 on a
  revoke, as the comments of the wiring (`apps.py` 97, 107) say.
  `FinishDeleteProjectGroup` leaves `ncUsers` alone, because a cascade sends no
  signal.
- `BeginDeleteProject` is `Model.delete` of a project up to its DELETEs: the
  `pre_delete` receiver `revoke_roles_on_project_deletion` (`apps.py` 152)
  revokes the roles it sees, inside the DELETE's transaction, so neither the
  revocations nor their quota decrements are visible yet. `FinishDeleteProject` is the
  cascade and the commit: the revoked roles' decrements land, and every role,
  membership and group link of the project goes. A role granted between the
  two steps is removed with no signal.

`filter_queryset_for_user`, the role methods, the quota handler body and the
backend sync are not under `src/`. They are modelled from the spec and the
wiring comments, and marked spec_modelled in the map.

### TokenAuthentication

A string is a sequence over `{" ", "t", "T", "k"}`: whitespace, the keyword
`token` in lower and upper case, and a key character. `Split` is `str.split()`
(maximal runs of non-space characters) and `Lower` is `str.lower()`.
`AuthenticateValue` follows lines 27-39 case by case. `HandleRequest` is the
capturing wrapper: it sets `currentUser` only when a user is returned.
`authenticate_credentials` (rest_framework) is modelled from its
documentation: an unknown key fails, and so does an inactive user.

## 3. Runs

| Run | Bounds | Checks | Result |
|---|---|---|---|
| invitations_safety | 2 invitations, lifetime 1, clock ≤ 3, ≤ 2 queued tasks, periodic task and explicit callers, symmetry | TypeOK, ExpiredOnlyWhenOld | pass |
| invitations_live | same, periodic task only, no symmetry | StatesNeverRevert, OldPendingEventuallyClosed, LifecycleSpec (refinement) | pass |
| invitations_revert | 2 invitations, explicit callers | StatesNeverRevert | violation: an accepted row expired |
| invitations_scope | 2 invitations, explicit callers | ExpireOnlySelected | violation: an empty selection expires everything |
| structure_autocommit | 2 customers, 2 projects, 1 user service, 1 shared settings | TypeOK, LinksWithinCustomer, AvailableServicesLinked, LinksSpec (refinement) | pass |
| structure_tx | same, ATOMIC_REQUESTS, receivers may raise | LinksWithinCustomer | pass |
| structure_atomic | same, ATOMIC_REQUESTS | AvailableServicesLinked | violation: write skew between concurrent requests |
| permissions_scopes | 1 user, 2 customers, 2 projects, 1 group, 1 cloud, 1 key, symmetry | TypeOK | pass |
| permissions_paths | same | ChildScopeWithinParent | violation: a cloud connected to another customer's project shows its security groups and flavors to that customer's owner, who cannot see the membership or the cloud |
| permissions_group_delete | same | GroupDeletedOnlyEmpty | violation: a project added between the check and the DELETE |
| permissions_quota | same, no symmetry | NcUserCountMatchesRoles | violation: a role granted during a project's DELETE leaves the quota high |
| token_query | values of up to 3 characters, 2 users (one inactive) | QueryTokenUsedWhenHeaderHasNone | violation: a non-token header hides the query token |

Why these bounds are enough:

- **Invitations.** A lifetime of 1 with a clock up to 3 lets a row be created
  young and be seen old. Two queued tasks let a stale selection wait while an
  acceptance happens. Two rows let a selection differ from the set of pending
  rows. Three rows with explicit callers take TLC over three minutes and
  showed nothing new.
- **Structure.** Two customers are needed for cross-customer links. Two
  projects let a project race a service. The user service can be created,
  re-saved with a different `available_for_all`, and deleted.
- **Permissions.** Every property is stated per user, and one user's view
  depends only on their own roles, so one user suffices. Two customers let
  a path reach the wrong customer. Two projects let a cloud have a project
  connected and one not, and let a group gain a project while it is being
  deleted, or a project be deleted while another stays. One group, cloud and key are enough for each path to be walked.
  A membership may join a cloud and a project of different customers, as
  nothing in the models forbids it and `LicenseTest`
  (`iaas/tests/unittests/test_models.py` 20-25) builds one.
- **Token.** Three characters are enough for "t k", "k" and " t": the
  keyword with a key, a header without a token, and surrounding whitespace.

`Permissions` has no fairness: every step is a user's request.

The Structure runs set `CHECK_DEADLOCK FALSE`: once every row of the small
pools has been created and deleted, users simply stop sending requests.

Fairness:

- The Celery beat and the worker are weakly fair (`WF` on `ScheduleCancel` and
  on running a queued task), because the beat entry fires periodically and the
  worker drains its queue.
- The post_save receivers and the commit of a request are weakly fair, because
  they run synchronously in the request that saved the row.
- Users (create, accept, save, delete) get no fairness.

Every property of a passing run has a mutant in `PROJECT.json`: a plausible
bug in the modelled code under which TLC finds the property violated.

## 4. What is proved

### `InvitationsProofs`

The constants are assumed only to be what the code gives them:

- a lifetime and a clock bound in `Nat`;
- a queue bound in `Nat \ {0}`;
- `ExplicitCalls` Boolean.

The theorems:

- `TypeCorrect`: `Spec => []TypeOK`. TypeOK is inductive. The lemma
  `TypeStep` takes one case per action.
- `ExpiredOnlyWhenOldInv`: `Spec => []ExpiredOnlyWhenOld`. It holds for every
  caller and every selection. The inductive invariant is
  `TypeOK /\ ExpiredOnlyWhenOld`. Two facts keep it inductive: the clock only
  grows, and `created` is written only at creation.
- `StatesNeverRevertThm`: when only the periodic task expires rows
  (`~ExplicitCalls`), every step satisfies `StatesNeverRevert`. The proof
  strengthens the invariant with `OnlyScheduledTasks`: every queued task
  carries no selection, so `CancelHits` stays within the pending rows
  (`ScheduledHitsPending`).
- `RefinesLifecycle`: under the same assumption, `Spec => Lifecycle!Spec`.
  Every step maps to an abstract step or a stutter:
  - `RunCancel` maps to `Expire(CancelHits(t))`, or to a stutter when nothing
    is hit;
  - the send stages map to stutters;
  - create, accept and tick map to themselves.

### `PermissionsProofs`

The proofs assume only `PermissionsAssumption`: there is at least one
customer and a finite, non-empty set of users; customers, projects and
groups are rows of different tables (pairwise disjoint sets).

- `TypeCorrect`: `Spec => []TypeOK`, with one case per action. The lemmas
  `CustomerOfType` and `QuotaChangeType` show that the quota receiver charges
  a customer and keeps the usages integers.
The Cardinality of the revoked users is a natural number because
`PermissionsAssumption` also says the set of users is finite
(`FS_Subset`, `FS_CardinalityType` of FiniteSetTheorems).

### `StructureSignalsProofs`

The proofs assume `StructureAssumption` and `ServiceAssumption` (no service
is both a user service and a shared one), for both values of
`AtomicRequests`, with receivers that may raise.

- `TypeCorrect`: `Spec => []TypeOK`, one case per action.
- `LinksWithinCustomerThm`: `Spec => []LinksWithinCustomer`. The inductive
  invariant `IInv` adds:
  - `PhaseInv`: a row with an open request is not yet visible under
    `ATOMIC_REQUESTS` and exists under autocommit, and a service with an open
    request is not deleted. Without it, a commit or a receiver could act on a
    row deleted meanwhile.
  - `SharedInv`: a customer has its owner role only once saved and only
    after its post_save receivers have run, and a customer without it has
    its shared services absent and idle. Without it, `CustomerPostSave` could link a
    project to a shared service of another customer.
- `RefinesLinks`: `Spec => LinksSpec`. `Init` maps to the abstract `Init`,
  and under `IInv` each step is a `Write`, a `DeleteProject`, a
  `DeleteService` or a stutter of the mapped state (lemmas `WriteStep`,
  `UnchangedMapped`, `RefineStep`).

### `StructureSignalsLinkedProofs`

- `AvailableServicesLinkedThm`: under autocommit and with receivers that do
  not raise (the assumptions of the `structure_autocommit` run),
  `Spec => []AvailableServicesLinked`. The property is not inductive: a
  service receiver links according to the saved `available_for_all`, while
  the property reads the committed one. The inductive invariant `LInv` adds,
  to `IInv`:
  - `AvailInv`: under autocommit the saved and the committed value are the
    same;
  - `NoHandled`: no request waits for a commit, so the commit steps and the
    raising receivers are never enabled.

  Whichever of the project's and the service's receivers runs last then sees
  the other row written and inserts the link. Under `ATOMIC_REQUESTS` the
  property is false (run `structure_atomic`). With a raising receiver it is
  false too: the row stays without its links.

These stay with TLC only:

- liveness (`OldPendingEventuallyClosed`), which is out of TLAPS's reach;
- everything about `TokenAuthentication`: its string splitting uses CHOOSE
  over positions and `SetToSortSeq`, and what it computes for every input
  would need induction over sequences;
- the violations;
- the properties of `Permissions` beyond its type: the one safety property
  stated of it, `ChildScopeWithinParent`, is false of the code, and
  `nc_user_count` does not match the roles either (both are findings).

## 5. Findings

Each finding is a violation run, recorded in `PROJECT.json` under "findings":

- `tasks.py:29`: an explicitly passed selection is expired without
  re-checking its state, so an ACCEPTED row becomes EXPIRED.
- `tasks.py:27`: an empty selection is falsy and expires every old pending
  row.
- `apps.py:220`: under `ATOMIC_REQUESTS`, a project and a service made
  available in concurrent requests are never linked.
- `cloud/models.py:205`: a security group reaches its customer through the
  membership's project, and a flavor through the cloud's projects, while the
  membership and the cloud reach theirs through the cloud. Nothing keeps the
  two customers the same (`LicenseTest` connects a cloud of one customer to a
  project of another), and then the project customer's owner sees the
  security groups and flavors but not the membership or the cloud they
  belong to (four steps: grant the owner role, create the cloud for the
  other customer, connect it). spec.md calls them resources scoped to the
  membership.
- `apps.py:67`: the `pre_delete` emptiness check of a project group races a
  project being added.
- `apps.py:152`: `revoke_roles_on_project_deletion` runs inside the
  project's DELETE; a role granted concurrently after it ran is removed by
  the cascade without `structure_role_revoked`, so `nc_user_count` stays too
  high (TLC's trace: the delete begins, a grant, the delete commits). The
  model gives `remove_user` no lock, as none is in the code under `src/`: a concurrent `remove_user` of a
  role the receiver already revoked would decrement it a second time. A
  project group's DELETE has no such receiver at all and drifts the usage the
  same way.
- `core/authentication.py:22`: a header without a token keeps the query
  token from being used, contrary to the docstring.

## 6. Not modelled, and the plan

- **Cost tracking serializers.** The file cannot be imported as written:
  `PriceListSerializer.Meta` names `models.PriceList`, which
  `cost_tracking/models.py` does not define. `PriceEstimateSerializer` also
  uses `is_manually_inputed`, but the model field is `is_manually_input`.
  There is no running behaviour to model.
- **Resource and tag receivers** (`apps.py` 158-200, 242-252). They log,
  call an HTTP geo-IP service, record start times and clean caches. Their
  bodies are not under `src/`.
- **Left out for good:**
  - `structure/utils.py` (serialisation and an HTTP look-up);
  - `billing/handlers.py` (logging, and calls to an external billing
    backend);
  - `logging/urls.py` (routing);
  - `iaas/cost_tracking.py` (a generator over an external backend).

The plan for the next sittings:

1. The permission paths of IpMapping, role rows and group links in `Permissions`.
2. The pure algorithms of `TokenAuthentication` checked against a reference
   definition.
