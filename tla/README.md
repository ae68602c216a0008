# A formal model of Auth Center

TLA+ specifications of Auth Center (a NestJS service for identities and access
decisions) and of the sample service beside it, TLC instances that check them, and
TLAPS proofs of every safety property that those instances check and the code keeps.
Paths below are relative to the repository root. The definitions are translated
from the source; `PROJECT.json` maps each one to the lines it stands for.

## 1. The system

Auth Center is one Node process. Every HTTP request runs a handler that is a
chain of `await`s on PostgreSQL (TypeORM), Redis (ioredis) and RabbitMQ
(amqp-connection-manager); between two awaits the process runs other handlers.
There are no transactions and no locks: each query commits by itself. That makes
one rule for all models: **an action is one awaited call together with the
synchronous code that runs when it resolves.**

| Component | State it keeps | Operations | Talks to |
| --- | --- | --- | --- |
| Identity (`src/modules/identity`) | `users`, `sessions` rows; Redis keys `blacklist:<jti>`, `session:<user>:<jti>` | register, login, refresh, logout, password reset, verify e-mail, list sessions | PostgreSQL, cache layer, events, JWT library |
| Cache layer (`src/modules/cache`) | Redis keys with expiry | get, set (with or without TTL), del | Redis |
| Events (`src/modules/events`) | one AMQP connection and its unsent messages | publish, close | RabbitMQ |
| Service registry (`src/modules/services`) | `services` rows | register, list, find by name | PostgreSQL, events |
| Authorization engine (`src/modules/policy-engine`, `authorization`) | none of its own | evaluateAccess | registry, the five models |
| RBAC, ABAC, ACL, ReBAC | read their tables only | one evaluation each | PostgreSQL, Jexl |
| PBAC (`src/modules/pbac`) | cached policy lists in Redis | evaluate | PostgreSQL, cache layer, Jexl |
| Guards (`src/modules/guards`) and JWT strategy | none; they believe the bearer token | JWT, roles, permission, policy | engine, PBAC, RBAC |
| Sample service (`temp-service`) | an array of items in memory | list, find, create behind JwtAuthGuard | the public key of Auth Center |
| Accounts, configuration, bootstrap | none | read-only queries, wiring | |
| `src/integration-example` | none | example client | HTTP |

Role, permission, ACL, relationship, attribute and policy rows have no endpoint:
operators write them with SQL while the service runs. The models include those
edits as steps of the environment.

What is hard here:

- **check then act over two awaits** without a transaction: register, refresh,
  service registration;
- **two stores that must agree** about a refresh token: the blacklist in Redis,
  with a lifetime, and the `revoked` column in PostgreSQL, for ever;
- **failure in the middle** of a handler: any awaited call may reject, the process
  may restart, a response may be lost, Redis may forget the last second of writes
  (`docker-compose.yml` starts it with an append-only file);
- **waiting for the broker**: `publish()` resolves only on a confirmation;
- **a cache nobody invalidates**, filled by racing readers;
- **an evaluation that spans up to eight queries** over tables that change, and waits
  in the middle for a cache that PolicyGuard's requests fill as well;
- **tokens that age**: an access token says what roles its user had when it was
  made, and nothing but its expiry ends it;
- **one key for both tokens** of a pair: nobody who verifies one asks which it is, so
  an access token is accepted at `refresh` and `logout`, and a refresh token as a
  bearer token;
- **names that are free strings**, joined with colons to the keys of the policy cache:
  two targets can share a key.

What makes each component correct:

- Identity: a token that was exchanged or logged out buys nothing later; a pair is
  signed only once its predecessor is revoked; the blacklist covers a revoked token
  for as long as it verifies; a delivered token has its session; a refusal has a
  cause; one registration per address; tokens only after the announcement; every
  request is answered.
- PBAC: an answer is the decision of some recent policy table, for the target that
  was asked about or for one whose key is the same; the lowest priority number that matches decides.
- Engine: an ALLOW was true at some moment; rights that stay in place get through;
  one configuration is evaluated in order, up to the first ALLOW.
- Engine and cache together: the engine with the real cache does nothing that the
  engine with the cache's contract would not do; policies left alone for the window
  are obeyed; every evaluation ends.
- Tokens: the roles in an accepted access token are those of one recent moment; a
  check of the claims and a check of the database agree once the table has settled; a
  bearer token of either kind dies within its TTL of a logout; `expiresIn` is right up to the time the
  answer takes.
- Registry: what is stored has been announced; a registration nobody disturbs is
  stored and announced as sent.
- Sample service: the id a client was given finds its item until the next restart.

The complete list of hazards, each at its line and with the properties that cover
it, is in `PROJECT.json` under `hazards`.

## 2. Modules

```
CacheLayer ──┬── Identity ──── INSTANCE RefreshRotation (abstract)
             │       └── Identity_proofs ── IdentitySafety_proofs
             └── PolicyCache ─ INSTANCE StalePolicies   (abstract)
AccessModels ┬───┘   └── PolicyCache_proofs
             ├── AccessModels_proofs
             ├── AuthorizationEngine ── AuthorizationEngine_proofs
             ├── AccessSystem ── INSTANCE PolicyCache, INSTANCE AuthorizationEngine
             │       └── AccessSystem_proofs ── INSTANCE PolicyCache_proofs,
             │                                  INSTANCE AuthorizationEngine_proofs
             └── AccessTokens ── SampleService ── AccessTokens_proofs
ServiceRegistry ── ServiceRegistry_proofs
```

`MCIdentity`, `MCPolicyCache`, `MCAuthorizationEngine`, `MCAccessSystem`,
`MCSampleService` and `MCServiceRegistry` are the instances TLC checks. The lemmas of
`AccessModels_proofs` are used by the proofs about the engine and about the cache.

### CacheLayer

A key is the time at which Redis drops it. `SetEx` keeps the branch of
`set()` that stores without expiry when the TTL is falsy; `Hit` is `get()`. The
clock starts at 1 so that an expiry of 0 stands for an absent key.

### Identity

| Code | Model |
| --- | --- |
| row of `users`; `email_verified` | member of `users`; of `verified` |
| row of `sessions` (user, revoked, expiresAt) | `sessions[jti]` |
| refresh JWT, exp claim | `signed[jti]` |
| `blacklist:<jti>`, `session:<user>:<jti>` | `blacklist[jti]`, `sessionKey[jti]` |
| messages confirmed by the exchange | `events`; the connection is `brokerUp` |
| a response that reached its client | `delivered`, `reply` |
| where a handler stands, its arguments, its new jti | `pc`, `call`, `minted` |

One action per await: `RegisterFind`, `RegisterSave`, `LoginFind`,
`RefreshGetBlacklist`, `RefreshFindSession`, `SetBlacklist`, `Revoke` (the last two
are shared by refresh and logout, whose code is the same there), `ResetFind`,
`VerifyUpdate`, `Publish`, `IssueSign`, `IssueSaveSession`, `IssueCacheSession`.
The environment: `Arrive` and `Present` (a client calls an endpoint, `Present` with
either token of a pair it has received; an expired one makes `verifyAsync()` throw), `Fail` (a call rejects), `Crash` (the process
restarts), `RedisLoses`, `BrokerDown`, `BrokerUp`, `Tick`. The last await of a
handler may take effect and its answer still be lost (`Finish`).

**Access tokens at refresh and logout.** `verifyAsync()` checks signature, issuer,
audience and expiry. Both tokens of a pair pass it; the `type` claim is written and
never read. An access token carries no `jti` (`Carried`, the id `NoJti`), and the
handlers go on with `undefined`:

- `refresh` looks for `blacklist:undefined`, and then calls `findOne()` with an
  undefined condition. TypeORM 0.3 leaves such a condition out, so any session may be
  found (`LookedUp`): it is blacklisted, revoked and replaced by a pair for its own
  user. From the lookup on the handler works with that session, and `call[r].tok` is its
  `refreshTokenId`.
- `logout` blacklists the key `undefined`, which refuses access tokens at `refresh` from
  then on and no refresh token, and updates the sessions whose `refresh_token_id` is
  NULL (an UPDATE does not leave the condition out), of which there are none.

`Presented` says which kinds clients send. A pair is represented by its `jti`: the access
token is signed in the same step, and `Unexpired` derives its expiry from `signed`.

Left out because no modelled step depends on it: names, IP and user agent columns,
hashing, `createdAt`. Roles are the matter of `AccessTokens`. Awaits that touch nothing
modelled (argon2, reading the roles, signing, `last_login_ip`) belong to the await before
them, so a failure there is the `Fail` of that position. `listSessions()` is a single read
and no step of the model.

`RefreshRotation` is what rotation promises without handlers, Redis, the clock or
the broker: sessions open, are claimed while active, revoked once, and a claim on
a revoked session is spent on one successor. The refinement maps session rows to
`status`, and the refreshes between lookup and insert to `claims`.

### AccessModels, PolicyCache, StalePolicies

`AccessModels` holds the rows (`UserRole`, `AclEntry`, `PolicyRow`, ..., one
constructor for each table a query looks at) and the five models as functions of
them: the query each service makes, with `HasRole` for `RolesGuard`, ABAC's scopes and rules (equalities of two paths, as in the default
rule `user.id == resource.ownerId`), PBAC's loop (a condition matches some inputs
and throws on others), ReBAC's two queries. Names are sequences of segments, so
that joining a permission name or a cache key and splitting one at its dots do what
the strings do.

`PolicyCache` is `PbacService.evaluate()`: `Evaluate`, `CacheGet`, `Find`, `Fill`,
`Fail`, and around it `Edit` (operators), `RedisLoses`, `Tick`. `seen` is history:
which tables were in force when, within the window. Any table may be in force at
first. `StalePolicies` promises
that every answer is the decision of a table in force within the last `Window`
ticks; it has no cache, but it names the targets among which a key cannot tell
(`Alike`): the service, resource and action of a request are free strings, and
`policies:blog:/posts/:id:get` is the key of (`blog`, `/posts/:id`, `get`), which
PolicyGuard asks for, and of (`blog`, `/posts/`, `id:get`), which anybody may ask
POST `authorize` for. Who asks first fills the key for both. `Window` is the TTL **plus** the longest time a fill may
take, since a list read before an edit can be stored after it.

### AuthorizationEngine

`FindService`, then one action per query of the model at the head of `rest`: `Rbac`,
`AbacUser` and `AbacResource`, `Pbac` or `PbacThrows`, `Acl`, `RebacDirect` and
`RebacViaOrg`; `Conclude` is the common tail (append a reason, stop at the first
ALLOW). `Authorize` and `Guard` are the two callers. `Edit` changes one row,
`Reconfigure` is a registration. PBAC is used by the contract of `StalePolicies`: a
decision of a table in `recent`. `Forget` ends the validity of some of the old
tables, in no particular order, as keys of different targets run out.

`Grants` states what the documentation says a model grants, written apart from the
queries (a graph with typed nodes for ReBAC, sets of values for ABAC). The history
variables say what held while a request was under way: `granted`, `touched`,
`configs`.

### AccessSystem

The engine with the cache in the place of that contract. `Cache` and `Engine` are
instances of `PolicyCache` and `AuthorizationEngine` on one database: the policies are
its rows of the table `policies`, `recent` is derived from the cache's history.

- `Arrive`, `OwnQuery`: what the engine does on its own.
- `PbacCall`, `PbacQuery`: the evaluation has come to PBAC, makes the call, and goes
  on (`Resume`) in the very step in which `PbacService` returns: with `Conclude`, or
  with `Abort` when a condition threw.
- `Fail`: one rejection ends the call inside PBAC and the evaluation around it.
- `PolicyGuard`: requests that use `PbacService` directly and fill the same keys.
- `Edit`, `Reconfigure`, `Tick`, `RedisLoses`: the environment of both parts.

`EngineContract` is the refinement: this system implements `AuthorizationEngine`
under `recent <- Recent`. So everything the runs of `AuthorizationEngine` show with
the contract holds with the cache, too.

### AccessTokens and SampleService

`issueTokens()` seen from the pair it makes: `ReadRoles`, `Sign` (the access token),
`SignRefresh`, `SaveSession`, `Answer`; `Fail` at any of them. `claims`, `readAt` and `exp`
belong to the access token, `refreshExp` to the refresh token, `session` to the row that
is saved with them, `Revoke` is what `logout` and `refresh` do
to that row in `Identity`. Operators edit `user_roles` (`Edit`). Those who trust the
tokens are operators on the state: `Accepts` (JwtAuthGuard and the strategies of both
services: signature and expiry of a bearer token, of whichever kind), `RolesGuard` (the
token's user, but the database's roles) and `LocalCheck`, the check of the claims that
`src/README.md` proposes to downstream services; no code in the repository makes it, so
it stands for none.

`SampleService` extends it with temp-service, which holds the public key and keeps
its items in memory: `Create` for whoever holds an accepted token of either kind, `Restart`, and
`FindOne` as `Array.find()`.

### ServiceRegistry

`Register`, `FindOne`, `Insert` or (`SaveSelect`, `SaveUpdate`), `Publish`,
`Fail`, `Broker`. TypeORM's `save()` of an entity with an id selects the row and
updates the columns that differ from it; whether it takes equal arrays for
different is not decided by this repository, so `SaveUpdate` allows both. A row is
a function on the three columns that are written, and `Merged` is the merge of two.

## 3. What is model-checked

Every passing run also evaluates the modules' assumptions. `CHECK_DEADLOCK FALSE`
is set because requests are made once and clocks are bounded: the system stops when
all are used up.

| Run | Shows | Bounds, and why they are enough |
| --- | --- | --- |
| `rotation` | `NoLateExchange`, `PredecessorRevoked`, refinement of `RefreshRotation` | 4 requests, 3 pairs, one user, refresh and access tokens presented: two rivals for one session, one request that made it and one that comes late. The clock stands still: what time changes is the matter of `expiry` |
| `expiry` | `RevokedIsBlacklisted`, `DeliveredHasSession`, `RefusalHasCause` | 3 requests, 4 ticks, TTLs of 2 (access tokens 1), refresh and access tokens presented: every token, row and key can run out while requests stand anywhere |
| `accounts` | `TypeOK`, `OneRegistrationWins`, `TokensAfterAnnouncement`, `EveryRequestEnds` | all six endpoints, 2 requests, 2 addresses; the properties speak of at most two requests. As many ids as requests, so that `randomUUID()` never runs dry |
| `staleness` | `TypeOK`, `TopPriorityDecides`, refinement of `StalePolicies` | 2 racing evaluations of one target; three policies (8 tables): two of the default priority that contradict each other and one before them that throws; TTL 2, fill 1, 5 ticks: an entry is filled, lives, runs out and is filled again |
| `system` | `TypeOK`, `SettledPoliciesDecide`, `EvaluationEnds`, refinement of `AuthorizationEngine` (`EngineContract`) | an evaluation and a request behind PolicyGuard, 3 targets of which two share a key, 2 policies (one allows, the other is of the target of the same key and throws), the model PBAC alone (others around it: `models`), one edit, 2 remembered tables, TTL 1, fill 1, 3 ticks: the other request can fill the key the evaluation reads, before and after the edit, and the entry runs out |
| `grants` | `AllowIsGrounded`, `SteadyGrantAllows` | every subset of 9 rows as the initial database, 2 edits during one evaluation. Requests share nothing but the tables, so one is enough |
| `models` | `TypeOK`, `OneConfiguration`, `AbacAllowIsGrounded` | 7 rows, 3 configurations with repeated models and with names of no model (which only SQL can store), 2 edits |
| `registry` | `TypeOK`, `StoredModelsAnnounced`, `UndisturbedIsStored` | 3 registrations of one service and 3 payloads that differ in one or both of two columns |
| `tokens` | `TypeOK`, `ClaimsOfOneMoment`, `LocalCheckAgrees`, `BearerEndsAfterLogout`, `ExpiresInIsClose`, `CreatedIsFound` | one pair of either of 2 users (tokens share nothing but the table), a role of two services and one of another user, 2 edits, access TTL 2, refresh TTL 4, issuing takes up to 1, 6 ticks: a role comes and goes around the reading, the access token outlives both, and the refresh token runs out. 2 items beyond the first three |

The bounds are `MaxTime` (clock), `MaxSeen` (tables remembered), `MaxEdits`, the
number of requests, and `MaxFill`, which is also a premise: the time between the
`find()` and the `set()` of one evaluation. `MaxIssue` is the same for
`issueTokens()`: the time between the reading of the roles and the answer. Neither has
a timeout in the code; the properties are stated with the bound as a parameter.
Symmetry is declared over requests and
token ids, which no definition picks by name, and not in runs with liveness.
`RotationSpec` is a safety property and symmetric, so it may be checked with
symmetry.

For each property there is a mistake a programmer could make (`mutants` in
`PROJECT.json`): a dropped guard, a forgotten await, a short TTL, a join on the wrong
column. The properties notice them.

**Fairness** (`FairSpec`, used by `EveryRequestEnds` of `Identity` and `EvaluationEnds`
of `AccessSystem`, and by no other property). `WF(Handler(r))` in both: Node
runs every callback that is ready, and a call on a store settles. `SF(Publish(r))`
and `WF(BrokerUp)`: amqp-connection-manager reconnects and resends what it holds,
so a message is confirmed if the broker keeps coming back, however often it goes away in
between. No fairness is assumed for clients, failures or the clock.

### Where the code and its documentation disagree

Three runs are expected to fail, each on one property:

- `rotated_once` - two refreshes of one token both pass the lookup before either
  revokes the session, and both get a pair (`identity.service.ts:75`). The
  refinement is unaffected: it promises one successor per claim, not one claim.
- `owner_in_context` - the README's example sends the owner in `context.resource`;
  ABAC resolves `resource.ownerId` from stored attributes only (`abac.service.ts:34`).
- `chains` - ReBAC's join compares ids and not the type of the second subject
  (`rebac.service.ts:35`), so a team whose id equals an organisation's completes
  the chain.

Seen while modelling, and without a run: the loser of two racing registrations
(of an address, or of a service) meets a UNIQUE constraint and is answered with a
500; a handler that stops between the insert and `publish()` leaves a user row that
is never announced; `verifyEmail()` reports success for an id without a row; an
expired refresh token is answered with a 500; `listSessions()` returns revoked and
expired sessions as well (`identity.service.ts:107`), where the README speaks of
active ones; the claims of a token name roles without their service, so a local check
takes a role of one service for the same name of another (`LocalCheckAgrees` says
exactly that much); an access token is accepted at `refresh`, which then revokes and
replaces some session, and at `logout`, which then revokes none; a refresh token passes
the guards as a bearer token, also after it was used up; two targets whose names read
the same once joined share a cached list of policies, so that the policies of one
decide for the other until the key expires. The documents speak of each token where it
is meant to be used and say nothing of the other one; the models contain all of this.

## 4. What is proved

Thirty-four theorems, checked by TLAPS for every value of the constants (any users,
tokens, requests, rows, configurations, payloads, TTLs; Redis durable or not). They
state every safety property of the passing runs.

The assumptions are those the modules name. They say of which kind the constants
are: rows have the columns of their tables (`SchemaAssumption`), rules compare two
paths (`EngineAssumption`), a table is finite and priorities are integers
(`TableAssumption`), a permission that PermissionGuard gets has three segments. Nothing is assumed of names:
targets may share keys. Two premises say more than that:

- `RefreshTtl <= BlacklistTtl`, of `Blacklisted` only: the code keeps blacklist entries
  for 30 days, whatever `JWT_REFRESH_TTL` says (by default 7 days). With a longer
  TTL the entry goes first, and only the `revoked` column refuses the token.
- `OrgsApart`, of the grounding of ReBAC only: an organisation's id is no other node's.
  Without it the property is false, as the run `chains` shows.

### Identity

`Identity_proofs`: `TypeCorrect`, `LateExchange`, `Predecessor`, `RefinesRotation`.
None of the invariants is inductive. `IInv` adds `CallInv` (a request's position
tells its operation, and its token was delivered), `MintInv` (an id belongs to the
one request that signed it, and its row is inserted by that request only) and
`RevokeInv` (the revoked column is set before a successor is signed *and before
success is reported*; a late request never passes the lookup). The last part carries
the argument: `late` is recorded when a client has already been told, so the column
was set by then, nothing resets it, and `Usable` refuses the row whatever Redis says.
`MintInv` is needed so that no insert overwrites a revoked row. For the refinement
four lemmas do the work: the lookup claims, `Revoke` revokes or repeats, the insert
opens or exchanges, and failures drop claims.

`IdentitySafety_proofs` adds one invariant for each further promise. They share two
lemmas: a request that does not move itself stays where it is or is stopped by an error
(`OthersStay`), and what no step ever takes back (`Persists`): a user, a confirmed
event, the expiry of a signed token, a session and its revoked column.

- `OneWins`, `Announced` by `RegisterInv`: of the registrations of an address one has
  inserted the row, and it publishes before it signs.
- `Delivered` by `SessionInv`: a row lasts as long as its token because the clock is
  read again after signing.
- `Blacklisted` by `BlacklistInv`: the entry is written before the column.
- `Refusal` by `CauseInv`: a token id is in the blacklist, or its session revoked, only
  if some request works on it and is past both lookups. Whoever is refused on either
  ground is not past them, so that request is another one: it presented the same refresh
  token, or an access token for which the lookup found this session. An access token
  that is refused before any lookup has no session; there the key is `undefined`, and
  the other request has logged out with an access token.

### Access models

`AccessModels_proofs`: a natural number with some property has a least one
(`LeastNatural`, from the well-foundedness of `<`). `FirstStops`, `DecisionType`
and `LeastNumberDecides` use it to say what the loop of PBAC returns on a list of any
length. The engine's proofs use it for the recursive function in `Evaluable`.

### PolicyCache

- `Staleness`: `PolicyCache` implements `StalePolicies`. `CacheInv` says that a fill
  under way holds a reading of a table that was in force at `readAt`, at most `MaxFill`
  ago, and that a live entry was read, for its own target or one of the same key, from a table
  that stays in the window for as long as the entry lives. A fill for one target writes
  the entry of every target with its key: `SameKeyAlike` says that those are the targets
  the promise names.
- `TypeCorrect`: inductive. `TopPriority`: no induction over steps but over the list:
  whatever order the database gives to ties, the first policy that stops the loop has the least
  priority number among those that would.

### AuthorizationEngine

`TypeInv` is `TypeOK` with `StageInv` (what is held or recorded at which stage).

- `SingleConfiguration`: `ConfigInv` says that what has been evaluated and what is left
  are together the evaluable models of one configuration of the interval (`Covers`),
  and that every reason but the last is a miss.
- `Grounded`, `RbacAndAclGrounded`, `AbacGrounded`: each query finds what `Grants` says
  (one lemma for each model), and `GrantedInv` that the history has missed no moment
  at which a model granted. RBAC and ACL ask once. Each of the two queries of ReBAC
  looks for a whole path, so the one that allows does not depend on the other. ABAC needs `AbacInv`:
  the attributes it holds differ from the table's in touched rows only.
- `SteadyGrants`: `SteadyInv` says that no untouched row makes a model grant that
  missed, the first query of ReBAC included.

### AccessSystem

The engine and the cache are proved about apart. `AccessSystem_proofs` puts the two
together: `SystemInv` is the invariants of both and `PbacInv`: a request inside
PbacService belongs to an evaluation that waits for PBAC, asks for that
evaluation's target and input, and has no verdict yet. From it, every step of the system is
a step of the cache or none (`CacheStep`) and a step of the engine or none
(`EngineStep`), so that the invariants of the parts are preserved by the lemmas of the
parts. The case that matters is `PbacRefines`: the verdict PbacService returns is the decision
of a table in `Recent` (`CacheAnswers`), which is what the contract lets the engine
conclude from.

- `Contract`: `EngineContract`. `TypeCorrect`, `Staleness`.
- `Settled`: `SettledPoliciesDecide`, an action property: the recent tables are finitely
  many and the one in force is among them.
- `AnswersStand`, `RebacStands`: the theorems about the engine, of the engine as it
  is deployed.

The prover takes two instances of a module for different definitions, hence the section of
lemmas `Same...`, which say that `Engine` and `EngineP`, or `Cache` and `CacheP`, agree.

### AccessTokens and SampleService

`AccessTokens_proofs`, from `TokensAssumption` (a role's row is made of its user and
role, the access TTL is not zero):

- `TypeCorrect`, `RecentClaims`, `EndsAfterLogout`, `CountedFromAnswer`. `IInv` places
  the pair in time: `ExpInv` (the access token is signed between `readAt` and
  `readAt + MaxIssue`, so its expiry lies in an interval, and no token has more than its
  TTL to go), `SessionInv` (a session exists from the save on and is
  revoked only by those who have the answer) and `ClaimsInv` (the table the claims
  were read from is still remembered while the token can be accepted: the window is as long
  as issuing and living together).
- `LocalChecks`: `LocalCheckAgrees` follows from `RecentClaims`, as then only one table
  is remembered.
- `ServiceKeepsTokens`: `SampleService` implements `AccessTokens`, so these hold of it.
  `CreatedFound` by `ItemsInv`: the id of an item is its position.

### ServiceRegistry

`ServiceRegistry_proofs`, from `RegistryAssumption` (a payload has all three columns;
the null is no row): `TypeCorrect`, `Announcement`, `Undisturbed`.
`StoredModelsAnnounced` is nearly inductive: it needs `ReplyInv` (nobody is answered
before it is done). `AloneInv` carries the action property: a registration that nothing
overlaps has the row for itself, from the lookup to the message.

### Only model-checked

`EveryRequestEnds` of `Identity` and `EvaluationEnds` of `AccessSystem`: liveness under
fairness is beyond the prover. `AccessSystem`, `AccessTokens` and `PolicyCache` are
proved about with `MaxTime`, `MaxSeen` and `MaxEdits` as parameters, so that the bounds
of the runs play no part in the theorems.

## 5. What is not modelled

- Accounts: three read-only queries without a caller, and two tables nothing writes.
  `findAll()` of the registry and `listSessions()` are single reads likewise.
- `EventsService.onModuleDestroy()`: nothing enables shutdown hooks, so no signal runs
  it; what a process that stops does to requests under way is `Crash` in `Identity`
  and `Fail` elsewhere. `CacheLayerService.del()` has no caller.
- Signatures, issuer and audience of tokens, hashing of passwords: taken to work.
- Jexl beyond equality of two paths (ABAC) and match/throw (PBAC).
- Permission names with fewer than three segments.
- Bootstrap and configuration (validation pipe, CORS, Swagger, TypeORM options):
  framework wiring. The throttler is a library's; it refuses requests before any handler
  runs, which is a request that never arrives.
- `integration-example`: decorators and one stateless call without a caller.

## 6. Plan

Done, in this order: `CacheLayer`, `RefreshRotation`, `Identity` with its first proofs;
`AccessModels`, `StalePolicies`, `PolicyCache` with its proofs; `AuthorizationEngine`;
`ServiceRegistry` with its proofs; `AccessSystem`; `AccessTokens` with its proofs and
`SampleService`.

Then proofs: the other invariants of `Identity`; `AuthorizationEngine`, for which
`Evaluable` became a recursive function and the columns of the rows an assumption;
types and priorities of `PolicyCache`; `AccessSystem`; `SampleService`.

Then assumptions the code does not justify were taken out of models and proofs: that
clients use each token where it is meant (`Identity`, `AccessTokens`), and that no two
targets share a cache key (`PolicyCache`, `AccessSystem`).

Next:

1. An abstract specification of an access decision ("some configuration of the
   interval, some moment for each model") that the engine implements.
   `OneConfiguration`, `AllowIsGrounded` and `SteadyGrantAllows` are its parts; its proof
   needs no invariant beyond theirs.
2. The converse of `AbacGrounded`: steady attributes that satisfy a rule get through,
   for which a key may be stored only once in `resource_attributes`.

## 7. Running it

```
tlc -workers 2 -config MCIdentity_rotation.cfg MCIdentity.tla
tlapm AccessSystem_proofs.tla
```

The configuration of run `x` of module `MC` is `MC_x.cfg`.
